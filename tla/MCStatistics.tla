----------------------------- MODULE MCStatistics -----------------------------
(***************************************************************************)
(* An instance of Statistics for TLC: a transfer of the timer, an attack   *)
(* and a change of peers meet in the row of seven byzantine peers, the     *)
(* first with which an attack counts as committed, while a transaction     *)
(* page opens, hears of failures and closes.                               *)
(***************************************************************************)
EXTENDS Statistics

CONSTANTS timer, attack, muma, page

MCCalls     == {timer, attack, muma}
MCSender    == [c \in MCCalls |-> CASE c = timer -> "timer"
                                    [] c = muma  -> "muma"
                                    [] OTHER     -> "invoke"]
MCByzantine == [c \in MCCalls |-> 7]
=============================================================================
