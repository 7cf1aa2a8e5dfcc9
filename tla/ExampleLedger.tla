---------------------------- MODULE ExampleLedger ----------------------------
(***************************************************************************)
(* What the chaincode example_cc promises its callers: a table of holdings *)
(* that the operations change one after the other, each at once, and that  *)
(* a query reads as it is at that moment.                                  *)
(***************************************************************************)
EXTENDS Integers, Sequences

CONSTANTS
  Names,    (* the entities                                 *)
  Nil,      (* the holding of an entity that does not exist *)
  Amounts   (* what is held at first, and what is moved     *)

VARIABLES
  holds,    (* the holding of each entity                   *)
  log       (* what was done and answered                   *)

vars == <<holds, log>>

Init == holds = [n \in Names |-> Nil] /\ log = <<>>

Done(call, answer) == log' = Append(log, <<call, answer>>)

\* if both are the same entity it holds the second amount
Create(a, x, b, y) ==
  /\ holds' = [holds EXCEPT ![a] = x, ![b] = y]
  /\ Done(<<"init", a, x, b, y>>, Nil)

\* nothing is created or lost between two entities
Pay(a, b, x) ==
  /\ a # b /\ Nil \notin {holds[a], holds[b]}
  /\ holds' = [holds EXCEPT ![a] = @ - x, ![b] = @ + x]
  /\ Done(<<"move", a, b, x>>, Nil)

\* who moves something to himself gains it
Gain(a, x) ==
  /\ holds[a] # Nil
  /\ holds' = [holds EXCEPT ![a] = @ + x]
  /\ Done(<<"move", a, a, x>>, Nil)

Remove(a) ==
  /\ holds' = [holds EXCEPT ![a] = Nil]
  /\ Done(<<"delete", a>>, Nil)

Read(a) ==
  /\ holds[a] # Nil
  /\ Done(<<"query", a>>, holds[a]) /\ UNCHANGED holds

Next ==
  \/ \E a, b \in Names, x, y \in Amounts : Create(a, x, b, y)
  \/ \E a, b \in Names, x \in Amounts : Pay(a, b, x) \/ Gain(a, x)
  \/ \E a \in Names : Remove(a) \/ Read(a)

Spec == Init /\ [][Next]_vars
=============================================================================
