----------------------------- MODULE BlockStore -----------------------------
(***************************************************************************)
(* What the explorer database promises to its readers (the pages           *)
(* /block/page and /transaction/page): a block becomes visible at most     *)
(* once, in one step, with all its transactions, and stays as it is.       *)
(* BlockListener implements it as long as no lock wait times out and no    *)
(* database connection is lost.                                            *)
(***************************************************************************)
EXTENDS Integers

CONSTANTS
  MaxHeight,   (* bound: blocks are numbered 0 .. MaxHeight-1               *)
  Content      (* the transactions of each block, with their index          *)

VARIABLES
  height,      (* the ledger holds the blocks 0 .. height-1                 *)
  recorded,    (* the blocks a reader finds                                 *)
  visible      (* the transactions a reader finds, by block                 *)

Init ==
  /\ height \in 1..MaxHeight
  /\ recorded = {}
  /\ visible = [b \in 0..MaxHeight-1 |-> {}]

CutBlock ==
  /\ height < MaxHeight
  /\ height' = height + 1
  /\ UNCHANGED <<recorded, visible>>

Record(b) ==
  /\ b \in 1..height-1 /\ b \notin recorded
  /\ recorded' = recorded \cup {b}
  /\ visible' = [visible EXCEPT ![b] = Content[b]]
  /\ UNCHANGED height

Next == CutBlock \/ \E b \in 1..MaxHeight-1 : Record(b)

Spec == Init /\ [][Next]_<<height, recorded, visible>>
=============================================================================
