----------------------------- MODULE TokenLedger -----------------------------
(***************************************************************************)
(* What the network promises to those who invoke the chaincode: requests   *)
(* take effect one at a time, each at most once, and each as the chaincode *)
(* says.  InvokeCC implements it as long as fewer peers are byzantine than *)
(* the endorsement policy asks for.                                        *)
(***************************************************************************)
EXTENDS TokenContract

CONSTANTS
  Initial,        (* the values "fab" may have when the invocations start    *)
  Calls,         (* invocations                                             *)
  Request        (* what each of them asks for                              *)

VARIABLES
  token,         (* the value of "fab"                                      *)
  done           (* the invocations that took effect                        *)

Init ==
  /\ token \in Initial
  /\ done = {}

Perform(c) ==
  /\ c \notin done
  /\ Invoke(token, Request[c]).ok
  /\ token' = Invoke(token, Request[c]).payload
  /\ done' = done \cup {c}

Next == \E c \in Calls : Perform(c)

Spec == Init /\ [][Next]_<<token, done>>
=============================================================================
