----------------------------- MODULE MCBootstrap -----------------------------
(***************************************************************************)
(* Instances of Bootstrap for TLC.  The network is smaller than the one of *)
(* the scripts, with the same relations: the policy asks for as many       *)
(* endorsements as transfer.sh collects, which is not all.                 *)
(***************************************************************************)
EXTENDS Bootstrap
============================================================================
