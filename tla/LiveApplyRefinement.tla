------------------------- MODULE LiveApplyRefinement -------------------------
(***************************************************************************)
(* The live executor implements ManagedTransaction: the phase of a         *)
(* transaction is read off its journal and the restore under way, the      *)
(* region off the board.                                                   *)
(***************************************************************************)
EXTENDS LiveApply

PhaseOf(a) ==
  CASE a \notin reserved -> "unused"
    [] journal[a].status \in {"preflight_failed", "rolled_back"} -> "aborted"
    [] journal[a].status = "committed" ->
         IF \E p \in Procs : Restoring(p, a) /\ pc[p] \notin PersistPCs
           THEN "restoring" ELSE "committed"
    [] journal[a].status = "restored" -> "restored"
    [] journal[a].status \in {"rollback_failed", "restore_recovery_failed"} -> "unproven"
    [] a \in reserved /\ journal[a].status \in {"none", "reserved", "prepared", "applying"} ->
         "running"

RegionOf(a) ==
  CASE AllRead(a, board, "old") -> "before"
    [] AllRead(a, board, "new") -> "after"
    [] OTHER -> "mixed"

Transaction == INSTANCE ManagedTransaction
  WITH Transactions <- Auths,
       phase <- [a \in Auths |-> PhaseOf(a)],
       region <- [a \in Auths |-> RegionOf(a)]

(* Every step of the executor is a step of the promise or none: with one   *)
(* restore at a time, no crash and nobody else on the board, the managed   *)
(* regions are all-or-nothing as the journals say.                         *)
ImplementsTransaction == Transaction!Spec
=============================================================================
