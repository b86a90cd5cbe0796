-------------------------- MODULE ManagedTransaction --------------------------
(***************************************************************************)
(* What the live executor promises about the managed region of each        *)
(* authorization: a transaction that has not begun, was aborted or was     *)
(* restored shows the texts from before it, a committed one shows its new  *)
(* texts; only while it runs or is being restored, or once the executor    *)
(* has said that it cannot prove the state, may the region show anything   *)
(* else.  A transaction commits at most once and is never begun again.     *)
(***************************************************************************)
CONSTANTS Transactions

VARIABLES
  phase,  \* phase[t]: what the journal says of transaction t
  region  \* region[t]: the texts its region shows

Phases == {"unused", "running", "aborted", "committed", "restoring", "restored",
           "unproven"}
Regions == {"before", "mixed", "after"}

Init ==
  /\ phase = [t \in Transactions |-> "unused"]
  /\ region = [t \in Transactions |-> "before"]

Move(t, from, to, shows) ==
  /\ phase[t] = from
  /\ region[t] \in shows
  /\ phase' = [phase EXCEPT ![t] = to]
  /\ UNCHANGED region

Begin(t) == Move(t, "unused", "running", {"before"})
Abort(t) == Move(t, "running", "aborted", {"before"})
Commit(t) == Move(t, "running", "committed", {"after"})
BeginRestore(t) == Move(t, "committed", "restoring", {"after"})
Recover(t) == Move(t, "restoring", "committed", {"after"})
Restore(t) == Move(t, "restoring", "restored", {"before"})
GiveUp(t) == Move(t, "running", "unproven", Regions)
             \/ Move(t, "restoring", "unproven", Regions)

(* Only a transaction under way changes its region.                        *)
Mutate(t) ==
  /\ phase[t] \in {"running", "restoring"}
  /\ \E r \in Regions : region' = [region EXCEPT ![t] = r]
  /\ UNCHANGED phase

Next ==
  \E t \in Transactions :
    \/ Begin(t) \/ Abort(t) \/ Commit(t) \/ GiveUp(t) \/ Mutate(t)
    \/ BeginRestore(t) \/ Recover(t) \/ Restore(t)

Spec == Init /\ [][Next]_<<phase, region>>

(* All or nothing, read off the journal.                                   *)
AllOrNothing ==
  \A t \in Transactions :
    /\ phase[t] \in {"unused", "aborted", "restored"} => region[t] = "before"
    /\ phase[t] = "committed" => region[t] = "after"
=============================================================================
