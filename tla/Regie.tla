-------------------------------- MODULE Regie --------------------------------
(***************************************************************************)
(* Regie (src/schauwerk/regie/service.py): the local servers that show one *)
(* review, take its decision and run its apply and its restore through the *)
(* live executor.  The session directory belongs to the review; every      *)
(* server started for the review uses it.                                  *)
(*                                                                         *)
(* A server handles one request at a time (http.server.HTTPServer).  A     *)
(* request that is refused or answered from a stored receipt changes       *)
(* nothing and is left out, except where the live executor decides it.  An *)
(* authorization a stands for the decision it was compiled from: which     *)
(* operations are approved, by whom, when and for how long.                *)
(* What is written beside the decision (selected bundle, authorization and *)
(* live plan) is written as one step: nothing in the program reads it.     *)
(***************************************************************************)
EXTENDS LiveApply

CONSTANT None  \* an absent file, or a server that is not deciding

ASSUME ServerAssumption == Appliers = Restorers /\ None \notin Auths

VARIABLES
  decision,  \* the decision in decision-receipt.json
  selected,  \* the decision of selected-bundle, authorization and live-plan
  deciding,  \* deciding[p]: the decision server p is about to write
  ready,     \* servers that have written the parts of their decision
  stored     \* stored[c]: whose receipt transaction-receipt.json (apply) and
             \* restore-receipt.json (restore) of the session hold

sessionVars == <<decision, selected, deciding, ready, stored>>

RegieInit ==
  /\ Init
  /\ decision = None
  /\ selected = None
  /\ deciding = [p \in Procs |-> None]
  /\ ready = {}
  /\ stored = [c \in Commands |-> None]

Exists(c) == stored[c] # None
Stored(c) == IF Exists(c) THEN requested[c][stored[c]] ELSE NoReceipt

(* A server reads its receipts through their validators.                   *)
Readable == Stored("apply").readable /\ Stored("restore").readable

Waiting(p) == At(p, "idle") /\ deciding[p] = None

-----------------------------------------------------------------------------
(* decide: check that there is no decision, then write its parts and last  *)
(* the decision itself.                                                    *)

(* Seeded fault: the stored decision is not looked up.                     *)
DecideAgain(p, a) ==
  /\ Waiting(p)
  /\ deciding' = [deciding EXCEPT ![p] = a]
  /\ UNCHANGED <<vars, decision, selected, ready, stored>>

Decide(p, a) ==
  /\ Waiting(p)
  /\ decision = None
  /\ deciding' = [deciding EXCEPT ![p] = a]
  /\ UNCHANGED <<vars, decision, selected, ready, stored>>

WriteSelection(p) ==
  /\ deciding[p] # None /\ p \notin ready
  /\ selected' = deciding[p]
  /\ ready' = ready \cup {p}
  /\ UNCHANGED <<vars, decision, deciding, stored>>

(* The request to decide ends.                                             *)
Decided(p) ==
  /\ deciding' = [deciding EXCEPT ![p] = None]
  /\ ready' = ready \ {p}

(* Seeded fault: the decision does not wait for its parts.                 *)
WriteDecisionFirst(p) ==
  /\ deciding[p] # None
  /\ decision' = deciding[p]
  /\ Decided(p)
  /\ UNCHANGED <<vars, selected, stored>>

WriteDecision(p) ==
  /\ p \in ready
  /\ decision' = deciding[p]
  /\ Decided(p)
  /\ UNCHANGED <<vars, selected, stored>>

-----------------------------------------------------------------------------
(* apply and restore: what the controller checks before the live executor. *)

ApplyAllowed ==
  /\ decision # None
  /\ ~Exists("restore") /\ ~Exists("apply")
  /\ ~Stopped(decision)

Apply(p) ==
  /\ Waiting(p)
  /\ ApplyAllowed
  /\ StartApply(p, decision)
  /\ UNCHANGED sessionVars

RestoreAllowed ==
  /\ Stored("apply").result = "ok"
  /\ Readable
  /\ Exists("restore") => /\ Stored("restore").result # "ok"
                          /\ Stored("restore").repaired

(* Seeded fault: a retry first removes the receipt of the failed restore.  *)
RestoreForgets(p) ==
  /\ Waiting(p)
  /\ RestoreAllowed
  /\ StartRestore(p, stored["apply"])
  /\ stored' = [stored EXCEPT !["restore"] = None]
  /\ UNCHANGED <<decision, selected, deciding, ready>>

Restore(p) ==
  /\ Waiting(p)
  /\ RestoreAllowed
  /\ StartRestore(p, stored["apply"]) \/ AnswerRestore(p, stored["apply"])
  /\ UNCHANGED sessionVars

(* Seeded fault: only a success is kept in the session.                    *)
StoresSuccessOnly(c, r) == r.result = "ok"

Stores(c, r) == TRUE

(* The live executor goes on; the receipt at the requested path is the     *)
(* session's.                                                              *)
Serve(p) ==
  /\ Continue(p)
  /\ stored' = IF At(p, "persist_requested") /\ Stores(cmd[p], out[p])
                 THEN [stored EXCEPT ![cmd[p]] = auth[p]] ELSE stored
  /\ UNCHANGED <<decision, selected, deciding, ready>>

(* A server is killed and started again.                                   *)
ServerCrash(p) ==
  \/ Crash(p) /\ UNCHANGED sessionVars
  \/ /\ Crashes
     /\ deciding[p] # None
     /\ Decided(p)
     /\ UNCHANGED <<vars, decision, selected, stored>>

Request(p) ==
  \/ \E a \in Auths : Decide(p, a)
  \/ WriteSelection(p) \/ WriteDecision(p)
  \/ Apply(p) \/ Restore(p) \/ Serve(p)

RegieNext ==
  \/ \E p \in Procs : Request(p) \/ ServerCrash(p)
  \/ Surroundings /\ UNCHANGED sessionVars

RegieSpec == RegieInit /\ [][RegieNext]_<<vars, sessionVars>>

-----------------------------------------------------------------------------
(* state(): what a waiting server shows.                                   *)

(* Seeded fault: every receipt of a restore counts as a restored review.   *)
PhaseOptimistic ==
  CASE Exists("restore") -> "restored"
    [] ~Exists("restore") /\ Stored("apply").result = "ok" -> "applied"
    [] ~Exists("restore") /\ Exists("apply") /\ Stored("apply").result # "ok" -> "apply-failed"
    [] ~Exists("restore") /\ ~Exists("apply") /\ decision # None -> "approved"
    [] OTHER -> "review"

Phase ==
  CASE Stored("restore").result = "ok" -> "restored"
    [] Exists("restore") /\ Stored("restore").result # "ok" -> "restore-failed"
    [] ~Exists("restore") /\ Stored("apply").result = "ok" -> "applied"
    [] ~Exists("restore") /\ Exists("apply") /\ Stored("apply").result # "ok" -> "apply-failed"
    [] ~Exists("restore") /\ ~Exists("apply") /\ decision # None -> "approved"
    [] OTHER -> "review"

(* controls.can_apply and controls.can_restore.                            *)
OffersApply == decision # None /\ ~Exists("apply") /\ ~Stopped(decision)
OffersRestore ==
  /\ Stored("apply").result = "ok"
  /\ Exists("restore") => /\ Stored("restore").result # "ok"
                          /\ Stored("restore").repaired

AllWaiting == \A p \in Procs : Waiting(p)

-----------------------------------------------------------------------------
(* Properties.                                                             *)

(* Every variable has its type.                                            *)
RegieTypeOK ==
  /\ TypeOK
  /\ decision \in Auths \cup {None}
  /\ selected \in Auths \cup {None}
  /\ deciding \in [Procs -> Auths \cup {None}]
  /\ ready \subseteq Procs
  /\ stored \in [Commands -> Auths \cup {None}]

(* A decision, once written, is never replaced (decide answers a second    *)
(* one from the first or refuses it) - also after a crash.                 *)
DecisionImmutable == [][decision # None => decision' = decision]_decision

(* The plan an operator finds beside the decision is the decided one.      *)
SelectionDecided == decision # None => selected = decision

(* One review mutates the board under one authorization only, however      *)
(* often it is decided, applied, restored and its server restarted.        *)
OneTransaction ==
  \A a, b \in Auths : calls[a] > 0 /\ calls[b] > 0 => a = b

(* The shown phase is what the journal of the decided transaction says; a  *)
(* journal may be ahead of the phase, never behind.                        *)
PhaseTruthful ==
  /\ Exists("apply") => stored["apply"] = decision
  /\ Exists("restore") => stored["restore"] = stored["apply"]
  /\ Phase = "applied" =>
       journal[decision].status \in {"committed", "restored", "restore_recovery_failed"}
  /\ Phase = "apply-failed" =>
       journal[decision].status \in {"preflight_failed", "rolled_back", "rollback_failed"}
  /\ Phase = "restored" => journal[decision].status = "restored"
  /\ Phase = "restore-failed" =>
       journal[decision].status \in {"committed", "restored", "restore_recovery_failed"}

(* A review goes forward: a restored one stays restored, a failed apply is *)
(* not applied again, and nothing goes back to review.                     *)
Later(phase) ==
  CASE phase = "review" -> {"approved"}
    [] phase = "approved" -> {"applied", "apply-failed"}
    [] phase = "applied" -> {"restored", "restore-failed"}
    [] phase = "restore-failed" -> {"restored"}
    [] OTHER -> {}
PhaseAdvances == [][Phase' = Phase \/ Phase' \in Later(Phase)]_<<vars, sessionVars>>

(* An applied review can be restored from Regie.                           *)
AppliedIsRestorable ==
  AllWaiting /\ decision # None /\ journal[decision].status = "committed"
             /\ canonical["apply"][decision].result = "ok"
    => OffersRestore

(* What is offered works: an apply offered is one the executor has not yet *)
(* seen, a restore offered one it accepts; and an applied review is        *)
(* offered its restore.                                                    *)
OffersHold ==
  /\ AllWaiting => /\ OffersApply => decision \notin reserved
                   /\ OffersRestore => RestoreAdmissible(decision, Stored("apply"))
  /\ AppliedIsRestorable
=============================================================================
