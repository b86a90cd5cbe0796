------------------------------ MODULE LiveApply ------------------------------
(***************************************************************************)
(* The reviewed live executor (src/schauwerk/operator/live_apply.py): the  *)
(* apply command and the restore command, run by several processes that    *)
(* share one Miro board, one state root and one kill switch.               *)
(*                                                                         *)
(* A board is what layout_read and a verified snapshot both show of it:    *)
(* the text of every slot an operation may replace, and a revision number  *)
(* for everything else.  A digest is the value it is the digest of.  Every *)
(* provider call and every file write is one step, so that a process can   *)
(* stop, and another process or an editor can act, between any two.        *)
(*                                                                         *)
(* Simplifications:                                                        *)
(* - a text is "old", "new", or "other" (absent, duplicated or moved out   *)
(*   of the marked line: what the code cannot classify);                   *)
(* - the checks that bind plan, gate, bundle and authorization run before  *)
(*   anything is shared and are left out: Plan[a] is the plan bound to a;  *)
(* - a file that cannot be written ends the process like a crash does,     *)
(*   except where the code catches it (WriteApplying).                     *)
(***************************************************************************)
EXTENDS Naturals, Sequences, FiniteSets

CONSTANTS
  Appliers,     \* processes that run the apply command
  Restorers,    \* processes that run the restore command
  Auths,        \* single-use authorizations
  Slots,        \* places on the board whose text an operation replaces
  Plan,         \* Plan[a]: the slots that the operations of a's plan replace
  ExpiresAt,    \* ExpiresAt[a]: the instant a expires
  MaxClock,     \* bound on the clock
  MaxEdits,     \* bound on the edits other people make on the board
  LateEffects,  \* a timed-out replacement may still take effect later
  CitingErrors, \* an error of the provider may quote an URL or a text
  Crashes       \* a process may stop between two steps

ASSUME PlanAssumption ==
  /\ Auths # {}
  /\ Plan \in [Auths -> Seq(Slots)]
  /\ \A a \in Auths :
       /\ Plan[a] # << >>
       /\ \A i, j \in DOMAIN Plan[a] : Plan[a][i] = Plan[a][j] => i = j
ASSUME BoundAssumption ==
  /\ ExpiresAt \in [Auths -> Nat]
  /\ MaxClock \in Nat
  /\ MaxEdits \in Nat
  /\ LateEffects \in BOOLEAN
  /\ CitingErrors \in BOOLEAN
  /\ Crashes \in BOOLEAN

VARIABLES
  board,       \* the board
  late,        \* replacements sent, timed out and not yet executed by Miro
  edits,       \* number of edits made by others so far
  clock,
  killSwitch,  \* the kill-switch file exists
  reserved,    \* authorizations whose transaction directory exists
  journal,     \* journal[a]: journal.json
  canonical,   \* canonical[c][a]: the receipt of command c kept with the journal
  requested,   \* requested[c][a]: the receipt at the path the caller asked for
  pc,          \* pc[p]: the next step of process p
  cmd,         \* cmd[p]: the command p runs
  auth,        \* auth[p]: the authorization it runs it for
  mem,         \* mem[p]: the journal p holds in memory
  sent,        \* sent[p]: how many replacements p has sent
  todo,        \* todo[p]: the operations a repair by p has still to send
  out,         \* out[p]: the receipt p is about to persist
  answer,      \* answer[p]: how the last command of p ended
  calls,       \* history: forward replacements sent under an authorization
  overrun      \* history: those p sent since the executor should have stopped

provider == <<board, late>>
receipts == <<canonical, requested>>
files == <<reserved, journal, receipts>>
command == <<cmd, auth>>
environment == <<edits, clock, killSwitch>>
locals == <<command, mem, sent, todo, out>>
history == <<calls, overrun>>
vars == <<provider, environment, files, pc, locals, answer, history>>

Procs == Appliers \cup Restorers
Commands == {"apply", "restore"}
Texts == {"old", "new", "other"}
Boards == [text : [Slots -> Texts], rest : Nat]
Replacements == [slot : Slots, from : Texts, to : Texts]

(* The board of the revision every plan was reviewed against.              *)
Base == [text |-> [s \in Slots |-> "old"], rest |-> 0]

JournalStatus ==
  {"none", "reserved", "preflight_failed", "prepared", "applying", "committed",
   "rolled_back", "rollback_failed", "restored", "restore_recovery_failed"}

(* The journal; before_snapshot_digest is always that of Base and is left  *)
(* out, values that are null in the code are Base here.                    *)
Journals == [status : JournalStatus, applied : Nat,
             beforeDsl : Boards, afterDsl : Boards, after : Boards,
             restoreFailure : {"none", "provider", "mismatch"}]
NoJournal == [status |-> "none", applied |-> 0,
              beforeDsl |-> Base, afterDsl |-> Base, after |-> Base,
              restoreFailure |-> "none"]

(* A transaction or restore receipt.  mutated is mutation_attempted;       *)
(* repaired is rollback_succeeded, or still_restore_ready of a restore;    *)
(* readable says that the validators accept it: they refuse one whose      *)
(* error text has a quotation mark or an URL.  journal is the journal      *)
(* whose digest the receipt binds.                                         *)
Receipts == [result : {"none", "ok", "failed"}, mutated : BOOLEAN,
             repaired : BOOLEAN, readable : BOOLEAN, journal : Journals]
NoReceipt == [result |-> "none", mutated |-> FALSE, repaired |-> FALSE,
              readable |-> TRUE, journal |-> NoJournal]

(* What auth[p] is between two commands.                                   *)
NoAuth == CHOOSE a \in Auths : TRUE

ApplyPCs == {"reserve", "write_reserved", "snapshot_before", "read_before",
             "write_preflight_failed", "write_prepared", "check_operation",
             "replace", "write_applying", "read_after", "snapshot_after",
             "write_committed"}
RestorePCs == {"snapshot_current", "read_current", "inverse", "read_restored",
               "snapshot_restored", "write_restored"}
RepairPCs == {"repair_read", "repair_replace", "repair_verify",
              "repair_snapshot", "write_repaired", "write_unrepaired"}
PersistPCs == {"persist_canonical", "persist_requested"}
PCs == {"idle"} \cup ApplyPCs \cup RestorePCs \cup RepairPCs \cup PersistPCs

Init ==
  /\ board = Base
  /\ late = {}
  /\ edits = 0
  /\ clock = 0
  /\ killSwitch = FALSE
  /\ reserved = {}
  /\ journal = [a \in Auths |-> NoJournal]
  /\ canonical = [c \in Commands |-> [a \in Auths |-> NoReceipt]]
  /\ requested = [c \in Commands |-> [a \in Auths |-> NoReceipt]]
  /\ pc = [p \in Procs |-> "idle"]
  /\ cmd = [p \in Procs |-> "apply"]
  /\ auth = [p \in Procs |-> NoAuth]
  /\ mem = [p \in Procs |-> NoJournal]
  /\ sent = [p \in Procs |-> 0]
  /\ todo = [p \in Procs |-> {}]
  /\ out = [p \in Procs |-> NoReceipt]
  /\ answer = [p \in Procs |-> "none"]
  /\ calls = [a \in Auths |-> 0]
  /\ overrun = [p \in Procs |-> 0]

-----------------------------------------------------------------------------
(* What the code computes from a board and the operations of a plan.       *)

Ops(a) == DOMAIN Plan[a]
SlotsOf(a) == {Plan[a][i] : i \in Ops(a)}

(* The text of the slots in S replaced by t.                               *)
Put(b, S, t) ==
  [b EXCEPT !.text = [s \in Slots |-> IF s \in S THEN t ELSE b.text[s]]]

(* b after the first n operations of a's plan.                             *)
AfterOps(a, b, n) == Put(b, {Plan[a][i] : i \in {m \in Ops(a) : m <= n}}, "new")

AllRead(a, b, t) == \A s \in SlotsOf(a) : b.text[s] = t
VerifyBeforeDsl(a, b) == AllRead(a, b, "old")
VerifyAfterDsl(a, b) == AllRead(a, b, "new")
VerifyRestoredDsl(a, b) == AllRead(a, b, "old")
Classifiable(a, b) == \A s \in SlotsOf(a) : b.text[s] \in {"old", "new"}

Expired(a) == clock >= ExpiresAt[a]
Stopped(a) == killSwitch \/ Expired(a)

-----------------------------------------------------------------------------
(* Building blocks of the steps of a process.                              *)

At(p, label) == pc[p] = label
Goto(p, label) == pc' = [pc EXCEPT ![p] = label]

(* The command c for authorization a begins with journal j in memory.      *)
Begin(p, c, a, j) ==
  /\ cmd' = [cmd EXCEPT ![p] = c]
  /\ auth' = [auth EXCEPT ![p] = a]
  /\ mem' = [mem EXCEPT ![p] = j]
  /\ answer' = [answer EXCEPT ![p] = "none"]
  /\ UNCHANGED <<sent, todo, out>>

(* The command ends; its local variables are gone.                         *)
Finish(p, how) ==
  /\ Goto(p, "idle")
  /\ cmd' = [cmd EXCEPT ![p] = "apply"]
  /\ auth' = [auth EXCEPT ![p] = NoAuth]
  /\ mem' = [mem EXCEPT ![p] = NoJournal]
  /\ sent' = [sent EXCEPT ![p] = 0]
  /\ todo' = [todo EXCEPT ![p] = {}]
  /\ out' = [out EXCEPT ![p] = NoReceipt]
  /\ answer' = [answer EXCEPT ![p] = how]

(* The journal in memory becomes j ...                                     *)
Remember(p, j) == mem' = [mem EXCEPT ![p] = j]

(* ... and is written.                                                     *)
WriteJournal(p, j) ==
  /\ Remember(p, j)
  /\ journal' = [journal EXCEPT ![auth[p]] = j]
  /\ UNCHANGED <<reserved, receipts>>

(* The receipt to persist is r.                                            *)
Issue(p, r) == out' = [out EXCEPT ![p] = r]

(* It binds journal j and reports success ...                              *)
Success(j) == [result |-> "ok", mutated |-> TRUE, repaired |-> FALSE,
               readable |-> TRUE, journal |-> j]

(* ... or failure, with an error text that may be a provider's.            *)
Failures(mutated, repaired, ofProvider, j) ==
  [result : {"failed"}, mutated : {mutated}, repaired : {repaired},
   readable : IF CitingErrors /\ ofProvider THEN BOOLEAN ELSE {TRUE},
   journal : {j}]

(* One layout_update call and what comes back: executed and acknowledged,  *)
(* executed with the reply lost or unusable, refused, or timed out and     *)
(* executed later or never.                                                *)
Replace(s, from, to, reply) ==
  \/ /\ reply \in {"ok", "lost"}
     /\ board.text[s] = from
     /\ board' = Put(board, {s}, to)
     /\ UNCHANGED late
  \/ /\ reply = "refused"
     /\ UNCHANGED <<board, late>>
  \/ /\ reply = "timeout"
     /\ LateEffects
     /\ late' = late \cup {[slot |-> s, from |-> from, to |-> to]}
     /\ UNCHANGED board
Replies == {"ok", "lost", "refused", "timeout"}

-----------------------------------------------------------------------------
(* execute_live_apply, up to the reservation.                              *)

StartApply(p, a) ==
  /\ p \in Appliers
  /\ At(p, "idle")
  /\ ~Stopped(a)
  /\ Goto(p, "reserve")
  /\ Begin(p, "apply", a, NoJournal)
  /\ overrun' = [overrun EXCEPT ![p] = 0]
  /\ UNCHANGED <<provider, environment, files, calls>>

(* Seeded fault: mkdir(exist_ok=True).                                     *)
ReserveAgain(p) ==
  /\ At(p, "reserve")
  /\ reserved' = reserved \cup {auth[p]}
  /\ Goto(p, "write_reserved")
  /\ UNCHANGED <<provider, environment, journal, receipts, locals, answer, history>>

(* directory.mkdir(exist_ok=False) succeeds for one process only.          *)
Reserve(p) ==
  /\ At(p, "reserve")
  /\ auth[p] \notin reserved
  /\ reserved' = reserved \cup {auth[p]}
  /\ Goto(p, "write_reserved")
  /\ UNCHANGED <<provider, environment, journal, receipts, locals, answer, history>>

(* The directory exists: a committed transaction is answered from its      *)
(* canonical receipt, everything else is an error; nothing is written.     *)
AnswerExisting(p) ==
  /\ At(p, "reserve")
  /\ auth[p] \in reserved
  /\ Finish(p, IF /\ journal[auth[p]].status = "committed"
                  /\ canonical["apply"][auth[p]].result = "ok"
               THEN "replayed" ELSE "rejected")
  /\ UNCHANGED <<provider, environment, files, history>>

WriteReserved(p) ==
  /\ At(p, "write_reserved")
  /\ WriteJournal(p, [mem[p] EXCEPT !.status = "reserved"])
  /\ Goto(p, "snapshot_before")
  /\ UNCHANGED <<provider, environment, command, sent, todo, out, answer, history>>

-----------------------------------------------------------------------------
(* Preflight.                                                              *)

SnapshotBefore(p) ==
  /\ At(p, "snapshot_before")
  /\ \/ board = Base /\ Goto(p, "read_before")
     \/ Goto(p, "write_preflight_failed")
  /\ UNCHANGED <<provider, environment, files, locals, answer, history>>

ReadBefore(p) ==
  /\ At(p, "read_before")
  /\ \/ /\ VerifyBeforeDsl(auth[p], board)
        /\ Remember(p, [mem[p] EXCEPT !.beforeDsl = board])
        /\ Goto(p, "write_prepared")
     \/ /\ Goto(p, "write_preflight_failed")
        /\ UNCHANGED mem
  /\ UNCHANGED <<provider, environment, files, command, sent, todo, out, answer,
                 history>>

WritePreflightFailed(p) ==
  /\ At(p, "write_preflight_failed")
  /\ WriteJournal(p, [mem[p] EXCEPT !.status = "preflight_failed"])
  /\ \E r \in Failures(FALSE, FALSE, TRUE, NoJournal) : Issue(p, r)
  /\ Goto(p, "persist_canonical")
  /\ UNCHANGED <<provider, environment, command, sent, todo, answer, history>>

WritePrepared(p) ==
  /\ At(p, "write_prepared")
  /\ WriteJournal(p, [mem[p] EXCEPT !.status = "prepared"])
  /\ Goto(p, "check_operation")
  /\ UNCHANGED <<provider, environment, command, sent, todo, out, answer, history>>

-----------------------------------------------------------------------------
(* The operations, one after the other; any failure leads to _rollback.    *)

(* Seeded fault: the stop conditions are checked before the start only.    *)
CheckOperationNever(p) ==
  /\ At(p, "check_operation")
  /\ Goto(p, "replace")
  /\ UNCHANGED <<provider, environment, files, locals, answer, history>>

(* Seeded fault: a stop leaves the function instead of the try block.      *)
CheckOperationAborts(p) ==
  /\ At(p, "check_operation")
  /\ \/ ~Stopped(auth[p]) /\ Goto(p, "replace") /\ UNCHANGED <<locals, answer>>
     \/ Stopped(auth[p]) /\ Finish(p, "rejected")
  /\ UNCHANGED <<provider, environment, files, history>>

CheckOperation(p) ==
  /\ At(p, "check_operation")
  /\ \/ ~Stopped(auth[p]) /\ Goto(p, "replace")
     \/ Stopped(auth[p]) /\ Goto(p, "repair_read")
  /\ UNCHANGED <<provider, environment, files, locals, answer, history>>

ReplaceOperation(p) ==
  /\ At(p, "replace")
  /\ LET a == auth[p]
         n == sent[p] + 1
     IN /\ \E reply \in Replies :
             /\ Replace(Plan[a][n], "old", "new", reply)
             /\ IF reply = "ok" /\ board' = AfterOps(a, mem[p].beforeDsl, n)
                  THEN Goto(p, "write_applying")
                  ELSE Goto(p, "repair_read")
        /\ sent' = [sent EXCEPT ![p] = n]
        /\ calls' = [calls EXCEPT ![a] = @ + 1]
        /\ overrun' = [overrun EXCEPT ![p] = IF Stopped(a) THEN @ + 1 ELSE @]
  /\ UNCHANGED <<environment, files, command, mem, todo, out, answer>>

(* The journal write is inside the try block: its failure rolls back too.  *)
WriteApplying(p) ==
  /\ At(p, "write_applying")
  /\ LET j == [mem[p] EXCEPT !.status = "applying", !.applied = sent[p]] IN
       \/ /\ WriteJournal(p, j)
          /\ Goto(p, IF sent[p] < Len(Plan[auth[p]]) THEN "check_operation"
                                                     ELSE "read_after")
       \/ /\ Remember(p, j)
          /\ Goto(p, "repair_read")
          /\ UNCHANGED files
  /\ UNCHANGED <<provider, environment, command, sent, todo, out, answer, history>>

(* Seeded fault: only the operations' texts are verified, not the rest.    *)
ReadAfterTextsOnly(p) ==
  /\ At(p, "read_after")
  /\ \/ /\ VerifyAfterDsl(auth[p], board)
        /\ Remember(p, [mem[p] EXCEPT !.afterDsl = board])
        /\ Goto(p, "snapshot_after")
     \/ /\ Goto(p, "repair_read")
        /\ UNCHANGED mem
  /\ UNCHANGED <<provider, environment, files, command, sent, todo, out, answer,
                 history>>

ReadAfter(p) ==
  /\ At(p, "read_after")
  /\ \/ /\ VerifyAfterDsl(auth[p], board)
        /\ board = AfterOps(auth[p], mem[p].beforeDsl, Len(Plan[auth[p]]))
        /\ Remember(p, [mem[p] EXCEPT !.afterDsl = board])
        /\ Goto(p, "snapshot_after")
     \/ /\ Goto(p, "repair_read")
        /\ UNCHANGED mem
  /\ UNCHANGED <<provider, environment, files, command, sent, todo, out, answer,
                 history>>

(* The after snapshot only has to differ from the expected revision.       *)
SnapshotAfter(p) ==
  /\ At(p, "snapshot_after")
  /\ \/ /\ board # Base
        /\ Remember(p, [mem[p] EXCEPT !.after = board])
        /\ Goto(p, "write_committed")
     \/ /\ Goto(p, "repair_read")
        /\ UNCHANGED mem
  /\ UNCHANGED <<provider, environment, files, command, sent, todo, out, answer,
                 history>>

(* The journal commits; the success receipt binds the digest of journal j. *)
WriteCommitted(p) ==
  /\ At(p, "write_committed")
  /\ LET j == [mem[p] EXCEPT !.status = "committed"] IN
       /\ WriteJournal(p, j)
       /\ Issue(p, Success(j))
  /\ Goto(p, "persist_canonical")
  /\ UNCHANGED <<provider, environment, command, sent, todo, answer, history>>

-----------------------------------------------------------------------------
(* _rollback (of an apply, back to "old") and _recover_restore_to_after    *)
(* (of a restore, back to "new"): the same steps towards opposite goals.   *)

GoalText(p) == IF cmd[p] = "apply" THEN "old" ELSE "new"
WrongText(p) == IF cmd[p] = "apply" THEN "new" ELSE "old"
GoalDsl(p) == IF cmd[p] = "apply" THEN mem[p].beforeDsl ELSE mem[p].afterDsl
GoalSnapshot(p) == IF cmd[p] = "apply" THEN Base ELSE mem[p].after

(* A rollback undoes the last operation first, a recovery redoes the first *)
(* one first.                                                              *)
IsNextRepair(p, i) ==
  \A m \in todo[p] : IF cmd[p] = "apply" THEN m <= i ELSE i <= m

(* Seeded faults: a status no other command knows; the outcome of the      *)
(* rollback ignored; a recovered restore recorded as a restored one; a     *)
(* restore that could not be recovered recorded as a recovered one.        *)
RepairStatusUnknown(c, repaired) ==
  IF repaired THEN "rolled_back" ELSE "repair_failed"
RepairStatusIgnored(c, repaired) ==
  IF c = "apply" THEN "rolled_back"
  ELSE IF repaired THEN "committed" ELSE "restore_recovery_failed"
RepairStatusSwapped(c, repaired) ==
  IF c = "restore" THEN "restored"
  ELSE IF repaired THEN "rolled_back" ELSE "rollback_failed"

RepairStatusHopeful(c, repaired) ==
  IF c = "restore" THEN "committed"
  ELSE IF repaired THEN "rolled_back" ELSE "rollback_failed"

(* The journal status that records how a repair ended.                     *)
RepairStatus(c, repaired) ==
  IF c = "apply"
    THEN IF repaired THEN "rolled_back" ELSE "rollback_failed"
    ELSE IF repaired THEN "committed" ELSE "restore_recovery_failed"

(* Read the board and find out which operations have to be repaired.       *)
RepairRead(p) ==
  /\ At(p, "repair_read")
  /\ LET wrong == {i \in Ops(auth[p]) : board.text[Plan[auth[p]][i]] = WrongText(p)} IN
       \/ /\ Classifiable(auth[p], board)
          /\ todo' = [todo EXCEPT ![p] = wrong]
          /\ Goto(p, IF wrong = {} THEN "repair_verify" ELSE "repair_replace")
       \/ /\ Goto(p, "write_unrepaired")
          /\ UNCHANGED todo
  /\ UNCHANGED <<provider, environment, files, command, mem, sent, out, answer,
                 history>>

RepairReplace(p) ==
  /\ At(p, "repair_replace")
  /\ \E i \in todo[p], reply \in Replies :
       /\ IsNextRepair(p, i)
       /\ Replace(Plan[auth[p]][i], WrongText(p), GoalText(p), reply)
       /\ todo' = [todo EXCEPT ![p] = @ \ {i}]
       /\ Goto(p, IF reply # "ok" THEN "write_unrepaired"
                  ELSE IF todo[p] = {i} THEN "repair_verify"
                  ELSE "repair_replace")
  /\ UNCHANGED <<environment, files, command, mem, sent, out, answer, history>>

RepairVerify(p) ==
  /\ At(p, "repair_verify")
  /\ \/ /\ AllRead(auth[p], board, GoalText(p))
        /\ board = GoalDsl(p)
        /\ Goto(p, "repair_snapshot")
     \/ Goto(p, "write_unrepaired")
  /\ UNCHANGED <<provider, environment, files, locals, answer, history>>

RepairSnapshot(p) ==
  /\ At(p, "repair_snapshot")
  /\ \/ board = GoalSnapshot(p) /\ Goto(p, "write_repaired")
     \/ Goto(p, "write_unrepaired")
  /\ UNCHANGED <<provider, environment, files, locals, answer, history>>

(* The journal and then the failure receipt record how the repair ended.   *)
WriteRepairOutcome(p) ==
  /\ pc[p] \in {"write_repaired", "write_unrepaired"}
  /\ LET repaired == At(p, "write_repaired")
         j == [mem[p] EXCEPT !.status = RepairStatus(cmd[p], repaired)]
     IN /\ WriteJournal(p, j)
        /\ \E r \in Failures(sent[p] > 0, repaired,
                            mem[p].restoreFailure # "mismatch" \/ ~repaired,
                            IF cmd[p] = "apply" THEN NoJournal ELSE j) :
             Issue(p, r)
  /\ todo' = [todo EXCEPT ![p] = {}]
  /\ Goto(p, "persist_canonical")
  /\ UNCHANGED <<provider, environment, command, sent, answer, history>>

-----------------------------------------------------------------------------
(* _persist_receipt: first beside the journal, then at the requested path. *)

PersistCanonical(p) ==
  /\ At(p, "persist_canonical")
  /\ canonical' = [canonical EXCEPT ![cmd[p]][auth[p]] = out[p]]
  /\ Goto(p, "persist_requested")
  /\ UNCHANGED <<provider, environment, reserved, journal, requested, locals,
                 answer, history>>

PersistRequested(p) ==
  /\ At(p, "persist_requested")
  /\ requested' = [requested EXCEPT ![cmd[p]][auth[p]] = out[p]]
  /\ Finish(p, IF out[p].result = "ok" THEN "done" ELSE "failed")
  /\ UNCHANGED <<provider, environment, reserved, journal, canonical, history>>

-----------------------------------------------------------------------------
(* restore_live_apply: neither a reservation nor the kill switch guards it.*)

(* Seeded fault: no retry after a failed restore.                          *)
RestoreAdmissibleOnce(a, t) ==
  /\ journal[a].status = "committed"
  /\ canonical["restore"][a].result # "ok"
  /\ journal[a] = t.journal

(* The transaction receipt t and the journal bind each other, directly or  *)
(* through the failure receipt of an earlier restore.                      *)
RestoreAdmissible(a, t) ==
  LET j == journal[a]
      prior == canonical["restore"][a]
  IN /\ j.status = "committed"
     /\ prior.result # "ok" /\ prior.readable
     /\ \/ j = t.journal
        \/ /\ prior.result = "failed"
           /\ prior.repaired
           /\ prior.journal = j
     /\ j.after = t.journal.after

(* The receipts an operator can hand to the restore command.               *)
TransactionReceipts(a) ==
  {t \in {canonical["apply"][a], requested["apply"][a]} : t.result = "ok"}

StartRestore(p, a) ==
  /\ p \in Restorers
  /\ At(p, "idle")
  /\ \E t \in TransactionReceipts(a) : RestoreAdmissible(a, t)
  /\ Goto(p, "snapshot_current")
  /\ Begin(p, "restore", a, journal[a])
  /\ UNCHANGED <<provider, environment, files, history>>

(* A restored transaction is answered from its restore receipt, any other  *)
(* state is an error.                                                      *)
AnswerRestore(p, a) ==
  /\ p \in Restorers
  /\ At(p, "idle")
  /\ \E t \in TransactionReceipts(a) : ~RestoreAdmissible(a, t)
  /\ Finish(p, IF /\ journal[a].status = "restored"
                  /\ canonical["restore"][a].result = "ok"
                  /\ canonical["restore"][a].journal = journal[a]
               THEN "replayed" ELSE "rejected")
  /\ UNCHANGED <<provider, environment, files, history>>

(* Drift, or a provider failure, before the first inverse operation ends   *)
(* the command without a trace.                                            *)
SnapshotCurrent(p) ==
  /\ At(p, "snapshot_current")
  /\ \/ /\ board = mem[p].after
        /\ Goto(p, "read_current")
        /\ UNCHANGED <<locals, answer>>
     \/ Finish(p, "rejected")
  /\ UNCHANGED <<provider, environment, files, history>>

ReadCurrent(p) ==
  /\ At(p, "read_current")
  /\ \/ /\ VerifyAfterDsl(auth[p], board)
        /\ board = mem[p].afterDsl
        /\ Goto(p, "inverse")
        /\ UNCHANGED <<locals, answer>>
     \/ Finish(p, "rejected")
  /\ UNCHANGED <<provider, environment, files, history>>

(* The restore fails: remember why and try to return to the after-state.   *)
RestoreFails(p, why) ==
  /\ Remember(p, [mem[p] EXCEPT !.restoreFailure = why])
  /\ Goto(p, "repair_read")

(* The inverse operations, last operation first.                           *)
InverseOperation(p) ==
  /\ At(p, "inverse")
  /\ LET n == Len(Plan[auth[p]]) IN
       \E reply \in Replies :
         /\ Replace(Plan[auth[p]][n - sent[p]], "new", "old", reply)
         /\ \/ /\ reply = "ok"
               /\ Goto(p, IF sent[p] + 1 < n THEN "inverse" ELSE "read_restored")
               /\ UNCHANGED mem
            \/ /\ reply # "ok"
               /\ RestoreFails(p, "provider")
  /\ sent' = [sent EXCEPT ![p] = @ + 1]
  /\ UNCHANGED <<environment, files, command, todo, out, answer, history>>

ReadRestored(p) ==
  /\ At(p, "read_restored")
  /\ \/ /\ VerifyRestoredDsl(auth[p], board)
        /\ board = mem[p].beforeDsl
        /\ Goto(p, "snapshot_restored")
        /\ UNCHANGED mem
     \/ board # mem[p].beforeDsl /\ RestoreFails(p, "mismatch")
     \/ RestoreFails(p, "provider")
  /\ UNCHANGED <<provider, environment, files, command, sent, todo, out, answer,
                 history>>

SnapshotRestored(p) ==
  /\ At(p, "snapshot_restored")
  /\ \/ /\ board = Base
        /\ Goto(p, "write_restored")
        /\ UNCHANGED mem
     \/ board # Base /\ RestoreFails(p, "mismatch")
     \/ RestoreFails(p, "provider")
  /\ UNCHANGED <<provider, environment, files, command, sent, todo, out, answer,
                 history>>

WriteRestored(p) ==
  /\ At(p, "write_restored")
  /\ LET j == [mem[p] EXCEPT !.status = "restored"] IN
       /\ WriteJournal(p, j)
       /\ Issue(p, Success(j))
  /\ Goto(p, "persist_canonical")
  /\ UNCHANGED <<provider, environment, command, sent, todo, answer, history>>

-----------------------------------------------------------------------------
(* The surroundings: the operator's kill switch, time, other people who    *)
(* edit the board, Miro executing a timed-out call, and processes that end *)
(* where they are (killed, interrupted, or a file that cannot be written). *)

EnableKillSwitch ==
  /\ ~killSwitch
  /\ killSwitch' = TRUE
  /\ UNCHANGED <<provider, edits, clock, files, pc, locals, answer, history>>

DisableKillSwitch ==
  /\ killSwitch
  /\ killSwitch' = FALSE
  /\ overrun' = [p \in Procs |-> 0]
  /\ UNCHANGED <<provider, edits, clock, files, pc, locals, answer, calls>>

Tick ==
  /\ clock < MaxClock
  /\ clock' = clock + 1
  /\ UNCHANGED <<provider, edits, killSwitch, files, pc, locals, answer, history>>

ExternalEdit ==
  /\ edits < MaxEdits
  /\ edits' = edits + 1
  /\ \/ board' = [board EXCEPT !.rest = edits + 1]
     \/ \E s \in Slots : board' = Put(board, {s}, "other")
  /\ UNCHANGED <<late, clock, killSwitch, files, pc, locals, answer, history>>

LateEffect ==
  \E r \in late :
    /\ late' = late \ {r}
    /\ board' = IF board.text[r.slot] = r.from THEN Put(board, {r.slot}, r.to)
                                               ELSE board
    /\ UNCHANGED <<environment, files, pc, locals, answer, history>>

Crash(p) ==
  /\ Crashes
  /\ ~At(p, "idle")
  /\ Finish(p, "none")
  /\ UNCHANGED <<provider, environment, files, history>>

-----------------------------------------------------------------------------
ApplyStep(p) ==
  \/ Reserve(p) \/ AnswerExisting(p) \/ WriteReserved(p)
  \/ SnapshotBefore(p) \/ ReadBefore(p) \/ WritePreflightFailed(p)
  \/ WritePrepared(p) \/ CheckOperation(p) \/ ReplaceOperation(p)
  \/ WriteApplying(p) \/ ReadAfter(p) \/ SnapshotAfter(p) \/ WriteCommitted(p)

RestoreStep(p) ==
  \/ SnapshotCurrent(p) \/ ReadCurrent(p) \/ InverseOperation(p)
  \/ ReadRestored(p) \/ SnapshotRestored(p) \/ WriteRestored(p)

SharedStep(p) ==
  \/ RepairRead(p) \/ RepairReplace(p) \/ RepairVerify(p) \/ RepairSnapshot(p)
  \/ WriteRepairOutcome(p) \/ PersistCanonical(p) \/ PersistRequested(p)

(* The next step of a command that has been started.                       *)
Continue(p) == ApplyStep(p) \/ RestoreStep(p) \/ SharedStep(p)

Start(p) == \E a \in Auths : StartApply(p, a) \/ StartRestore(p, a) \/ AnswerRestore(p, a)

Surroundings ==
  \/ EnableKillSwitch \/ DisableKillSwitch \/ Tick \/ ExternalEdit \/ LateEffect

Next ==
  \/ \E p \in Procs : Start(p) \/ Continue(p) \/ Crash(p)
  \/ Surroundings

Spec == Init /\ [][Next]_vars

(* A started command keeps going: it is sequential code whose provider     *)
(* calls have a timeout.  Starting a command is the operator's choice.     *)
FairSpec == Spec /\ \A p \in Procs : WF_vars(Continue(p))

-----------------------------------------------------------------------------
(* Properties.                                                             *)

(* Every variable has its type.                                            *)
TypeOK ==
  /\ board \in Boards
  /\ late \subseteq Replacements
  /\ edits \in 0..MaxEdits
  /\ clock \in 0..MaxClock
  /\ killSwitch \in BOOLEAN
  /\ reserved \subseteq Auths
  /\ journal \in [Auths -> Journals]
  /\ canonical \in [Commands -> [Auths -> Receipts]]
  /\ requested \in [Commands -> [Auths -> Receipts]]
  /\ pc \in [Procs -> PCs]
  /\ cmd \in [Procs -> Commands]
  /\ auth \in [Procs -> Auths]
  /\ mem \in [Procs -> Journals]
  /\ sent \in [Procs -> Nat]
  /\ todo \in [Procs -> SUBSET Nat]
  /\ out \in [Procs -> Receipts]
  /\ answer \in [Procs -> {"none", "rejected", "replayed", "done", "failed"}]
  /\ calls \in [Auths -> Nat]
  /\ overrun \in [Procs -> Nat]

(* An authorization is single-use: however many processes try to apply it, *)
(* crash and try again, no more replacements are sent under it than its    *)
(* plan has operations (the mkdir reservation of execute_live_apply).      *)
SingleUse == \A a \in Auths : calls[a] <= Len(Plan[a])

(* Once the kill switch is on or the authorization has expired, a running  *)
(* apply sends at most the one replacement whose check came before.        *)
StopBound == \A p \in Procs : overrun[p] <= 1

(* The slots that no other plan touches.                                   *)
OwnSlots(a) == SlotsOf(a) \ UNION {SlotsOf(b) : b \in Auths \ {a}}
NoNewText(a) == \A s \in OwnSlots(a) : board.text[s] # "new"

(* A transaction that reports a failed preflight or a successful rollback  *)
(* has left none of its new texts on the board, even when replies were     *)
(* lost after Miro had executed the call (_rollback reads the board).      *)
NoResidue ==
  \A a \in Auths :
    journal[a].status \in {"preflight_failed", "rolled_back"} => NoNewText(a)

Declared(a, j) == j.afterDsl = AfterOps(a, j.beforeDsl, Len(Plan[a]))

(* A success receipt is given only for a board that differed from the one  *)
(* read before by exactly the declared operations, whatever others did on  *)
(* the board meanwhile (the exact comparison after the last operation).    *)
DeclaredOnly ==
  \A a \in Auths :
    LET t == canonical["apply"][a] IN
      t.result = "ok" => Declared(a, t.journal)

(* A receipt of an apply, once written beside the journal, stays: no later *)
(* command replaces the evidence of what happened.                         *)
EvidenceStays ==
  [][\A a \in Auths :
       canonical["apply"][a].result # "none" =>
         canonical'["apply"][a] = canonical["apply"][a]]_canonical

(* While a journal says restored, none of the transaction's new texts is   *)
(* on the board: nothing mutates the region after a verified restore.      *)
RestoredStays == \A a \in Auths : journal[a].status = "restored" => NoNewText(a)

Restoring(p, a) == ~At(p, "idle") /\ cmd[p] = "restore" /\ auth[p] = a

(* A restore started now would get past every check that precedes its      *)
(* first inverse operation.                                                *)
CanRestore(a) ==
  /\ RestoreAdmissible(a, canonical["apply"][a])
  /\ board = journal[a].after
  /\ board = journal[a].afterDsl

(* The restore path a success receipt promises (restore_ready, and         *)
(* still_restore_ready of a failed restore) is there: as long as the       *)
(* journal says committed and no restore is under way, a restore is        *)
(* accepted - also after a failed restore that was recovered.  (For one    *)
(* transaction that nobody else's changes get in the way of.)              *)
RestoreAvailable ==
  \A a \in Auths :
    /\ canonical["apply"][a].result = "ok"
    /\ journal[a].status = "committed"
    /\ \A p \in Procs : ~Restoring(p, a)
    => CanRestore(a)

(* A reserved authorization reaches a journal status that decides it.      *)
Settled == {"preflight_failed", "committed", "rolled_back", "rollback_failed",
            "restored", "restore_recovery_failed"}
ReservationsSettle ==
  \A a \in Auths : (a \in reserved) ~> (journal[a].status \in Settled)

-----------------------------------------------------------------------------
(* The inductive invariant behind SingleUse, StopBound, DeclaredOnly and   *)
(* EvidenceStays.                                                          *)

(* Operations are indexed within the plan, nothing is sent before the      *)
(* first of them, and only a repair has operations left to repair.         *)
IndexOK ==
  \A p \in Procs :
    /\ todo[p] \subseteq Ops(auth[p])
    /\ pc[p] \notin RepairPCs => todo[p] = {}
    /\ pc[p] \in {"check_operation", "replace", "inverse"} => sent[p] < Len(Plan[auth[p]])
    /\ pc[p] \in {"idle", "reserve", "write_reserved", "snapshot_before",
                  "read_before", "write_prepared", "snapshot_current",
                  "read_current"} => sent[p] = 0

(* p has the reservation of its authorization, or had it until a crash.    *)
Owns(p) == cmd[p] = "apply" /\ pc[p] \notin {"idle", "reserve"}
ForwardPCs == {"write_reserved", "snapshot_before", "read_before",
               "write_prepared", "check_operation", "replace", "write_applying"}

(* One process per authorization gets past the reservation; until then     *)
(* nothing was sent and no receipt written, afterwards its count is that   *)
(* of the authorization.                                                   *)
Ownership ==
  /\ \A p \in Procs : /\ pc[p] \in ApplyPCs => cmd[p] = "apply"
                      /\ pc[p] \in RestorePCs => cmd[p] = "restore"
                      /\ Owns(p) => auth[p] \in reserved
                      /\ pc[p] \in ForwardPCs => calls[auth[p]] = sent[p]
                      /\ Owns(p) /\ pc[p] # "persist_requested" =>
                           canonical["apply"][auth[p]].result = "none"
  /\ \A p, q \in Procs : Owns(p) /\ Owns(q) /\ auth[p] = auth[q] => p = q
  /\ \A a \in Auths \ reserved : /\ calls[a] = 0
                                 /\ canonical["apply"][a].result = "none"
  /\ SingleUse

(* A process that has sent a replacement since it should have stopped      *)
(* meets the stop at its next check.                                       *)
Stopping ==
  \A p \in Procs :
    /\ pc[p] \in {"reserve", "write_reserved", "snapshot_before", "read_before",
                  "write_prepared", "replace"} => overrun[p] = 0
    /\ pc[p] \in {"check_operation", "write_applying"} /\ overrun[p] > 0 =>
         Stopped(auth[p])
    /\ overrun[p] <= 1

(* The evidence a success receipt carries is established before the        *)
(* after-snapshot and kept until the receipt is written.                   *)
Evidence ==
  /\ \A p \in Procs :
       /\ pc[p] \in {"snapshot_after", "write_committed"} => Declared(auth[p], mem[p])
       /\ cmd[p] = "apply" /\ pc[p] \in PersistPCs /\ out[p].result = "ok" =>
            Declared(auth[p], out[p].journal)
  /\ DeclaredOnly

(* Every step from a state with IInv leads to one: no reachable state      *)
(* comes close to a second use, a late replacement or a false receipt.     *)
IInv == TypeOK /\ IndexOK /\ Ownership /\ Stopping /\ Evidence

=============================================================================
