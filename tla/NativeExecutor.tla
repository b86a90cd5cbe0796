---------------------------- MODULE NativeExecutor ----------------------------
(***************************************************************************)
(* The native bundle executor (src/schauwerk/surfaces/miro/                *)
(* native_executor.py, started by native_runtime.py): it executes the      *)
(* operations of a bundle on a Miro board one after the other and writes a *)
(* receipt before each mutation, after each verified operation and at the  *)
(* end, from which an interrupted run can be resumed.                      *)
(*                                                                         *)
(* Simplifications:                                                        *)
(* - the board is how often each operation has been executed on it, how    *)
(*   many items (or comments) equal to one of the bundle other people have *)
(*   added, and how many further items they have added or removed; an edit *)
(*   may be of the target of an update or a deletion, but others leave     *)
(*   alone what the bundle made;                                           *)
(* - the reads of one phase are one step, at which any of them may fail;   *)
(* - all runs are about one bundle on one board and write one receipt      *)
(*   file: the operator resumes from the receipt written last, and starts  *)
(*   afresh only if it shows no sign of a mutation;                        *)
(* - the mutations of one operation (a table is created, filled, and given *)
(*   a view) are one.                                                      *)
(***************************************************************************)
EXTENDS Integers, Sequences, FiniteSets, Functions

CONSTANTS
  Procs,        \* processes that run the executor
  Bundle,       \* the operations of the bundle: their kinds and contents
  SearchOnly,   \* only canvas_search shows the board's inventory
  MaxEdits,     \* bound on the edits others make on the board
  LateEffects,  \* a timed-out mutation may still take effect later
  MaxRuns,      \* bound on the number of runs
  None          \* no process, no inventory

Ops == DOMAIN Bundle
Kind(i) == Bundle[i].kind
Content(i) == Bundle[i].content
Kinds == {"comment", "document", "canvas", "create", "update", "delete", "read"}
Reconcilable == {"comment", "document", "canvas"}
Equal(c) == {i \in Ops : Content(i) = c}
Contents == {Content(i) : i \in {j \in Ops : Kind(j) \in Reconcilable}}

ASSUME BundleAssumption ==
  /\ Bundle \in Seq([kind : Kinds, content : STRING])
  /\ \A i, j \in Ops : Content(i) = Content(j) => Kind(i) = Kind(j)
  /\ SearchOnly \in BOOLEAN
  /\ SearchOnly => \A i \in Ops : Kind(i) = "canvas"
ASSUME BoundAssumption ==
  /\ LateEffects \in BOOLEAN /\ MaxEdits \in Nat /\ MaxRuns \in Nat
  /\ None \notin Procs \cup Int

VARIABLES
  made,     \* made[i]: how often operation i has been executed on the board
  foreign,  \* foreign[c]: items of content c that others have added
  items,    \* the number of items on the board, less that at the start
  late,     \* operations that timed out and may still be executed
  edits,    \* number of edits made by others so far
  receipt,  \* the receipt written last
  runs,     \* number of runs so far
  holder,   \* the process that holds the board lock
  pc,       \* pc[p]: the next step of the run of p
  memory    \* memory[p]: what the run would write into a receipt now

board == <<made, foreign, items, late, edits>>
vars == <<board, receipt, runs, holder, pc, memory>>

(* A receipt: completed counts the verified operations, pending says that  *)
(* the next one has been announced, attempted is mutation_attempted, and   *)
(* baseline the inventory found before the first operation.                *)
Inventory == Int \cup {None}
Evidence == [completed : 0..Len(Bundle), pending : BOOLEAN,
             attempted : BOOLEAN, baseline : Inventory]
NoEvidence ==
  [completed |-> 0, pending |-> FALSE, attempted |-> FALSE, baseline |-> None]
States == {"none", "in_progress", "failed", "complete"}
PCs == {"idle", "preflight", "operation", "call", "readback", "postflight", "fail"}

Init ==
  /\ made = [i \in Ops |-> 0]
  /\ foreign = [c \in Contents |-> 0]
  /\ items = 0
  /\ late = {}
  /\ edits = 0
  /\ receipt = [state |-> "none", evidence |-> NoEvidence]
  /\ runs = 0
  /\ holder = None
  /\ pc = [p \in Procs |-> "idle"]
  /\ memory = [p \in Procs |-> NoEvidence]

-----------------------------------------------------------------------------
(* What the reads show of the board.                                       *)

(* The change of the item count that an operation causes: comments and      *)
(* updates add no item.                                                    *)
Delta == [i \in Ops |-> CASE Kind(i) \in {"document", "canvas", "create"} -> 1
                           [] Kind(i) = "delete" -> -1
                           [] OTHER -> 0]
ExpectedDelta(n) == SumFunctionOnSet(Delta, 1..n)

ItemsOf(c) == SumFunctionOnSet(made, Equal(c)) + foreign[c]
IsComment(c) == \E i \in Equal(c) : Kind(i) = "comment"

(* Seeded fault: verified operations' items are candidates too.            *)
CandidatesAll(m) == ItemsOf(Content(m.completed + 1))

(* The items that the pending document or diagram may have become: those   *)
(* equal to it that no verified operation refers to.  Comments are matched *)
(* by their content alone.                                                 *)
Candidates(m) ==
  LET c == Content(m.completed + 1)
  IN  IF IsComment(c) THEN ItemsOf(c)
      ELSE ItemsOf(c) - Cardinality({i \in Equal(c) : i <= m.completed})

(* The inventory exposes the verified prefix and, if a canvas diagram is   *)
(* pending, exactly this diagram in addition.                              *)
InventoryAccepted(m) ==
  LET excess == items - m.baseline - ExpectedDelta(m.completed)
  IN  /\ excess >= 0
      /\ (m.pending /\ Kind(m.completed + 1) = "canvas") => excess = 1

(* A mutation that was announced may have happened; the executor looks for *)
(* its result instead of repeating it.                                     *)
ReconcilePending(m) == m.pending /\ Kind(m.completed + 1) \in Reconcilable

PreflightAccepted(m) ==
  m.baseline # None =>
    /\ InventoryAccepted(m)
    /\ (ReconcilePending(m) /\ Kind(m.completed + 1) # "comment") => Candidates(m) = 1

-----------------------------------------------------------------------------
(* Starting a run.                                                         *)

(* Seeded fault: an uncertain mutation of any kind may be resumed.         *)
ResumableAlways ==
  receipt.state \in {"in_progress", "failed"} /\ receipt.evidence.baseline # None

Resumable ==
  LET e == receipt.evidence
  IN  /\ receipt.state \in {"in_progress", "failed"}
      /\ e.baseline # None
      /\ e.pending => Kind(e.completed + 1) \in Reconcilable
      /\ ~SearchOnly

(* The operator's discipline for a run without a receipt to resume.        *)
Unmarked == receipt.evidence.completed = 0 /\ ~receipt.evidence.pending

Launch(p, m) ==
  /\ pc[p] = "idle"
  /\ runs < MaxRuns
  /\ runs' = runs + 1
  /\ holder' = p
  /\ memory' = [memory EXCEPT ![p] = m]
  /\ pc' = [pc EXCEPT ![p] = "preflight"]
  /\ UNCHANGED <<board, receipt>>

Fresh(p) == /\ holder = None
            /\ Unmarked
            /\ Launch(p, NoEvidence)

(* Seeded fault: the run starts without the board lock.                    *)
ResumeUnlocked(p) == Resumable /\ Launch(p, receipt.evidence)

(* Seeded fault: the run goes on after the next operation.                 *)
ResumeAhead(p) ==
  /\ holder = None
  /\ Resumable
  /\ Launch(p, [receipt.evidence EXCEPT !.completed = @ + 1, !.pending = FALSE])

Resume(p) ==
  /\ holder = None
  /\ Resumable
  /\ Launch(p, [receipt.evidence EXCEPT !.attempted = @ \/ receipt.evidence.completed > 0])

-----------------------------------------------------------------------------
(* Steps of a run.                                                         *)

Goto(p, step) == pc' = [pc EXCEPT ![p] = step]

(* The run writes what it knows, m, as a receipt.  A write that fails may  *)
(* have replaced the file already, and ends the run in its error handler.  *)
Checkpoint(p, m, state, next) ==
  /\ memory' = [memory EXCEPT ![p] = m]
  /\ \/ receipt' = [state |-> state, evidence |-> m] /\ Goto(p, next)
     \/ receipt' \in {receipt, [state |-> state, evidence |-> m]} /\ Goto(p, "fail")

Preflight(p) ==
  LET m == memory[p] IN
  /\ pc[p] = "preflight"
  /\ memory' = [memory EXCEPT ![p].baseline = IF @ = None THEN items ELSE @]
  /\ Goto(p, IF ~PreflightAccepted(m) THEN "fail"
             ELSE IF ReconcilePending(m) /\ Kind(m.completed + 1) # "comment" THEN "readback"
             ELSE "operation")
  /\ UNCHANGED <<board, receipt, runs, holder>>

HasNext(p) == pc[p] = "operation" /\ memory[p].completed < Len(Bundle)
Upcoming(p) == memory[p].completed + 1

ReadOperation(p) ==
  /\ HasNext(p)
  /\ Kind(Upcoming(p)) = "read"
  /\ Goto(p, "readback")
  /\ UNCHANGED <<board, receipt, runs, holder, memory>>

(* Seeded fault: the run waits for the pending comment to appear.          *)
ReconcileWaits(p) ==
  /\ HasNext(p)
  /\ ReconcilePending(memory[p])
  /\ Candidates(memory[p]) = 1
  /\ Goto(p, "readback")
  /\ UNCHANGED <<board, receipt, runs, holder, memory>>

(* The pending comment of a resumed run is looked for by its content.      *)
ReconcileComment(p) ==
  /\ HasNext(p)
  /\ ReconcilePending(memory[p])
  /\ Goto(p, IF Candidates(memory[p]) = 1 THEN "readback" ELSE "fail")
  /\ UNCHANGED <<board, receipt, runs, holder, memory>>

(* Updates and deletions first compare the item with the expected one: it  *)
(* has changed if this was done already, or if an edit by others was of it.*)
PreflightMismatch(p) ==
  /\ HasNext(p)
  /\ Kind(Upcoming(p)) \in {"update", "delete"}
  /\ made[Upcoming(p)] # 0 \/ edits > 0
  /\ Goto(p, "fail")
  /\ UNCHANGED <<board, receipt, runs, holder, memory>>

(* Seeded fault: the receipt is only written after the operation.          *)
AnnounceInMemory(p) ==
  /\ HasNext(p)
  /\ ~ReconcilePending(memory[p])
  /\ Kind(Upcoming(p)) # "read"
  /\ memory' = [memory EXCEPT ![p].pending = TRUE]
  /\ Goto(p, "call")
  /\ UNCHANGED <<board, receipt, runs, holder>>

Announce(p) ==
  /\ HasNext(p)
  /\ ~ReconcilePending(memory[p])
  /\ Kind(Upcoming(p)) # "read"
  /\ Kind(Upcoming(p)) \in {"update", "delete"} => made[Upcoming(p)] = 0
  /\ Checkpoint(p, [memory[p] EXCEPT !.pending = TRUE], "in_progress", "call")
  /\ UNCHANGED <<board, runs, holder>>

(* The call executes the operation or not, and its answer may get lost.    *)
Call(p) ==
  /\ pc[p] = "call"
  /\ memory' = [memory EXCEPT ![p].attempted = TRUE]
  /\ \/ /\ made' = [made EXCEPT ![Upcoming(p)] = @ + 1]
        /\ \E step \in {"readback", "fail"} : Goto(p, step)
        /\ items' = items + Delta[Upcoming(p)]
        /\ late' = late
     \/ /\ Goto(p, "fail")
        /\ late' \in {late, late \cup (IF LateEffects THEN {Upcoming(p)} ELSE {})}
        /\ UNCHANGED <<made, items>>
  /\ UNCHANGED <<foreign, edits, receipt, runs, holder>>

Verify(p) ==
  /\ pc[p] = "readback"
  /\ Checkpoint(p, [memory[p] EXCEPT !.completed = @ + 1, !.pending = FALSE],
                "in_progress", "operation")
  /\ UNCHANGED <<board, runs, holder>>

ReadPostflight(p) ==
  /\ pc[p] = "operation"
  /\ memory[p].completed = Len(Bundle)
  /\ LET excess == items - memory[p].baseline - ExpectedDelta(Len(Bundle))
     IN  Goto(p, IF excess < 0 \/ (SearchOnly /\ excess # 0) THEN "fail" ELSE "postflight")
  /\ UNCHANGED <<board, receipt, runs, holder, memory>>

Release(p) == holder' = IF holder = p THEN None ELSE holder

Succeed(p) ==
  /\ pc[p] = "postflight"
  /\ LET success == [state |-> "complete", evidence |-> memory[p]]
     IN  \/ receipt' = success /\ Goto(p, "idle") /\ Release(p)
         \/ receipt' \in {receipt, success} /\ Goto(p, "fail") /\ UNCHANGED holder
  /\ UNCHANGED <<board, runs, memory>>

ReadFails(p) ==
  /\ pc[p] \in {"preflight", "operation", "readback"}
  /\ Goto(p, "fail")
  /\ UNCHANGED <<board, receipt, runs, holder, memory>>

(* The error handler; its write may fail as well.                          *)
WriteFailure(p) ==
  /\ pc[p] = "fail"
  /\ receipt' \in {receipt, [state |-> "failed", evidence |-> memory[p]]}
  /\ Goto(p, "idle")
  /\ Release(p)
  /\ UNCHANGED <<board, runs, memory>>

Crash(p) ==
  /\ pc[p] # "idle"
  /\ Goto(p, "idle")
  /\ Release(p)
  /\ UNCHANGED <<board, receipt, runs, memory>>

-----------------------------------------------------------------------------
(* The board's other users, and calls that take effect late.               *)

TakeEffect(i) ==
  /\ i \in late
  /\ late' = late \ {i}
  /\ made' = [made EXCEPT ![i] = @ + 1]
  /\ items' = items + Delta[i]
  /\ UNCHANGED <<foreign, edits, receipt, runs, holder, pc, memory>>

Edit ==
  /\ edits < MaxEdits
  /\ edits' = edits + 1
  /\ \/ \E c \in Contents :
          /\ foreign' = [foreign EXCEPT ![c] = @ + 1]
          /\ items' = items + (IF IsComment(c) THEN 0 ELSE 1)
     \/ /\ items' \in {items - 1, items, items + 1}
        /\ foreign' = foreign
  /\ UNCHANGED <<made, late, receipt, runs, holder, pc, memory>>

RunStep(p) ==
  \/ Preflight(p) \/ ReadOperation(p) \/ ReconcileComment(p)
  \/ PreflightMismatch(p) \/ Announce(p) \/ Call(p) \/ Verify(p)
  \/ ReadPostflight(p) \/ Succeed(p) \/ WriteFailure(p)

Next ==
  \/ \E p \in Procs : Fresh(p) \/ Resume(p) \/ RunStep(p) \/ ReadFails(p) \/ Crash(p)
  \/ \E i \in Ops : TakeEffect(i)
  \/ Edit

Spec == Init /\ [][Next]_vars

(* Every read and call is answered or times out, so a run always gets on;  *)
(* it does not count on a read that fails.                                 *)
FairSpec == Spec /\ \A p \in Procs : WF_vars(RunStep(p))

-----------------------------------------------------------------------------
(* Properties.                                                             *)

(* Every variable stays in its type.                                       *)
TypeOK ==
  /\ made \in [Ops -> Nat]
  /\ foreign \in [Contents -> Nat]
  /\ items \in Int
  /\ late \subseteq Ops
  /\ edits \in 0..MaxEdits
  /\ receipt \in [state : States, evidence : Evidence]
  /\ runs \in 0..MaxRuns
  /\ holder \in Procs \cup {None}
  /\ pc \in [Procs -> PCs]
  /\ memory \in [Procs -> Evidence]

Happened(i) == made[i] > 0 \/ i \in late
Marked(e) == e.completed + (IF e.pending THEN 1 ELSE 0)

(* However often runs are killed, fail, lose an answer or are started side *)
(* by side, no operation of the bundle is executed twice on the board.     *)
AtMostOnce ==
  /\ \A i \in Ops : made[i] <= 1
  /\ \A i \in late : made[i] = 0

(* Write-ahead: an operation that has been executed, or may still be by a  *)
(* call that timed out, is verified or announced by the receipt on disk,   *)
(* even between two steps of a run and after a kill.                       *)
WriteAhead == \A i \in Ops : Happened(i) => i <= Marked(receipt.evidence)

(* Why: one run at a time holds the lock; except in its error handler it   *)
(* knows exactly what the receipt says, and never calls an operation that  *)
(* may have happened.                                                      *)
Agrees(m, e) == m.completed = e.completed /\ m.pending = e.pending
Covers(m, e) == m.completed >= e.completed /\ Marked(m) >= Marked(e)
Bounded(m) == m.pending => m.completed < Len(Bundle)

RunInv(p) ==
  LET m == memory[p] IN
  /\ Bounded(m)
  /\ pc[p] \notin {"idle", "fail"} => Agrees(m, receipt.evidence)
  /\ pc[p] = "fail" => Covers(m, receipt.evidence)
  /\ pc[p] \in {"preflight", "operation"} /\ m.pending => ReconcilePending(m)
  /\ pc[p] = "call" => m.pending /\ ~Happened(m.completed + 1)
  /\ pc[p] = "readback" => m.completed < Len(Bundle)

IInv ==
  /\ TypeOK
  /\ AtMostOnce
  /\ WriteAhead
  /\ Bounded(receipt.evidence)
  /\ \A p \in Procs : (pc[p] # "idle" <=> holder = p) /\ (holder = p => RunInv(p))

(* Operations that the receipt says are verified have a result each: as    *)
(* many items of a content are on the board as operations claim to have    *)
(* made one, so none was taken for the result of two.                      *)
VerifiedBacked ==
  \A c \in Contents :
    Cardinality({i \in Equal(c) : i <= receipt.evidence.completed}) <= ItemsOf(c)

(* If the announced document, diagram or comment was made and nobody else  *)
(* has edited the board, the receipt can be resumed and its result found.  *)
Recoverable ==
  LET e == receipt.evidence
  IN  (holder = None /\ edits = 0 /\ ~SearchOnly /\ ReconcilePending(e)
         /\ made[e.completed + 1] = 1)
        => Resumable /\ PreflightAccepted(e) /\ Candidates(e) = 1

(* Reconciliation finds what an operation has made and nothing else: never *)
(* another operation's item, and its own whenever that can be told apart.  *)
ResultsFound == VerifiedBacked /\ Recoverable

(* No write of a receipt, by whichever run, forgets a verified operation   *)
(* or the announcement of one that has not been verified since.            *)
ProgressKept ==
  [][/\ receipt'.evidence.completed >= receipt.evidence.completed
     /\ Marked(receipt'.evidence) >= Marked(receipt.evidence)]_vars

(* Every run ends and gives the board lock back.                           *)
RunsEnd == \A p \in Procs : holder = p ~> holder # p

(* The executor's test of its failure receipt, on resumed runs as well: a  *)
(* failure receipt that lists a verified mutation says that there was one. *)
PartialMutationTrue ==
  LET e == receipt.evidence
  IN  receipt.state = "failed" /\ (\E i \in 1..e.completed : Kind(i) # "read")
        => e.attempted

=============================================================================
