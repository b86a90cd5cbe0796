--------------------------- MODULE LiveApplyProofs ---------------------------
(***************************************************************************)
(* Theorems about LiveApply for every set of processes, authorizations,    *)
(* slots and plans, with crashes, lost and late replies and foreign edits, *)
(* and about Regie, whose servers run it.                                  *)
(***************************************************************************)
EXTENDS ReviewSession, LiveApplyRefinement, TLAPS

-----------------------------------------------------------------------------
(* Types of the values the actions build.                                  *)

(* The reviewed revision is a board.                                       *)
LEMMA BaseType == Base \in Boards
  BY DEF Base, Boards, Texts

(* The initial journal, receipt and authorization have their types.        *)
LEMMA InitialTypes ==
  NoJournal \in Journals /\ NoReceipt \in Receipts /\ NoAuth \in Auths
  BY BaseType, PlanAssumption
     DEF NoJournal, Journals, JournalStatus, NoReceipt, Receipts, NoAuth

(* Replacing texts yields a board.                                         *)
LEMMA PutType ==
  ASSUME NEW b \in Boards, NEW S, NEW t \in Texts
  PROVE  Put(b, S, t) \in Boards
  BY DEF Put, Boards

(* A plan is a non-empty sequence of slots.                                *)
LEMMA PlanType ==
  ASSUME NEW a \in Auths
  PROVE  /\ Len(Plan[a]) \in Nat /\ Len(Plan[a]) > 0
         /\ Ops(a) = 1..Len(Plan[a])
         /\ \A i \in Ops(a) : Plan[a][i] \in Slots
  BY PlanAssumption DEF Ops

(* Assigning fields of a journal, as the actions do, yields a journal.     *)
LEMMA JournalUpdates ==
  ASSUME NEW j \in Journals
  PROVE  /\ \A s \in JournalStatus : [j EXCEPT !.status = s] \in Journals
         /\ \A s \in JournalStatus, n \in Nat :
              [j EXCEPT !.status = s, !.applied = n] \in Journals
         /\ \A b \in Boards : /\ [j EXCEPT !.beforeDsl = b] \in Journals
                              /\ [j EXCEPT !.afterDsl = b] \in Journals
                              /\ [j EXCEPT !.after = b] \in Journals
         /\ \A w \in {"provider", "mismatch"} :
              [j EXCEPT !.restoreFailure = w] \in Journals
  BY DEF Journals

(* Receipts of success and of failure bind their journal.                  *)
LEMMA ReceiptType ==
  ASSUME NEW j \in Journals
  PROVE  /\ Success(j) \in Receipts
         /\ \A m, r, o \in BOOLEAN : Failures(m, r, o, j) \subseteq Receipts
  BY DEF Receipts, Success, Failures

(* What a receipt of success says.                                         *)
LEMMA SuccessFields ==
  ASSUME NEW j
  PROVE  Success(j).result = "ok" /\ Success(j).journal = j
  BY DEF Success

-----------------------------------------------------------------------------
(* Type correctness.  An operation index is used as an index of the plan,  *)
(* hence IndexOK.                                                          *)

(* The end of a command leaves its variables typed.                        *)
LEMMA FinishType ==
  ASSUME TypeOK, NEW p \in Procs,
         NEW how \in {"none", "rejected", "replayed", "done", "failed"}, Finish(p, how)
  PROVE  /\ pc' \in [Procs -> PCs]
         /\ cmd' \in [Procs -> Commands]
         /\ auth' \in [Procs -> Auths]
         /\ mem' \in [Procs -> Journals]
         /\ sent' \in [Procs -> Nat]
         /\ todo' \in [Procs -> SUBSET Nat]
         /\ out' \in [Procs -> Receipts]
         /\ answer' \in [Procs -> {"none", "rejected", "replayed", "done", "failed"}]
  BY InitialTypes DEF TypeOK, Finish, Goto, PCs, Commands

(* Every step keeps the types.                                             *)
LEMMA TypeStep ==
  ASSUME TypeOK, IndexOK, [Next]_vars
  PROVE  TypeOK'
  <1> USE DEF TypeOK, At, Goto, provider, environment, receipts, files,
      command, locals, history, PCs, ApplyPCs, RestorePCs, RepairPCs, PersistPCs
  <1>1. ASSUME NEW p \in Procs, NEW a \in Auths, StartApply(p, a) PROVE TypeOK'
    BY <1>1, InitialTypes DEF StartApply, Begin, Commands
  <1>2. ASSUME NEW p \in Procs, Reserve(p) PROVE TypeOK'
    BY <1>2 DEF Reserve
  <1>3. ASSUME NEW p \in Procs, AnswerExisting(p) PROVE TypeOK'
    BY <1>3, FinishType DEF AnswerExisting
  <1>4. ASSUME NEW p \in Procs, WriteReserved(p) PROVE TypeOK'
    <2>1. [mem[p] EXCEPT !.status = "reserved"] \in Journals
      BY JournalUpdates DEF JournalStatus
    <2> QED
      BY <1>4, <2>1 DEF WriteReserved, WriteJournal, Remember
  <1>5. ASSUME NEW p \in Procs, SnapshotBefore(p) PROVE TypeOK'
    BY <1>5 DEF SnapshotBefore
  <1>6. ASSUME NEW p \in Procs, ReadBefore(p) PROVE TypeOK'
    <2>1. [mem[p] EXCEPT !.beforeDsl = board] \in Journals
      BY JournalUpdates
    <2>2. mem' \in [Procs -> Journals]
      <3>1. \/ mem' = [mem EXCEPT ![p] = [mem[p] EXCEPT !.beforeDsl = board]]
            \/ mem' = mem
        BY <1>6 DEF ReadBefore, Remember
      <3> QED
        BY <2>1, <3>1
    <2>3. PICK l \in {"write_prepared", "write_preflight_failed"} : pc' = [pc EXCEPT ![p] = l]
      BY <1>6 DEF ReadBefore
    <2>4. UNCHANGED <<provider, environment, files, command, sent, todo, out,
                      answer, history>>
      BY <1>6 DEF ReadBefore
    <2> QED
      BY <2>2, <2>3, <2>4
  <1>7. ASSUME NEW p \in Procs, WritePreflightFailed(p) PROVE TypeOK'
    <2>1. [mem[p] EXCEPT !.status = "preflight_failed"] \in Journals
      BY JournalUpdates DEF JournalStatus
    <2>2. Failures(FALSE, FALSE, TRUE, NoJournal) \subseteq Receipts
      BY InitialTypes, ReceiptType
    <2> QED
      BY <1>7, <2>1, <2>2 DEF WritePreflightFailed, WriteJournal, Remember, Issue
  <1>8. ASSUME NEW p \in Procs, WritePrepared(p) PROVE TypeOK'
    <2>1. [mem[p] EXCEPT !.status = "prepared"] \in Journals
      BY JournalUpdates DEF JournalStatus
    <2> QED
      BY <1>8, <2>1 DEF WritePrepared, WriteJournal, Remember
  <1>9. ASSUME NEW p \in Procs, CheckOperation(p) PROVE TypeOK'
    BY <1>9 DEF CheckOperation
  <1>10. ASSUME NEW p \in Procs, ReplaceOperation(p) PROVE TypeOK'
    <2>1. \A s \in Slots, from \in Texts, to \in Texts, reply \in Replies :
           Replace(s, from, to, reply) => board' \in Boards /\ late' \subseteq Replacements
      BY PutType DEF Replace, Replacements
    <2>2. Plan[auth[p]][sent[p] + 1] \in Slots
      BY <1>10, PlanType DEF IndexOK, ReplaceOperation, At
    <2>3. "old" \in Texts /\ "new" \in Texts
      BY DEF Texts
    <2>4. board' \in Boards /\ late' \subseteq Replacements
      BY <1>10, <2>1, <2>2, <2>3 DEF ReplaceOperation
    <2>5. \E l \in {"write_applying", "repair_read"} : pc' = [pc EXCEPT ![p] = l]
      BY <1>10 DEF ReplaceOperation
    <2>6. sent' \in [Procs -> Nat]
      BY <1>10, <2>4 DEF ReplaceOperation
    <2>7. calls' \in [Auths -> Nat]
      BY <1>10, <2>4 DEF ReplaceOperation
    <2>8. overrun' \in [Procs -> Nat]
      BY <1>10, <2>4 DEF ReplaceOperation
    <2> QED
      BY <1>10, <2>4, <2>5, <2>6, <2>7, <2>8 DEF ReplaceOperation
  <1>11. ASSUME NEW p \in Procs, WriteApplying(p) PROVE TypeOK'
    <2> DEFINE j == [mem[p] EXCEPT !.status = "applying", !.applied = sent[p]]
    <2>1. j \in Journals
      BY JournalUpdates DEF JournalStatus
    <2>2. /\ mem' = [mem EXCEPT ![p] = j]
          /\ journal' = [journal EXCEPT ![auth[p]] = j] \/ journal' = journal
          /\ UNCHANGED <<reserved, receipts>>
      BY <1>11 DEF WriteApplying, WriteJournal, Remember
    <2>3. PICK l \in {"check_operation", "read_after", "repair_read"} :
            pc' = [pc EXCEPT ![p] = l]
      BY <1>11 DEF WriteApplying
    <2>4. UNCHANGED <<provider, environment, command, sent, todo, out, answer, history>>
      BY <1>11 DEF WriteApplying
    <2> HIDE DEF j
    <2>5. mem' \in [Procs -> Journals] /\ journal' \in [Auths -> Journals]
      BY <2>1, <2>2
    <2> QED
      BY <2>2, <2>3, <2>4, <2>5
  <1>12. ASSUME NEW p \in Procs, ReadAfter(p) PROVE TypeOK'
    <2>1. [mem[p] EXCEPT !.afterDsl = board] \in Journals
      BY JournalUpdates
    <2>2. mem' \in [Procs -> Journals]
      <3>1. \/ mem' = [mem EXCEPT ![p] = [mem[p] EXCEPT !.afterDsl = board]]
            \/ mem' = mem
        BY <1>12 DEF ReadAfter, Remember
      <3> QED
        BY <2>1, <3>1
    <2>3. PICK l \in {"snapshot_after", "repair_read"} : pc' = [pc EXCEPT ![p] = l]
      BY <1>12 DEF ReadAfter
    <2>4. UNCHANGED <<provider, environment, files, command, sent, todo, out,
                      answer, history>>
      BY <1>12 DEF ReadAfter
    <2> QED
      BY <2>2, <2>3, <2>4
  <1>13. ASSUME NEW p \in Procs, SnapshotAfter(p) PROVE TypeOK'
    <2>1. [mem[p] EXCEPT !.after = board] \in Journals
      BY JournalUpdates
    <2>2. mem' \in [Procs -> Journals]
      <3>1. \/ mem' = [mem EXCEPT ![p] = [mem[p] EXCEPT !.after = board]]
            \/ mem' = mem
        BY <1>13 DEF SnapshotAfter, Remember
      <3> QED
        BY <2>1, <3>1
    <2>3. PICK l \in {"write_committed", "repair_read"} : pc' = [pc EXCEPT ![p] = l]
      BY <1>13 DEF SnapshotAfter
    <2>4. UNCHANGED <<provider, environment, files, command, sent, todo, out,
                      answer, history>>
      BY <1>13 DEF SnapshotAfter
    <2> QED
      BY <2>2, <2>3, <2>4
  <1>14. ASSUME NEW p \in Procs, WriteCommitted(p) PROVE TypeOK'
    <2>1. [mem[p] EXCEPT !.status = "committed"] \in Journals
      BY JournalUpdates DEF JournalStatus
    <2>2. Success([mem[p] EXCEPT !.status = "committed"]) \in Receipts
      BY <2>1, ReceiptType
    <2> QED
      BY <1>14, <2>1, <2>2 DEF WriteCommitted, WriteJournal, Remember, Issue
  <1>15. ASSUME NEW p \in Procs, NEW a \in Auths, StartRestore(p, a) PROVE TypeOK'
    BY <1>15 DEF StartRestore, Begin, Commands
  <1>16. ASSUME NEW p \in Procs, NEW a \in Auths, AnswerRestore(p, a) PROVE TypeOK'
    BY <1>16, FinishType DEF AnswerRestore
  <1>17. ASSUME NEW p \in Procs, SnapshotCurrent(p) PROVE TypeOK'
    BY <1>17, FinishType DEF SnapshotCurrent
  <1>18. ASSUME NEW p \in Procs, ReadCurrent(p) PROVE TypeOK'
    BY <1>18, FinishType DEF ReadCurrent
  <1>19. ASSUME NEW p \in Procs, InverseOperation(p) PROVE TypeOK'
    <2>1. \A w \in {"provider", "mismatch"} : [mem[p] EXCEPT !.restoreFailure = w] \in Journals
      BY JournalUpdates
    <2>2. \A s \in Slots, from \in Texts, to \in Texts, reply \in Replies :
           Replace(s, from, to, reply) => board' \in Boards /\ late' \subseteq Replacements
      BY PutType DEF Replace, Replacements
    <2>3. Plan[auth[p]][Len(Plan[auth[p]]) - sent[p]] \in Slots
      BY <1>19, PlanType DEF IndexOK, InverseOperation, At
    <2>4. "old" \in Texts /\ "new" \in Texts
      BY DEF Texts
    <2>5. board' \in Boards /\ late' \subseteq Replacements
      BY <1>19, <2>2, <2>3, <2>4 DEF InverseOperation
    <2>6. \E l \in {"inverse", "read_restored", "repair_read"} :
            pc' = [pc EXCEPT ![p] = l]
      BY <1>19 DEF InverseOperation, RestoreFails
    <2>7. sent' \in [Procs -> Nat]
      BY <1>19, <2>5, <2>1 DEF InverseOperation, RestoreFails, Remember
    <2>8. mem' \in [Procs -> Journals]
      BY <1>19, <2>5, <2>1 DEF InverseOperation, WriteJournal, Remember, RestoreFails, Remember
    <2> QED
      BY <1>19, <2>5, <2>1, <2>6, <2>7, <2>8 DEF InverseOperation
  <1>20. ASSUME NEW p \in Procs, ReadRestored(p) PROVE TypeOK'
    <2>1. \A w \in {"provider", "mismatch"} :
            [mem[p] EXCEPT !.restoreFailure = w] \in Journals
      BY JournalUpdates
    <2>2. mem' \in [Procs -> Journals]
      BY <1>20, <2>1 DEF ReadRestored, Remember, RestoreFails
    <2>3. PICK l \in {"snapshot_restored", "repair_read"} : pc' = [pc EXCEPT ![p] = l]
      BY <1>20 DEF ReadRestored, RestoreFails
    <2>4. UNCHANGED <<provider, environment, files, command, sent, todo, out,
                      answer, history>>
      BY <1>20 DEF ReadRestored
    <2> QED
      BY <2>2, <2>3, <2>4
  <1>21. ASSUME NEW p \in Procs, SnapshotRestored(p) PROVE TypeOK'
    <2>1. \A w \in {"provider", "mismatch"} :
            [mem[p] EXCEPT !.restoreFailure = w] \in Journals
      BY JournalUpdates
    <2>2. mem' \in [Procs -> Journals]
      BY <1>21, <2>1 DEF SnapshotRestored, Remember, RestoreFails
    <2>3. PICK l \in {"write_restored", "repair_read"} : pc' = [pc EXCEPT ![p] = l]
      BY <1>21 DEF SnapshotRestored, RestoreFails
    <2>4. UNCHANGED <<provider, environment, files, command, sent, todo, out,
                      answer, history>>
      BY <1>21 DEF SnapshotRestored
    <2> QED
      BY <2>2, <2>3, <2>4
  <1>22. ASSUME NEW p \in Procs, WriteRestored(p) PROVE TypeOK'
    <2>1. [mem[p] EXCEPT !.status = "restored"] \in Journals
      BY JournalUpdates DEF JournalStatus
    <2>2. Success([mem[p] EXCEPT !.status = "restored"]) \in Receipts
      BY <2>1, ReceiptType
    <2> QED
      BY <1>22, <2>1, <2>2 DEF WriteRestored, WriteJournal, Remember, Issue
  <1>23. ASSUME NEW p \in Procs, RepairRead(p) PROVE TypeOK'
    <2>1. Ops(auth[p]) \subseteq Nat
      <3>1. auth[p] \in Auths
        OBVIOUS
      <3>2. Ops(auth[p]) = 1..Len(Plan[auth[p]]) /\ Len(Plan[auth[p]]) \in Nat
        BY <3>1, PlanType
      <3> QED
        BY <3>2
    <2>2. \E S \in SUBSET Nat : todo' = [todo EXCEPT ![p] = S] \/ todo' = todo
      <3> DEFINE wrong == {i \in Ops(auth[p]) : board.text[Plan[auth[p]][i]] = WrongText(p)}
      <3>1. wrong \in SUBSET Nat
        BY <2>1
      <3>2. todo' = [todo EXCEPT ![p] = wrong] \/ todo' = todo
        BY <1>23 DEF RepairRead
      <3> QED
        BY <3>1, <3>2
    <2>3. pc' \in [Procs -> PCs]
      BY <1>23, <2>1, <2>2 DEF RepairRead
    <2>4. UNCHANGED <<provider, environment, files, command, mem, sent, out,
                      answer, history>>
      BY <1>23 DEF RepairRead
    <2>5. todo' \in [Procs -> SUBSET Nat]
      BY <2>2
    <2> QED
      BY <2>3, <2>4, <2>5
  <1>24. ASSUME NEW p \in Procs, RepairReplace(p) PROVE TypeOK'
    <2>1. \A s \in Slots, from \in Texts, to \in Texts, reply \in Replies :
           Replace(s, from, to, reply) => board' \in Boards /\ late' \subseteq Replacements
      BY PutType DEF Replace, Replacements
    <2>2. WrongText(p) \in Texts /\ GoalText(p) \in Texts
      BY DEF WrongText, GoalText, Texts
    <2>3. \A i \in todo[p] : Plan[auth[p]][i] \in Slots
      BY PlanType DEF IndexOK
    <2>4. board' \in Boards /\ late' \subseteq Replacements
      BY <1>24, <2>1, <2>2, <2>3 DEF RepairReplace
    <2> QED
      BY <1>24, <2>4 DEF RepairReplace
  <1>25. ASSUME NEW p \in Procs, RepairVerify(p) PROVE TypeOK'
    BY <1>25 DEF RepairVerify
  <1>26. ASSUME NEW p \in Procs, RepairSnapshot(p) PROVE TypeOK'
    BY <1>26 DEF RepairSnapshot
  <1>27. ASSUME NEW p \in Procs, WriteRepairOutcome(p) PROVE TypeOK'
    <2> DEFINE j == [mem[p] EXCEPT !.status = RepairStatus(cmd[p], At(p, "write_repaired"))]
    <2>1. j \in Journals
      BY JournalUpdates DEF JournalStatus, RepairStatus
    <2> DEFINE bound == IF cmd[p] = "apply" THEN NoJournal ELSE j
               mutated == sent[p] > 0
               repaired == At(p, "write_repaired")
               ofProvider == mem[p].restoreFailure # "mismatch" \/ ~repaired
               F == Failures(mutated, repaired, ofProvider, bound)
    <2>2. /\ mutated \in BOOLEAN /\ repaired \in BOOLEAN /\ ofProvider \in BOOLEAN
          /\ bound \in Journals
      BY <2>1, InitialTypes DEF At
    <2>3. PICK r \in F : Issue(p, r)
      BY <1>27 DEF WriteRepairOutcome
    <2> HIDE DEF bound, mutated, repaired, ofProvider
    <2>4. F \subseteq Receipts
      BY <2>2, ReceiptType
    <2>5. r \in Receipts
      BY <2>3, <2>4
    <2> USE DEF mutated, repaired, ofProvider, bound
    <2> HIDE DEF F
    <2>6. pc' \in [Procs -> PCs]
      BY <1>27, <2>1 DEF WriteRepairOutcome
    <2>7. mem' \in [Procs -> Journals]
      BY <1>27, <2>1 DEF WriteRepairOutcome, WriteJournal, Remember
    <2>8. journal' \in [Auths -> Journals]
      BY <1>27, <2>1 DEF WriteRepairOutcome, WriteJournal, files
    <2>9. out' \in [Procs -> Receipts]
      BY <2>3, <2>5 DEF Issue
    <2>10. todo' \in [Procs -> SUBSET Nat]
      BY <1>27, <2>1 DEF WriteRepairOutcome
    <2> QED
      BY <1>27, <2>6, <2>7, <2>8, <2>9, <2>10 DEF WriteRepairOutcome, WriteJournal, Remember
  <1>28. ASSUME NEW p \in Procs, PersistCanonical(p) PROVE TypeOK'
    BY <1>28 DEF PersistCanonical
  <1>29. ASSUME NEW p \in Procs, PersistRequested(p) PROVE TypeOK'
    BY <1>29, FinishType DEF PersistRequested
  <1>30. ASSUME NEW p \in Procs, Crash(p) PROVE TypeOK'
    BY <1>30, FinishType DEF Crash
  <1>31. ASSUME EnableKillSwitch PROVE TypeOK'
    BY <1>31 DEF EnableKillSwitch
  <1>32. ASSUME DisableKillSwitch PROVE TypeOK'
    BY <1>32 DEF DisableKillSwitch
  <1>33. ASSUME Tick PROVE TypeOK'
    BY <1>33, BoundAssumption DEF Tick
  <1>34. ASSUME ExternalEdit PROVE TypeOK'
    <2>1. [board EXCEPT !.rest = edits + 1] \in Boards
      BY DEF Boards
    <2>2. board' \in Boards
      <3>1. \A s \in Slots : Put(board, {s}, "other") \in Boards
        BY PutType DEF Texts
      <3> QED
        BY <1>34, <2>1, <3>1 DEF ExternalEdit
    <2>3. edits' \in 0..MaxEdits
      BY <1>34, BoundAssumption DEF ExternalEdit
    <2> QED
      BY <1>34, <2>2, <2>3 DEF ExternalEdit
  <1>35. ASSUME LateEffect PROVE TypeOK'
    <2>1. board' \in Boards /\ late' \subseteq Replacements
      BY <1>35, PutType DEF LateEffect, Replacements
    <2> QED
      BY <1>35, <2>1 DEF LateEffect
  <1>36. CASE UNCHANGED vars
    BY <1>36 DEF vars
  <1> QED
    BY <1>1, <1>2, <1>3, <1>4, <1>5, <1>6, <1>7, <1>8, <1>9, <1>10, <1>11, <1>12, <1>13, <1>14, <1>15, <1>16, <1>17, <1>18, <1>19, <1>20, <1>21, <1>22, <1>23, <1>24, <1>25, <1>26, <1>27, <1>28, <1>29, <1>30, <1>31, <1>32, <1>33, <1>34, <1>35, <1>36
    DEF Next, Start, Continue, ApplyStep, RestoreStep, SharedStep, Surroundings

-----------------------------------------------------------------------------
(* A step of p within its command keeps the indices if it only moves on to *)
(* a label whose condition holds.                                          *)
LEMMA IndexFrame ==
  ASSUME TypeOK, IndexOK, NEW p \in Procs, NEW l \in PCs,
         pc' = [pc EXCEPT ![p] = l], UNCHANGED <<auth, todo>>,
         \A q \in Procs \ {p} : sent'[q] = sent[q],
         l \notin RepairPCs => todo[p] = {},
         l \in {"check_operation", "replace", "inverse"} => sent'[p] < Len(Plan[auth[p]]),
         l \notin {"idle", "reserve", "write_reserved", "snapshot_before", "read_before",
                   "write_prepared", "snapshot_current", "read_current"}
  PROVE  IndexOK'
  BY DEF TypeOK, IndexOK

(* Every step keeps the indices within the plan.                           *)
LEMMA IndexStep ==
  ASSUME TypeOK, IndexOK, [Next]_vars
  PROVE  IndexOK'
  <1> USE DEF TypeOK, IndexOK, ApplyPCs, RestorePCs, RepairPCs, PersistPCs, At,
      Goto, provider, environment, receipts, files, command, locals,
      history
  <1>1. ASSUME NEW p \in Procs, NEW a \in Auths, StartApply(p, a) PROVE IndexOK'
    BY <1>1, PlanType DEF StartApply, Begin
  <1>2. ASSUME NEW p \in Procs, Reserve(p) PROVE IndexOK'
    BY <1>2, PlanType DEF Reserve
  <1>3. ASSUME NEW p \in Procs, AnswerExisting(p) PROVE IndexOK'
    BY <1>3, PlanType DEF AnswerExisting, Finish
  <1>4. ASSUME NEW p \in Procs, WriteReserved(p) PROVE IndexOK'
    BY <1>4, PlanType DEF WriteReserved, WriteJournal, Remember
  <1>5. ASSUME NEW p \in Procs, SnapshotBefore(p) PROVE IndexOK'
    BY <1>5, PlanType DEF SnapshotBefore
  <1>6. ASSUME NEW p \in Procs, ReadBefore(p) PROVE IndexOK'
    BY <1>6, PlanType DEF ReadBefore, Remember
  <1>7. ASSUME NEW p \in Procs, WritePreflightFailed(p) PROVE IndexOK'
    BY <1>7, PlanType DEF WritePreflightFailed, WriteJournal, Remember, Issue
  <1>8. ASSUME NEW p \in Procs, WritePrepared(p) PROVE IndexOK'
    BY <1>8, PlanType DEF WritePrepared, WriteJournal, Remember
  <1>9. ASSUME NEW p \in Procs, CheckOperation(p) PROVE IndexOK'
    BY <1>9, PlanType DEF CheckOperation
  <1>10. ASSUME NEW p \in Procs, ReplaceOperation(p) PROVE IndexOK'
    <2>1. PICK l \in {"write_applying", "repair_read"} : pc' = [pc EXCEPT ![p] = l]
      BY <1>10 DEF ReplaceOperation, Goto
    <2>2. /\ UNCHANGED <<auth, todo>>
          /\ \A q \in Procs \ {p} : sent'[q] = sent[q]
      BY <1>10 DEF ReplaceOperation, command, TypeOK
    <2>3. l \in PCs /\ todo[p] = {}
      BY <1>10 DEF ReplaceOperation, At, IndexOK, PCs, ApplyPCs, RestorePCs, RepairPCs
    <2> QED
      BY <2>1, <2>2, <2>3, IndexFrame
  <1>11. ASSUME NEW p \in Procs, WriteApplying(p) PROVE IndexOK'
    <2>1. PICK l \in {"check_operation", "read_after", "repair_read"} : pc' = [pc EXCEPT ![p] = l]
      BY <1>11 DEF WriteApplying, Goto
    <2>2. /\ UNCHANGED <<auth, todo>>
          /\ \A q \in Procs \ {p} : sent'[q] = sent[q]
      BY <1>11 DEF WriteApplying, command, TypeOK
    <2>3. l \in PCs /\ todo[p] = {}
      BY <1>11 DEF WriteApplying, At, IndexOK, PCs, ApplyPCs, RestorePCs, RepairPCs
    <2>4. l = "check_operation" => sent'[p] < Len(Plan[auth[p]])
      BY <1>11, <2>1 DEF WriteApplying, Goto, TypeOK
    <2> QED
      BY <2>1, <2>2, <2>3, <2>4, IndexFrame
  <1>12. ASSUME NEW p \in Procs, ReadAfter(p) PROVE IndexOK'
    <2>1. PICK l \in {"snapshot_after", "repair_read"} : pc' = [pc EXCEPT ![p] = l]
      BY <1>12 DEF ReadAfter, Goto
    <2>2. /\ UNCHANGED <<auth, todo>>
          /\ \A q \in Procs \ {p} : sent'[q] = sent[q]
      BY <1>12 DEF ReadAfter, command, TypeOK
    <2>3. l \in PCs /\ todo[p] = {}
      BY <1>12 DEF ReadAfter, At, IndexOK, PCs, ApplyPCs, RestorePCs, RepairPCs
    <2> QED
      BY <2>1, <2>2, <2>3, IndexFrame
  <1>13. ASSUME NEW p \in Procs, SnapshotAfter(p) PROVE IndexOK'
    <2>1. PICK l \in {"write_committed", "repair_read"} : pc' = [pc EXCEPT ![p] = l]
      BY <1>13 DEF SnapshotAfter, Goto
    <2>2. /\ UNCHANGED <<auth, todo>>
          /\ \A q \in Procs \ {p} : sent'[q] = sent[q]
      BY <1>13 DEF SnapshotAfter, command, TypeOK
    <2>3. l \in PCs /\ todo[p] = {}
      BY <1>13 DEF SnapshotAfter, At, IndexOK, PCs, ApplyPCs, RestorePCs, RepairPCs
    <2> QED
      BY <2>1, <2>2, <2>3, IndexFrame
  <1>14. ASSUME NEW p \in Procs, WriteCommitted(p) PROVE IndexOK'
    BY <1>14, PlanType DEF WriteCommitted, WriteJournal, Remember, Issue
  <1>15. ASSUME NEW p \in Procs, NEW a \in Auths, StartRestore(p, a) PROVE IndexOK'
    BY <1>15, PlanType DEF StartRestore, Begin
  <1>16. ASSUME NEW p \in Procs, NEW a \in Auths, AnswerRestore(p, a) PROVE IndexOK'
    BY <1>16, PlanType DEF AnswerRestore, Finish
  <1>17. ASSUME NEW p \in Procs, SnapshotCurrent(p) PROVE IndexOK'
    BY <1>17, PlanType DEF SnapshotCurrent, Finish
  <1>18. ASSUME NEW p \in Procs, ReadCurrent(p) PROVE IndexOK'
    BY <1>18, PlanType DEF ReadCurrent, Finish
  <1>19. ASSUME NEW p \in Procs, InverseOperation(p) PROVE IndexOK'
    <2>1. PICK l \in {"inverse", "read_restored", "repair_read"} : pc' = [pc EXCEPT ![p] = l]
      BY <1>19 DEF InverseOperation, Goto, RestoreFails
    <2>2. /\ UNCHANGED <<auth, todo>>
          /\ \A q \in Procs \ {p} : sent'[q] = sent[q]
      BY <1>19 DEF InverseOperation, command, TypeOK
    <2>3. l \in PCs /\ todo[p] = {}
      BY <1>19 DEF InverseOperation, At, IndexOK, PCs, ApplyPCs, RestorePCs, RepairPCs
    <2>4. l = "inverse" => sent'[p] < Len(Plan[auth[p]])
      BY <1>19, <2>1 DEF InverseOperation, Goto, RestoreFails, TypeOK
    <2> QED
      BY <2>1, <2>2, <2>3, <2>4, IndexFrame
  <1>20. ASSUME NEW p \in Procs, ReadRestored(p) PROVE IndexOK'
    <2>1. PICK l \in {"snapshot_restored", "repair_read"} : pc' = [pc EXCEPT ![p] = l]
      BY <1>20 DEF ReadRestored, Goto, RestoreFails
    <2>2. /\ UNCHANGED <<auth, todo>>
          /\ \A q \in Procs \ {p} : sent'[q] = sent[q]
      BY <1>20 DEF ReadRestored, command, TypeOK
    <2>3. l \in PCs /\ todo[p] = {}
      BY <1>20 DEF ReadRestored, At, IndexOK, PCs, ApplyPCs, RestorePCs, RepairPCs
    <2> QED
      BY <2>1, <2>2, <2>3, IndexFrame
  <1>21. ASSUME NEW p \in Procs, SnapshotRestored(p) PROVE IndexOK'
    <2>1. PICK l \in {"write_restored", "repair_read"} : pc' = [pc EXCEPT ![p] = l]
      BY <1>21 DEF SnapshotRestored, Goto, RestoreFails
    <2>2. /\ UNCHANGED <<auth, todo>>
          /\ \A q \in Procs \ {p} : sent'[q] = sent[q]
      BY <1>21 DEF SnapshotRestored, command, TypeOK
    <2>3. l \in PCs /\ todo[p] = {}
      BY <1>21 DEF SnapshotRestored, At, IndexOK, PCs, ApplyPCs, RestorePCs, RepairPCs
    <2> QED
      BY <2>1, <2>2, <2>3, IndexFrame
  <1>22. ASSUME NEW p \in Procs, WriteRestored(p) PROVE IndexOK'
    BY <1>22, PlanType DEF WriteRestored, WriteJournal, Remember, Issue
  <1>23. ASSUME NEW p \in Procs, RepairReplace(p) PROVE IndexOK'
    BY <1>23, PlanType DEF RepairReplace
  <1>24. ASSUME NEW p \in Procs, RepairVerify(p) PROVE IndexOK'
    <2>1. PICK l \in {"repair_snapshot", "write_unrepaired"} : pc' = [pc EXCEPT ![p] = l]
      BY <1>24 DEF RepairVerify, Goto
    <2>2. UNCHANGED <<auth, todo, sent>>
      BY <1>24 DEF RepairVerify, locals, command
    <2>3. l \in PCs /\ l \in RepairPCs
      BY DEF PCs, RepairPCs
    <2> QED
      BY <2>1, <2>2, <2>3, IndexFrame DEF RepairPCs
  <1>25. ASSUME NEW p \in Procs, RepairSnapshot(p) PROVE IndexOK'
    <2>1. PICK l \in {"write_repaired", "write_unrepaired"} : pc' = [pc EXCEPT ![p] = l]
      BY <1>25 DEF RepairSnapshot, Goto
    <2>2. UNCHANGED <<auth, todo, sent>>
      BY <1>25 DEF RepairSnapshot, locals, command
    <2>3. l \in PCs /\ l \in RepairPCs
      BY DEF PCs, RepairPCs
    <2> QED
      BY <2>1, <2>2, <2>3, IndexFrame DEF RepairPCs
  <1>26. ASSUME NEW p \in Procs, WriteRepairOutcome(p) PROVE IndexOK'
    BY <1>26, PlanType DEF WriteRepairOutcome, WriteJournal, Remember, Issue
  <1>27. ASSUME NEW p \in Procs, PersistCanonical(p) PROVE IndexOK'
    BY <1>27, PlanType DEF PersistCanonical
  <1>28. ASSUME NEW p \in Procs, PersistRequested(p) PROVE IndexOK'
    BY <1>28, PlanType DEF PersistRequested, Finish
  <1>29. ASSUME NEW p \in Procs, Crash(p) PROVE IndexOK'
    BY <1>29, PlanType DEF Crash, Finish
  <1>30. ASSUME EnableKillSwitch PROVE IndexOK'
    BY <1>30, PlanType DEF EnableKillSwitch
  <1>31. ASSUME DisableKillSwitch PROVE IndexOK'
    BY <1>31, PlanType DEF DisableKillSwitch
  <1>32. ASSUME Tick PROVE IndexOK'
    BY <1>32, PlanType DEF Tick
  <1>33. ASSUME ExternalEdit PROVE IndexOK'
    BY <1>33, PlanType DEF ExternalEdit
  <1>34. ASSUME LateEffect PROVE IndexOK'
    BY <1>34, PlanType DEF LateEffect
  <1>35. CASE UNCHANGED vars
    BY <1>35 DEF vars
  <1> HIDE DEF TypeOK, IndexOK, ApplyPCs, RestorePCs, RepairPCs, PersistPCs, At,
      Goto, provider, environment, receipts, files, command, locals,
      history
  <1>36. ASSUME NEW p \in Procs, RepairRead(p) PROVE IndexOK'
    <2>1. \E S \in SUBSET Ops(auth[p]) : todo' = [todo EXCEPT ![p] = S] \/ todo' = todo
      <3> DEFINE wrong == {i \in Ops(auth[p]) : board.text[Plan[auth[p]][i]] = WrongText(p)}
      <3>1. wrong \in SUBSET Ops(auth[p])
        OBVIOUS
      <3>2. todo' = [todo EXCEPT ![p] = wrong] \/ todo' = todo
        BY <1>36 DEF RepairRead
      <3> QED
        BY <3>1, <3>2
    <2>2. \E l \in {"repair_verify", "repair_replace", "write_unrepaired"} :
            pc' = [pc EXCEPT ![p] = l]
      BY <1>36 DEF RepairRead, Goto
    <2> QED
      BY <1>36, <2>1, <2>2 DEF RepairRead, At, command, TypeOK, IndexOK, RepairPCs
  <1> QED
    BY <1>1, <1>2, <1>3, <1>4, <1>5, <1>6, <1>7, <1>8, <1>9, <1>10, <1>11,
       <1>12, <1>13, <1>14, <1>15, <1>16, <1>17, <1>18, <1>19, <1>20,
       <1>21, <1>22, <1>23, <1>24, <1>25, <1>26, <1>27, <1>28, <1>29,
       <1>30, <1>31, <1>32, <1>33, <1>34, <1>35, <1>36
       DEF Next, Start, Continue, ApplyStep, RestoreStep, SharedStep, Surroundings

-----------------------------------------------------------------------------
(* A step of p within its command that neither reserves nor sends forward  *)
(* nor persists keeps the reservation exclusive.                           *)
LEMMA OwnerFrame ==
  ASSUME TypeOK, Ownership, NEW p \in Procs,
         NEW l \in PCs \ {"idle", "reserve"},
         pc[p] \notin {"idle", "reserve", "persist_requested"},
         pc' = [pc EXCEPT ![p] = l],
         UNCHANGED <<cmd, auth, reserved, canonical, calls>>,
         sent' \in [Procs -> Nat], \A q \in Procs \ {p} : sent'[q] = sent[q],
         l \in ApplyPCs => cmd[p] = "apply",
         l \in RestorePCs => cmd[p] = "restore",
         l \in ForwardPCs => pc[p] \in ForwardPCs /\ sent'[p] = sent[p]
  PROVE  Ownership'
  <1>1. /\ \A q \in Procs : Owns(q)' <=> Owns(q)
        /\ \A q \in Procs \ {p} : pc'[q] = pc[q]
        /\ pc'[p] = l
    BY DEF Owns, TypeOK
  <1>2. SingleUse'
    BY DEF Ownership, SingleUse
  <1>3. \A q \in Procs : /\ pc'[q] \in ApplyPCs => cmd'[q] = "apply"
                         /\ pc'[q] \in RestorePCs => cmd'[q] = "restore"
                         /\ pc'[q] \in ForwardPCs => calls'[auth'[q]] = sent'[q]
    BY <1>1 DEF Ownership
  <1>4. \A q \in Procs : Owns(q)' /\ pc'[q] # "persist_requested" =>
                           canonical'["apply"][auth'[q]].result = "none"
    BY <1>1 DEF Ownership
  <1> QED
    BY <1>1, <1>2, <1>3, <1>4 DEF Ownership

(* Every step keeps the reservation exclusive.                             *)
LEMMA OwnerStep ==
  ASSUME TypeOK, IndexOK, Ownership, [Next]_vars
  PROVE  Ownership'
  <1> USE DEF TypeOK, IndexOK, Ownership, Owns, SingleUse, ForwardPCs, ApplyPCs,
      RestorePCs, RepairPCs, PersistPCs, At, Goto, provider, environment,
      receipts, files, command, locals, history
  <1>1. ASSUME NEW p \in Procs, NEW a \in Auths, StartApply(p, a) PROVE Ownership'
    BY <1>1, PlanType DEF StartApply, Begin
  <1>2. ASSUME NEW p \in Procs, Reserve(p) PROVE Ownership'
    BY <1>2, PlanType DEF Reserve
  <1>3. ASSUME NEW p \in Procs, AnswerExisting(p) PROVE Ownership'
    BY <1>3, PlanType DEF AnswerExisting, Finish
  <1>4. ASSUME NEW p \in Procs, NEW a \in Auths, StartRestore(p, a) PROVE Ownership'
    BY <1>4, PlanType DEF StartRestore, Begin
  <1>5. ASSUME NEW p \in Procs, NEW a \in Auths, AnswerRestore(p, a) PROVE Ownership'
    BY <1>5, PlanType DEF AnswerRestore, Finish
  <1>6. ASSUME NEW p \in Procs, PersistCanonical(p) PROVE Ownership'
    BY <1>6, PlanType DEF PersistCanonical
  <1>7. ASSUME NEW p \in Procs, PersistRequested(p) PROVE Ownership'
    BY <1>7, PlanType DEF PersistRequested, Finish
  <1>8. ASSUME NEW p \in Procs, Crash(p) PROVE Ownership'
    BY <1>8, PlanType DEF Crash, Finish
  <1>9. ASSUME EnableKillSwitch PROVE Ownership'
    BY <1>9, PlanType DEF EnableKillSwitch
  <1>10. ASSUME DisableKillSwitch PROVE Ownership'
    BY <1>10, PlanType DEF DisableKillSwitch
  <1>11. ASSUME Tick PROVE Ownership'
    BY <1>11, PlanType DEF Tick
  <1>12. ASSUME ExternalEdit PROVE Ownership'
    BY <1>12, PlanType DEF ExternalEdit
  <1>13. ASSUME LateEffect PROVE Ownership'
    BY <1>13, PlanType DEF LateEffect
  <1>14. CASE UNCHANGED vars
    BY <1>14 DEF vars
  <1> HIDE DEF TypeOK, IndexOK, Ownership, Owns, SingleUse, ForwardPCs, ApplyPCs,
      RestorePCs, RepairPCs, PersistPCs, At, Goto, provider, environment,
      receipts, files, command, locals, history
  <1>15. ASSUME NEW p \in Procs, WriteReserved(p) PROVE Ownership'
    <2>1. PICK l \in {"snapshot_before"} : pc' = [pc EXCEPT ![p] = l]
      BY <1>15 DEF WriteReserved, Goto
    <2>2. /\ l \in PCs \ {"idle", "reserve"}
          /\ pc[p] \notin {"idle", "reserve", "persist_requested"}
          /\ l \in ApplyPCs => cmd[p] = "apply"
          /\ l \in RestorePCs => cmd[p] = "restore"
          /\ l \in ForwardPCs => pc[p] \in ForwardPCs
      BY <1>15, <2>1 DEF WriteReserved, At, Ownership, ForwardPCs, PCs, ApplyPCs, RestorePCs, RepairPCs, PersistPCs
    <2>3. /\ UNCHANGED <<cmd, auth, reserved, canonical, calls>>
          /\ sent' \in [Procs -> Nat] /\ \A q \in Procs \ {p} : sent'[q] = sent[q]
          /\ l \in ForwardPCs => sent'[p] = sent[p]
      BY <1>15, <2>1 DEF WriteReserved, provider, environment, receipts, files, command, locals, history, TypeOK, WriteJournal
    <2> QED
      BY <2>1, <2>2, <2>3, OwnerFrame
  <1>16. ASSUME NEW p \in Procs, SnapshotBefore(p) PROVE Ownership'
    <2>1. PICK l \in {"read_before", "write_preflight_failed"} : pc' = [pc EXCEPT ![p] = l]
      BY <1>16 DEF SnapshotBefore, Goto
    <2>2. /\ l \in PCs \ {"idle", "reserve"}
          /\ pc[p] \notin {"idle", "reserve", "persist_requested"}
          /\ l \in ApplyPCs => cmd[p] = "apply"
          /\ l \in RestorePCs => cmd[p] = "restore"
          /\ l \in ForwardPCs => pc[p] \in ForwardPCs
      BY <1>16, <2>1 DEF SnapshotBefore, At, Ownership, ForwardPCs, PCs, ApplyPCs, RestorePCs, RepairPCs, PersistPCs
    <2>3. /\ UNCHANGED <<cmd, auth, reserved, canonical, calls>>
          /\ sent' \in [Procs -> Nat] /\ \A q \in Procs \ {p} : sent'[q] = sent[q]
          /\ l \in ForwardPCs => sent'[p] = sent[p]
      BY <1>16, <2>1 DEF SnapshotBefore, provider, environment, receipts, files, command, locals, history, TypeOK
    <2> QED
      BY <2>1, <2>2, <2>3, OwnerFrame
  <1>17. ASSUME NEW p \in Procs, ReadBefore(p) PROVE Ownership'
    <2>1. PICK l \in {"write_prepared", "write_preflight_failed"} : pc' = [pc EXCEPT ![p] = l]
      BY <1>17 DEF ReadBefore, Goto
    <2>2. /\ l \in PCs \ {"idle", "reserve"}
          /\ pc[p] \notin {"idle", "reserve", "persist_requested"}
          /\ l \in ApplyPCs => cmd[p] = "apply"
          /\ l \in RestorePCs => cmd[p] = "restore"
          /\ l \in ForwardPCs => pc[p] \in ForwardPCs
      BY <1>17, <2>1 DEF ReadBefore, At, Ownership, ForwardPCs, PCs, ApplyPCs, RestorePCs, RepairPCs, PersistPCs
    <2>3. /\ UNCHANGED <<cmd, auth, reserved, canonical, calls>>
          /\ sent' \in [Procs -> Nat] /\ \A q \in Procs \ {p} : sent'[q] = sent[q]
          /\ l \in ForwardPCs => sent'[p] = sent[p]
      BY <1>17, <2>1 DEF ReadBefore, provider, environment, receipts, files, command, locals, history, TypeOK
    <2> QED
      BY <2>1, <2>2, <2>3, OwnerFrame
  <1>18. ASSUME NEW p \in Procs, WritePreflightFailed(p) PROVE Ownership'
    <2>1. PICK l \in {"persist_canonical"} : pc' = [pc EXCEPT ![p] = l]
      BY <1>18 DEF WritePreflightFailed, Goto
    <2>2. /\ l \in PCs \ {"idle", "reserve"}
          /\ pc[p] \notin {"idle", "reserve", "persist_requested"}
          /\ l \in ApplyPCs => cmd[p] = "apply"
          /\ l \in RestorePCs => cmd[p] = "restore"
          /\ l \in ForwardPCs => pc[p] \in ForwardPCs
      BY <1>18, <2>1 DEF WritePreflightFailed, At, Ownership, ForwardPCs, PCs, ApplyPCs, RestorePCs, RepairPCs, PersistPCs
    <2>3. /\ UNCHANGED <<cmd, auth, reserved, canonical, calls>>
          /\ sent' \in [Procs -> Nat] /\ \A q \in Procs \ {p} : sent'[q] = sent[q]
          /\ l \in ForwardPCs => sent'[p] = sent[p]
      BY <1>18, <2>1 DEF WritePreflightFailed, provider, environment, receipts, files, command, locals, history, TypeOK, WriteJournal
    <2> QED
      BY <2>1, <2>2, <2>3, OwnerFrame
  <1>19. ASSUME NEW p \in Procs, WritePrepared(p) PROVE Ownership'
    <2>1. PICK l \in {"check_operation"} : pc' = [pc EXCEPT ![p] = l]
      BY <1>19 DEF WritePrepared, Goto
    <2>2. /\ l \in PCs \ {"idle", "reserve"}
          /\ pc[p] \notin {"idle", "reserve", "persist_requested"}
          /\ l \in ApplyPCs => cmd[p] = "apply"
          /\ l \in RestorePCs => cmd[p] = "restore"
          /\ l \in ForwardPCs => pc[p] \in ForwardPCs
      BY <1>19, <2>1 DEF WritePrepared, At, Ownership, ForwardPCs, PCs, ApplyPCs, RestorePCs, RepairPCs, PersistPCs
    <2>3. /\ UNCHANGED <<cmd, auth, reserved, canonical, calls>>
          /\ sent' \in [Procs -> Nat] /\ \A q \in Procs \ {p} : sent'[q] = sent[q]
          /\ l \in ForwardPCs => sent'[p] = sent[p]
      BY <1>19, <2>1 DEF WritePrepared, provider, environment, receipts, files, command, locals, history, TypeOK, WriteJournal
    <2> QED
      BY <2>1, <2>2, <2>3, OwnerFrame
  <1>20. ASSUME NEW p \in Procs, CheckOperation(p) PROVE Ownership'
    <2>1. PICK l \in {"replace", "repair_read"} : pc' = [pc EXCEPT ![p] = l]
      BY <1>20 DEF CheckOperation, Goto
    <2>2. /\ l \in PCs \ {"idle", "reserve"}
          /\ pc[p] \notin {"idle", "reserve", "persist_requested"}
          /\ l \in ApplyPCs => cmd[p] = "apply"
          /\ l \in RestorePCs => cmd[p] = "restore"
          /\ l \in ForwardPCs => pc[p] \in ForwardPCs
      BY <1>20, <2>1 DEF CheckOperation, At, Ownership, ForwardPCs, PCs, ApplyPCs, RestorePCs, RepairPCs, PersistPCs
    <2>3. /\ UNCHANGED <<cmd, auth, reserved, canonical, calls>>
          /\ sent' \in [Procs -> Nat] /\ \A q \in Procs \ {p} : sent'[q] = sent[q]
          /\ l \in ForwardPCs => sent'[p] = sent[p]
      BY <1>20, <2>1 DEF CheckOperation, provider, environment, receipts, files, command, locals, history, TypeOK
    <2> QED
      BY <2>1, <2>2, <2>3, OwnerFrame
  <1>21. ASSUME NEW p \in Procs, ReplaceOperation(p) PROVE Ownership'
    <2> DEFINE b == auth[p]
    <2>1. PICK l \in {"write_applying", "repair_read"} : pc' = [pc EXCEPT ![p] = l]
      BY <1>21 DEF ReplaceOperation, Goto
    <2>2. /\ UNCHANGED <<cmd, auth, reserved, canonical>>
          /\ sent' = [sent EXCEPT ![p] = sent[p] + 1]
          /\ calls' = [calls EXCEPT ![b] = calls[b] + 1]
      BY <1>21 DEF ReplaceOperation, provider, environment, receipts, files, command, locals, history
    <2>3. /\ pc[p] = "replace" /\ cmd[p] = "apply" /\ b \in Auths
          /\ calls[b] = sent[p] /\ sent[p] < Len(Plan[b]) /\ b \in reserved
      BY <1>21 DEF ReplaceOperation, At, TypeOK, IndexOK, Ownership, Owns, ForwardPCs, ApplyPCs
    <2>4. \A q \in Procs : Owns(q)' <=> Owns(q)
      BY <2>1, <2>2, <2>3 DEF Owns, TypeOK
    <2>5. SingleUse'
      <3>1. calls'[b] <= Len(Plan[b])
        BY <2>2, <2>3, PlanType DEF TypeOK
      <3>2. \A a \in Auths \ {b} : calls'[a] = calls[a]
        BY <2>2 DEF TypeOK
      <3> QED
        BY <3>1, <3>2 DEF Ownership, SingleUse
    <2>6. \A q \in Procs : /\ pc'[q] \in ApplyPCs => cmd'[q] = "apply"
                           /\ pc'[q] \in RestorePCs => cmd'[q] = "restore"
                           /\ Owns(q)' => auth'[q] \in reserved'
                           /\ Owns(q)' /\ pc'[q] # "persist_requested" =>
                                canonical'["apply"][auth'[q]].result = "none"
      BY <2>1, <2>2, <2>3, <2>4 DEF TypeOK, Ownership, Owns, RestorePCs
    <2>7. \A q \in Procs : pc'[q] \in ForwardPCs => calls'[auth'[q]] = sent'[q]
      <3> TAKE q \in Procs
      <3>1. CASE q = p
        BY <2>2, <2>3, <3>1 DEF TypeOK
      <3>2. CASE q # p /\ pc[q] \in ForwardPCs
        <4>1. Owns(q) /\ Owns(p)
          BY <2>3, <3>2 DEF Ownership, Owns, ForwardPCs, ApplyPCs
        <4>2. auth[q] # b
          BY <3>2, <4>1 DEF Ownership
        <4> QED
          BY <2>2, <3>2, <4>2 DEF Ownership, TypeOK
      <3> QED
        BY <2>1, <3>1, <3>2 DEF TypeOK
    <2>8. \A a \in Auths \ reserved' : calls'[a] = 0 /\ canonical'["apply"][a].result = "none"
      BY <2>2, <2>3 DEF TypeOK, Ownership
    <2>9. \A q, r \in Procs : Owns(q)' /\ Owns(r)' /\ auth'[q] = auth'[r] => q = r
      BY <2>2, <2>4 DEF Ownership
    <2> QED
      BY <2>5, <2>6, <2>7, <2>8, <2>9 DEF Ownership
  <1>22. ASSUME NEW p \in Procs, WriteApplying(p) PROVE Ownership'
    <2>1. PICK l \in {"check_operation", "read_after", "repair_read"} : pc' = [pc EXCEPT ![p] = l]
      BY <1>22 DEF WriteApplying, Goto
    <2>2. /\ l \in PCs \ {"idle", "reserve"}
          /\ pc[p] \notin {"idle", "reserve", "persist_requested"}
          /\ l \in ApplyPCs => cmd[p] = "apply"
          /\ l \in RestorePCs => cmd[p] = "restore"
          /\ l \in ForwardPCs => pc[p] \in ForwardPCs
      BY <1>22, <2>1 DEF WriteApplying, At, Ownership, ForwardPCs, PCs, ApplyPCs, RestorePCs, RepairPCs, PersistPCs
    <2>3. /\ UNCHANGED <<cmd, auth, reserved, canonical, calls>>
          /\ sent' \in [Procs -> Nat] /\ \A q \in Procs \ {p} : sent'[q] = sent[q]
          /\ l \in ForwardPCs => sent'[p] = sent[p]
      BY <1>22, <2>1 DEF WriteApplying, provider, environment, receipts, files, command, locals, history, TypeOK, WriteJournal
    <2> QED
      BY <2>1, <2>2, <2>3, OwnerFrame
  <1>23. ASSUME NEW p \in Procs, ReadAfter(p) PROVE Ownership'
    <2>1. PICK l \in {"snapshot_after", "repair_read"} : pc' = [pc EXCEPT ![p] = l]
      BY <1>23 DEF ReadAfter, Goto
    <2>2. /\ l \in PCs \ {"idle", "reserve"}
          /\ pc[p] \notin {"idle", "reserve", "persist_requested"}
          /\ l \in ApplyPCs => cmd[p] = "apply"
          /\ l \in RestorePCs => cmd[p] = "restore"
          /\ l \in ForwardPCs => pc[p] \in ForwardPCs
      BY <1>23, <2>1 DEF ReadAfter, At, Ownership, ForwardPCs, PCs, ApplyPCs, RestorePCs, RepairPCs, PersistPCs
    <2>3. /\ UNCHANGED <<cmd, auth, reserved, canonical, calls>>
          /\ sent' \in [Procs -> Nat] /\ \A q \in Procs \ {p} : sent'[q] = sent[q]
          /\ l \in ForwardPCs => sent'[p] = sent[p]
      BY <1>23, <2>1 DEF ReadAfter, provider, environment, receipts, files, command, locals, history, TypeOK
    <2> QED
      BY <2>1, <2>2, <2>3, OwnerFrame
  <1>24. ASSUME NEW p \in Procs, SnapshotAfter(p) PROVE Ownership'
    <2>1. PICK l \in {"write_committed", "repair_read"} : pc' = [pc EXCEPT ![p] = l]
      BY <1>24 DEF SnapshotAfter, Goto
    <2>2. /\ l \in PCs \ {"idle", "reserve"}
          /\ pc[p] \notin {"idle", "reserve", "persist_requested"}
          /\ l \in ApplyPCs => cmd[p] = "apply"
          /\ l \in RestorePCs => cmd[p] = "restore"
          /\ l \in ForwardPCs => pc[p] \in ForwardPCs
      BY <1>24, <2>1 DEF SnapshotAfter, At, Ownership, ForwardPCs, PCs, ApplyPCs, RestorePCs, RepairPCs, PersistPCs
    <2>3. /\ UNCHANGED <<cmd, auth, reserved, canonical, calls>>
          /\ sent' \in [Procs -> Nat] /\ \A q \in Procs \ {p} : sent'[q] = sent[q]
          /\ l \in ForwardPCs => sent'[p] = sent[p]
      BY <1>24, <2>1 DEF SnapshotAfter, provider, environment, receipts, files, command, locals, history, TypeOK
    <2> QED
      BY <2>1, <2>2, <2>3, OwnerFrame
  <1>25. ASSUME NEW p \in Procs, WriteCommitted(p) PROVE Ownership'
    <2>1. PICK l \in {"persist_canonical"} : pc' = [pc EXCEPT ![p] = l]
      BY <1>25 DEF WriteCommitted, Goto
    <2>2. /\ l \in PCs \ {"idle", "reserve"}
          /\ pc[p] \notin {"idle", "reserve", "persist_requested"}
          /\ l \in ApplyPCs => cmd[p] = "apply"
          /\ l \in RestorePCs => cmd[p] = "restore"
          /\ l \in ForwardPCs => pc[p] \in ForwardPCs
      BY <1>25, <2>1 DEF WriteCommitted, At, Ownership, ForwardPCs, PCs, ApplyPCs, RestorePCs, RepairPCs, PersistPCs
    <2>3. /\ UNCHANGED <<cmd, auth, reserved, canonical, calls>>
          /\ sent' \in [Procs -> Nat] /\ \A q \in Procs \ {p} : sent'[q] = sent[q]
          /\ l \in ForwardPCs => sent'[p] = sent[p]
      BY <1>25, <2>1 DEF WriteCommitted, provider, environment, receipts, files, command, locals, history, TypeOK, WriteJournal
    <2> QED
      BY <2>1, <2>2, <2>3, OwnerFrame
  <1>26. ASSUME NEW p \in Procs, SnapshotCurrent(p) PROVE Ownership'
    <2>1. CASE Finish(p, "rejected")
      BY <1>26, <2>1 DEF SnapshotCurrent, Finish, Goto, provider, environment, receipts, files, command, locals, history, TypeOK, Ownership, Owns, SingleUse, ForwardPCs, ApplyPCs, RestorePCs, RepairPCs, PersistPCs
    <2>2. CASE pc' = [pc EXCEPT ![p] = "read_current"] /\ UNCHANGED locals
      <3>1. /\ pc[p] \notin {"idle", "reserve", "persist_requested"}
            /\ cmd[p] = "restore"
            /\ "read_current" \in PCs \ {"idle", "reserve"}
            /\ "read_current" \notin ApplyPCs /\ "read_current" \notin ForwardPCs
        BY <1>26 DEF SnapshotCurrent, At, Ownership, ForwardPCs, PCs, ApplyPCs, RestorePCs, RepairPCs, PersistPCs
      <3>2. /\ UNCHANGED <<cmd, auth, reserved, canonical, calls, sent>>
            /\ sent' \in [Procs -> Nat]
        BY <1>26, <2>2 DEF SnapshotCurrent, provider, environment, receipts, files, command, locals, history, TypeOK
      <3> QED
        BY <2>2, <3>1, <3>2, OwnerFrame
    <2> QED
      BY <1>26, <2>1, <2>2 DEF SnapshotCurrent, Goto
  <1>27. ASSUME NEW p \in Procs, ReadCurrent(p) PROVE Ownership'
    <2>1. CASE Finish(p, "rejected")
      BY <1>27, <2>1 DEF ReadCurrent, Finish, Goto, provider, environment, receipts, files, command, locals, history, TypeOK, Ownership, Owns, SingleUse, ForwardPCs, ApplyPCs, RestorePCs, RepairPCs, PersistPCs
    <2>2. CASE pc' = [pc EXCEPT ![p] = "inverse"] /\ UNCHANGED locals
      <3>1. /\ pc[p] \notin {"idle", "reserve", "persist_requested"}
            /\ cmd[p] = "restore"
            /\ "inverse" \in PCs \ {"idle", "reserve"}
            /\ "inverse" \notin ApplyPCs /\ "inverse" \notin ForwardPCs
        BY <1>27 DEF ReadCurrent, At, Ownership, ForwardPCs, PCs, ApplyPCs, RestorePCs, RepairPCs, PersistPCs
      <3>2. /\ UNCHANGED <<cmd, auth, reserved, canonical, calls, sent>>
            /\ sent' \in [Procs -> Nat]
        BY <1>27, <2>2 DEF ReadCurrent, provider, environment, receipts, files, command, locals, history, TypeOK
      <3> QED
        BY <2>2, <3>1, <3>2, OwnerFrame
    <2> QED
      BY <1>27, <2>1, <2>2 DEF ReadCurrent, Goto
  <1>28. ASSUME NEW p \in Procs, InverseOperation(p) PROVE Ownership'
    <2>1. PICK l \in {"inverse", "read_restored", "repair_read"} : pc' = [pc EXCEPT ![p] = l]
      BY <1>28 DEF InverseOperation, Goto, RestoreFails
    <2>2. /\ l \in PCs \ {"idle", "reserve"}
          /\ pc[p] \notin {"idle", "reserve", "persist_requested"}
          /\ l \in ApplyPCs => cmd[p] = "apply"
          /\ l \in RestorePCs => cmd[p] = "restore"
          /\ l \in ForwardPCs => pc[p] \in ForwardPCs
      BY <1>28, <2>1 DEF InverseOperation, At, Ownership, ForwardPCs, PCs, ApplyPCs, RestorePCs, RepairPCs, PersistPCs
    <2>3. /\ UNCHANGED <<cmd, auth, reserved, canonical, calls>>
          /\ sent' \in [Procs -> Nat] /\ \A q \in Procs \ {p} : sent'[q] = sent[q]
          /\ l \in ForwardPCs => sent'[p] = sent[p]
      BY <1>28, <2>1 DEF InverseOperation, provider, environment, receipts, files, command, locals, history, TypeOK, ForwardPCs
    <2> QED
      BY <2>1, <2>2, <2>3, OwnerFrame
  <1>29. ASSUME NEW p \in Procs, ReadRestored(p) PROVE Ownership'
    <2>1. PICK l \in {"snapshot_restored", "repair_read"} : pc' = [pc EXCEPT ![p] = l]
      BY <1>29 DEF ReadRestored, Goto, RestoreFails
    <2>2. /\ l \in PCs \ {"idle", "reserve"}
          /\ pc[p] \notin {"idle", "reserve", "persist_requested"}
          /\ l \in ApplyPCs => cmd[p] = "apply"
          /\ l \in RestorePCs => cmd[p] = "restore"
          /\ l \in ForwardPCs => pc[p] \in ForwardPCs
      BY <1>29, <2>1 DEF ReadRestored, At, Ownership, ForwardPCs, PCs, ApplyPCs, RestorePCs, RepairPCs, PersistPCs
    <2>3. /\ UNCHANGED <<cmd, auth, reserved, canonical, calls>>
          /\ sent' \in [Procs -> Nat] /\ \A q \in Procs \ {p} : sent'[q] = sent[q]
          /\ l \in ForwardPCs => sent'[p] = sent[p]
      BY <1>29, <2>1 DEF ReadRestored, provider, environment, receipts, files, command, locals, history, TypeOK
    <2> QED
      BY <2>1, <2>2, <2>3, OwnerFrame
  <1>30. ASSUME NEW p \in Procs, SnapshotRestored(p) PROVE Ownership'
    <2>1. PICK l \in {"write_restored", "repair_read"} : pc' = [pc EXCEPT ![p] = l]
      BY <1>30 DEF SnapshotRestored, Goto, RestoreFails
    <2>2. /\ l \in PCs \ {"idle", "reserve"}
          /\ pc[p] \notin {"idle", "reserve", "persist_requested"}
          /\ l \in ApplyPCs => cmd[p] = "apply"
          /\ l \in RestorePCs => cmd[p] = "restore"
          /\ l \in ForwardPCs => pc[p] \in ForwardPCs
      BY <1>30, <2>1 DEF SnapshotRestored, At, Ownership, ForwardPCs, PCs, ApplyPCs, RestorePCs, RepairPCs, PersistPCs
    <2>3. /\ UNCHANGED <<cmd, auth, reserved, canonical, calls>>
          /\ sent' \in [Procs -> Nat] /\ \A q \in Procs \ {p} : sent'[q] = sent[q]
          /\ l \in ForwardPCs => sent'[p] = sent[p]
      BY <1>30, <2>1 DEF SnapshotRestored, provider, environment, receipts, files, command, locals, history, TypeOK
    <2> QED
      BY <2>1, <2>2, <2>3, OwnerFrame
  <1>31. ASSUME NEW p \in Procs, WriteRestored(p) PROVE Ownership'
    <2>1. PICK l \in {"persist_canonical"} : pc' = [pc EXCEPT ![p] = l]
      BY <1>31 DEF WriteRestored, Goto
    <2>2. /\ l \in PCs \ {"idle", "reserve"}
          /\ pc[p] \notin {"idle", "reserve", "persist_requested"}
          /\ l \in ApplyPCs => cmd[p] = "apply"
          /\ l \in RestorePCs => cmd[p] = "restore"
          /\ l \in ForwardPCs => pc[p] \in ForwardPCs
      BY <1>31, <2>1 DEF WriteRestored, At, Ownership, ForwardPCs, PCs, ApplyPCs, RestorePCs, RepairPCs, PersistPCs
    <2>3. /\ UNCHANGED <<cmd, auth, reserved, canonical, calls>>
          /\ sent' \in [Procs -> Nat] /\ \A q \in Procs \ {p} : sent'[q] = sent[q]
          /\ l \in ForwardPCs => sent'[p] = sent[p]
      BY <1>31, <2>1 DEF WriteRestored, provider, environment, receipts, files, command, locals, history, TypeOK, WriteJournal
    <2> QED
      BY <2>1, <2>2, <2>3, OwnerFrame
  <1>32. ASSUME NEW p \in Procs, RepairRead(p) PROVE Ownership'
    <2>1. PICK l \in {"repair_verify", "repair_replace", "write_unrepaired"} : pc' = [pc EXCEPT ![p] = l]
      BY <1>32 DEF RepairRead, Goto
    <2>2. /\ l \in PCs \ {"idle", "reserve"}
          /\ pc[p] \notin {"idle", "reserve", "persist_requested"}
          /\ l \in ApplyPCs => cmd[p] = "apply"
          /\ l \in RestorePCs => cmd[p] = "restore"
          /\ l \in ForwardPCs => pc[p] \in ForwardPCs
      BY <1>32, <2>1 DEF RepairRead, At, Ownership, ForwardPCs, PCs, ApplyPCs, RestorePCs, RepairPCs, PersistPCs
    <2>3. /\ UNCHANGED <<cmd, auth, reserved, canonical, calls>>
          /\ sent' \in [Procs -> Nat] /\ \A q \in Procs \ {p} : sent'[q] = sent[q]
          /\ l \in ForwardPCs => sent'[p] = sent[p]
      BY <1>32, <2>1 DEF RepairRead, provider, environment, receipts, files, command, locals, history, TypeOK
    <2> QED
      BY <2>1, <2>2, <2>3, OwnerFrame
  <1>33. ASSUME NEW p \in Procs, RepairReplace(p) PROVE Ownership'
    <2>1. PICK l \in {"repair_verify", "repair_replace", "write_unrepaired"} : pc' = [pc EXCEPT ![p] = l]
      BY <1>33 DEF RepairReplace, Goto
    <2>2. /\ l \in PCs \ {"idle", "reserve"}
          /\ pc[p] \notin {"idle", "reserve", "persist_requested"}
          /\ l \in ApplyPCs => cmd[p] = "apply"
          /\ l \in RestorePCs => cmd[p] = "restore"
          /\ l \in ForwardPCs => pc[p] \in ForwardPCs
      BY <1>33, <2>1 DEF RepairReplace, At, Ownership, ForwardPCs, PCs, ApplyPCs, RestorePCs, RepairPCs, PersistPCs
    <2>3. /\ UNCHANGED <<cmd, auth, reserved, canonical, calls>>
          /\ sent' \in [Procs -> Nat] /\ \A q \in Procs \ {p} : sent'[q] = sent[q]
          /\ l \in ForwardPCs => sent'[p] = sent[p]
      BY <1>33, <2>1 DEF RepairReplace, provider, environment, receipts, files, command, locals, history, TypeOK
    <2> QED
      BY <2>1, <2>2, <2>3, OwnerFrame
  <1>34. ASSUME NEW p \in Procs, RepairVerify(p) PROVE Ownership'
    <2>1. PICK l \in {"repair_snapshot", "write_unrepaired"} : pc' = [pc EXCEPT ![p] = l]
      BY <1>34 DEF RepairVerify, Goto
    <2>2. /\ l \in PCs \ {"idle", "reserve"}
          /\ pc[p] \notin {"idle", "reserve", "persist_requested"}
          /\ l \in ApplyPCs => cmd[p] = "apply"
          /\ l \in RestorePCs => cmd[p] = "restore"
          /\ l \in ForwardPCs => pc[p] \in ForwardPCs
      BY <1>34, <2>1 DEF RepairVerify, At, Ownership, ForwardPCs, PCs, ApplyPCs, RestorePCs, RepairPCs, PersistPCs
    <2>3. /\ UNCHANGED <<cmd, auth, reserved, canonical, calls>>
          /\ sent' \in [Procs -> Nat] /\ \A q \in Procs \ {p} : sent'[q] = sent[q]
          /\ l \in ForwardPCs => sent'[p] = sent[p]
      BY <1>34, <2>1 DEF RepairVerify, provider, environment, receipts, files, command, locals, history, TypeOK
    <2> QED
      BY <2>1, <2>2, <2>3, OwnerFrame
  <1>35. ASSUME NEW p \in Procs, RepairSnapshot(p) PROVE Ownership'
    <2>1. PICK l \in {"write_repaired", "write_unrepaired"} : pc' = [pc EXCEPT ![p] = l]
      BY <1>35 DEF RepairSnapshot, Goto
    <2>2. /\ l \in PCs \ {"idle", "reserve"}
          /\ pc[p] \notin {"idle", "reserve", "persist_requested"}
          /\ l \in ApplyPCs => cmd[p] = "apply"
          /\ l \in RestorePCs => cmd[p] = "restore"
          /\ l \in ForwardPCs => pc[p] \in ForwardPCs
      BY <1>35, <2>1 DEF RepairSnapshot, At, Ownership, ForwardPCs, PCs, ApplyPCs, RestorePCs, RepairPCs, PersistPCs
    <2>3. /\ UNCHANGED <<cmd, auth, reserved, canonical, calls>>
          /\ sent' \in [Procs -> Nat] /\ \A q \in Procs \ {p} : sent'[q] = sent[q]
          /\ l \in ForwardPCs => sent'[p] = sent[p]
      BY <1>35, <2>1 DEF RepairSnapshot, provider, environment, receipts, files, command, locals, history, TypeOK
    <2> QED
      BY <2>1, <2>2, <2>3, OwnerFrame
  <1>36. ASSUME NEW p \in Procs, WriteRepairOutcome(p) PROVE Ownership'
    <2>1. PICK l \in {"persist_canonical"} : pc' = [pc EXCEPT ![p] = l]
      BY <1>36 DEF WriteRepairOutcome, Goto
    <2>2. /\ l \in PCs \ {"idle", "reserve"}
          /\ pc[p] \notin {"idle", "reserve", "persist_requested"}
          /\ l \in ApplyPCs => cmd[p] = "apply"
          /\ l \in RestorePCs => cmd[p] = "restore"
          /\ l \in ForwardPCs => pc[p] \in ForwardPCs
      BY <1>36, <2>1 DEF WriteRepairOutcome, At, Ownership, ForwardPCs, PCs, ApplyPCs, RestorePCs, RepairPCs, PersistPCs
    <2>3. /\ UNCHANGED <<cmd, auth, reserved, canonical, calls>>
          /\ sent' \in [Procs -> Nat] /\ \A q \in Procs \ {p} : sent'[q] = sent[q]
          /\ l \in ForwardPCs => sent'[p] = sent[p]
      BY <1>36, <2>1 DEF WriteRepairOutcome, provider, environment, receipts, files, command, locals, history, TypeOK, WriteJournal
    <2> QED
      BY <2>1, <2>2, <2>3, OwnerFrame
  <1> QED
    BY <1>1, <1>2, <1>3, <1>4, <1>5, <1>6, <1>7, <1>8, <1>9, <1>10, <1>11,
       <1>12, <1>13, <1>14, <1>15, <1>16, <1>17, <1>18, <1>19, <1>20,
       <1>21, <1>22, <1>23, <1>24, <1>25, <1>26, <1>27, <1>28, <1>29,
       <1>30, <1>31, <1>32, <1>33, <1>34, <1>35, <1>36
       DEF Next, Start, Continue, ApplyStep, RestoreStep, SharedStep, Surroundings

-----------------------------------------------------------------------------
(* Every step keeps a process that should stop from sending more than once.*)
LEMMA StopStep ==
  ASSUME TypeOK, Stopping, [Next]_vars
  PROVE  Stopping'
  <1> USE DEF TypeOK, Stopping, Stopped, Expired, At, Goto, provider, environment,
      receipts, files, command, locals, history
  <1>1. ASSUME NEW p \in Procs, NEW a \in Auths, StartApply(p, a) PROVE Stopping'
    BY <1>1, BoundAssumption DEF StartApply, Begin
  <1>2. ASSUME NEW p \in Procs, Reserve(p) PROVE Stopping'
    BY <1>2, BoundAssumption DEF Reserve
  <1>3. ASSUME NEW p \in Procs, AnswerExisting(p) PROVE Stopping'
    BY <1>3, BoundAssumption DEF AnswerExisting, Finish
  <1>4. ASSUME NEW p \in Procs, WriteReserved(p) PROVE Stopping'
    BY <1>4, BoundAssumption DEF WriteReserved, WriteJournal, Remember
  <1>5. ASSUME NEW p \in Procs, SnapshotBefore(p) PROVE Stopping'
    BY <1>5, BoundAssumption DEF SnapshotBefore
  <1>6. ASSUME NEW p \in Procs, ReadBefore(p) PROVE Stopping'
    BY <1>6, BoundAssumption DEF ReadBefore, Remember
  <1>7. ASSUME NEW p \in Procs, WritePreflightFailed(p) PROVE Stopping'
    BY <1>7, BoundAssumption DEF WritePreflightFailed, WriteJournal, Remember, Issue
  <1>8. ASSUME NEW p \in Procs, WritePrepared(p) PROVE Stopping'
    BY <1>8, BoundAssumption DEF WritePrepared, WriteJournal, Remember
  <1>9. ASSUME NEW p \in Procs, CheckOperation(p) PROVE Stopping'
    BY <1>9, BoundAssumption DEF CheckOperation
  <1>10. ASSUME NEW p \in Procs, ReplaceOperation(p) PROVE Stopping'
    BY <1>10, BoundAssumption DEF ReplaceOperation
  <1>11. ASSUME NEW p \in Procs, WriteApplying(p) PROVE Stopping'
    BY <1>11, BoundAssumption DEF WriteApplying, WriteJournal, Remember
  <1>12. ASSUME NEW p \in Procs, ReadAfter(p) PROVE Stopping'
    BY <1>12, BoundAssumption DEF ReadAfter, Remember
  <1>13. ASSUME NEW p \in Procs, SnapshotAfter(p) PROVE Stopping'
    BY <1>13, BoundAssumption DEF SnapshotAfter, Remember
  <1>14. ASSUME NEW p \in Procs, WriteCommitted(p) PROVE Stopping'
    BY <1>14, BoundAssumption DEF WriteCommitted, WriteJournal, Remember, Issue
  <1>15. ASSUME NEW p \in Procs, NEW a \in Auths, StartRestore(p, a) PROVE Stopping'
    BY <1>15, BoundAssumption DEF StartRestore, Begin
  <1>16. ASSUME NEW p \in Procs, NEW a \in Auths, AnswerRestore(p, a) PROVE Stopping'
    BY <1>16, BoundAssumption DEF AnswerRestore, Finish
  <1>17. ASSUME NEW p \in Procs, SnapshotCurrent(p) PROVE Stopping'
    BY <1>17, BoundAssumption DEF SnapshotCurrent, Finish
  <1>18. ASSUME NEW p \in Procs, ReadCurrent(p) PROVE Stopping'
    BY <1>18, BoundAssumption DEF ReadCurrent, Finish
  <1>19. ASSUME NEW p \in Procs, InverseOperation(p) PROVE Stopping'
    BY <1>19, BoundAssumption DEF InverseOperation, Remember, RestoreFails
  <1>20. ASSUME NEW p \in Procs, ReadRestored(p) PROVE Stopping'
    BY <1>20, BoundAssumption DEF ReadRestored, Remember, RestoreFails
  <1>21. ASSUME NEW p \in Procs, SnapshotRestored(p) PROVE Stopping'
    BY <1>21, BoundAssumption DEF SnapshotRestored, Remember, RestoreFails
  <1>22. ASSUME NEW p \in Procs, WriteRestored(p) PROVE Stopping'
    BY <1>22, BoundAssumption DEF WriteRestored, WriteJournal, Remember, Issue
  <1>23. ASSUME NEW p \in Procs, RepairRead(p) PROVE Stopping'
    BY <1>23, BoundAssumption DEF RepairRead
  <1>24. ASSUME NEW p \in Procs, RepairReplace(p) PROVE Stopping'
    BY <1>24, BoundAssumption DEF RepairReplace
  <1>25. ASSUME NEW p \in Procs, RepairVerify(p) PROVE Stopping'
    BY <1>25, BoundAssumption DEF RepairVerify
  <1>26. ASSUME NEW p \in Procs, RepairSnapshot(p) PROVE Stopping'
    BY <1>26, BoundAssumption DEF RepairSnapshot
  <1>27. ASSUME NEW p \in Procs, WriteRepairOutcome(p) PROVE Stopping'
    BY <1>27, BoundAssumption DEF WriteRepairOutcome, WriteJournal, Remember, Issue
  <1>28. ASSUME NEW p \in Procs, PersistCanonical(p) PROVE Stopping'
    BY <1>28, BoundAssumption DEF PersistCanonical
  <1>29. ASSUME NEW p \in Procs, PersistRequested(p) PROVE Stopping'
    BY <1>29, BoundAssumption DEF PersistRequested, Finish
  <1>30. ASSUME NEW p \in Procs, Crash(p) PROVE Stopping'
    BY <1>30, BoundAssumption DEF Crash, Finish
  <1>31. ASSUME EnableKillSwitch PROVE Stopping'
    BY <1>31, BoundAssumption DEF EnableKillSwitch
  <1>32. ASSUME DisableKillSwitch PROVE Stopping'
    BY <1>32, BoundAssumption DEF DisableKillSwitch
  <1>33. ASSUME Tick PROVE Stopping'
    BY <1>33, BoundAssumption DEF Tick
  <1>34. ASSUME ExternalEdit PROVE Stopping'
    BY <1>34, BoundAssumption DEF ExternalEdit
  <1>35. ASSUME LateEffect PROVE Stopping'
    BY <1>35, BoundAssumption DEF LateEffect
  <1>36. CASE UNCHANGED vars
    BY <1>36 DEF vars
  <1> QED
    BY <1>1, <1>2, <1>3, <1>4, <1>5, <1>6, <1>7, <1>8, <1>9, <1>10, <1>11,
       <1>12, <1>13, <1>14, <1>15, <1>16, <1>17, <1>18, <1>19, <1>20,
       <1>21, <1>22, <1>23, <1>24, <1>25, <1>26, <1>27, <1>28, <1>29,
       <1>30, <1>31, <1>32, <1>33, <1>34, <1>35, <1>36
       DEF Next, Start, Continue, ApplyStep, RestoreStep, SharedStep, Surroundings

-----------------------------------------------------------------------------
(* What is declared depends on two fields of the journal only.             *)
LEMMA DeclaredFields ==
  ASSUME NEW a \in Auths, NEW j \in Journals
  PROVE  /\ \A b \in Boards : b = AfterOps(a, j.beforeDsl, Len(Plan[a])) =>
              Declared(a, [j EXCEPT !.afterDsl = b])
         /\ \A b \in Boards : Declared(a, j) => Declared(a, [j EXCEPT !.after = b])
         /\ \A s \in JournalStatus : Declared(a, j) => Declared(a, [j EXCEPT !.status = s])
  BY DEF Declared, Journals

(* Every step keeps the evidence behind success receipts.                  *)
LEMMA EvidenceStep ==
  ASSUME TypeOK, Ownership, Evidence, [Next]_vars
  PROVE  Evidence'
  <1> USE DEF TypeOK, Evidence, DeclaredOnly, PersistPCs, At, Goto, provider,
      environment, receipts, files, command, locals, history
  <1>1. ASSUME NEW p \in Procs, NEW a \in Auths, StartApply(p, a) PROVE Evidence'
    BY <1>1 DEF StartApply, Begin
  <1>2. ASSUME NEW p \in Procs, Reserve(p) PROVE Evidence'
    BY <1>2 DEF Reserve
  <1>3. ASSUME NEW p \in Procs, AnswerExisting(p) PROVE Evidence'
    BY <1>3 DEF AnswerExisting, Finish
  <1>4. ASSUME NEW p \in Procs, WriteReserved(p) PROVE Evidence'
    BY <1>4 DEF WriteReserved, WriteJournal, Remember
  <1>5. ASSUME NEW p \in Procs, SnapshotBefore(p) PROVE Evidence'
    BY <1>5 DEF SnapshotBefore
  <1>6. ASSUME NEW p \in Procs, ReadBefore(p) PROVE Evidence'
    BY <1>6 DEF ReadBefore, Remember
  <1>7. ASSUME NEW p \in Procs, WritePreflightFailed(p) PROVE Evidence'
    <2>1. PICK r : r.result = "failed" /\ out' = [out EXCEPT ![p] = r]
      <3>1. PICK r \in Failures(FALSE, FALSE, TRUE, NoJournal) : out' = [out EXCEPT ![p] = r]
        BY <1>7 DEF WritePreflightFailed, Issue
      <3>2. r.result = "failed"
        BY <3>1 DEF Failures
      <3> QED
        BY <3>1, <3>2
    <2>2. /\ UNCHANGED <<cmd, auth, canonical>>
          /\ mem' = [mem EXCEPT ![p] = [mem[p] EXCEPT !.status = "preflight_failed"]]
          /\ pc' = [pc EXCEPT ![p] = "persist_canonical"]
      BY <1>7 DEF WritePreflightFailed, WriteJournal, Remember
    <2> QED
      BY <2>1, <2>2
  <1>8. ASSUME NEW p \in Procs, WritePrepared(p) PROVE Evidence'
    BY <1>8 DEF WritePrepared, WriteJournal, Remember
  <1>9. ASSUME NEW p \in Procs, CheckOperation(p) PROVE Evidence'
    BY <1>9 DEF CheckOperation
  <1>10. ASSUME NEW p \in Procs, ReplaceOperation(p) PROVE Evidence'
    BY <1>10 DEF ReplaceOperation
  <1>11. ASSUME NEW p \in Procs, WriteApplying(p) PROVE Evidence'
    BY <1>11 DEF WriteApplying, WriteJournal, Remember
  <1>12. ASSUME NEW p \in Procs, NEW a \in Auths, StartRestore(p, a) PROVE Evidence'
    BY <1>12 DEF StartRestore, Begin
  <1>13. ASSUME NEW p \in Procs, NEW a \in Auths, AnswerRestore(p, a) PROVE Evidence'
    BY <1>13 DEF AnswerRestore, Finish
  <1>14. ASSUME NEW p \in Procs, SnapshotCurrent(p) PROVE Evidence'
    BY <1>14 DEF SnapshotCurrent, Finish
  <1>15. ASSUME NEW p \in Procs, ReadCurrent(p) PROVE Evidence'
    BY <1>15 DEF ReadCurrent, Finish
  <1>16. ASSUME NEW p \in Procs, InverseOperation(p) PROVE Evidence'
    BY <1>16 DEF InverseOperation, Remember, RestoreFails
  <1>17. ASSUME NEW p \in Procs, ReadRestored(p) PROVE Evidence'
    BY <1>17 DEF ReadRestored, Remember, RestoreFails
  <1>18. ASSUME NEW p \in Procs, SnapshotRestored(p) PROVE Evidence'
    BY <1>18 DEF SnapshotRestored, Remember, RestoreFails
  <1>19. ASSUME NEW p \in Procs, RepairRead(p) PROVE Evidence'
    BY <1>19 DEF RepairRead
  <1>20. ASSUME NEW p \in Procs, RepairReplace(p) PROVE Evidence'
    BY <1>20 DEF RepairReplace
  <1>21. ASSUME NEW p \in Procs, RepairVerify(p) PROVE Evidence'
    BY <1>21 DEF RepairVerify
  <1>22. ASSUME NEW p \in Procs, RepairSnapshot(p) PROVE Evidence'
    BY <1>22 DEF RepairSnapshot
  <1>23. ASSUME NEW p \in Procs, WriteRepairOutcome(p) PROVE Evidence'
    <2>1. PICK r : r.result = "failed" /\ out' = [out EXCEPT ![p] = r]
      <3> DEFINE j == [mem[p] EXCEPT !.status = RepairStatus(cmd[p], At(p, "write_repaired"))]
      <3>1. PICK r \in Failures(sent[p] > 0, At(p, "write_repaired"),
                               mem[p].restoreFailure # "mismatch" \/ ~At(p, "write_repaired"),
                               IF cmd[p] = "apply" THEN NoJournal ELSE j) :
                 out' = [out EXCEPT ![p] = r]
        BY <1>23 DEF WriteRepairOutcome, Issue
      <3> HIDE DEF j
      <3>2. r.result = "failed"
        BY <3>1 DEF Failures
      <3> QED
        BY <3>1, <3>2
    <2>2. /\ UNCHANGED <<cmd, auth, canonical>>
          /\ \A q \in Procs \ {p} : mem'[q] = mem[q]
          /\ pc' = [pc EXCEPT ![p] = "persist_canonical"]
      BY <1>23 DEF WriteRepairOutcome, WriteJournal, Remember
    <2> QED
      BY <2>1, <2>2
  <1>24. ASSUME NEW p \in Procs, PersistCanonical(p) PROVE Evidence'
    BY <1>24 DEF PersistCanonical
  <1>25. ASSUME NEW p \in Procs, PersistRequested(p) PROVE Evidence'
    BY <1>25 DEF PersistRequested, Finish
  <1>26. ASSUME NEW p \in Procs, Crash(p) PROVE Evidence'
    BY <1>26 DEF Crash, Finish
  <1>27. ASSUME EnableKillSwitch PROVE Evidence'
    BY <1>27 DEF EnableKillSwitch
  <1>28. ASSUME DisableKillSwitch PROVE Evidence'
    BY <1>28 DEF DisableKillSwitch
  <1>29. ASSUME Tick PROVE Evidence'
    BY <1>29 DEF Tick
  <1>30. ASSUME ExternalEdit PROVE Evidence'
    BY <1>30 DEF ExternalEdit
  <1>31. ASSUME LateEffect PROVE Evidence'
    BY <1>31 DEF LateEffect
  <1>32. CASE UNCHANGED vars
    BY <1>32 DEF vars
  <1> HIDE DEF TypeOK, Evidence, DeclaredOnly, PersistPCs, At, Goto, provider,
      environment, receipts, files, command, locals, history
  <1>33. ASSUME NEW p \in Procs, ReadAfter(p) PROVE Evidence'
    <2>1. CASE pc' = [pc EXCEPT ![p] = "repair_read"] /\ UNCHANGED mem
      BY <1>33, <2>1 DEF ReadAfter, provider, environment, receipts, files, command, locals, history, TypeOK, Evidence, DeclaredOnly, PersistPCs
    <2>2. CASE pc' = [pc EXCEPT ![p] = "snapshot_after"] /\ mem' = [mem EXCEPT ![p].afterDsl = board] /\ board = AfterOps(auth[p], mem[p].beforeDsl, Len(Plan[auth[p]]))
      <3>1. Declared(auth[p], [mem[p] EXCEPT !.afterDsl = board])
        BY <1>33, <2>2, DeclaredFields DEF ReadAfter, At, TypeOK, Evidence
      <3>2. mem'[p] = [mem[p] EXCEPT !.afterDsl = board]
        BY <2>2 DEF TypeOK
      <3>3. /\ UNCHANGED <<cmd, auth, out, canonical>>
            /\ \A q \in Procs \ {p} : mem'[q] = mem[q] /\ pc'[q] = pc[q]
            /\ pc'[p] = "snapshot_after"
        BY <1>33, <2>2 DEF ReadAfter, provider, environment, receipts, files, command, locals, history, TypeOK
      <3> QED
        BY <3>1, <3>2, <3>3 DEF Evidence, DeclaredOnly, PersistPCs
    <2> QED
      BY <1>33, <2>1, <2>2 DEF ReadAfter, Goto, Remember
  <1>34. ASSUME NEW p \in Procs, SnapshotAfter(p) PROVE Evidence'
    <2>1. CASE pc' = [pc EXCEPT ![p] = "repair_read"] /\ UNCHANGED mem
      BY <1>34, <2>1 DEF SnapshotAfter, provider, environment, receipts, files, command, locals, history, TypeOK, Evidence, DeclaredOnly, PersistPCs
    <2>2. CASE pc' = [pc EXCEPT ![p] = "write_committed"] /\ mem' = [mem EXCEPT ![p].after = board]
      <3>1. Declared(auth[p], [mem[p] EXCEPT !.after = board])
        BY <1>34, <2>2, DeclaredFields DEF SnapshotAfter, At, TypeOK, Evidence
      <3>2. mem'[p] = [mem[p] EXCEPT !.after = board]
        BY <2>2 DEF TypeOK
      <3>3. /\ UNCHANGED <<cmd, auth, out, canonical>>
            /\ \A q \in Procs \ {p} : mem'[q] = mem[q] /\ pc'[q] = pc[q]
            /\ pc'[p] = "write_committed"
        BY <1>34, <2>2 DEF SnapshotAfter, provider, environment, receipts, files, command, locals, history, TypeOK
      <3> QED
        BY <3>1, <3>2, <3>3 DEF Evidence, DeclaredOnly, PersistPCs
    <2> QED
      BY <1>34, <2>1, <2>2 DEF SnapshotAfter, Goto, Remember
  <1>35. ASSUME NEW p \in Procs, WriteCommitted(p) PROVE Evidence'
    <2> DEFINE j == [mem[p] EXCEPT !.status = "committed"]
               r == Success(j)
    <2>1. /\ UNCHANGED <<cmd, auth, canonical>>
          /\ out' = [out EXCEPT ![p] = r] /\ mem' = [mem EXCEPT ![p] = j]
          /\ pc' = [pc EXCEPT ![p] = "persist_canonical"]
      BY <1>35 DEF WriteCommitted, WriteJournal, Remember, Issue, Goto, provider, environment, receipts, files, command, locals, history
    <2>2. Declared(auth[p], j)
      BY <1>35, DeclaredFields DEF WriteCommitted, At, TypeOK, Evidence, JournalStatus
    <2>3. out'[p] = r /\ r.journal = j /\ pc'[p] = "persist_canonical"
      BY <2>1, SuccessFields DEF TypeOK
    <2> HIDE DEF j, r
    <2>4. \A q \in Procs \ {p} : mem'[q] = mem[q] /\ pc'[q] = pc[q] /\ out'[q] = out[q]
      BY <2>1 DEF TypeOK
    <2> QED
      BY <2>1, <2>2, <2>3, <2>4 DEF Evidence, DeclaredOnly, PersistPCs
  <1>36. ASSUME NEW p \in Procs, WriteRestored(p) PROVE Evidence'
    <2> DEFINE j == [mem[p] EXCEPT !.status = "restored"]
               r == Success(j)
    <2>1. /\ UNCHANGED <<cmd, auth, canonical>>
          /\ out' = [out EXCEPT ![p] = r] /\ mem' = [mem EXCEPT ![p] = j]
          /\ pc' = [pc EXCEPT ![p] = "persist_canonical"]
      BY <1>36 DEF WriteRestored, WriteJournal, Remember, Issue, Goto, provider, environment, receipts, files, command, locals, history
    <2>2. cmd[p] = "restore"
      BY <1>36 DEF WriteRestored, At, Ownership, RestorePCs
    <2>3. out'[p] = r /\ r.journal = j /\ pc'[p] = "persist_canonical"
      BY <2>1, SuccessFields DEF TypeOK
    <2> HIDE DEF j, r
    <2>4. \A q \in Procs \ {p} : mem'[q] = mem[q] /\ pc'[q] = pc[q] /\ out'[q] = out[q]
      BY <2>1 DEF TypeOK
    <2> QED
      BY <2>1, <2>2, <2>3, <2>4 DEF Evidence, DeclaredOnly, PersistPCs
  <1> QED
    BY <1>1, <1>2, <1>3, <1>4, <1>5, <1>6, <1>7, <1>8, <1>9, <1>10, <1>11,
       <1>12, <1>13, <1>14, <1>15, <1>16, <1>17, <1>18, <1>19, <1>20,
       <1>21, <1>22, <1>23, <1>24, <1>25, <1>26, <1>27, <1>28, <1>29,
       <1>30, <1>31, <1>32, <1>33, <1>34, <1>35, <1>36
       DEF Next, Start, Continue, ApplyStep, RestoreStep, SharedStep, Surroundings

-----------------------------------------------------------------------------
(* The inductive invariant holds initially ...                             *)
LEMMA InitInv == Init => IInv
  <1> SUFFICES ASSUME Init PROVE IInv
    OBVIOUS
  <1> USE DEF Init
  <1>1. TypeOK
    <2>1. /\ journal \in [Auths -> Journals] /\ mem \in [Procs -> Journals]
          /\ canonical \in [Commands -> [Auths -> Receipts]]
          /\ requested \in [Commands -> [Auths -> Receipts]]
          /\ out \in [Procs -> Receipts] /\ auth \in [Procs -> Auths]
      BY InitialTypes
    <2>2. edits \in 0..MaxEdits /\ clock \in 0..MaxClock
      BY BoundAssumption
    <2> QED
      BY <2>1, <2>2, BaseType DEF TypeOK, PCs, Commands
  <1>2. IndexOK
    BY DEF IndexOK, RepairPCs
  <1>3. SingleUse
    BY PlanType DEF SingleUse
  <1>4. Ownership
    BY <1>3 DEF Ownership, Owns, ForwardPCs, ApplyPCs, RestorePCs, NoReceipt, Commands
  <1>5. Stopping
    BY DEF Stopping
  <1>6. Evidence
    BY DEF Evidence, DeclaredOnly, PersistPCs, NoReceipt, Commands
  <1> QED
    BY <1>1, <1>2, <1>4, <1>5, <1>6 DEF IInv

(* ... and is kept by every step.                                          *)
LEMMA StepInv == IInv /\ [Next]_vars => IInv'
  BY TypeStep, IndexStep, OwnerStep, StopStep, EvidenceStep DEF IInv

(* The invariant holds in every reachable state.                           *)
THEOREM Invariance == Spec => []IInv
  <1>1. Init => IInv
    BY InitInv
  <1>2. IInv /\ [Next]_vars => IInv'
    BY StepInv
  <1> QED
    BY <1>1, <1>2, PTL DEF Spec

(* Every variable has its type.                                            *)
THEOREM TypeCorrect == Spec => []TypeOK
  <1>1. IInv => TypeOK
    BY DEF IInv
  <1> QED
    BY <1>1, Invariance, PTL

(* An authorization is single-use, for every number of processes that      *)
(* race, crash and retry (the mkdir reservation of execute_live_apply).    *)
THEOREM AuthorizationsAreSingleUse == Spec => []SingleUse
  <1>1. IInv => SingleUse
    BY DEF IInv, Ownership
  <1> QED
    BY <1>1, Invariance, PTL

(* The kill switch and the expiry bound what a running apply still sends   *)
(* to the one replacement whose check came before.                         *)
THEOREM StopIsBounded == Spec => []StopBound
  <1>1. IInv => StopBound
    BY DEF IInv, Stopping, StopBound
  <1> QED
    BY <1>1, Invariance, PTL

(* A success receipt is given for exactly the declared difference.         *)
THEOREM SuccessIsDeclared == Spec => []DeclaredOnly
  <1>1. IInv => DeclaredOnly
    BY DEF IInv, Evidence
  <1> QED
    BY <1>1, Invariance, PTL

(* No command replaces the receipt of an apply kept beside the journal     *)
(* (_persist_receipt runs once per reservation).                           *)
THEOREM EvidenceIsKept == Spec => EvidenceStays
  <1>1. ASSUME IInv, [Next]_vars
        PROVE  [\A a \in Auths :
                  canonical["apply"][a].result # "none" =>
                    canonical'["apply"][a] = canonical["apply"][a]]_canonical
    <2> USE DEF IInv
    <2>1. ASSUME NEW p \in Procs, PersistCanonical(p)
          PROVE  \A a \in Auths :
                   canonical["apply"][a].result # "none" =>
                     canonical'["apply"][a] = canonical["apply"][a]
      <3>1. CASE cmd[p] = "apply"
        <4>1. canonical["apply"][auth[p]].result = "none"
          BY <1>1, <2>1, <3>1 DEF PersistCanonical, At, Ownership, Owns, TypeOK
        <4>2. \A a \in Auths \ {auth[p]} : canonical'["apply"][a] = canonical["apply"][a]
          BY <1>1, <2>1 DEF PersistCanonical, TypeOK, Commands
        <4> QED
          BY <4>1, <4>2
      <3>2. CASE cmd[p] # "apply"
        BY <1>1, <2>1, <3>2 DEF PersistCanonical, TypeOK, Commands
      <3> QED
        BY <3>1, <3>2
    <2>2. (\E p \in Procs : PersistCanonical(p)) \/ UNCHANGED canonical
      <3> USE DEF files, receipts, WriteJournal
      <3>1. ASSUME NEW p \in Procs, ApplyStep(p) PROVE UNCHANGED canonical
        BY <3>1 DEF ApplyStep, Reserve, AnswerExisting, WriteReserved,
          SnapshotBefore, ReadBefore, WritePreflightFailed, WritePrepared,
          CheckOperation, ReplaceOperation, WriteApplying, ReadAfter,
          SnapshotAfter, WriteCommitted
      <3>2. ASSUME NEW p \in Procs, RestoreStep(p) PROVE UNCHANGED canonical
        BY <3>2 DEF RestoreStep, SnapshotCurrent, ReadCurrent, InverseOperation,
          ReadRestored, SnapshotRestored, WriteRestored
      <3>3. ASSUME NEW p \in Procs, SharedStep(p), ~PersistCanonical(p)
            PROVE  UNCHANGED canonical
        BY <3>3 DEF SharedStep, RepairRead, RepairReplace, RepairVerify,
          RepairSnapshot, WriteRepairOutcome, PersistRequested
      <3>4. ASSUME NEW p \in Procs, Start(p) \/ Crash(p) PROVE UNCHANGED canonical
        BY <3>4 DEF Start, StartApply, StartRestore, AnswerRestore, Crash
      <3>5. CASE Surroundings
        BY <3>5 DEF Surroundings, EnableKillSwitch, DisableKillSwitch, Tick,
          ExternalEdit, LateEffect
      <3> QED
        BY <1>1, <3>1, <3>2, <3>3, <3>4, <3>5 DEF Next, Continue, vars
    <2> QED
      BY <2>1, <2>2
  <1> QED
    BY <1>1, Invariance, PTL DEF Spec, EvidenceStays

-----------------------------------------------------------------------------
(* The journal and the receipts tell the same outcome.                     *)

After == {"committed", "restored", "restore_recovery_failed"}
Undone == {"preflight_failed", "rolled_back", "rollback_failed"}

(* A journal status a receipt of an apply with this result may stand beside.*)
Told(result, status) ==
  /\ result = "ok" => status \in After
  /\ result = "failed" => status \in Undone

PreflightPCs == {"snapshot_before", "read_before", "write_preflight_failed", "write_prepared"}
DrivePCs == {"check_operation", "replace", "write_applying", "read_after", "snapshot_after",
             "write_committed"} \cup RepairPCs

(* While an apply owns its authorization the journal says how far it is,   *)
(* and a restore runs only after an apply that reported success.           *)
ProcTold(p) ==
  LET status == journal[auth[p]].status
      kept == canonical["apply"][auth[p]].result
  IN /\ Owns(p) =>
          /\ pc[p] = "write_reserved" => status = "none"
          /\ pc[p] \in PreflightPCs => status = "reserved"
          /\ pc[p] \in DrivePCs => status \in {"prepared", "applying"}
          /\ pc[p] = "persist_canonical" => out[p].result # "none" /\ Told(out[p].result, status)
          /\ pc[p] = "persist_requested" => out[p].result # "none" /\ out[p].result = kept
     /\ cmd[p] = "restore" /\ pc[p] # "idle" => kept = "ok"

AuthTold(a) ==
  /\ a \notin reserved => journal[a].status = "none"
  /\ Told(canonical["apply"][a].result, journal[a].status)
  /\ requested["apply"][a].result \in {"none", canonical["apply"][a].result}

JournalInv == (\A p \in Procs : ProcTold(p)) /\ (\A a \in Auths : AuthTold(a))

(* A step of p that leaves the other processes and the other               *)
(* authorizations alone: what is told of these stays true.                 *)
LEMMA ToldFrame ==
  ASSUME IInv, JournalInv, NEW p \in Procs, NEW a \in Auths,
         a = auth[p] \/ pc[p] = "idle",
         \A q \in Procs \ {p} : /\ pc'[q] = pc[q] /\ cmd'[q] = cmd[q]
                                /\ auth'[q] = auth[q] /\ out'[q] = out[q],
         \A b \in Auths \ {a} : /\ journal'[b] = journal[b]
                                /\ canonical'["apply"][b] = canonical["apply"][b]
                                /\ requested'["apply"][b] = requested["apply"][b]
                                /\ b \in reserved' <=> b \in reserved,
         \/ journal'[a] = journal[a]
         \/ Owns(p) /\ pc[p] # "persist_requested"
         \/ cmd[p] = "restore" /\ pc[p] # "idle" /\ journal'[a].status \in After,
         \/ canonical'["apply"][a] = canonical["apply"][a]
         \/ Owns(p) /\ pc[p] = "persist_canonical",
         ProcTold(p)', AuthTold(a)'
  PROVE  JournalInv'
  <1>1. ASSUME NEW q \in Procs \ {p}
        PROVE  ProcTold(q)'
    <2>1. ProcTold(q) /\ ProcTold(p) /\ auth[q] \in Auths /\ AuthTold(a)
      BY DEF JournalInv, IInv, TypeOK
    <2>2. CASE auth[q] # a
      BY <2>1, <2>2 DEF ProcTold, Owns, Told
    <2>3. CASE auth[q] = a /\ Owns(q)
      <3>1. ~Owns(p)
        BY <2>3 DEF IInv, Ownership, Owns
      <3>2. pc[q] # "persist_requested" => canonical["apply"][a].result = "none"
        BY <2>3 DEF IInv, Ownership
      <3>3. canonical'["apply"][a] = canonical["apply"][a]
        BY <3>1
      <3>4. CASE journal'[a] = journal[a]
        BY <2>1, <2>3, <3>3, <3>4 DEF ProcTold, Owns, Told
      <3>5. CASE cmd[p] = "restore" /\ pc[p] # "idle"
        <4>1. canonical["apply"][a].result = "ok"
          BY <2>1, <3>5 DEF ProcTold
        <4>2. pc[q] = "persist_requested" /\ out[q].result = "ok"
          BY <2>1, <2>3, <3>2, <4>1 DEF ProcTold
        <4> QED
          BY <2>1, <2>3, <3>3, <4>1, <4>2 DEF ProcTold, Owns, PreflightPCs, DrivePCs, RepairPCs
      <3> QED
        BY <3>1, <3>4, <3>5
    <2>4. CASE auth[q] = a /\ ~Owns(q)
      <3>1. CASE cmd[q] = "restore" /\ pc[q] # "idle"
        <4>1. canonical["apply"][a].result = "ok"
          BY <2>1, <2>4, <3>1 DEF ProcTold
        <4>2. ~(Owns(p) /\ pc[p] = "persist_canonical")
          BY <2>1, <4>1 DEF IInv, Ownership, Owns
        <4> QED
          BY <2>1, <2>4, <4>1, <4>2 DEF ProcTold, Owns
      <3>2. CASE ~(cmd[q] = "restore" /\ pc[q] # "idle")
        BY <2>1, <2>4, <3>2 DEF ProcTold, Owns
      <3> QED
        BY <3>1, <3>2
    <2> QED
      BY <2>2, <2>3, <2>4
  <1>2. ASSUME NEW b \in Auths \ {a}
        PROVE  AuthTold(b)'
    BY <1>2 DEF JournalInv, AuthTold, Told
  <1> QED
    BY <1>1, <1>2 DEF JournalInv

(* A step of p that writes no file and keeps to its part of the command.   *)
LEMMA ToldQuiet ==
  ASSUME IInv, JournalInv, NEW p \in Procs, NEW l,
         pc' = [pc EXCEPT ![p] = l], UNCHANGED <<files, cmd, auth, out>>,
         pc[p] # "idle",
         cmd[p] = "apply" => \/ pc[p] \in PreflightPCs /\ l \in PreflightPCs
                             \/ pc[p] \in DrivePCs /\ l \in DrivePCs
  PROVE  JournalInv'
  <1>1. ProcTold(p) /\ AuthTold(auth[p]) /\ auth[p] \in Auths /\ cmd[p] \in Commands
    BY DEF JournalInv, IInv, TypeOK
  <1>2. /\ \A q \in Procs \ {p} : pc'[q] = pc[q]
        /\ pc'[p] = l
    BY DEF IInv, TypeOK
  <1>3. ProcTold(p)' /\ AuthTold(auth[p])'
    BY <1>1, <1>2 DEF ProcTold, AuthTold, Owns, Told, PreflightPCs, DrivePCs, RepairPCs, Commands,
      files, receipts
  <1> QED
    BY <1>1, <1>2, <1>3, ToldFrame DEF files, receipts

(* A command that ends tells nothing more.                                 *)
LEMMA ToldEnd ==
  ASSUME IInv, JournalInv, NEW p \in Procs, NEW how, Finish(p, how), UNCHANGED files
  PROVE  JournalInv'
  <1>0. PICK a \in Auths : a = auth[p]
    BY DEF IInv, TypeOK
  <1>1. /\ AuthTold(a)
        /\ pc'[p] = "idle" /\ cmd'[p] = "apply"
        /\ \A q \in Procs \ {p} : /\ pc'[q] = pc[q] /\ cmd'[q] = cmd[q]
                                  /\ auth'[q] = auth[q] /\ out'[q] = out[q]
    BY DEF JournalInv, IInv, TypeOK, Finish, Goto
  <1>2. ProcTold(p)' /\ AuthTold(a)'
    BY <1>1 DEF ProcTold, AuthTold, Owns, Told, files, receipts
  <1> QED
    BY <1>0, <1>1, <1>2, ToldFrame DEF files, receipts

(* A step of p that writes its journal and moves on to l.                  *)
LEMMA ToldWrite ==
  ASSUME IInv, JournalInv, NEW p \in Procs, NEW l, NEW j,
         pc' = [pc EXCEPT ![p] = l], WriteJournal(p, j), UNCHANGED command,
         \A q \in Procs \ {p} : out'[q] = out[q],
         pc[p] \notin {"idle", "reserve", "persist_requested"},
         cmd[p] = "apply" =>
           \/ l \in PreflightPCs /\ j.status = "reserved"
           \/ l \in DrivePCs /\ j.status \in {"prepared", "applying"}
           \/ l = "persist_canonical" /\ out'[p].result # "none" /\ Told(out'[p].result, j.status),
         cmd[p] = "restore" => j.status \in After
  PROVE  JournalInv'
  <1>1. /\ ProcTold(p) /\ AuthTold(auth[p]) /\ auth[p] \in Auths /\ cmd[p] \in Commands
        /\ journal'[auth[p]] = j /\ pc'[p] = l
        /\ \A q \in Procs \ {p} : pc'[q] = pc[q]
        /\ \A b \in Auths \ {auth[p]} : journal'[b] = journal[b]
        /\ UNCHANGED <<reserved, receipts, cmd, auth>>
    BY DEF JournalInv, IInv, TypeOK, WriteJournal, command
  <1>2. ProcTold(p)'
    BY <1>1 DEF ProcTold, Owns, Told, PreflightPCs, DrivePCs, RepairPCs, Commands, receipts
  <1>3. CASE cmd[p] = "apply"
    <2>1. Owns(p) /\ canonical["apply"][auth[p]].result = "none" /\ auth[p] \in reserved
      BY <1>3 DEF IInv, Ownership, Owns
    <2>2. AuthTold(auth[p])'
      BY <1>1, <2>1 DEF AuthTold, Told, receipts
    <2> QED
      BY <1>1, <1>2, <2>1, <2>2, ToldFrame DEF receipts
  <1>4. CASE cmd[p] = "restore"
    <2>1. canonical["apply"][auth[p]].result = "ok" /\ j.status \in After
      BY <1>1, <1>4 DEF ProcTold
    <2>2. auth[p] \in reserved
      BY <1>1, <2>1 DEF IInv, Ownership
    <2>3. AuthTold(auth[p])'
      BY <1>1, <2>1, <2>2 DEF AuthTold, Told, receipts
    <2> QED
      BY <1>1, <1>2, <1>4, <2>1, <2>3, ToldFrame DEF receipts
  <1> QED
    BY <1>1, <1>3, <1>4 DEF Commands

(* What a journal holds once its status is assigned.                       *)
LEMMA StatusField ==
  ASSUME NEW j \in Journals, NEW s
  PROVE  /\ [j EXCEPT !.status = s].status = s
         /\ \A n : [j EXCEPT !.status = s, !.applied = n].status = s
  BY DEF Journals

(* Every step keeps journal and receipts telling the same.                 *)
LEMMA ToldStep ==
  ASSUME IInv, JournalInv, [Next]_vars
  PROVE  JournalInv'
  <1>0. /\ pc \in [Procs -> PCs] /\ cmd \in [Procs -> Commands] /\ auth \in [Procs -> Auths]
        /\ mem \in [Procs -> Journals] /\ out \in [Procs -> Receipts]
        /\ canonical \in [Commands -> [Auths -> Receipts]]
        /\ requested \in [Commands -> [Auths -> Receipts]]
        /\ \A p \in Procs : /\ pc[p] \in ApplyPCs => cmd[p] = "apply"
                            /\ pc[p] \in RestorePCs => cmd[p] = "restore"
    BY DEF IInv, TypeOK, Ownership
  <1>1. ASSUME NEW p \in Procs, NEW a \in Auths, StartApply(p, a)
        PROVE  JournalInv'
    <2>1. /\ pc[p] = "idle" /\ pc'[p] = "reserve" /\ cmd'[p] = "apply"
          /\ UNCHANGED files
          /\ \A q \in Procs \ {p} : /\ pc'[q] = pc[q] /\ cmd'[q] = cmd[q]
                                    /\ auth'[q] = auth[q] /\ out'[q] = out[q]
      BY <1>0, <1>1 DEF StartApply, Begin, Goto, At
    <2>2. ProcTold(p)' /\ AuthTold(a)'
      BY <2>1 DEF ProcTold, Owns, JournalInv, AuthTold, Told, files, receipts
    <2> QED
      BY <2>1, <2>2, ToldFrame DEF files, receipts
  <1>2. ASSUME NEW p \in Procs, NEW a \in Auths, StartRestore(p, a)
        PROVE  JournalInv'
    <2>1. /\ pc[p] = "idle" /\ pc'[p] = "snapshot_current" /\ cmd'[p] = "restore" /\ auth'[p] = a
          /\ UNCHANGED files
          /\ \A q \in Procs \ {p} : /\ pc'[q] = pc[q] /\ cmd'[q] = cmd[q]
                                    /\ auth'[q] = auth[q] /\ out'[q] = out[q]
      BY <1>0, <1>2 DEF StartRestore, Begin, Goto, At
    <2>2. PICK t \in TransactionReceipts(a) : TRUE
      BY <1>2 DEF StartRestore
    <2>3. canonical["apply"][a].result = "ok"
      BY <2>2 DEF TransactionReceipts, JournalInv, AuthTold
    <2>4. ProcTold(p)' /\ AuthTold(a)'
      BY <2>1, <2>3 DEF ProcTold, Owns, JournalInv, AuthTold, Told, files, receipts
    <2> QED
      BY <2>1, <2>4, ToldFrame DEF files, receipts
  <1>3. ASSUME NEW p \in Procs, Reserve(p)
        PROVE  JournalInv'
    <2>1. /\ pc'[p] = "write_reserved" /\ cmd[p] = "apply" /\ auth[p] \in Auths
          /\ auth[p] \notin reserved /\ reserved' = reserved \cup {auth[p]}
          /\ UNCHANGED <<journal, receipts, cmd, auth, out>>
          /\ \A q \in Procs \ {p} : pc'[q] = pc[q]
      BY <1>0, <1>3 DEF Reserve, Goto, At, locals, command, ApplyPCs
    <2>2. ProcTold(p)' /\ AuthTold(auth[p])'
      BY <2>1 DEF ProcTold, Owns, JournalInv, AuthTold, Told, receipts, PreflightPCs, DrivePCs, RepairPCs
    <2> QED
      BY <2>1, <2>2, ToldFrame DEF receipts
  <1>4. ASSUME NEW p \in Procs, NEW a \in Auths, AnswerRestore(p, a)
        PROVE  JournalInv'
    BY <1>4, ToldEnd DEF AnswerRestore
  <1>5. ASSUME NEW p \in Procs, AnswerExisting(p) \/ Crash(p)
        PROVE  JournalInv'
    BY <1>5, ToldEnd DEF AnswerExisting, Crash
  <1>6. ASSUME NEW p \in Procs, WriteReserved(p)
        PROVE  JournalInv'
    <2>1. pc[p] = "write_reserved" /\ cmd[p] = "apply" /\ UNCHANGED <<command, out>>
          /\ pc' = [pc EXCEPT ![p] = "snapshot_before"]
          /\ WriteJournal(p, [mem[p] EXCEPT !.status = "reserved"])
      BY <1>0, <1>6 DEF WriteReserved, At, Goto, ApplyPCs
    <2>2. [mem[p] EXCEPT !.status = "reserved"].status = "reserved"
      BY <1>0, StatusField
    <2> QED
      BY <2>1, <2>2, ToldWrite DEF PreflightPCs
  <1>7. ASSUME NEW p \in Procs, SnapshotBefore(p) \/ ReadBefore(p)
        PROVE  JournalInv'
    <2>1. PICK l \in PreflightPCs : pc' = [pc EXCEPT ![p] = l]
      BY <1>7 DEF SnapshotBefore, ReadBefore, Goto, PreflightPCs
    <2>2. pc[p] \in PreflightPCs /\ UNCHANGED <<files, cmd, auth, out>>
      BY <1>7 DEF SnapshotBefore, ReadBefore, At, PreflightPCs, locals, command
    <2> QED
      BY <2>1, <2>2, ToldQuiet DEF PreflightPCs
  <1>8. ASSUME NEW p \in Procs, WritePreflightFailed(p)
        PROVE  JournalInv'
    <2> DEFINE j == [mem[p] EXCEPT !.status = "preflight_failed"]
    <2>1. /\ pc[p] = "write_preflight_failed" /\ cmd[p] = "apply" /\ UNCHANGED command
          /\ pc' = [pc EXCEPT ![p] = "persist_canonical"]
          /\ WriteJournal(p, j)
      BY <1>0, <1>8 DEF WritePreflightFailed, At, Goto, ApplyPCs
    <2>2. out'[p].result = "failed" /\ \A q \in Procs \ {p} : out'[q] = out[q]
      BY <1>0, <1>8 DEF WritePreflightFailed, Issue, Failures
    <2>3. j.status = "preflight_failed"
      BY <1>0, StatusField
    <2> HIDE DEF j
    <2> QED
      BY <2>1, <2>2, <2>3, ToldWrite DEF Told, Undone
  <1>9. ASSUME NEW p \in Procs, WritePrepared(p)
        PROVE  JournalInv'
    <2>1. pc[p] = "write_prepared" /\ cmd[p] = "apply" /\ UNCHANGED <<command, out>>
          /\ pc' = [pc EXCEPT ![p] = "check_operation"]
          /\ WriteJournal(p, [mem[p] EXCEPT !.status = "prepared"])
      BY <1>0, <1>9 DEF WritePrepared, At, Goto, ApplyPCs
    <2>2. [mem[p] EXCEPT !.status = "prepared"].status = "prepared"
      BY <1>0, StatusField
    <2> QED
      BY <2>1, <2>2, ToldWrite DEF DrivePCs
  <1>10. ASSUME NEW p \in Procs,
                CheckOperation(p) \/ ReplaceOperation(p) \/ ReadAfter(p) \/ SnapshotAfter(p)
         PROVE  JournalInv'
    <2>1. PICK l \in DrivePCs : pc' = [pc EXCEPT ![p] = l]
      BY <1>10 DEF CheckOperation, ReplaceOperation, ReadAfter, SnapshotAfter, Goto, DrivePCs, RepairPCs
    <2>2. pc[p] \in DrivePCs /\ pc[p] # "idle" /\ UNCHANGED <<files, cmd, auth, out>>
      BY <1>10 DEF CheckOperation, ReplaceOperation, ReadAfter, SnapshotAfter, At, DrivePCs, RepairPCs, locals, command
    <2> QED
      BY <2>1, <2>2, ToldQuiet
  <1>11. ASSUME NEW p \in Procs, WriteApplying(p)
         PROVE  JournalInv'
    <2> DEFINE j == [mem[p] EXCEPT !.status = "applying", !.applied = sent[p]]
    <2>1. pc[p] = "write_applying" /\ cmd[p] = "apply" /\ UNCHANGED <<command, out>>
      BY <1>0, <1>11 DEF WriteApplying, At, ApplyPCs
    <2>2. j.status = "applying"
      BY <1>0, StatusField
    <2>3. PICK l \in DrivePCs : /\ pc' = [pc EXCEPT ![p] = l]
                                /\ WriteJournal(p, j) \/ UNCHANGED files
      BY <1>11 DEF WriteApplying, Goto, DrivePCs, RepairPCs
    <2> HIDE DEF j
    <2>4. CASE WriteJournal(p, j)
      BY <2>1, <2>2, <2>3, <2>4, ToldWrite
    <2>5. CASE UNCHANGED files
      BY <2>1, <2>3, <2>5, ToldQuiet DEF DrivePCs, command
    <2> QED
      BY <2>3, <2>4, <2>5
  <1>12. ASSUME NEW p \in Procs, WriteCommitted(p)
         PROVE  JournalInv'
    <2> DEFINE j == [mem[p] EXCEPT !.status = "committed"]
    <2>1. /\ pc[p] = "write_committed" /\ cmd[p] = "apply" /\ UNCHANGED command
          /\ pc' = [pc EXCEPT ![p] = "persist_canonical"]
          /\ WriteJournal(p, j)
      BY <1>0, <1>12 DEF WriteCommitted, At, Goto, ApplyPCs
    <2>2. out'[p].result = "ok" /\ \A q \in Procs \ {p} : out'[q] = out[q]
      BY <1>0, <1>12 DEF WriteCommitted, Issue, Success
    <2>3. j.status = "committed"
      BY <1>0, StatusField
    <2> HIDE DEF j
    <2> QED
      BY <2>1, <2>2, <2>3, ToldWrite DEF Told, After
  <1>13. ASSUME NEW p \in Procs, SnapshotCurrent(p) \/ ReadCurrent(p)
         PROVE  JournalInv'
    <2>1. pc[p] # "idle" /\ cmd[p] = "restore" /\ UNCHANGED files
      BY <1>0, <1>13 DEF SnapshotCurrent, ReadCurrent, At, RestorePCs
    <2>2. \/ \E l : pc' = [pc EXCEPT ![p] = l] /\ UNCHANGED <<cmd, auth, out>>
          \/ Finish(p, "rejected")
      BY <1>13 DEF SnapshotCurrent, ReadCurrent, Goto, locals, command
    <2> QED
      BY <2>1, <2>2, ToldQuiet, ToldEnd
  <1>14. ASSUME NEW p \in Procs, InverseOperation(p) \/ ReadRestored(p) \/ SnapshotRestored(p)
         PROVE  JournalInv'
    <2>1. pc[p] # "idle" /\ cmd[p] = "restore" /\ UNCHANGED <<files, cmd, auth, out>>
      BY <1>0, <1>14 DEF InverseOperation, ReadRestored, SnapshotRestored, At, RestorePCs, command
    <2>2. \E l : pc' = [pc EXCEPT ![p] = l]
      BY <1>14 DEF InverseOperation, ReadRestored, SnapshotRestored, RestoreFails, Goto
    <2> QED
      BY <2>1, <2>2, ToldQuiet
  <1>15. ASSUME NEW p \in Procs, WriteRestored(p)
         PROVE  JournalInv'
    <2> DEFINE j == [mem[p] EXCEPT !.status = "restored"]
    <2>1. /\ pc[p] = "write_restored" /\ cmd[p] = "restore" /\ UNCHANGED command
          /\ pc' = [pc EXCEPT ![p] = "persist_canonical"]
          /\ WriteJournal(p, j)
      BY <1>0, <1>15 DEF WriteRestored, At, Goto, RestorePCs
    <2>2. \A q \in Procs \ {p} : out'[q] = out[q]
      BY <1>0, <1>15 DEF WriteRestored, Issue
    <2>3. j.status = "restored"
      BY <1>0, StatusField
    <2> HIDE DEF j
    <2> QED
      BY <2>1, <2>2, <2>3, ToldWrite DEF After
  <1>16. ASSUME NEW p \in Procs,
                RepairRead(p) \/ RepairReplace(p) \/ RepairVerify(p) \/ RepairSnapshot(p)
         PROVE  JournalInv'
    <2>1. PICK l \in DrivePCs : pc' = [pc EXCEPT ![p] = l]
      BY <1>16 DEF RepairRead, RepairReplace, RepairVerify, RepairSnapshot, Goto, DrivePCs, RepairPCs
    <2>2. pc[p] \in DrivePCs /\ pc[p] # "idle" /\ UNCHANGED <<files, cmd, auth, out>>
      BY <1>16 DEF RepairRead, RepairReplace, RepairVerify, RepairSnapshot, At, DrivePCs, RepairPCs, locals, command
    <2> QED
      BY <2>1, <2>2, ToldQuiet
  <1>17. ASSUME NEW p \in Procs, WriteRepairOutcome(p)
         PROVE  JournalInv'
    <2> DEFINE s == RepairStatus(cmd[p], At(p, "write_repaired"))
               j == [mem[p] EXCEPT !.status = s]
    <2>1. /\ pc[p] \in {"write_repaired", "write_unrepaired"} /\ UNCHANGED command
          /\ pc' = [pc EXCEPT ![p] = "persist_canonical"]
          /\ WriteJournal(p, j)
      BY <1>17 DEF WriteRepairOutcome, Goto
    <2>2. out'[p].result = "failed" /\ \A q \in Procs \ {p} : out'[q] = out[q]
      BY <1>0, <1>17 DEF WriteRepairOutcome, Issue, Failures
    <2>3. j.status = s
      BY <1>0, StatusField
    <2>4. /\ cmd[p] = "apply" => s \in Undone
          /\ cmd[p] = "restore" => s \in After
      BY DEF RepairStatus, Undone, After
    <2> HIDE DEF j, s
    <2> QED
      BY <2>1, <2>2, <2>3, <2>4, ToldWrite DEF Told
  <1>18. ASSUME NEW p \in Procs, PersistCanonical(p)
         PROVE  JournalInv'
    <2>1. /\ pc[p] = "persist_canonical" /\ pc'[p] = "persist_requested"
          /\ \A q \in Procs \ {p} : pc'[q] = pc[q]
          /\ auth[p] \in Auths /\ cmd[p] \in Commands
          /\ UNCHANGED <<reserved, journal, requested, cmd, auth, out>>
          /\ canonical' = [canonical EXCEPT ![cmd[p]][auth[p]] = out[p]]
      BY <1>0, <1>18 DEF PersistCanonical, At, Goto, locals, command
    <2>2. \A b \in Auths \ {auth[p]} : canonical'["apply"][b] = canonical["apply"][b]
      BY <1>0, <2>1 DEF Commands
    <2>3. CASE cmd[p] = "apply"
      <3>1. /\ Owns(p) /\ canonical["apply"][auth[p]].result = "none"
            /\ canonical'["apply"][auth[p]] = out[p]
            /\ auth[p] \in reserved
        BY <1>0, <2>1, <2>3 DEF Owns, IInv, Ownership, Commands
      <3>2. ProcTold(p) /\ AuthTold(auth[p])
        BY <2>1 DEF JournalInv
      <3>3. ProcTold(p)' /\ AuthTold(auth[p])'
        BY <2>1, <2>3, <3>1, <3>2 DEF ProcTold, AuthTold, Owns, Told, PreflightPCs, DrivePCs, RepairPCs
      <3> QED
        BY <2>1, <2>2, <3>1, <3>3, ToldFrame
    <2>4. CASE cmd[p] = "restore"
      <3>1. canonical'["apply"] = canonical["apply"]
        BY <1>0, <2>1, <2>4 DEF Commands
      <3>2. ProcTold(p) /\ AuthTold(auth[p])
        BY <2>1 DEF JournalInv
      <3>3. ProcTold(p)' /\ AuthTold(auth[p])'
        BY <2>1, <2>4, <3>1, <3>2 DEF ProcTold, AuthTold, Owns, Told
      <3> QED
        BY <2>1, <2>2, <3>1, <3>3, ToldFrame
    <2> QED
      BY <2>1, <2>3, <2>4 DEF Commands
  <1>19. ASSUME NEW p \in Procs, PersistRequested(p)
         PROVE  JournalInv'
    <2>0. PICK a \in Auths : a = auth[p]
      BY <1>0
    <2>1. /\ pc[p] = "persist_requested" /\ pc'[p] = "idle"
          /\ \A q \in Procs \ {p} : /\ pc'[q] = pc[q] /\ cmd'[q] = cmd[q]
                                    /\ auth'[q] = auth[q] /\ out'[q] = out[q]
          /\ cmd[p] \in Commands
          /\ UNCHANGED <<reserved, journal, canonical>>
          /\ requested' = [requested EXCEPT ![cmd[p]][a] = out[p]]
      BY <1>0, <2>0, <1>19 DEF PersistRequested, At, Goto, Finish
    <2>2. /\ \A b \in Auths \ {a} : requested'["apply"][b] = requested["apply"][b]
          /\ \/ requested'["apply"][a] = requested["apply"][a]
             \/ cmd[p] = "apply" /\ requested'["apply"][a] = out[p]
      BY <1>0, <2>1 DEF Commands
    <2>3. ProcTold(p) /\ AuthTold(a)
      BY <2>1 DEF JournalInv
    <2>4. cmd[p] = "apply" => out[p].result = canonical["apply"][a].result
      BY <2>0, <2>1, <2>3 DEF ProcTold, Owns
    <2>5. ProcTold(p)' /\ AuthTold(a)'
      <3>1. cmd'[p] = "apply"
        BY <1>0, <1>19 DEF PersistRequested, Finish
      <3> QED
        BY <2>1, <2>2, <2>3, <2>4, <3>1 DEF ProcTold, AuthTold, Owns, Told
    <2> QED
      BY <2>0, <2>1, <2>2, <2>5, ToldFrame
  <1>20. CASE Surroundings \/ UNCHANGED vars
    <2>1. UNCHANGED <<pc, cmd, auth, out, journal, canonical, requested, reserved>>
      BY <1>20 DEF Surroundings, EnableKillSwitch, DisableKillSwitch, Tick, ExternalEdit,
        LateEffect, vars, locals, command, files, receipts
    <2> QED
      BY <2>1 DEF JournalInv, ProcTold, AuthTold, Owns, Told
  <1> QED
    BY <1>1, <1>2, <1>3, <1>4, <1>5, <1>6, <1>7, <1>8, <1>9, <1>10, <1>11, <1>12, <1>13,
       <1>14, <1>15, <1>16, <1>17, <1>18, <1>19, <1>20
       DEF Next, Start, Continue, ApplyStep, RestoreStep, SharedStep

(* In every reachable state journal and receipts tell the same.            *)
LEMMA ToldInvariance == Spec => []JournalInv
  <1>1. Init => JournalInv
    BY DEF Init, JournalInv, ProcTold, AuthTold, Owns, Told, NoJournal, NoReceipt, Commands
  <1>2. IInv /\ JournalInv /\ [Next]_vars => JournalInv'
    BY ToldStep
  <1> QED
    BY <1>1, <1>2, Invariance, PTL DEF Spec

-----------------------------------------------------------------------------
(* What a transaction that was not carried out leaves on the board.        *)

Clean == {"none", "reserved", "preflight_failed", "rolled_back"}

(* Until a plan's first replacement, and after its rollback, none of its   *)
(* texts is on the board.                                                  *)
ResidueInv ==
  /\ late = {}
  /\ \A a \in Auths : journal[a].status \in Clean => NoNewText(a)
  /\ \A p \in Procs : pc[p] = "write_repaired" /\ cmd[p] = "apply" => NoNewText(auth[p])

(* p is about to send a new text of its authorization's plan.              *)
Sends(p) == pc[p] = "replace" \/ (pc[p] = "repair_replace" /\ cmd[p] = "restore")

(* A text put in a slot of another plan, or an old one, adds nothing new.  *)
LEMMA PutElsewhere ==
  ASSUME NEW a \in Auths, NEW s, NEW t, board \in Boards, board' = Put(board, {s}, t),
         s \in OwnSlots(a) => t # "new", NoNewText(a)
  PROVE  NoNewText(a)'
  <1>1. OwnSlots(a) \subseteq Slots
    BY PlanType DEF OwnSlots, SlotsOf
  <1>2. \A x \in Slots : board'.text[x] = IF x = s THEN t ELSE board.text[x]
    BY DEF Put, Boards
  <1> QED
    BY <1>1, <1>2 DEF NoNewText

(* Without late effects no replacement is ever left for later.             *)
LEMMA NothingLate ==
  ASSUME ~LateEffects, late = {}, [Next]_vars
  PROVE  late' = {}
  <1>1. ASSUME NEW s, NEW from, NEW to, NEW reply, Replace(s, from, to, reply)
        PROVE  late' = {}
    BY <1>1 DEF Replace
  <1>2. ASSUME NEW p \in Procs, Start(p) \/ Crash(p)
        PROVE  late' = {}
    BY <1>2 DEF Start, StartApply, StartRestore, AnswerRestore, Crash, provider
  <1>3. ASSUME NEW p \in Procs, ApplyStep(p)
        PROVE  late' = {}
    BY <1>1, <1>3 DEF ApplyStep, Reserve, AnswerExisting, WriteReserved, SnapshotBefore, ReadBefore,
      WritePreflightFailed, WritePrepared, CheckOperation, ReplaceOperation, WriteApplying,
      ReadAfter, SnapshotAfter, WriteCommitted, provider
  <1>4. ASSUME NEW p \in Procs, RestoreStep(p)
        PROVE  late' = {}
    BY <1>1, <1>4 DEF RestoreStep, SnapshotCurrent, ReadCurrent, InverseOperation, ReadRestored,
      SnapshotRestored, WriteRestored, provider
  <1>5. ASSUME NEW p \in Procs, SharedStep(p)
        PROVE  late' = {}
    BY <1>1, <1>5 DEF SharedStep, RepairRead, RepairReplace, RepairVerify, RepairSnapshot,
      WriteRepairOutcome, PersistCanonical, PersistRequested, provider
  <1>6. CASE Surroundings \/ UNCHANGED vars
    BY <1>6 DEF Surroundings, EnableKillSwitch, DisableKillSwitch, Tick, ExternalEdit,
      LateEffect, vars, provider
  <1> QED
    BY <1>2, <1>3, <1>4, <1>5, <1>6 DEF Next, Continue

(* Without late effects a step puts new texts on the board for the         *)
(* authorization of its process only.                                      *)
LEMMA BoardStep ==
  ASSUME IInv, late = {}, ~LateEffects, [Next]_vars, NEW a \in Auths, NoNewText(a),
         \A p \in Procs : Sends(p) => auth[p] # a
  PROVE  NoNewText(a)'
  <1>0. /\ board \in Boards /\ auth \in [Procs -> Auths] /\ cmd \in [Procs -> Commands]
        /\ \A p \in Procs : /\ pc[p] \in {"replace", "inverse"} => sent[p] < Len(Plan[auth[p]])
                            /\ todo[p] \subseteq Ops(auth[p])
                            /\ sent[p] \in Nat
                            /\ pc[p] = "replace" => cmd[p] = "apply"
    BY DEF IInv, TypeOK, IndexOK, Ownership, ApplyPCs
  <1>1. ASSUME UNCHANGED board
        PROVE  NoNewText(a)'
    BY <1>1 DEF NoNewText
  <1>2. ASSUME NEW b \in Auths \ {a}, NEW i \in Ops(b)
        PROVE  Plan[b][i] \notin OwnSlots(a)
    BY DEF OwnSlots, SlotsOf
  <1>3. ASSUME NEW s, NEW from, NEW to, NEW reply \in Replies, Replace(s, from, to, reply),
               s \in OwnSlots(a) => to # "new"
        PROVE  NoNewText(a)'
    BY <1>0, <1>1, <1>3, PutElsewhere DEF Replace
  <1>4. ASSUME NEW p \in Procs, ReplaceOperation(p)
        PROVE  NoNewText(a)'
    <2>0. pc[p] = "replace"
      BY <1>4 DEF ReplaceOperation, At
    <2>1. pc[p] = "replace" /\ auth[p] \in Auths \ {a}
      BY <1>0, <2>0 DEF Sends
    <2>3. sent[p] + 1 \in Ops(auth[p])
      BY <1>0, <2>1, PlanType
    <2>2. PICK reply \in Replies : Replace(Plan[auth[p]][sent[p] + 1], "old", "new", reply)
      BY <1>4 DEF ReplaceOperation
    <2> QED
      BY <1>2, <1>3, <2>1, <2>2, <2>3
  <1>5. ASSUME NEW p \in Procs, RepairReplace(p)
        PROVE  NoNewText(a)'
    <2>1. PICK i \in todo[p], reply \in Replies :
            Replace(Plan[auth[p]][i], WrongText(p), GoalText(p), reply)
      BY <1>5 DEF RepairReplace
    <2>2. CASE cmd[p] = "apply"
      BY <1>3, <2>1, <2>2 DEF GoalText
    <2>3. CASE cmd[p] # "apply"
      <3>1. auth[p] \in Auths \ {a} /\ i \in Ops(auth[p])
        BY <1>0, <1>5, <2>3 DEF RepairReplace, At, Sends, Commands
      <3> QED
        BY <1>2, <1>3, <2>1, <3>1
    <2> QED
      BY <2>2, <2>3
  <1>6. ASSUME NEW p \in Procs, InverseOperation(p)
        PROVE  NoNewText(a)'
    BY <1>3, <1>6 DEF InverseOperation
  <1>7. CASE ExternalEdit
    <2>1. \/ board' = [board EXCEPT !.rest = edits + 1]
          \/ \E s \in Slots : board' = Put(board, {s}, "other")
      BY <1>7 DEF ExternalEdit
    <2>2. CASE board' = [board EXCEPT !.rest = edits + 1]
      BY <1>0, <2>1, <2>2 DEF NoNewText, Boards
    <2>3. CASE \E s \in Slots : board' = Put(board, {s}, "other")
      BY <1>0, <2>1, <2>3, PutElsewhere
    <2> QED
      BY <2>1, <2>2, <2>3
  <1>8. ASSUME UNCHANGED provider
        PROVE  NoNewText(a)'
    BY <1>1, <1>8 DEF provider
  <1>9. ASSUME NEW p \in Procs, Start(p) \/ Crash(p)
        PROVE  UNCHANGED provider
    BY <1>9 DEF Start, StartApply, StartRestore, AnswerRestore, Crash
  <1>10. ASSUME NEW p \in Procs, ApplyStep(p), ~ReplaceOperation(p)
         PROVE  UNCHANGED provider
    BY <1>10 DEF ApplyStep, Reserve, AnswerExisting, WriteReserved, SnapshotBefore, ReadBefore,
      WritePreflightFailed, WritePrepared, CheckOperation, WriteApplying, ReadAfter,
      SnapshotAfter, WriteCommitted
  <1>11. ASSUME NEW p \in Procs, RestoreStep(p), ~InverseOperation(p)
         PROVE  UNCHANGED provider
    BY <1>11 DEF RestoreStep, SnapshotCurrent, ReadCurrent, ReadRestored, SnapshotRestored,
      WriteRestored
  <1>12. ASSUME NEW p \in Procs, SharedStep(p), ~RepairReplace(p)
         PROVE  UNCHANGED provider
    BY <1>12 DEF SharedStep, RepairRead, RepairVerify, RepairSnapshot, WriteRepairOutcome,
      PersistCanonical, PersistRequested
  <1>13. CASE EnableKillSwitch \/ DisableKillSwitch \/ Tick \/ UNCHANGED vars
    BY <1>8, <1>13 DEF EnableKillSwitch, DisableKillSwitch, Tick, vars
  <1>14. ~LateEffect
    BY DEF LateEffect
  <1> QED
    BY <1>4, <1>5, <1>6, <1>7, <1>8, <1>9, <1>10, <1>11, <1>12, <1>13, <1>14
       DEF Next, Continue, Surroundings

(* A transaction that is clean, or was just repaired, has no sender.       *)
LEMMA CleanSendsNothing ==
  ASSUME IInv, JournalInv, NEW p \in Procs, Sends(p)
  PROVE  /\ journal[auth[p]].status \notin Clean
         /\ \A q \in Procs : pc[q] = "write_repaired" /\ cmd[q] = "apply" => auth[q] # auth[p]
  <1>1. ProcTold(p) /\ AuthTold(auth[p])
    BY DEF JournalInv, IInv, TypeOK
  <1>2. CASE pc[p] = "replace"
    <2>1. Owns(p)
      BY <1>2 DEF IInv, Ownership, ApplyPCs, Owns
    <2> QED
      BY <1>1, <1>2, <2>1 DEF ProcTold, DrivePCs, Clean, IInv, Ownership, Owns
  <1>3. CASE pc[p] = "repair_replace" /\ cmd[p] = "restore"
    <2>1. canonical["apply"][auth[p]].result = "ok"
      BY <1>1, <1>3 DEF ProcTold
    <2>2. \A q \in Procs : Owns(q) /\ pc[q] # "persist_requested" => auth[q] # auth[p]
      BY <2>1 DEF IInv, Ownership
    <2> QED
      BY <1>1, <2>1, <2>2 DEF AuthTold, Told, After, Clean, Owns
  <1> QED
    BY <1>2, <1>3 DEF Sends

(* Where a journal becomes clean, no text of the plan is on the board.     *)
LEMMA CleanWritten ==
  ASSUME IInv, JournalInv, ResidueInv, [Next]_vars, NEW a \in Auths,
         journal'[a].status \in Clean, journal[a].status \notin Clean
  PROVE  NoNewText(a) /\ UNCHANGED board
  <1>0. /\ mem \in [Procs -> Journals] /\ cmd \in [Procs -> Commands]
        /\ auth \in [Procs -> Auths] /\ journal \in [Auths -> Journals]
        /\ \A p \in Procs : pc[p] \in {"write_reserved", "write_preflight_failed"} => Owns(p)
    BY DEF IInv, TypeOK, Ownership, Owns, ApplyPCs
  <1> DEFINE Keeps == journal'[a].status = journal[a].status \/ journal'[a].status \notin Clean
  <1>1. ASSUME NEW p \in Procs, NEW s, NEW j, j.status = s, WriteJournal(p, j),
               s \notin Clean \/ journal[auth[p]].status \in Clean
        PROVE  Keeps
    BY <1>0, <1>1 DEF WriteJournal
  <1>2. ASSUME NEW p \in Procs, WriteReserved(p) \/ WritePreflightFailed(p)
        PROVE  Keeps
    <2>1. journal[auth[p]].status \in Clean
      BY <1>0, <1>2 DEF WriteReserved, WritePreflightFailed, At, JournalInv, ProcTold,
        PreflightPCs, Clean
    <2> QED
      BY <1>1, <1>2, <2>1 DEF WriteReserved, WritePreflightFailed
  <1>3. ASSUME NEW p \in Procs, WritePrepared(p) \/ WriteCommitted(p) \/ WriteRestored(p)
        PROVE  Keeps
    <2>1. PICK s \in {"prepared", "committed", "restored"} :
            WriteJournal(p, [mem[p] EXCEPT !.status = s])
      BY <1>3 DEF WritePrepared, WriteCommitted, WriteRestored
    <2>2. [mem[p] EXCEPT !.status = s].status = s /\ s \notin Clean
      BY <1>0, StatusField DEF Clean
    <2> QED
      BY <1>1, <2>1, <2>2
  <1>4. ASSUME NEW p \in Procs, WriteApplying(p)
        PROVE  Keeps
    <2> DEFINE j == [mem[p] EXCEPT !.status = "applying", !.applied = sent[p]]
    <2>1. j.status = "applying"
      BY <1>0, StatusField
    <2>2. WriteJournal(p, j) \/ UNCHANGED journal
      BY <1>4 DEF WriteApplying, files
    <2> HIDE DEF j
    <2> QED
      BY <1>1, <2>1, <2>2 DEF Clean
  <1>5. ASSUME NEW p \in Procs, WriteRepairOutcome(p)
        PROVE  Keeps \/ (NoNewText(a) /\ UNCHANGED board)
    <2> DEFINE s == RepairStatus(cmd[p], At(p, "write_repaired"))
               j == [mem[p] EXCEPT !.status = s]
    <2>1. WriteJournal(p, j) /\ UNCHANGED board
      BY <1>5 DEF WriteRepairOutcome, provider
    <2>2. j.status = s
      BY <1>0, StatusField
    <2>3. s \notin Clean \/ (cmd[p] = "apply" /\ pc[p] = "write_repaired")
      <3>1. CASE pc[p] = "write_repaired"
        BY <1>0, <3>1 DEF RepairStatus, Clean, Commands, At
      <3>2. CASE pc[p] # "write_repaired"
        <4>1. ~At(p, "write_repaired")
          BY <3>2 DEF At
        <4> QED
          BY <4>1 DEF RepairStatus, Clean
      <3> QED
        BY <3>1, <3>2
    <2> HIDE DEF j, s
    <2>4. CASE s \notin Clean
      BY <1>1, <2>1, <2>2, <2>4
    <2>5. CASE cmd[p] = "apply" /\ pc[p] = "write_repaired" /\ auth[p] = a
      BY <2>1, <2>5 DEF ResidueInv
    <2>6. CASE auth[p] # a
      BY <1>0, <2>1, <2>6 DEF WriteJournal
    <2> QED
      BY <2>3, <2>4, <2>5, <2>6
  <1>6. ASSUME UNCHANGED journal
        PROVE  Keeps
    BY <1>6
  <1>7. ASSUME NEW p \in Procs, Start(p) \/ Crash(p)
        PROVE  UNCHANGED journal
    BY <1>7 DEF Start, StartApply, StartRestore, AnswerRestore, Crash, files
  <1>8. ASSUME NEW p \in Procs, ApplyStep(p),
               ~(WriteReserved(p) \/ WritePreflightFailed(p) \/ WritePrepared(p)
                 \/ WriteApplying(p) \/ WriteCommitted(p))
        PROVE  UNCHANGED journal
    BY <1>8 DEF ApplyStep, Reserve, AnswerExisting, SnapshotBefore, ReadBefore,
      CheckOperation, ReplaceOperation, ReadAfter, SnapshotAfter, files
  <1>9. ASSUME NEW p \in Procs, RestoreStep(p), ~WriteRestored(p)
        PROVE  UNCHANGED journal
    BY <1>9 DEF RestoreStep, SnapshotCurrent, ReadCurrent, InverseOperation, ReadRestored,
      SnapshotRestored, files
  <1>10. ASSUME NEW p \in Procs, SharedStep(p), ~WriteRepairOutcome(p)
         PROVE  UNCHANGED journal
    BY <1>10 DEF SharedStep, RepairRead, RepairReplace, RepairVerify, RepairSnapshot,
      PersistCanonical, PersistRequested, files
  <1>11. CASE Surroundings \/ UNCHANGED vars
    BY <1>6, <1>11 DEF Surroundings, EnableKillSwitch, DisableKillSwitch, Tick, ExternalEdit,
      LateEffect, vars, files
  <1> QED
    BY <1>2, <1>3, <1>4, <1>5, <1>6, <1>7, <1>8, <1>9, <1>10, <1>11 DEF Next, Continue

(* A rollback is recorded as successful after a look at the whole board.   *)
LEMMA RepairedWritten ==
  ASSUME IInv, [Next]_vars, NEW p \in Procs, pc'[p] = "write_repaired", cmd'[p] = "apply"
  PROVE  \/ pc[p] = "write_repaired" /\ cmd[p] = "apply" /\ auth'[p] = auth[p]
         \/ UNCHANGED board /\ auth'[p] = auth[p] /\ NoNewText(auth[p])
  <1> DEFINE Goal == \/ pc[p] = "write_repaired" /\ cmd[p] = "apply" /\ auth'[p] = auth[p]
                     \/ UNCHANGED board /\ auth'[p] = auth[p] /\ NoNewText(auth[p])
  <1>0. pc \in [Procs -> PCs] /\ auth \in [Procs -> Auths] /\ cmd \in [Procs -> Commands]
    BY DEF IInv, TypeOK
  <1>1. ASSUME NEW a \in Auths
        PROVE  \A s \in OwnSlots(a) : Base.text[s] # "new"
    BY PlanType DEF OwnSlots, SlotsOf, Base
  <1>2. ASSUME NEW q \in Procs, RepairSnapshot(q)
        PROVE  Goal
    <2>1. UNCHANGED <<cmd, auth, board>>
      BY <1>2 DEF RepairSnapshot, provider, locals, command
    <2>2. CASE q # p
      BY <1>0, <1>2, <2>1, <2>2 DEF RepairSnapshot, Goto
    <2>3. CASE q = p
      <3>1. board = Base
        BY <1>0, <1>2, <2>1, <2>3 DEF RepairSnapshot, Goto, GoalSnapshot
      <3> QED
        BY <1>0, <1>1, <2>1, <3>1 DEF NoNewText
    <2> QED
      BY <2>2, <2>3
  <1>3. ASSUME NEW q \in Procs, NEW l \in PCs \ {"write_repaired"}, pc' = [pc EXCEPT ![q] = l],
               \A r \in Procs \ {q} : cmd'[r] = cmd[r] /\ auth'[r] = auth[r]
        PROVE  Goal
    BY <1>0, <1>3
  <1> USE DEF PCs, ApplyPCs, RestorePCs, RepairPCs, PersistPCs, Goto, command, locals
  <1>4. ASSUME NEW q \in Procs, Start(q) \/ Crash(q)
        PROVE  Goal
    BY <1>0, <1>4 DEF Start, StartApply, StartRestore, AnswerRestore, Crash, Begin, Finish
  <1>5. ASSUME NEW q \in Procs, ApplyStep(q)
        PROVE  Goal
    <2>1. PICK l \in PCs \ {"write_repaired"} : pc' = [pc EXCEPT ![q] = l]
      BY <1>5 DEF ApplyStep, Reserve, AnswerExisting, WriteReserved, SnapshotBefore, ReadBefore,
        WritePreflightFailed, WritePrepared, CheckOperation, ReplaceOperation, WriteApplying,
        ReadAfter, SnapshotAfter, WriteCommitted, Finish
    <2>2. \A r \in Procs \ {q} : cmd'[r] = cmd[r] /\ auth'[r] = auth[r]
      BY <1>0, <1>5 DEF ApplyStep, Reserve, AnswerExisting, WriteReserved, SnapshotBefore, ReadBefore,
        WritePreflightFailed, WritePrepared, CheckOperation, ReplaceOperation, WriteApplying,
        ReadAfter, SnapshotAfter, WriteCommitted, Finish
    <2> QED
      BY <1>3, <2>1, <2>2
  <1>6. ASSUME NEW q \in Procs, RestoreStep(q)
        PROVE  Goal
    <2>1. PICK l \in PCs \ {"write_repaired"} : pc' = [pc EXCEPT ![q] = l]
      BY <1>6 DEF RestoreStep, SnapshotCurrent, ReadCurrent, InverseOperation, ReadRestored,
        SnapshotRestored, WriteRestored, RestoreFails, Finish
    <2>2. \A r \in Procs \ {q} : cmd'[r] = cmd[r] /\ auth'[r] = auth[r]
      BY <1>0, <1>6 DEF RestoreStep, SnapshotCurrent, ReadCurrent, InverseOperation, ReadRestored,
        SnapshotRestored, WriteRestored, RestoreFails, Finish
    <2> QED
      BY <1>3, <2>1, <2>2
  <1>7. ASSUME NEW q \in Procs, SharedStep(q), ~RepairSnapshot(q)
        PROVE  Goal
    <2>1. PICK l \in PCs \ {"write_repaired"} : pc' = [pc EXCEPT ![q] = l]
      BY <1>7 DEF SharedStep, RepairRead, RepairReplace, RepairVerify,
        WriteRepairOutcome, PersistCanonical, PersistRequested, Finish
    <2>2. \A r \in Procs \ {q} : cmd'[r] = cmd[r] /\ auth'[r] = auth[r]
      BY <1>0, <1>7 DEF SharedStep, RepairRead, RepairReplace, RepairVerify,
        WriteRepairOutcome, PersistCanonical, PersistRequested, Finish
    <2> QED
      BY <1>3, <2>1, <2>2
  <1>8. CASE Surroundings \/ UNCHANGED vars
    BY <1>8 DEF Surroundings, EnableKillSwitch, DisableKillSwitch, Tick, ExternalEdit,
      LateEffect, vars
  <1> QED
    BY <1>2, <1>4, <1>5, <1>6, <1>7, <1>8 DEF Next, Continue

(* Without late effects every step keeps the board clean of what was not   *)
(* carried out.                                                            *)
LEMMA ResidueStep ==
  ASSUME ~LateEffects, IInv, JournalInv, ResidueInv, [Next]_vars
  PROVE  ResidueInv'
  <1>0. auth \in [Procs -> Auths] /\ Auths # {}
    BY PlanAssumption DEF IInv, TypeOK
  <1>1. ASSUME NEW a \in Auths, journal[a].status \in Clean
        PROVE  NoNewText(a)'
    BY <1>1, BoardStep, CleanSendsNothing DEF ResidueInv
  <1>2. ASSUME NEW a \in Auths, journal'[a].status \in Clean
        PROVE  NoNewText(a)'
    <2>1. CASE journal[a].status \in Clean
      BY <1>1, <2>1
    <2>2. CASE journal[a].status \notin Clean
      BY <1>2, <2>2, CleanWritten DEF NoNewText
    <2> QED
      BY <2>1, <2>2
  <1>3. ASSUME NEW p \in Procs, pc[p] = "write_repaired", cmd[p] = "apply"
        PROVE  \A a \in Auths : a = auth[p] => NoNewText(a)'
    BY <1>3, BoardStep, CleanSendsNothing DEF ResidueInv
  <1>4. ASSUME NEW p \in Procs, pc'[p] = "write_repaired", cmd'[p] = "apply"
        PROVE  NoNewText(auth[p])'
    <2>1. PICK a \in Auths : a = auth[p]
      BY <1>0
    <2>2. \/ pc[p] = "write_repaired" /\ cmd[p] = "apply" /\ auth'[p] = auth[p]
          \/ UNCHANGED board /\ auth'[p] = auth[p] /\ NoNewText(auth[p])
      BY <1>4, RepairedWritten
    <2>3. auth'[p] = a /\ (NoNewText(a)' \/ (UNCHANGED board /\ NoNewText(a)))
      <3>1. CASE pc[p] = "write_repaired" /\ cmd[p] = "apply" /\ auth'[p] = auth[p]
        BY <1>3, <2>1, <3>1
      <3>2. CASE UNCHANGED board /\ auth'[p] = auth[p] /\ NoNewText(auth[p])
        BY <2>1, <3>2
      <3> QED
        BY <2>2, <3>1, <3>2
    <2> QED
      BY <2>3 DEF NoNewText
  <1>5. late' = {}
    BY NothingLate DEF ResidueInv
  <1> QED
    BY <1>2, <1>4, <1>5 DEF ResidueInv

(* While a replacement takes effect at once or never, a transaction that   *)
(* reports a failed preflight or a successful rollback has left none of    *)
(* its texts on the board (_rollback looks at the whole board before it    *)
(* reports); with late effects nothing in the program could promise that.  *)
THEOREM NothingIsLeftBehind ==
  ASSUME ~LateEffects
  PROVE  Spec => []NoResidue
  <1>1. Init => ResidueInv
    <2>1. ASSUME NEW a \in Auths
          PROVE  \A s \in OwnSlots(a) : Base.text[s] # "new"
      BY PlanType DEF OwnSlots, SlotsOf, Base
    <2> QED
      BY <2>1 DEF Init, ResidueInv, NoNewText
  <1>2. IInv /\ JournalInv /\ ResidueInv /\ [Next]_vars => ResidueInv'
    BY ResidueStep
  <1>3. ResidueInv => NoResidue
    BY DEF ResidueInv, NoResidue, Clean
  <1> QED
    BY <1>1, <1>2, <1>3, Invariance, ToldInvariance, PTL DEF Spec

-----------------------------------------------------------------------------
(* What becomes of a restored region.  A replacement that timed out may    *)
(* put a new text back later: a restore starts only where none is waiting. *)

(* Miro may still replace the old text of slot s by the new one.           *)
Waits(s) == [slot |-> s, from |-> "old", to |-> "new"] \in late
Quiet(a) == \A s \in OwnSlots(a) : ~Waits(s)

(* Only slots that do not show the new text wait for one.                  *)
Pinned(a) == \A s \in OwnSlots(a) : Waits(s) => board.text[s] # "new"

(* From the first inverse operation on, except after a failed repair.      *)
UndoPCs == {"inverse", "read_restored", "snapshot_restored", "write_restored",
            "repair_read", "repair_replace", "repair_verify", "repair_snapshot",
            "write_repaired"}

(* No replacement of an apply waits until the apply has failed, and none   *)
(* when a restore begins to undo it; a verified restore finds no new text, *)
(* and a failed one puts new texts only where there are none.              *)
ProcRest(p) ==
  LET a == auth[p] IN
  /\ pc[p] \in ApplyPCs \ {"reserve"} => Quiet(a)
  /\ cmd[p] = "restore" =>
       /\ pc[p] # "idle" => p \in Restorers
       /\ pc[p] \in RestorePCs \cup RepairPCs => journal[a].status = "committed"
       /\ pc[p] \in UndoPCs => Quiet(a)
       /\ pc[p] \in {"snapshot_restored", "write_restored"} => NoNewText(a)
       /\ pc[p] = "repair_replace" =>
            \A i \in todo[p] : Plan[a][i] \in OwnSlots(a) => board.text[Plan[a][i]] # "new"

AuthRest(a) ==
  /\ a \notin reserved => Quiet(a)
  /\ journal[a].status = "committed" => Pinned(a)
  /\ journal[a].status = "restored" => Quiet(a) /\ NoNewText(a)

(* A new text is only ever sent in exchange for an old one.                *)
LateKind == \A r \in late : r.to = "new" => r.from = "old"
RestInv == LateKind /\ (\A p \in Procs : ProcRest(p)) /\ (\A a \in Auths : AuthRest(a))
OneRestorer == \A p, q \in Restorers : p = q

(* What happens to the slots of a when no new text of a is sent.           *)
Kept(a) ==
  /\ LateKind'
  /\ Quiet(a) => Quiet(a)'
  /\ Pinned(a) => Pinned(a)'
  /\ \A s \in OwnSlots(a) : Quiet(a) /\ board.text[s] # "new" => board'.text[s] # "new"

LEMMA KeptUnchanged ==
  ASSUME LateKind, NEW a \in Auths, UNCHANGED provider
  PROVE  Kept(a)
  BY DEF LateKind, Kept, provider, Quiet, Pinned, Waits

(* One replacement is executed, refused or left for later.                 *)
LEMMA KeptReplace ==
  ASSUME IInv, LateKind, NEW a \in Auths, NEW s \in Slots, NEW from, NEW to, NEW reply \in Replies,
         Replace(s, from, to, reply),
         to = "new" => from = "old" /\ s \notin OwnSlots(a)
  PROVE  Kept(a)
  <1>0. OwnSlots(a) \subseteq Slots /\ board \in Boards
    BY PlanType DEF OwnSlots, SlotsOf, IInv, TypeOK
  <1>1. CASE UNCHANGED late /\ board' = Put(board, {s}, to)
    <2>1. \A x \in Slots : board'.text[x] = IF x = s THEN to ELSE board.text[x]
      BY <1>1 DEF Put, Boards
    <2> QED
      BY <1>0, <1>1, <2>1 DEF LateKind, Kept, Quiet, Pinned, Waits
  <1>2. CASE UNCHANGED <<board, late>>
    BY <1>2, KeptUnchanged DEF provider
  <1>3. CASE UNCHANGED board /\ late' = late \cup {[slot |-> s, from |-> from, to |-> to]}
    <2>1. ASSUME NEW x \in OwnSlots(a), Waits(x)'
          PROVE  Waits(x)
      <3>1. [slot |-> x, from |-> "old", to |-> "new"] # [slot |-> s, from |-> from, to |-> to]
        <4>1. CASE to = "new"
          <5>1. x # s
            BY <4>1
          <5> QED
            BY <5>1
        <4>2. CASE to # "new"
          BY <4>2
        <4> QED
          BY <4>1, <4>2
      <3> QED
        BY <1>3, <2>1, <3>1 DEF Waits
    <2>2. LateKind'
      BY <1>3 DEF LateKind
    <2> QED
      BY <1>3, <2>1, <2>2 DEF Kept, Quiet, Pinned
  <1> QED
    BY <1>1, <1>2, <1>3 DEF Replace, Replies

(* The surroundings send nothing, Miro executes what waits.                *)
LEMMA KeptOutside ==
  ASSUME IInv, LateKind, NEW a \in Auths, Surroundings \/ UNCHANGED vars
  PROVE  Kept(a)
  <1>0. /\ OwnSlots(a) \subseteq Slots /\ board \in Boards /\ late \subseteq Replacements
    BY PlanType DEF OwnSlots, SlotsOf, IInv, TypeOK
  <1>1. CASE EnableKillSwitch \/ DisableKillSwitch \/ Tick \/ UNCHANGED vars
    BY <1>1, KeptUnchanged DEF EnableKillSwitch, DisableKillSwitch, Tick, vars
  <1>2. CASE ExternalEdit
    <2>1. UNCHANGED late
      BY <1>2 DEF ExternalEdit
    <2>2. \A x \in Slots : board'.text[x] = board.text[x] \/ board'.text[x] = "other"
      BY <1>0, <1>2 DEF ExternalEdit, Put, Boards
    <2> QED
      BY <1>0, <2>1, <2>2 DEF LateKind, Kept, Quiet, Pinned, Waits
  <1>3. CASE LateEffect
    <2>1. PICK r \in late :
            /\ late' = late \ {r}
            /\ board' = IF board.text[r.slot] = r.from THEN Put(board, {r.slot}, r.to) ELSE board
      BY <1>3 DEF LateEffect
    <2>2. r.slot \in Slots /\ r = [slot |-> r.slot, from |-> r.from, to |-> r.to]
      BY <1>0 DEF Replacements
    <2>3. \A x \in Slots : \/ board'.text[x] = board.text[x]
                           \/ x = r.slot /\ board'.text[x] = r.to
      BY <1>0, <2>1 DEF Put, Boards
    <2>4. \A x \in Slots : Waits(x)' => Waits(x)
      BY <2>1 DEF Waits
    <2>5. r.to = "new" => Waits(r.slot) /\ ~Waits(r.slot)'
      <3>1. r.to = "new" => r.from = "old"
        BY DEF LateKind
      <3> QED
        BY <2>1, <2>2, <3>1 DEF Waits
    <2>6. LateKind'
      BY <2>1 DEF LateKind
    <2> QED
      BY <1>0, <2>3, <2>4, <2>5, <2>6 DEF Kept, Quiet, Pinned
  <1> QED
    BY <1>1, <1>2, <1>3 DEF Surroundings

(* A process that sends nothing for a keeps its slots.                     *)
LEMMA KeptStep ==
  ASSUME IInv, LateKind, NEW a \in Auths, NEW p \in Procs, Start(p) \/ Continue(p) \/ Crash(p),
         Sends(p) => auth[p] # a
  PROVE  Kept(a)
  <1>0. /\ auth[p] \in Auths /\ cmd[p] \in Commands
        /\ pc[p] \in {"replace", "inverse"} => sent[p] < Len(Plan[auth[p]])
        /\ todo[p] \subseteq Ops(auth[p])
        /\ sent[p] \in Nat
    BY DEF IInv, TypeOK, IndexOK
  <1>2. ASSUME NEW b \in Auths, NEW i \in Ops(b)
        PROVE  Plan[b][i] \in Slots /\ (b # a => Plan[b][i] \notin OwnSlots(a))
    BY PlanType DEF OwnSlots, SlotsOf
  <1>4. CASE ReplaceOperation(p)
    <2>1. pc[p] = "replace" /\ auth[p] # a
      BY <1>4 DEF ReplaceOperation, At, Sends
    <2>2. sent[p] + 1 \in Ops(auth[p])
      BY <1>0, <2>1, PlanType
    <2>3. PICK reply \in Replies : Replace(Plan[auth[p]][sent[p] + 1], "old", "new", reply)
      BY <1>4 DEF ReplaceOperation
    <2> QED
      BY <1>0, <1>2, <2>1, <2>2, <2>3, KeptReplace
  <1>5. CASE RepairReplace(p)
    <2>1. PICK i \in todo[p], reply \in Replies :
            Replace(Plan[auth[p]][i], WrongText(p), GoalText(p), reply)
      BY <1>5 DEF RepairReplace
    <2>2. i \in Ops(auth[p])
      BY <1>0
    <2>3. GoalText(p) = "new" => WrongText(p) = "old" /\ auth[p] # a
      BY <1>0, <1>5 DEF GoalText, WrongText, RepairReplace, At, Sends, Commands
    <2> QED
      BY <1>0, <1>2, <2>1, <2>2, <2>3, KeptReplace
  <1>6. CASE InverseOperation(p)
    <2>1. pc[p] = "inverse"
      BY <1>6 DEF InverseOperation, At
    <2>2. Len(Plan[auth[p]]) - sent[p] \in Ops(auth[p])
      BY <1>0, <2>1, PlanType
    <2>3. PICK reply \in Replies :
            Replace(Plan[auth[p]][Len(Plan[auth[p]]) - sent[p]], "new", "old", reply)
      BY <1>6 DEF InverseOperation
    <2> QED
      BY <1>0, <1>2, <2>2, <2>3, KeptReplace
  <1>7. CASE Start(p) \/ Crash(p)
    BY <1>7, KeptUnchanged DEF Start, StartApply, StartRestore, AnswerRestore, Crash
  <1>8. CASE ApplyStep(p) /\ ~ReplaceOperation(p)
    BY <1>8, KeptUnchanged DEF ApplyStep, Reserve, AnswerExisting, WriteReserved, SnapshotBefore, ReadBefore,
      WritePreflightFailed, WritePrepared, CheckOperation, WriteApplying, ReadAfter,
      SnapshotAfter, WriteCommitted
  <1>9. CASE RestoreStep(p) /\ ~InverseOperation(p)
    BY <1>9, KeptUnchanged DEF RestoreStep, SnapshotCurrent, ReadCurrent, ReadRestored, SnapshotRestored,
      WriteRestored
  <1>10. CASE SharedStep(p) /\ ~RepairReplace(p)
    BY <1>10, KeptUnchanged DEF SharedStep, RepairRead, RepairVerify, RepairSnapshot, WriteRepairOutcome,
      PersistCanonical, PersistRequested
  <1> QED
    BY <1>4, <1>5, <1>6, <1>7, <1>8, <1>9, <1>10 DEF Continue

(* A step of a process leaves the local variables of the others alone.     *)
LEMMA OthersRest ==
  ASSUME IInv, NEW p \in Procs, Start(p) \/ Continue(p) \/ Crash(p), NEW q \in Procs \ {p}
  PROVE  pc'[q] = pc[q] /\ cmd'[q] = cmd[q] /\ auth'[q] = auth[q] /\ todo'[q] = todo[q]
  <1> USE DEF IInv, TypeOK, Goto, command, locals, Finish
  <1>1. CASE Start(p) \/ Crash(p)
    BY <1>1 DEF Start, StartApply, StartRestore, AnswerRestore, Crash, Begin
  <1>2. CASE ApplyStep(p)
    <2>1. CASE AnswerExisting(p)
      BY <2>1 DEF AnswerExisting
    <2>2. CASE ReplaceOperation(p)
      BY <2>2 DEF ReplaceOperation
    <2>3. CASE WriteApplying(p)
      BY <2>3 DEF WriteApplying
    <2> QED
      BY <1>2, <2>1, <2>2, <2>3 DEF ApplyStep, Reserve, WriteReserved, SnapshotBefore, ReadBefore,
        WritePreflightFailed, WritePrepared, CheckOperation, ReadAfter, SnapshotAfter, WriteCommitted
  <1>3. CASE RestoreStep(p)
    BY <1>3 DEF RestoreStep, SnapshotCurrent, ReadCurrent, InverseOperation, ReadRestored,
      SnapshotRestored, WriteRestored, RestoreFails
  <1>4. CASE SharedStep(p)
    BY <1>4 DEF SharedStep, RepairRead, RepairReplace, RepairVerify, RepairSnapshot,
      WriteRepairOutcome, PersistCanonical, PersistRequested
  <1> QED
    BY <1>1, <1>2, <1>3, <1>4 DEF Continue

(* A process at work on an authorization, in a phase whose facts have to   *)
(* be protected from the other processes.                                  *)
Working(p) ==
  \/ pc[p] \in ApplyPCs \ {"reserve"}
  \/ cmd[p] = "restore" /\ pc[p] \in RestorePCs \cup RepairPCs

(* Nobody else writes the journal of its authorization or sends for it.    *)
LEMMA WorkingAlone ==
  ASSUME IInv, JournalInv, RestInv, OneRestorer, NEW p \in Procs, NEW q \in Procs \ {p},
         auth[p] = auth[q], Working(p)
  PROVE  /\ ~(Owns(q) /\ pc[q] # "persist_requested")
         /\ ~(cmd[q] = "restore" /\ pc[q] # "idle")
         /\ ~Sends(q)
  <1>1. ProcTold(p) /\ ProcTold(q) /\ ProcRest(p) /\ ProcRest(q)
    BY DEF JournalInv, RestInv
  <1>2. CASE pc[p] \in ApplyPCs \ {"reserve"}
    <2>1. Owns(p) /\ canonical["apply"][auth[p]].result = "none"
      BY <1>2 DEF IInv, Ownership, Owns, ApplyPCs
    <2>2. ~Owns(q)
      BY <2>1 DEF IInv, Ownership
    <2>3. ~(cmd[q] = "restore" /\ pc[q] # "idle")
      BY <1>1, <2>1 DEF ProcTold
    <2> QED
      BY <2>2, <2>3 DEF Sends, Owns, IInv, Ownership, ApplyPCs
  <1>3. CASE cmd[p] = "restore" /\ pc[p] \in RestorePCs \cup RepairPCs
    <2>1. pc[p] # "idle" /\ canonical["apply"][auth[p]].result = "ok"
      BY <1>1, <1>3 DEF ProcTold, RestorePCs, RepairPCs
    <2>2. ~(Owns(q) /\ pc[q] # "persist_requested")
      BY <2>1 DEF IInv, Ownership
    <2>3. ~(cmd[q] = "restore" /\ pc[q] # "idle")
      BY <1>1, <1>3, <2>1 DEF ProcRest, OneRestorer
    <2> QED
      BY <2>2, <2>3 DEF Sends, Owns, IInv, Ownership, ApplyPCs
  <1> QED
    BY <1>2, <1>3 DEF Working

(* A journal is written by the owner of the reservation or by a restore.   *)
LEMMA JournalWriters ==
  ASSUME IInv, NEW p \in Procs, Start(p) \/ Continue(p) \/ Crash(p), NEW a \in Auths,
         journal'[a] # journal[a]
  PROVE  /\ auth[p] = a
         /\ \/ Owns(p) /\ pc[p] # "persist_requested"
            \/ cmd[p] = "restore" /\ pc[p] \in {"write_restored", "write_repaired", "write_unrepaired"}
  <1>0. /\ journal \in [Auths -> Journals] /\ cmd[p] \in Commands
        /\ pc[p] \in ApplyPCs => cmd[p] = "apply"
        /\ pc[p] \in RestorePCs => cmd[p] = "restore"
    BY DEF IInv, TypeOK, Ownership
  <1>1. ASSUME NEW j, WriteJournal(p, j)
        PROVE  auth[p] = a
    BY <1>0, <1>1 DEF WriteJournal
  <1>2. CASE Start(p) \/ Crash(p)
    BY <1>2 DEF Start, StartApply, StartRestore, AnswerRestore, Crash, files
  <1>3. CASE ApplyStep(p)
    <2>1. WriteReserved(p) \/ WritePreflightFailed(p) \/ WritePrepared(p) \/ WriteApplying(p) \/ WriteCommitted(p)
      BY <1>3 DEF ApplyStep, Reserve, AnswerExisting, SnapshotBefore, ReadBefore, CheckOperation,
        ReplaceOperation, ReadAfter, SnapshotAfter, files
    <2>2. pc[p] \in ApplyPCs \ {"reserve"}
      BY <2>1 DEF WriteReserved, WritePreflightFailed, WritePrepared, WriteApplying, WriteCommitted, At, ApplyPCs
    <2>3. auth[p] = a
      BY <1>1, <2>1 DEF WriteReserved, WritePreflightFailed, WritePrepared, WriteApplying, WriteCommitted, files
    <2> QED
      BY <1>0, <2>2, <2>3 DEF Owns, ApplyPCs
  <1>4. CASE RestoreStep(p)
    <2>1. WriteRestored(p)
      BY <1>4 DEF RestoreStep, SnapshotCurrent, ReadCurrent, InverseOperation, ReadRestored,
        SnapshotRestored, files
    <2> QED
      BY <1>0, <1>1, <2>1 DEF WriteRestored, At, RestorePCs
  <1>5. CASE SharedStep(p)
    <2>1. WriteRepairOutcome(p)
      BY <1>5 DEF SharedStep, RepairRead, RepairReplace, RepairVerify, RepairSnapshot,
        PersistCanonical, PersistRequested, files
    <2> QED
      BY <1>0, <1>1, <2>1 DEF WriteRepairOutcome, Owns, Commands
  <1> QED
    BY <1>2, <1>3, <1>4, <1>5 DEF Continue

(* Where a journal becomes committed or restored, no new text is waiting.  *)
LEMMA RestWritten ==
  ASSUME IInv, JournalInv, RestInv, NEW p \in Procs, Start(p) \/ Continue(p) \/ Crash(p),
         NEW a \in Auths, journal'[a].status # journal[a].status,
         journal'[a].status \in {"committed", "restored"}
  PROVE  /\ UNCHANGED provider /\ Quiet(a)
         /\ journal'[a].status = "restored" => NoNewText(a)
  <1>0. /\ journal \in [Auths -> Journals] /\ mem[p] \in Journals /\ cmd[p] \in Commands
        /\ auth[p] = a /\ ProcRest(p)
        /\ \/ Owns(p) /\ pc[p] # "persist_requested"
           \/ cmd[p] = "restore" /\ pc[p] \in {"write_restored", "write_repaired", "write_unrepaired"}
        /\ pc[p] \in ApplyPCs => cmd[p] = "apply"
        /\ pc[p] \in RestorePCs => cmd[p] = "restore"
    BY JournalWriters DEF IInv, TypeOK, Ownership, RestInv
  <1>1. ASSUME NEW j, WriteJournal(p, j), j.status \notin {"committed", "restored"}
        PROVE  FALSE
    BY <1>0, <1>1 DEF WriteJournal
  <1>2. ASSUME UNCHANGED journal
        PROVE  FALSE
    BY <1>2
  <1>3. CASE Start(p) \/ Crash(p)
    BY <1>2, <1>3 DEF Start, StartApply, StartRestore, AnswerRestore, Crash, files
  <1>4. CASE ApplyStep(p)
    <2>1. CASE WriteReserved(p) \/ WritePreflightFailed(p) \/ WritePrepared(p)
      <3>1. PICK s \in {"reserved", "preflight_failed", "prepared"} :
              WriteJournal(p, [mem[p] EXCEPT !.status = s])
        BY <2>1 DEF WriteReserved, WritePreflightFailed, WritePrepared
      <3>2. [mem[p] EXCEPT !.status = s].status = s
        BY <1>0, StatusField
      <3> QED
        BY <1>1, <3>1, <3>2
    <2>2. CASE WriteApplying(p)
      <3> DEFINE j == [mem[p] EXCEPT !.status = "applying", !.applied = sent[p]]
      <3>1. j.status = "applying"
        BY <1>0, StatusField
      <3>2. WriteJournal(p, j) \/ UNCHANGED journal
        BY <2>2 DEF WriteApplying, files
      <3> HIDE DEF j
      <3> QED
        BY <1>1, <1>2, <3>1, <3>2
    <2>3. CASE WriteCommitted(p)
      <3>1. pc[p] = "write_committed" /\ UNCHANGED provider
            /\ WriteJournal(p, [mem[p] EXCEPT !.status = "committed"])
        BY <2>3 DEF WriteCommitted, At
      <3>2. Quiet(a)
        BY <1>0, <3>1 DEF ProcRest, ApplyPCs
      <3>3. [mem[p] EXCEPT !.status = "committed"].status = "committed"
        BY <1>0, StatusField
      <3>4. journal'[a].status = "committed"
        BY <1>0, <3>1, <3>3 DEF WriteJournal
      <3> QED
        BY <3>1, <3>2, <3>4
    <2> QED
      BY <1>2, <1>4, <2>1, <2>2, <2>3 DEF ApplyStep, Reserve, AnswerExisting, SnapshotBefore, ReadBefore,
        CheckOperation, ReplaceOperation, ReadAfter, SnapshotAfter, files
  <1>5. CASE RestoreStep(p)
    <2>1. CASE WriteRestored(p)
      <3>1. pc[p] = "write_restored" /\ UNCHANGED provider
        BY <2>1 DEF WriteRestored, At
      <3> QED
        BY <1>0, <3>1 DEF ProcRest, RestorePCs, UndoPCs
    <2> QED
      BY <1>2, <1>5, <2>1 DEF RestoreStep, SnapshotCurrent, ReadCurrent, InverseOperation, ReadRestored,
        SnapshotRestored, files
  <1>6. CASE SharedStep(p)
    <2>1. CASE WriteRepairOutcome(p)
      <3> DEFINE s == RepairStatus(cmd[p], At(p, "write_repaired"))
                 j == [mem[p] EXCEPT !.status = s]
      <3>1. WriteJournal(p, j) /\ pc[p] \in {"write_repaired", "write_unrepaired"}
        BY <2>1 DEF WriteRepairOutcome
      <3>2. j.status = s
        BY <1>0, StatusField
      <3>3. \/ s \notin {"committed", "restored"}
            \/ cmd[p] = "restore" /\ s = "committed"
        BY <1>0 DEF RepairStatus, Commands
      <3> HIDE DEF j, s
      <3>4. CASE cmd[p] = "restore" /\ s = "committed"
        <4>1. journal[a].status = "committed"
          BY <1>0, <3>1, <3>4 DEF ProcRest, RepairPCs
        <4>2. journal'[a].status = "committed"
          BY <1>0, <3>1, <3>2, <3>4 DEF WriteJournal
        <4> QED
          BY <4>1, <4>2
      <3> QED
        BY <1>1, <3>1, <3>2, <3>3, <3>4
    <2> QED
      BY <1>2, <1>6, <2>1 DEF SharedStep, RepairRead, RepairReplace, RepairVerify, RepairSnapshot,
        PersistCanonical, PersistRequested, files
  <1> QED
    BY <1>3, <1>4, <1>5, <1>6 DEF Continue

(* A reservation is never given up.                                        *)
LEMMA ReservedStays ==
  ASSUME [Next]_vars
  PROVE  reserved \subseteq reserved'
  <1>1. ASSUME NEW p \in Procs, Start(p) \/ Crash(p)
        PROVE  reserved \subseteq reserved'
    BY <1>1 DEF Start, StartApply, StartRestore, AnswerRestore, Crash, files
  <1>2. ASSUME NEW p \in Procs, ApplyStep(p)
        PROVE  reserved \subseteq reserved'
    BY <1>2 DEF ApplyStep, Reserve, AnswerExisting, WriteReserved, SnapshotBefore, ReadBefore,
      WritePreflightFailed, WritePrepared, CheckOperation, ReplaceOperation, WriteApplying,
      ReadAfter, SnapshotAfter, WriteCommitted, WriteJournal, files
  <1>3. ASSUME NEW p \in Procs, RestoreStep(p)
        PROVE  reserved \subseteq reserved'
    BY <1>3 DEF RestoreStep, SnapshotCurrent, ReadCurrent, InverseOperation, ReadRestored,
      SnapshotRestored, WriteRestored, WriteJournal, files
  <1>4. ASSUME NEW p \in Procs, SharedStep(p)
        PROVE  reserved \subseteq reserved'
    BY <1>4 DEF SharedStep, RepairRead, RepairReplace, RepairVerify, RepairSnapshot,
      WriteRepairOutcome, PersistCanonical, PersistRequested, WriteJournal, files
  <1>5. CASE Surroundings \/ UNCHANGED vars
    BY <1>5 DEF Surroundings, EnableKillSwitch, DisableKillSwitch, Tick, ExternalEdit,
      LateEffect, vars, files
  <1> QED
    BY <1>1, <1>2, <1>3, <1>4, <1>5 DEF Next, Continue

(* A failed restore puts a new text back where there is none, and leaves   *)
(* one waiting only when it gives up.                                      *)
LEMMA SentBack ==
  ASSUME IInv, RestInv, NEW p \in Procs, RepairReplace(p), cmd[p] = "restore",
         NEW a \in Auths, a = auth[p]
  PROVE  /\ LateKind' /\ Pinned(a)'
         /\ pc'[p] # "write_unrepaired" => Quiet(a)'
         /\ pc'[p] = "repair_replace" =>
              \A i \in todo'[p] : Plan[a][i] \in OwnSlots(a) => board'.text[Plan[a][i]] # "new"
  <1>1. PICK i \in todo[p], reply \in Replies :
          /\ Replace(Plan[a][i], "old", "new", reply)
          /\ todo' = [todo EXCEPT ![p] = todo[p] \ {i}]
          /\ pc' = [pc EXCEPT ![p] = IF reply # "ok" THEN "write_unrepaired"
                                     ELSE IF todo[p] = {i} THEN "repair_verify"
                                     ELSE "repair_replace"]
    BY DEF RepairReplace, Goto, WrongText, GoalText
  <1>2. /\ pc[p] = "repair_replace" /\ pc \in [Procs -> PCs] /\ todo \in [Procs -> SUBSET Nat]
        /\ board \in Boards /\ todo[p] \subseteq Ops(a) /\ LateKind /\ ProcRest(p)
    BY DEF RepairReplace, At, IInv, TypeOK, IndexOK, RestInv
  <1>3. /\ Quiet(a)
        /\ \A j \in todo[p] : Plan[a][j] \in OwnSlots(a) => board.text[Plan[a][j]] # "new"
    BY <1>2 DEF ProcRest, UndoPCs
  <1>4. todo'[p] = todo[p] \ {i}
    BY <1>1, <1>2
  <1>5. \A j \in todo[p] \ {i} : Plan[a][j] # Plan[a][i] /\ Plan[a][j] \in Slots
    <2>1. \A j \in Ops(a) : j # i => Plan[a][j] # Plan[a][i]
      BY <1>2, PlanAssumption DEF Ops
    <2> QED
      BY <1>2, <2>1, PlanType
  <1>6. OwnSlots(a) \subseteq Slots
    BY PlanType DEF OwnSlots, SlotsOf
  <1>7. CASE UNCHANGED late /\ board' = Put(board, {Plan[a][i]}, "new")
    <2>1. \A x \in Slots : x # Plan[a][i] => board'.text[x] = board.text[x]
      BY <1>2, <1>7 DEF Put, Boards
    <2>2. LateKind' /\ Quiet(a)'
      BY <1>2, <1>3, <1>7 DEF LateKind, Quiet, Waits
    <2>3. Pinned(a)'
      BY <2>2 DEF Pinned, Quiet
    <2> QED
      BY <1>3, <1>4, <1>5, <2>1, <2>2, <2>3
  <1>8. CASE reply # "ok" /\ UNCHANGED <<board, late>>
    <2>1. LateKind' /\ Quiet(a)' /\ Pinned(a)'
      BY <1>2, <1>3, <1>8 DEF LateKind, Quiet, Pinned, Waits
    <2>2. pc'[p] = "write_unrepaired"
      BY <1>1, <1>2, <1>8
    <2> QED
      BY <2>1, <2>2
  <1>9. CASE /\ reply # "ok" /\ UNCHANGED board
             /\ late' = late \cup {[slot |-> Plan[a][i], from |-> "old", to |-> "new"]}
    <2>1. pc'[p] = "write_unrepaired"
      BY <1>1, <1>2, <1>9
    <2>2. LateKind'
      BY <1>2, <1>9 DEF LateKind
    <2>3. \A x \in OwnSlots(a) : Waits(x)' => x = Plan[a][i]
      BY <1>3, <1>9 DEF Quiet, Waits
    <2>4. Pinned(a)'
      BY <1>3, <1>9, <2>3 DEF Pinned
    <2> QED
      BY <2>1, <2>2, <2>4
  <1> QED
    BY <1>1, <1>7, <1>8, <1>9 DEF Replace, Replies

(* Where a process is about to send, it is the only thing it does.         *)
LEMMA SenderStep ==
  ASSUME IInv, NEW p \in Procs, Start(p) \/ Continue(p) \/ Crash(p), Sends(p)
  PROVE  /\ UNCHANGED <<journal, reserved>>
         /\ \/ ReplaceOperation(p) /\ pc[p] = "replace"
            \/ RepairReplace(p) /\ cmd[p] = "restore" /\ pc[p] = "repair_replace"
            \/ UNCHANGED provider
  <1> USE DEF Sends, At, files
  <1>1. CASE Start(p) \/ Crash(p)
    BY <1>1 DEF Start, StartApply, StartRestore, AnswerRestore, Crash
  <1>2. CASE ApplyStep(p)
    BY <1>2 DEF ApplyStep, Reserve, AnswerExisting, WriteReserved, SnapshotBefore, ReadBefore,
      WritePreflightFailed, WritePrepared, CheckOperation, ReplaceOperation, WriteApplying,
      ReadAfter, SnapshotAfter, WriteCommitted
  <1>3. CASE RestoreStep(p)
    BY <1>3 DEF RestoreStep, SnapshotCurrent, ReadCurrent, InverseOperation, ReadRestored,
      SnapshotRestored, WriteRestored
  <1>4. CASE SharedStep(p)
    BY <1>4 DEF SharedStep, RepairRead, RepairReplace, RepairVerify, RepairSnapshot,
      WriteRepairOutcome, PersistCanonical, PersistRequested
  <1> QED
    BY <1>1, <1>2, <1>3, <1>4 DEF Continue

(* What a process that is about to send has behind it.                     *)
LEMMA SenderBound ==
  ASSUME IInv, JournalInv, RestInv, NEW p \in Procs, Sends(p)
  PROVE  /\ auth[p] \in reserved
         /\ pc[p] = "replace" => journal[auth[p]].status \in {"prepared", "applying"}
         /\ pc[p] # "replace" => journal[auth[p]].status = "committed"
  <1>1. ProcTold(p) /\ ProcRest(p) /\ auth[p] \in Auths
    BY DEF JournalInv, RestInv, IInv, TypeOK
  <1>2. CASE pc[p] = "replace"
    <2>1. Owns(p)
      BY <1>2 DEF IInv, Ownership, ApplyPCs, Owns
    <2> QED
      BY <1>1, <1>2, <2>1 DEF ProcTold, DrivePCs, IInv, Ownership
  <1>3. CASE pc[p] = "repair_replace" /\ cmd[p] = "restore"
    <2>1. canonical["apply"][auth[p]].result = "ok"
      BY <1>1, <1>3 DEF ProcTold
    <2>2. auth[p] \in reserved
      BY <1>1, <2>1 DEF IInv, Ownership
    <2> QED
      BY <1>1, <1>3, <2>2 DEF ProcRest, RepairPCs
  <1> QED
    BY <1>2, <1>3 DEF Sends

(* A step of a process keeps what is said of every authorization.          *)
LEMMA AuthRestStep ==
  ASSUME IInv, JournalInv, RestInv, [Next]_vars,
         NEW p \in Procs, Start(p) \/ Continue(p) \/ Crash(p), NEW a \in Auths
  PROVE  AuthRest(a)' /\ LateKind'
  <1>0. LateKind /\ AuthRest(a) /\ reserved \subseteq reserved'
    BY ReservedStays DEF RestInv
  <1>1. CASE Sends(p) /\ auth[p] = a
    <2>1. a \in reserved' /\ UNCHANGED journal
      BY <1>0, <1>1, SenderBound, SenderStep
    <2>2. CASE ReplaceOperation(p) /\ pc[p] = "replace"
      <3>1. journal[a].status \in {"prepared", "applying"}
        BY <1>1, <2>2, SenderBound
      <3>2. LateKind'
        <4>1. PICK reply \in Replies : Replace(Plan[auth[p]][sent[p] + 1], "old", "new", reply)
          BY <2>2 DEF ReplaceOperation
        <4> QED
          BY <1>0, <4>1 DEF Replace, LateKind
      <3> QED
        BY <2>1, <3>1, <3>2 DEF AuthRest
    <2>3. CASE RepairReplace(p) /\ cmd[p] = "restore" /\ pc[p] = "repair_replace"
      <3>1. journal[a].status = "committed"
        BY <1>1, <2>3, SenderBound
      <3> QED
        BY <1>1, <2>1, <2>3, <3>1, SentBack DEF AuthRest
    <2>4. CASE UNCHANGED provider
      <3>1. Kept(a)
        BY <1>0, <2>4, KeptUnchanged
      <3>2. journal[a].status # "restored"
        BY <1>1, SenderBound
      <3> QED
        BY <1>0, <2>1, <3>1, <3>2 DEF AuthRest, Kept
    <2> QED
      BY <1>1, <2>2, <2>3, <2>4, SenderStep
  <1>2. CASE Sends(p) => auth[p] # a
    <2>1. Kept(a)
      BY <1>0, <1>2, KeptStep
    <2>2. CASE journal'[a].status = journal[a].status
      BY <1>0, <2>1, <2>2 DEF AuthRest, Kept, NoNewText
    <2>3. CASE journal'[a].status # journal[a].status /\ journal'[a].status \in {"committed", "restored"}
      <3>1. /\ Quiet(a) /\ UNCHANGED provider
            /\ journal'[a].status = "restored" => NoNewText(a)
        BY <2>3, RestWritten
      <3> QED
        BY <1>0, <2>1, <3>1 DEF AuthRest, Kept, NoNewText, Pinned, Quiet
    <2>4. CASE journal'[a].status \notin {"committed", "restored"}
      BY <1>0, <2>1, <2>4 DEF AuthRest, Kept
    <2> QED
      BY <2>2, <2>3, <2>4
  <1> QED
    BY <1>1, <1>2

(* A step of another process keeps what is said of p.                      *)
LEMMA ProcRestOthers ==
  ASSUME IInv, JournalInv, RestInv, OneRestorer, NEW p \in Procs,
         NEW q \in Procs \ {p}, Start(q) \/ Continue(q) \/ Crash(q)
  PROVE  ProcRest(p)'
  <1>0. PICK a \in Auths : a = auth[p]
    BY DEF IInv, TypeOK
  <1>1. /\ pc'[p] = pc[p] /\ cmd'[p] = cmd[p] /\ auth'[p] = a /\ todo'[p] = todo[p]
        /\ ProcRest(p) /\ LateKind
    BY <1>0, OthersRest DEF RestInv
  <1>2. CASE Working(p)
    <2>1. /\ Sends(q) => auth[q] # a
          /\ auth[q] = a => /\ ~(Owns(q) /\ pc[q] # "persist_requested")
                            /\ ~(cmd[q] = "restore" /\ pc[q] # "idle")
      BY <1>0, <1>2, WorkingAlone
    <2>2. Kept(a)
      BY <1>1, <2>1, KeptStep
    <2>3. journal'[a] = journal[a]
      BY <2>1, JournalWriters
    <2> QED
      BY <1>0, <1>1, <2>2, <2>3 DEF ProcRest, Kept, NoNewText, UndoPCs
  <1>3. CASE ~Working(p)
    BY <1>0, <1>1, <1>3 DEF ProcRest, Working, UndoPCs, RestorePCs, RepairPCs
  <1> QED
    BY <1>2, <1>3

(* A command that ends leaves nothing to be said of its process.           *)
LEMMA ProcRestEnd ==
  ASSUME IInv, NEW p \in Procs, NEW how, Finish(p, how)
  PROVE  ProcRest(p)'
  <1>1. pc'[p] = "idle" /\ cmd'[p] = "apply"
    BY DEF Finish, Goto, IInv, TypeOK
  <1> QED
    BY <1>1 DEF ProcRest, ApplyPCs

(* An apply keeps what is said of it, whatever it does.                    *)
LEMMA ProcRestApply ==
  ASSUME IInv, RestInv, NEW p \in Procs, cmd[p] = "apply", UNCHANGED <<cmd, auth>>,
         NEW l, pc' = [pc EXCEPT ![p] = l],
         l \in ApplyPCs \ {"reserve"} =>
           UNCHANGED late /\ (pc[p] \in ApplyPCs \ {"reserve"} \/ auth[p] \notin reserved)
  PROVE  ProcRest(p)'
  <1>1. ProcRest(p) /\ AuthRest(auth[p]) /\ pc'[p] = l
    BY DEF RestInv, IInv, TypeOK
  <1> QED
    BY <1>1 DEF ProcRest, AuthRest, Quiet, Waits

(* A restore that has not written its outcome keeps it as long as it sends *)
(* no new text.                                                            *)
LEMMA ProcRestRestore ==
  ASSUME IInv, RestInv, NEW p \in Procs, cmd[p] = "restore", UNCHANGED <<cmd, auth, journal, todo>>,
         NEW a \in Auths, a = auth[p], Kept(a),
         NEW l, pc' = [pc EXCEPT ![p] = l], pc[p] \in RestorePCs \cup RepairPCs,
         l \in (RestorePCs \cup RepairPCs) \ {"repair_replace"},
         l \in UndoPCs => pc[p] \in UndoPCs \/ Quiet(a),
         l \in {"snapshot_restored", "write_restored"} => NoNewText(a)
  PROVE  ProcRest(p)'
  <1>1. ProcRest(p) /\ pc'[p] = l /\ pc[p] # "idle"
    BY DEF RestInv, IInv, TypeOK, RestorePCs, RepairPCs
  <1>2. l \in UndoPCs => Quiet(a) /\ Quiet(a)'
    BY <1>1 DEF ProcRest, Kept
  <1>3. l \in {"snapshot_restored", "write_restored"} => NoNewText(a)'
    BY <1>2 DEF Kept, NoNewText, UndoPCs
  <1>4. l \notin ApplyPCs \ {"reserve"}
    BY DEF ApplyPCs, RestorePCs, RepairPCs
  <1> QED
    BY <1>1, <1>2, <1>3, <1>4 DEF ProcRest

(* Once a command writes its outcome, only that it is a restore is said.   *)
LEMMA ProcRestPersist ==
  ASSUME IInv, RestInv, NEW p \in Procs, pc[p] # "idle", UNCHANGED cmd,
         NEW l \in PersistPCs, pc' = [pc EXCEPT ![p] = l]
  PROVE  ProcRest(p)'
  <1>1. ProcRest(p) /\ pc'[p] = l
    BY DEF RestInv, IInv, TypeOK
  <1> QED
    BY <1>1 DEF ProcRest, PersistPCs, ApplyPCs, RestorePCs, RepairPCs, UndoPCs

(* A process keeps what is said of it by its own steps.                    *)
LEMMA ProcRestOwn ==
  ASSUME IInv, JournalInv, RestInv, NEW p \in Procs, Start(p) \/ Continue(p) \/ Crash(p)
  PROVE  ProcRest(p)'
  <1>0. PICK a \in Auths : a = auth[p]
    BY DEF IInv, TypeOK
  <1>1. /\ pc \in [Procs -> PCs] /\ cmd \in [Procs -> Commands] /\ auth \in [Procs -> Auths]
        /\ todo \in [Procs -> SUBSET Nat] /\ mem \in [Procs -> Journals] /\ board \in Boards
        /\ pc[p] \in ApplyPCs => cmd[p] = "apply"
        /\ pc[p] \in RestorePCs => cmd[p] = "restore"
        /\ ProcRest(p) /\ LateKind /\ AuthRest(a)
    BY DEF IInv, TypeOK, Ownership, RestInv
  <1>2. OwnSlots(a) \subseteq SlotsOf(a)
    BY DEF OwnSlots
  <1>3. CASE Start(p)
    <2>1. ASSUME NEW b \in Auths, StartApply(p, b)
          PROVE  ProcRest(p)'
      <3>1. pc'[p] = "reserve" /\ cmd'[p] = "apply"
        BY <1>1, <2>1 DEF StartApply, Goto, Begin
      <3> QED
        BY <3>1 DEF ProcRest
    <2>2. ASSUME NEW b \in Auths, StartRestore(p, b)
          PROVE  ProcRest(p)'
      <3>1. /\ pc'[p] = "snapshot_current" /\ cmd'[p] = "restore" /\ auth'[p] = b
            /\ p \in Restorers /\ UNCHANGED journal
        BY <1>1, <2>2 DEF StartRestore, Goto, Begin, files
      <3>2. journal[b].status = "committed"
        BY <2>2 DEF StartRestore, RestoreAdmissible
      <3> QED
        BY <3>1, <3>2 DEF ProcRest, ApplyPCs, UndoPCs
    <2>3. ASSUME NEW b \in Auths, AnswerRestore(p, b)
          PROVE  ProcRest(p)'
      BY <2>3, ProcRestEnd DEF AnswerRestore
    <2> QED
      BY <1>3, <2>1, <2>2, <2>3 DEF Start
  <1>4. CASE Crash(p)
    BY <1>4, ProcRestEnd DEF Crash
  <1>5. CASE ApplyStep(p)
    <2>1. CASE AnswerExisting(p)
      BY <2>1, ProcRestEnd DEF AnswerExisting
    <2>2. CASE ReplaceOperation(p)
      <3>1. cmd[p] = "apply" /\ UNCHANGED <<cmd, auth>> /\ pc[p] \in ApplyPCs \ {"reserve"}
        BY <1>1, <2>2 DEF ReplaceOperation, At, ApplyPCs, command
      <3>2. \/ pc' = [pc EXCEPT ![p] = "repair_read"]
            \/ pc' = [pc EXCEPT ![p] = "write_applying"] /\ UNCHANGED late
        BY <2>2 DEF ReplaceOperation, Goto, Replace
      <3> QED
        BY <3>1, <3>2, ProcRestApply DEF ApplyPCs
    <2>3. CASE ApplyStep(p) /\ ~AnswerExisting(p) /\ ~ReplaceOperation(p)
      <3>1. /\ UNCHANGED <<cmd, auth, late>> /\ pc[p] \in ApplyPCs
            /\ pc[p] = "reserve" => auth[p] \notin reserved
        BY <2>3 DEF ApplyStep, Reserve, WriteReserved, SnapshotBefore, ReadBefore,
          WritePreflightFailed, WritePrepared, CheckOperation, WriteApplying, ReadAfter,
          SnapshotAfter, WriteCommitted, At, ApplyPCs, provider, locals, command
      <3>2. \E l : pc' = [pc EXCEPT ![p] = l]
        BY <2>3 DEF ApplyStep, Reserve, WriteReserved, SnapshotBefore, ReadBefore,
          WritePreflightFailed, WritePrepared, CheckOperation, WriteApplying, ReadAfter,
          SnapshotAfter, WriteCommitted, Goto
      <3> QED
        BY <1>1, <3>1, <3>2, ProcRestApply
    <2> QED
      BY <1>5, <2>1, <2>2, <2>3
  <1>6. CASE RestoreStep(p)
    <2>0. pc[p] \in RestorePCs /\ cmd[p] = "restore" /\ ~Sends(p)
      BY <1>1, <1>6 DEF RestoreStep, SnapshotCurrent, ReadCurrent, InverseOperation, ReadRestored,
        SnapshotRestored, WriteRestored, At, RestorePCs, Sends
    <2>1. Kept(a)
      BY <1>1, <1>6, <2>0, KeptStep DEF Continue
    <2>2. CASE SnapshotCurrent(p)
      <3>1. \/ Finish(p, "rejected")
            \/ UNCHANGED <<cmd, auth, journal, todo>> /\ pc' = [pc EXCEPT ![p] = "read_current"]
        BY <2>2 DEF SnapshotCurrent, Goto, locals, command, files
      <3> QED
        BY <1>0, <2>0, <2>1, <3>1, ProcRestEnd, ProcRestRestore DEF RestorePCs, UndoPCs
    <2>3. CASE ReadCurrent(p)
      <3>1. \/ Finish(p, "rejected")
            \/ /\ UNCHANGED <<cmd, auth, journal, todo>> /\ pc' = [pc EXCEPT ![p] = "inverse"]
               /\ VerifyAfterDsl(a, board)
        BY <1>0, <2>3 DEF ReadCurrent, Goto, locals, command, files
      <3>2. Pinned(a)
        BY <1>0, <1>1, <2>0 DEF AuthRest, ProcRest
      <3>3. VerifyAfterDsl(a, board) => Quiet(a)
        BY <1>2, <3>2 DEF VerifyAfterDsl, AllRead, Pinned, Quiet
      <3> QED
        BY <1>0, <2>0, <2>1, <3>1, <3>3, ProcRestEnd, ProcRestRestore DEF RestorePCs
    <2>4. CASE InverseOperation(p)
      <3>1. pc[p] \in UndoPCs /\ UNCHANGED <<cmd, auth, journal, todo>>
        BY <2>4 DEF InverseOperation, At, UndoPCs, command, files
      <3>2. PICK l \in {"inverse", "read_restored", "repair_read"} : pc' = [pc EXCEPT ![p] = l]
        BY <2>4 DEF InverseOperation, RestoreFails, Goto
      <3> QED
        BY <1>0, <2>0, <2>1, <3>1, <3>2, ProcRestRestore DEF RestorePCs, RepairPCs
    <2>5. CASE ReadRestored(p)
      <3>1. pc[p] \in UndoPCs /\ UNCHANGED <<cmd, auth, journal, todo>>
        BY <2>5 DEF ReadRestored, At, UndoPCs, command, files
      <3>2. \/ pc' = [pc EXCEPT ![p] = "repair_read"]
            \/ pc' = [pc EXCEPT ![p] = "snapshot_restored"] /\ VerifyRestoredDsl(a, board)
        BY <1>0, <2>5 DEF ReadRestored, RestoreFails, Goto
      <3>3. VerifyRestoredDsl(a, board) => NoNewText(a)
        BY <1>2 DEF VerifyRestoredDsl, AllRead, NoNewText
      <3> QED
        BY <1>0, <2>0, <2>1, <3>1, <3>2, <3>3, ProcRestRestore DEF RestorePCs, RepairPCs
    <2>6. CASE SnapshotRestored(p)
      <3>1. pc[p] = "snapshot_restored" /\ UNCHANGED <<cmd, auth, journal, todo>>
        BY <2>6 DEF SnapshotRestored, At, command, files
      <3>2. PICK l \in {"repair_read", "write_restored"} : pc' = [pc EXCEPT ![p] = l]
        BY <2>6 DEF SnapshotRestored, RestoreFails, Goto
      <3>3. NoNewText(a) /\ pc[p] \in UndoPCs
        BY <1>0, <1>1, <2>0, <3>1 DEF ProcRest, UndoPCs
      <3> QED
        BY <1>0, <2>0, <2>1, <3>1, <3>2, <3>3, ProcRestRestore DEF RestorePCs, RepairPCs
    <2>7. CASE WriteRestored(p)
      BY <1>1, <2>7, ProcRestPersist DEF WriteRestored, At, Goto, command, PersistPCs
    <2> QED
      BY <1>6, <2>2, <2>3, <2>4, <2>5, <2>6, <2>7 DEF RestoreStep
  <1>7. CASE SharedStep(p)
    <2>1. CASE PersistRequested(p)
      BY <2>1, ProcRestEnd DEF PersistRequested
    <2>2. CASE PersistCanonical(p) \/ WriteRepairOutcome(p)
      <3>1. /\ pc[p] # "idle" /\ UNCHANGED cmd
            /\ \E l \in PersistPCs : pc' = [pc EXCEPT ![p] = l]
        BY <2>2 DEF PersistCanonical, WriteRepairOutcome, At, Goto, locals, command, PersistPCs
      <3> QED
        BY <3>1, ProcRestPersist
    <2>3. CASE RepairRead(p) \/ RepairReplace(p) \/ RepairVerify(p) \/ RepairSnapshot(p)
      <3>1. /\ UNCHANGED <<cmd, auth, journal>> /\ pc[p] \in RepairPCs
            /\ cmd[p] = "apply" \/ cmd[p] = "restore"
        BY <1>1, <2>3 DEF RepairRead, RepairReplace, RepairVerify, RepairSnapshot, At, RepairPCs,
          locals, command, files, Commands
      <3>2. PICK l \in RepairPCs : pc' = [pc EXCEPT ![p] = l]
        BY <2>3 DEF RepairRead, RepairReplace, RepairVerify, RepairSnapshot, Goto, RepairPCs
      <3>3. CASE cmd[p] = "apply"
        BY <3>1, <3>2, <3>3, ProcRestApply DEF ApplyPCs, RepairPCs
      <3>4. CASE cmd[p] = "restore" /\ (RepairVerify(p) \/ RepairSnapshot(p))
        <4>1. UNCHANGED <<provider, todo>> /\ pc[p] \in UndoPCs /\ l # "repair_replace"
          <5>1. \E x \in {"repair_snapshot", "write_repaired", "write_unrepaired"} : pc'[p] = x
            BY <1>1, <3>4 DEF RepairVerify, RepairSnapshot, Goto
          <5>2. pc'[p] = l
            BY <1>1, <3>2
          <5> QED
            BY <3>4, <5>1, <5>2 DEF RepairVerify, RepairSnapshot, At, UndoPCs, locals
        <4>2. Kept(a)
          BY <1>1, <4>1, KeptUnchanged
        <4> QED
          BY <1>0, <3>1, <3>2, <3>4, <4>1, <4>2, ProcRestRestore DEF RepairPCs
      <3>5. CASE cmd[p] = "restore" /\ RepairRead(p)
        <4>1. UNCHANGED provider /\ pc[p] = "repair_read" /\ pc'[p] = l /\ pc[p] \in UndoPCs
          BY <1>1, <3>2, <3>5 DEF RepairRead, At, UndoPCs
        <4>2. l = "repair_replace" =>
                \A i \in todo'[p] : board.text[Plan[a][i]] = "old"
          <5>1. \/ todo' = [todo EXCEPT ![p] = {i \in Ops(a) : board.text[Plan[a][i]] = "old"}]
                \/ pc' = [pc EXCEPT ![p] = "write_unrepaired"]
            BY <1>0, <3>5 DEF RepairRead, Goto, WrongText
          <5> QED
            BY <1>1, <4>1, <5>1
        <4>3. Quiet(a)' /\ UNCHANGED board
          BY <1>0, <1>1, <3>5, <4>1 DEF ProcRest, Quiet, Waits, provider
        <4>4. auth'[p] = a /\ cmd'[p] = "restore" /\ journal'[a].status = "committed" /\ p \in Restorers
          BY <1>0, <1>1, <3>1, <3>5, <4>1 DEF ProcRest, RepairPCs
        <4> QED
          BY <3>2, <4>1, <4>2, <4>3, <4>4 DEF ProcRest, ApplyPCs, RestorePCs, RepairPCs
      <3>6. CASE cmd[p] = "restore" /\ RepairReplace(p)
        <4>1. pc[p] = "repair_replace" /\ pc'[p] = l
          BY <1>1, <3>2, <3>6 DEF RepairReplace, At
        <4>2. /\ l # "write_unrepaired" => Quiet(a)'
              /\ l = "repair_replace" =>
                   \A i \in todo'[p] : Plan[a][i] \in OwnSlots(a) => board'.text[Plan[a][i]] # "new"
          BY <1>0, <3>6, <4>1, SentBack
        <4>3. auth'[p] = a /\ cmd'[p] = "restore" /\ journal'[a].status = "committed" /\ p \in Restorers
          BY <1>0, <1>1, <3>1, <3>6, <4>1 DEF ProcRest, RepairPCs
        <4> QED
          BY <3>2, <4>1, <4>2, <4>3 DEF ProcRest, ApplyPCs, RestorePCs, RepairPCs, UndoPCs
      <3> QED
        BY <2>3, <3>1, <3>3, <3>4, <3>5, <3>6
    <2> QED
      BY <1>7, <2>1, <2>2, <2>3 DEF SharedStep
  <1> QED
    BY <1>3, <1>4, <1>5, <1>6, <1>7 DEF Continue

(* Every step keeps the invariant.                                         *)
LEMMA RestStep ==
  ASSUME IInv, JournalInv, RestInv, OneRestorer, [Next]_vars
  PROVE  RestInv'
  <1>1. ASSUME NEW p \in Procs, Start(p) \/ Continue(p) \/ Crash(p)
        PROVE  RestInv'
    <2>1. \A q \in Procs : ProcRest(q)'
      BY <1>1, ProcRestOwn, ProcRestOthers
    <2>2. \A a \in Auths : AuthRest(a)' /\ LateKind'
      BY <1>1, AuthRestStep
    <2>3. Auths # {}
      BY PlanAssumption
    <2> QED
      BY <2>1, <2>2, <2>3 DEF RestInv
  <1>2. CASE Surroundings \/ UNCHANGED vars
    <2>1. \A a \in Auths : Kept(a)
      BY <1>2, KeptOutside DEF RestInv
    <2>2. UNCHANGED <<pc, cmd, auth, todo, journal, reserved>>
      BY <1>2 DEF Surroundings, EnableKillSwitch, DisableKillSwitch, Tick, ExternalEdit,
        LateEffect, vars, locals, command, files
    <2>3. auth \in [Procs -> Auths] /\ Auths # {}
      BY PlanAssumption DEF IInv, TypeOK
    <2>4. ASSUME NEW p \in Procs
          PROVE  ProcRest(p)'
      <3>1. PICK a \in Auths : a = auth[p]
        BY <2>3
      <3>2. Kept(a) /\ ProcRest(p)
        BY <2>1 DEF RestInv
      <3>3. auth'[p] = a
        BY <2>2, <3>1
      <3> QED
        BY <2>2, <3>1, <3>2, <3>3 DEF ProcRest, Kept, NoNewText, UndoPCs
    <2>5. ASSUME NEW a \in Auths
          PROVE  AuthRest(a)'
      BY <2>1, <2>2 DEF RestInv, AuthRest, Kept, NoNewText
    <2>6. LateKind'
      BY <2>1, <2>3 DEF Kept
    <2> QED
      BY <2>4, <2>5, <2>6 DEF RestInv
  <1> QED
    BY <1>1, <1>2 DEF Next

(* While a journal says restored, none of the transaction's new texts      *)
(* comes back, neither by a restore under way nor by a replacement that    *)
(* timed out long before (restore_live_apply checks both states of the     *)
(* board before its first inverse operation), if one restore runs at a     *)
(* time: nothing in restore_live_apply keeps two of them apart.            *)
THEOREM RestoredRegionsStay ==
  ASSUME OneRestorer
  PROVE  Spec => []RestoredStays
  <1>1. Init => RestInv
    BY DEF Init, RestInv, LateKind, ProcRest, AuthRest, Quiet, Waits, NoJournal, ApplyPCs
  <1>2. IInv /\ JournalInv /\ RestInv /\ [Next]_vars => RestInv'
    BY RestStep
  <1>3. RestInv => RestoredStays
    BY DEF RestInv, AuthRest, RestoredStays
  <1> QED
    BY <1>1, <1>2, <1>3, Invariance, ToldInvariance, PTL DEF Spec

-----------------------------------------------------------------------------
(* The executor implements ManagedTransaction.                             *)

PlansApart == \A a, b \in Auths : a # b => SlotsOf(a) \cap SlotsOf(b) = {}

(* A restore of a is between its start and the journal that ends it.       *)
Busy(a) == \E p \in Procs : Restoring(p, a) /\ pc[p] \notin PersistPCs

(* What a process knows of its region where the phase is about to change.  *)
ProcRegion(p) ==
  LET Shows(t) == AllRead(auth[p], board, t) IN
  /\ cmd[p] = "apply" =>
       /\ pc[p] \in PreflightPCs \cup {"write_reserved", "repair_snapshot", "write_repaired"} => Shows("old")
       /\ pc[p] \in {"snapshot_after", "write_committed"} => Shows("new")
  /\ cmd[p] = "restore" =>
       /\ pc[p] \in {"snapshot_restored", "write_restored"} => Shows("old")
       /\ pc[p] \in {"snapshot_current", "read_current", "repair_snapshot", "write_repaired"} => Shows("new")

(* A journal that says how a transaction ended says what its region shows. *)
AuthRegion(a) ==
  /\ a \notin reserved \/ journal[a].status \in {"preflight_failed", "rolled_back", "restored"} =>
       AllRead(a, board, "old")
  /\ journal[a].status = "committed" /\ ~Busy(a) => AllRead(a, board, "new")

RegionInv ==
  /\ late = {}
  /\ \A p \in Procs : ProcRegion(p)
  /\ \A a \in Auths : AuthRegion(a)

(* Without crashes, edits and late effects only the processes of the       *)
(* executor act on the regions, and each region is one transaction's.      *)
Undisturbed ==
  /\ PlansApart /\ OneRestorer
  /\ ~LateEffects /\ MaxEdits = 0 /\ ~Crashes

RegionAll == IInv /\ JournalInv /\ RestInv /\ RegionInv

(* The phase and the region of a transaction, case by case.                *)
PhaseTable(a) ==
  LET status == journal[a].status IN
  /\ a \notin reserved /\ status = "none" => PhaseOf(a) = "unused"
  /\ a \in reserved =>
       /\ status \in {"none", "reserved", "prepared", "applying"} => PhaseOf(a) = "running"
       /\ status \in {"preflight_failed", "rolled_back"} => PhaseOf(a) = "aborted"
       /\ status = "committed" => PhaseOf(a) = IF Busy(a) THEN "restoring" ELSE "committed"
       /\ status = "restored" => PhaseOf(a) = "restored"
       /\ status \in {"rollback_failed", "restore_recovery_failed"} => PhaseOf(a) = "unproven"

RegionTable(a) ==
  /\ RegionOf(a) \in Transaction!Regions
  /\ AllRead(a, board, "old") => RegionOf(a) = "before"
  /\ AllRead(a, board, "new") => RegionOf(a) = "after"

LEMMA PhaseTold ==
  ASSUME NEW a \in Auths
  PROVE  PhaseTable(a) /\ PhaseTable(a)'
PROOF
  BY DEF PhaseTable, PhaseOf, Busy

LEMMA RegionTold ==
  ASSUME NEW a \in Auths
  PROVE  RegionTable(a) /\ RegionTable(a)'
PROOF
  <1>1. PICK s \in SlotsOf(a) : TRUE
    <2>1. Plan[a] \in Seq(Slots) /\ Plan[a] # << >>
      BY PlanAssumption
    <2>2. 1 \in DOMAIN Plan[a]
      BY <2>1
    <2> QED
      BY <2>2 DEF SlotsOf, Ops
  <1> QED
    BY <1>1 DEF RegionTable, RegionOf, AllRead, Transaction!Regions

(* What may become of one transaction in a step.                           *)
MovedTo(a, from, to, shows) ==
  /\ PhaseOf(a) = from /\ PhaseOf(a)' = to
  /\ RegionOf(a) \in shows /\ RegionOf(a)' = RegionOf(a)

Moved(a) ==
  \/ PhaseOf(a)' = PhaseOf(a) /\ RegionOf(a)' = RegionOf(a)
  \/ PhaseOf(a)' = PhaseOf(a) /\ PhaseOf(a) \in {"running", "restoring"}
  \/ MovedTo(a, "unused", "running", {"before"})
  \/ MovedTo(a, "running", "aborted", {"before"})
  \/ MovedTo(a, "running", "committed", {"after"})
  \/ MovedTo(a, "committed", "restoring", {"after"})
  \/ MovedTo(a, "restoring", "committed", {"after"})
  \/ MovedTo(a, "restoring", "restored", {"before"})
  \/ MovedTo(a, "running", "unproven", Transaction!Regions)
  \/ MovedTo(a, "restoring", "unproven", Transaction!Regions)

Mapped == <<[a \in Auths |-> PhaseOf(a)], [a \in Auths |-> RegionOf(a)]>>

(* A step that moves one transaction and no other is one of the promise.   *)
LEMMA MovedOne ==
  ASSUME NEW a \in Auths, Moved(a),
         \A b \in Auths \ {a} : PhaseOf(b)' = PhaseOf(b) /\ RegionOf(b)' = RegionOf(b)
  PROVE  [Transaction!Next]_Mapped
PROOF
  <1> DEFINE ph == [b \in Auths |-> PhaseOf(b)]
             re == [b \in Auths |-> RegionOf(b)]
  <1>1. ph' = [ph EXCEPT ![a] = PhaseOf(a)'] /\ re' = [re EXCEPT ![a] = RegionOf(a)']
    OBVIOUS
  <1>2. RegionOf(a)' \in Transaction!Regions
    BY RegionTold DEF RegionTable
  <1>3. /\ ph[a] = PhaseOf(a) /\ re[a] = RegionOf(a)
        /\ (PhaseOf(a)' = PhaseOf(a) => ph' = ph)
        /\ (RegionOf(a)' = RegionOf(a) => re' = re)
    OBVIOUS
  <1>4. ASSUME NEW from, NEW to, NEW shows, MovedTo(a, from, to, shows)
        PROVE  Transaction!Move(a, from, to, shows)
    BY <1>1, <1>3, <1>4 DEF MovedTo, Transaction!Move
  <1>5. CASE PhaseOf(a)' = PhaseOf(a) /\ RegionOf(a)' = RegionOf(a)
    BY <1>3, <1>5 DEF Mapped
  <1>6. CASE PhaseOf(a)' = PhaseOf(a) /\ PhaseOf(a) \in {"running", "restoring"}
    <2>1. Transaction!Mutate(a)
      BY <1>1, <1>2, <1>3, <1>6 DEF Transaction!Mutate
    <2> QED
      BY <2>1 DEF Transaction!Next
  <1>7. CASE ~(PhaseOf(a)' = PhaseOf(a) /\ RegionOf(a)' = RegionOf(a))
             /\ ~(PhaseOf(a)' = PhaseOf(a) /\ PhaseOf(a) \in {"running", "restoring"})
    <2>1. \/ Transaction!Begin(a) \/ Transaction!Abort(a) \/ Transaction!Commit(a)
          \/ Transaction!BeginRestore(a) \/ Transaction!Recover(a) \/ Transaction!Restore(a)
          \/ Transaction!GiveUp(a)
      BY <1>4, <1>7 DEF Moved, Transaction!Begin, Transaction!Abort, Transaction!Commit,
        Transaction!BeginRestore, Transaction!Recover, Transaction!Restore, Transaction!GiveUp
    <2> QED
      BY <2>1 DEF Transaction!Next
  <1> QED
    BY <1>5, <1>6, <1>7


(* What decides phase and region of a transaction.                         *)
SameView(b) ==
  /\ journal'[b].status = journal[b].status
  /\ b \in reserved' <=> b \in reserved
  /\ Busy(b)' <=> Busy(b)
  /\ \A t \in Texts : AllRead(b, board, t)' <=> AllRead(b, board, t)

LEMMA SameViewKeeps ==
  ASSUME IInv, JournalInv, NEW b \in Auths, SameView(b), AuthRegion(b)
  PROVE  PhaseOf(b)' = PhaseOf(b) /\ RegionOf(b)' = RegionOf(b) /\ AuthRegion(b)'
PROOF
  <1>1. journal[b].status \in JournalStatus
    BY DEF IInv, TypeOK, Journals
  <1>2. b \notin reserved => journal[b].status = "none"
    BY DEF JournalInv, AuthTold
  <1>3. PhaseOf(b)' = PhaseOf(b)
    BY <1>1, <1>2, PhaseTold DEF PhaseTable, SameView, JournalStatus
  <1>4. RegionOf(b)' = RegionOf(b)
    BY DEF RegionOf, SameView, Texts
  <1>5. AuthRegion(b)'
    BY DEF AuthRegion, SameView, Texts
  <1> QED
    BY <1>3, <1>4, <1>5

(* A process that changes journal or board on behalf of its authorization  *)
(* is the only one that works on it.                                       *)
Engaged(p) ==
  \/ Owns(p) /\ pc[p] # "persist_requested"
  \/ cmd[p] = "restore" /\ pc[p] \in RestorePCs \cup RepairPCs

LEMMA EngagedAlone ==
  ASSUME IInv, JournalInv, RestInv, OneRestorer, NEW p \in Procs, Engaged(p),
         NEW q \in Procs \ {p}, auth[q] = auth[p]
  PROVE  /\ ~(cmd[q] = "restore" /\ pc[q] # "idle")
         /\ cmd[q] = "apply" => pc[q] \in {"idle", "reserve", "persist_requested"}
PROOF
  <1>1. ProcTold(p) /\ ProcTold(q) /\ ProcRest(p) /\ ProcRest(q)
    BY DEF JournalInv, RestInv
  <1>2. CASE Owns(p) /\ pc[p] # "persist_requested"
    <2>1. canonical["apply"][auth[p]].result = "none"
      BY <1>2 DEF IInv, Ownership
    <2>2. ~Owns(q)
      BY <1>2 DEF IInv, Ownership
    <2> QED
      BY <1>1, <2>1, <2>2 DEF ProcTold, Owns
  <1>3. CASE cmd[p] = "restore" /\ pc[p] \in RestorePCs \cup RepairPCs
    <2>1. pc[p] # "idle" /\ canonical["apply"][auth[p]].result = "ok"
      BY <1>1, <1>3 DEF ProcTold, RestorePCs, RepairPCs
    <2>2. ~(Owns(q) /\ pc[q] # "persist_requested")
      BY <2>1 DEF IInv, Ownership
    <2>3. ~(cmd[q] = "restore" /\ pc[q] # "idle")
      BY <1>1, <1>3, <2>1 DEF ProcRest, OneRestorer
    <2> QED
      BY <2>2, <2>3 DEF Owns
  <1> QED
    BY <1>2, <1>3 DEF Engaged

(* A step of p for a that leaves the others alone.                         *)
LEMMA RegionFrame ==
  ASSUME RegionAll, OneRestorer, NEW p \in Procs, NEW a \in Auths,
         auth[p] = a \/ pc[p] = "idle", auth'[p] = a \/ pc'[p] = "idle",
         \A q \in Procs \ {p} : pc'[q] = pc[q] /\ cmd'[q] = cmd[q] /\ auth'[q] = auth[q],
         \A b \in Auths \ {a} : /\ journal'[b] = journal[b]
                                /\ b \in reserved' <=> b \in reserved
                                /\ \A t \in Texts : AllRead(b, board, t)' <=> AllRead(b, board, t),
         \/ \A t \in Texts : AllRead(a, board, t)' <=> AllRead(a, board, t)
         \/ Engaged(p) /\ auth[p] = a,
         late' = {}, ProcRegion(p)', AuthRegion(a)', Moved(a)
  PROVE  RegionInv' /\ [Transaction!Next]_Mapped
PROOF
  <1>0. auth \in [Procs -> Auths] /\ cmd \in [Procs -> Commands]
    BY DEF RegionAll, IInv, TypeOK
  <1>1. ASSUME NEW b \in Auths \ {a}
        PROVE  SameView(b)
    <2>1. Busy(b)' <=> Busy(b)
      BY <1>1 DEF Busy, Restoring, At
    <2> QED
      BY <1>1, <2>1 DEF SameView
  <1>2. ASSUME NEW b \in Auths \ {a}
        PROVE  PhaseOf(b)' = PhaseOf(b) /\ RegionOf(b)' = RegionOf(b) /\ AuthRegion(b)'
    BY <1>1, <1>2, SameViewKeeps DEF RegionAll, RegionInv
  <1>3. ASSUME NEW q \in Procs \ {p}
        PROVE  ProcRegion(q)'
    <2>1. PICK b \in Auths : b = auth[q]
      BY <1>0
    <2>2. pc'[q] = pc[q] /\ cmd'[q] = cmd[q] /\ auth'[q] = b
      BY <2>1
    <2>3. CASE \A t \in Texts : AllRead(b, board, t)' <=> AllRead(b, board, t)
      <3>1. ProcRegion(q)
        BY DEF RegionAll, RegionInv
      <3> QED
        BY <2>1, <2>2, <2>3, <3>1 DEF ProcRegion, Texts
    <2>4. CASE b = a /\ Engaged(p) /\ auth[p] = a
      <3>1. /\ ~(cmd[q] = "restore" /\ pc[q] # "idle")
            /\ cmd[q] = "apply" => pc[q] \in {"idle", "reserve", "persist_requested"}
        BY <2>1, <2>4, EngagedAlone DEF RegionAll
      <3> QED
        BY <2>2, <3>1 DEF ProcRegion, PreflightPCs
    <2> QED
      BY <2>3, <2>4
  <1>4. RegionInv'
    BY <1>2, <1>3 DEF RegionInv
  <1>5. [Transaction!Next]_Mapped
    BY <1>2, MovedOne
  <1> QED
    BY <1>4, <1>5

(* A step of p that only gets on with its command.                         *)
LEMMA RegionQuiet ==
  ASSUME RegionAll, OneRestorer, NEW p \in Procs, NEW l,
         pc' = [pc EXCEPT ![p] = l], UNCHANGED <<provider, journal, reserved, cmd, auth>>,
         pc[p] # "idle", l # "idle", pc[p] \in PersistPCs <=> l \in PersistPCs,
         ProcRegion(p)'
  PROVE  RegionInv' /\ [Transaction!Next]_Mapped
PROOF
  <1>0. /\ auth \in [Procs -> Auths] /\ pc \in [Procs -> PCs] /\ late = {}
        /\ board' = board /\ late' = late
    BY DEF RegionAll, IInv, TypeOK, RegionInv, provider
  <1>1. PICK a \in Auths : a = auth[p]
    BY <1>0
  <1>2. \A b \in Auths, t \in Texts : AllRead(b, board, t)' <=> AllRead(b, board, t)
    BY <1>0 DEF AllRead
  <1>3. pc'[p] = l /\ \A q \in Procs \ {p} : pc'[q] = pc[q]
    BY <1>0
  <1>4. Busy(a)' <=> Busy(a)
    BY <1>3 DEF Busy, Restoring, At
  <1>5. SameView(a) /\ AuthRegion(a)
    BY <1>2, <1>4 DEF SameView, RegionAll, RegionInv
  <1>6. AuthRegion(a)' /\ Moved(a)
    BY <1>5, SameViewKeeps DEF RegionAll, Moved
  <1> QED
    BY <1>0, <1>1, <1>2, <1>3, <1>6, RegionFrame


Running == {"none", "reserved", "prepared", "applying"}

(* The phase of a transaction that a process is engaged in.                *)
LEMMA EngagedPhase ==
  ASSUME RegionAll, OneRestorer, NEW p \in Procs, NEW a \in Auths, a = auth[p], Engaged(p),
         pc[p] # "persist_canonical"
  PROVE  /\ a \in reserved
         /\ cmd[p] = "apply" => journal[a].status \in Running /\ PhaseOf(a) = "running"
         /\ cmd[p] = "restore" => journal[a].status = "committed" /\ PhaseOf(a) = "restoring"
         /\ \A q \in Procs \ {p} : ~Restoring(q, a)
PROOF
  <1>1. ProcTold(p) /\ ProcRest(p) /\ AuthTold(a) /\ cmd[p] \in Commands /\ pc[p] \in PCs
    BY DEF RegionAll, JournalInv, RestInv, IInv, TypeOK
  <1>2. \A q \in Procs \ {p} : ~Restoring(q, a)
    BY EngagedAlone DEF RegionAll, Restoring, At
  <1>3. CASE cmd[p] = "apply"
    <2>1. Owns(p) /\ pc[p] \notin PersistPCs
      BY <1>3 DEF Engaged, Owns, RestorePCs, RepairPCs, PersistPCs
    <2>2. pc[p] \in {"write_reserved"} \cup PreflightPCs \cup DrivePCs
      BY <1>1, <1>3, <2>1 DEF PCs, ApplyPCs, RestorePCs, RepairPCs, PersistPCs, PreflightPCs, DrivePCs, Owns,
        RegionAll, IInv, Ownership
    <2>3. a \in reserved /\ journal[a].status \in Running
      BY <1>1, <2>1, <2>2 DEF RegionAll, IInv, Ownership, ProcTold, Running
    <2> QED
      BY <1>2, <1>3, <2>3, PhaseTold DEF PhaseTable, Running
  <1>4. CASE cmd[p] = "restore"
    <2>1. pc[p] \in RestorePCs \cup RepairPCs
      BY <1>4 DEF Engaged, Owns
    <2>2. pc[p] # "idle" /\ pc[p] \notin PersistPCs
      BY <2>1 DEF RestorePCs, RepairPCs, PersistPCs
    <2>3. journal[a].status = "committed" /\ Busy(a)
      BY <1>1, <1>4, <2>1, <2>2 DEF ProcRest, Busy, Restoring, At
    <2>4. a \in reserved
      BY <1>1, <2>3 DEF AuthTold
    <2> QED
      BY <1>2, <1>4, <2>3, <2>4, PhaseTold DEF PhaseTable
  <1> QED
    BY <1>1, <1>2, <1>3, <1>4 DEF Commands

(* How the journal tells that a command has ended.                         *)
Ends(a, c, status) ==
  \/ c = "apply" /\ status \in {"preflight_failed", "rolled_back"} /\ AllRead(a, board, "old")
  \/ c = "apply" /\ status = "committed" /\ AllRead(a, board, "new")
  \/ c = "apply" /\ status = "rollback_failed"
  \/ c = "restore" /\ status = "restored" /\ AllRead(a, board, "old")
  \/ c = "restore" /\ status = "committed" /\ AllRead(a, board, "new")
  \/ c = "restore" /\ status = "restore_recovery_failed"

(* A step of p that writes its journal.                                    *)
LEMMA RegionWritten ==
  ASSUME RegionAll, OneRestorer, NEW p \in Procs, NEW l, NEW j,
         pc' = [pc EXCEPT ![p] = l], WriteJournal(p, j), UNCHANGED <<provider, command>>,
         Engaged(p), pc[p] # "persist_canonical", l # "idle",
         \/ cmd[p] = "apply" /\ j.status \in Running /\ l \notin PersistPCs /\ ProcRegion(p)'
         \/ l = "persist_canonical" /\ Ends(auth[p], cmd[p], j.status)
  PROVE  RegionInv' /\ [Transaction!Next]_Mapped
PROOF
  <1>0. /\ auth \in [Procs -> Auths] /\ pc \in [Procs -> PCs] /\ late' = {}
        /\ journal \in [Auths -> Journals] /\ UNCHANGED <<board, cmd, auth, reserved>>
    BY DEF RegionAll, IInv, TypeOK, RegionInv, provider, command, WriteJournal
  <1>1. PICK a \in Auths : a = auth[p]
    BY <1>0
  <1>2. \A b \in Auths, t \in Texts : AllRead(b, board, t)' <=> AllRead(b, board, t)
    BY <1>0 DEF AllRead
  <1>3. /\ pc'[p] = l /\ (\A q \in Procs \ {p} : pc'[q] = pc[q])
        /\ journal'[a] = j /\ (\A b \in Auths \ {a} : journal'[b] = journal[b])
    BY <1>0, <1>1 DEF WriteJournal
  <1>4. /\ a \in reserved
        /\ cmd[p] = "apply" => PhaseOf(a) = "running"
        /\ cmd[p] = "restore" => PhaseOf(a) = "restoring"
        /\ \A q \in Procs \ {p} : ~Restoring(q, a)
    BY <1>1, EngagedPhase
  <1>5. RegionOf(a)' = RegionOf(a)
    BY <1>2 DEF RegionOf, Texts
  <1>6. CASE cmd[p] = "apply" /\ j.status \in Running /\ l \notin PersistPCs /\ ProcRegion(p)'
    <2>1. PhaseOf(a)' = "running"
      BY <1>0, <1>3, <1>4, <1>6, PhaseTold DEF PhaseTable, Running
    <2>2. AuthRegion(a)'
      BY <1>0, <1>3, <1>4, <1>6 DEF AuthRegion, Running
    <2>3. Moved(a)
      BY <1>4, <1>6, <2>1 DEF Moved
    <2> QED
      BY <1>0, <1>1, <1>2, <1>3, <1>6, <2>2, <2>3, RegionFrame
  <1>7. CASE l = "persist_canonical" /\ Ends(auth[p], cmd[p], j.status)
    <2>1. ~Busy(a)'
      <3>1. \A q \in Procs \ {p} : ~Restoring(q, a)'
        BY <1>0, <1>3, <1>4 DEF Restoring, At
      <3> QED
        BY <1>3, <1>7, <3>1 DEF Busy, PersistPCs
    <2>2. ProcRegion(p)'
      BY <1>3, <1>7 DEF ProcRegion, PreflightPCs
    <2>3. AuthRegion(a)'
      BY <1>0, <1>1, <1>2, <1>3, <1>4, <1>7 DEF AuthRegion, Ends, Texts
    <2>4. Moved(a)
      <3>1. /\ j.status \in {"preflight_failed", "rolled_back"} => PhaseOf(a)' = "aborted"
            /\ j.status = "committed" => PhaseOf(a)' = "committed"
            /\ j.status = "restored" => PhaseOf(a)' = "restored"
            /\ j.status \in {"rollback_failed", "restore_recovery_failed"} => PhaseOf(a)' = "unproven"
        BY <1>0, <1>3, <1>4, <2>1, PhaseTold DEF PhaseTable
      <3>2. /\ AllRead(a, board, "old") => RegionOf(a) = "before"
            /\ AllRead(a, board, "new") => RegionOf(a) = "after"
            /\ RegionOf(a) \in Transaction!Regions
        BY RegionTold DEF RegionTable
      <3> QED
        BY <1>1, <1>4, <1>5, <1>7, <3>1, <3>2 DEF Moved, MovedTo, Ends
    <2> QED
      BY <1>0, <1>1, <1>2, <1>3, <2>2, <2>3, <2>4, RegionFrame
  <1> QED
    BY <1>6, <1>7

(* A step of p that sends a replacement.                                   *)
LEMMA RegionSent ==
  ASSUME RegionAll, OneRestorer, PlansApart, ~LateEffects, NEW p \in Procs, NEW l,
         NEW i \in Ops(auth[p]), NEW from, NEW to, NEW reply \in Replies,
         Replace(Plan[auth[p]][i], from, to, reply),
         pc' = [pc EXCEPT ![p] = l], UNCHANGED <<journal, reserved, cmd, auth>>,
         Engaged(p), pc[p] # "persist_canonical",
         l \in {"write_applying", "repair_read", "inverse", "read_restored", "write_unrepaired",
                "repair_verify", "repair_replace"}
  PROVE  RegionInv' /\ [Transaction!Next]_Mapped
PROOF
  <1>0. /\ auth \in [Procs -> Auths] /\ pc \in [Procs -> PCs] /\ late = {}
        /\ board \in Boards /\ cmd \in [Procs -> Commands]
    BY DEF RegionAll, IInv, TypeOK, RegionInv
  <1>1. PICK a \in Auths : a = auth[p]
    BY <1>0
  <1>2. late' = {} /\ (board' = board \/ board' = Put(board, {Plan[a][i]}, to))
    BY <1>0, <1>1 DEF Replace
  <1>3. ASSUME NEW b \in Auths \ {a}, NEW t \in Texts
        PROVE  AllRead(b, board, t)' <=> AllRead(b, board, t)
    <2>1. SlotsOf(b) \subseteq Slots /\ Plan[a][i] \notin SlotsOf(b)
      <3>1. Plan[a][i] \in SlotsOf(a) /\ SlotsOf(b) \subseteq Slots
        BY <1>1, PlanType DEF SlotsOf
      <3>2. SlotsOf(a) \cap SlotsOf(b) = {}
        BY DEF PlansApart
      <3> QED
        BY <3>1, <3>2
    <2>2. \A s \in Slots : s # Plan[a][i] => board'.text[s] = board.text[s]
      BY <1>0, <1>2 DEF Put, Boards
    <2> QED
      BY <2>1, <2>2 DEF AllRead
  <1>4. pc'[p] = l /\ \A q \in Procs \ {p} : pc'[q] = pc[q]
    BY <1>0
  <1>5. /\ a \in reserved
        /\ cmd[p] = "apply" => journal[a].status \in Running /\ PhaseOf(a) = "running"
        /\ cmd[p] = "restore" => journal[a].status = "committed" /\ PhaseOf(a) = "restoring"
    BY <1>1, EngagedPhase
  <1>6. ProcRegion(p)'
    BY <1>4 DEF ProcRegion, PreflightPCs
  <1>7. cmd[p] = "restore" => Busy(a)'
    <2>1. cmd[p] = "restore" => Restoring(p, a)'
      BY <1>1, <1>4 DEF Restoring, At
    <2> QED
      BY <1>4, <2>1 DEF Busy, PersistPCs
  <1>8. cmd[p] \in Commands
    BY <1>0
  <1>9. AuthRegion(a)' /\ PhaseOf(a)' = PhaseOf(a) /\ Moved(a)
    <2>1. AuthRegion(a)'
      BY <1>5, <1>7, <1>8 DEF AuthRegion, Running, Commands
    <2>2. PhaseOf(a)' = PhaseOf(a)
      BY <1>5, <1>7, <1>8, PhaseTold DEF PhaseTable, Running, Commands
    <2>3. Moved(a)
      BY <1>5, <1>8, <2>2 DEF Moved, Commands
    <2> QED
      BY <2>1, <2>2, <2>3
  <1> QED
    BY <1>1, <1>2, <1>3, <1>4, <1>6, <1>9, RegionFrame


(* A command that ends where it has written nothing, or everything.        *)
LEMMA RegionEnd ==
  ASSUME RegionAll, OneRestorer, NEW p \in Procs, NEW how, Finish(p, how), UNCHANGED <<provider, journal, reserved>>,
         pc[p] \in {"idle", "reserve", "snapshot_current", "read_current", "persist_requested"}
  PROVE  RegionInv' /\ [Transaction!Next]_Mapped
PROOF
  <1>0. /\ auth \in [Procs -> Auths] /\ pc \in [Procs -> PCs] /\ cmd \in [Procs -> Commands]
        /\ late = {} /\ board' = board /\ late' = late
    BY DEF RegionAll, IInv, TypeOK, RegionInv, provider
  <1>1. PICK a \in Auths : a = auth[p]
    BY <1>0
  <1>2. \A b \in Auths, t \in Texts : AllRead(b, board, t)' <=> AllRead(b, board, t)
    BY <1>0 DEF AllRead
  <1>3. /\ pc'[p] = "idle" /\ cmd'[p] = "apply"
        /\ \A q \in Procs \ {p} : pc'[q] = pc[q] /\ cmd'[q] = cmd[q] /\ auth'[q] = auth[q]
    BY <1>0 DEF Finish, Goto
  <1>4. ProcRegion(p)'
    BY <1>3 DEF ProcRegion, PreflightPCs
  <1>5. AuthRegion(a) /\ ProcRegion(p)
    BY DEF RegionAll, RegionInv
  <1>6. CASE Restoring(p, a) /\ pc[p] \notin PersistPCs
    <2>1. cmd[p] = "restore" /\ pc[p] \in {"snapshot_current", "read_current"}
      BY <1>0, <1>6 DEF Restoring, At, PersistPCs, RegionAll, IInv, Ownership, ApplyPCs, Commands
    <2>2. Engaged(p)
      BY <2>1 DEF Engaged, RestorePCs
    <2>3. /\ a \in reserved /\ journal[a].status = "committed" /\ PhaseOf(a) = "restoring"
          /\ \A q \in Procs \ {p} : ~Restoring(q, a)
      BY <1>1, <2>1, <2>2, EngagedPhase
    <2>4. ~Busy(a)'
      BY <1>3, <2>3 DEF Busy, Restoring, At
    <2>5. PhaseOf(a)' = "committed"
      BY <2>3, <2>4, PhaseTold DEF PhaseTable
    <2>6. AllRead(a, board, "new") /\ AllRead(a, board, "new")'
      BY <1>1, <1>2, <1>5, <2>1 DEF ProcRegion, Texts
    <2>7. AuthRegion(a)'
      BY <2>3, <2>6 DEF AuthRegion
    <2>8. RegionOf(a) = "after" /\ RegionOf(a)' = "after"
      BY <2>6, RegionTold DEF RegionTable
    <2>9. Moved(a)
      BY <2>3, <2>5, <2>8 DEF Moved, MovedTo
    <2> QED
      BY <1>0, <1>1, <1>2, <1>3, <1>4, <2>7, <2>9, RegionFrame
  <1>7. CASE ~(Restoring(p, a) /\ pc[p] \notin PersistPCs)
    <2>1. Busy(a)' <=> Busy(a)
      BY <1>3, <1>7 DEF Busy, Restoring, At
    <2>2. SameView(a)
      BY <1>2, <2>1 DEF SameView
    <2>3. AuthRegion(a)' /\ Moved(a)
      BY <1>5, <2>2, SameViewKeeps DEF RegionAll, Moved
    <2> QED
      BY <1>0, <1>1, <1>2, <1>3, <1>4, <2>3, RegionFrame
  <1> QED
    BY <1>6, <1>7

LEMMA RegionStartApply ==
  ASSUME RegionAll, OneRestorer, NEW p \in Procs, NEW a \in Auths, StartApply(p, a)
  PROVE  RegionInv' /\ [Transaction!Next]_Mapped
PROOF
  <1>0. /\ auth \in [Procs -> Auths] /\ pc \in [Procs -> PCs] /\ cmd \in [Procs -> Commands]
        /\ late = {} /\ UNCHANGED <<board, late, journal, reserved>>
    BY DEF RegionAll, IInv, TypeOK, RegionInv, StartApply, provider, files
  <1>1. /\ pc[p] = "idle" /\ pc'[p] = "reserve" /\ cmd'[p] = "apply" /\ auth'[p] = a
        /\ \A q \in Procs \ {p} : pc'[q] = pc[q] /\ cmd'[q] = cmd[q] /\ auth'[q] = auth[q]
    BY <1>0 DEF StartApply, Begin, Goto, At
  <1>2. \A b \in Auths, t \in Texts : AllRead(b, board, t)' <=> AllRead(b, board, t)
    BY <1>0 DEF AllRead
  <1>3. ProcRegion(p)'
    BY <1>1 DEF ProcRegion, PreflightPCs
  <1>4. Busy(a)' <=> Busy(a)
    BY <1>1 DEF Busy, Restoring, At
  <1>5. SameView(a) /\ AuthRegion(a)
    BY <1>0, <1>2, <1>4 DEF SameView, RegionAll, RegionInv
  <1>6. AuthRegion(a)' /\ Moved(a)
    BY <1>5, SameViewKeeps DEF RegionAll, Moved
  <1> QED
    BY <1>0, <1>1, <1>2, <1>3, <1>6, RegionFrame

LEMMA RegionStartRestore ==
  ASSUME RegionAll, OneRestorer, NEW p \in Procs, NEW a \in Auths, StartRestore(p, a)
  PROVE  RegionInv' /\ [Transaction!Next]_Mapped
PROOF
  <1>0. /\ auth \in [Procs -> Auths] /\ pc \in [Procs -> PCs] /\ cmd \in [Procs -> Commands]
        /\ late = {} /\ UNCHANGED <<board, late, journal, reserved>>
    BY DEF RegionAll, IInv, TypeOK, RegionInv, StartRestore, provider, files
  <1>1. /\ pc[p] = "idle" /\ pc'[p] = "snapshot_current" /\ cmd'[p] = "restore" /\ auth'[p] = a
        /\ p \in Restorers /\ journal[a].status = "committed"
        /\ \A q \in Procs \ {p} : pc'[q] = pc[q] /\ cmd'[q] = cmd[q] /\ auth'[q] = auth[q]
    BY <1>0 DEF StartRestore, Begin, Goto, At, RestoreAdmissible
  <1>2. \A b \in Auths, t \in Texts : AllRead(b, board, t)' <=> AllRead(b, board, t)
    BY <1>0 DEF AllRead
  <1>3. ~Busy(a)
    <2>1. \A q \in Procs : ProcRest(q)
      BY DEF RegionAll, RestInv
    <2>2. \A q \in Procs : Restoring(q, a) => q \in Restorers
      BY <2>1 DEF ProcRest, Restoring, At
    <2> QED
      BY <1>1, <2>2 DEF Busy, Restoring, At, OneRestorer
  <1>4. Busy(a)'
    <2>1. Restoring(p, a)' /\ pc'[p] \notin PersistPCs
      BY <1>1 DEF Restoring, At, PersistPCs
    <2> QED
      BY <2>1 DEF Busy
  <1>5. AuthRegion(a) /\ AuthTold(a)
    BY DEF RegionAll, RegionInv, JournalInv
  <1>6. a \in reserved /\ AllRead(a, board, "new") /\ AllRead(a, board, "new")'
    BY <1>1, <1>2, <1>3, <1>5 DEF AuthRegion, AuthTold, Texts
  <1>7. ProcRegion(p)'
    BY <1>1, <1>6 DEF ProcRegion
  <1>8. AuthRegion(a)'
    BY <1>0, <1>1, <1>4, <1>6 DEF AuthRegion
  <1>9. Moved(a)
    <2>1. PhaseOf(a) = "committed" /\ PhaseOf(a)' = "restoring"
      BY <1>0, <1>1, <1>3, <1>4, <1>6, PhaseTold DEF PhaseTable
    <2>2. RegionOf(a) = "after" /\ RegionOf(a)' = "after"
      BY <1>6, RegionTold DEF RegionTable
    <2> QED
      BY <2>1, <2>2 DEF Moved, MovedTo
  <1> QED
    BY <1>0, <1>1, <1>2, <1>7, <1>8, <1>9, RegionFrame

LEMMA RegionReserved ==
  ASSUME RegionAll, OneRestorer, NEW p \in Procs, Reserve(p)
  PROVE  RegionInv' /\ [Transaction!Next]_Mapped
PROOF
  <1>0. /\ auth \in [Procs -> Auths] /\ pc \in [Procs -> PCs] /\ cmd \in [Procs -> Commands]
        /\ late = {} /\ UNCHANGED <<board, late, journal, cmd, auth>>
    BY DEF RegionAll, IInv, TypeOK, RegionInv, Reserve, provider, locals, command
  <1>1. PICK a \in Auths : a = auth[p]
    BY <1>0
  <1>2. /\ pc[p] = "reserve" /\ a \notin reserved /\ reserved' = reserved \cup {a}
        /\ pc'[p] = "write_reserved" /\ cmd[p] = "apply"
        /\ \A q \in Procs \ {p} : pc'[q] = pc[q]
    BY <1>0, <1>1 DEF Reserve, At, Goto, RegionAll, IInv, Ownership, ApplyPCs
  <1>3. \A b \in Auths, t \in Texts : AllRead(b, board, t)' <=> AllRead(b, board, t)
    BY <1>0 DEF AllRead
  <1>4. AuthRegion(a) /\ AuthTold(a)
    BY DEF RegionAll, RegionInv, JournalInv
  <1>5. journal[a].status = "none" /\ AllRead(a, board, "old") /\ AllRead(a, board, "old")'
    BY <1>2, <1>3, <1>4 DEF AuthRegion, AuthTold, Texts
  <1>6. ProcRegion(p)'
    BY <1>0, <1>1, <1>2, <1>5 DEF ProcRegion
  <1>7. AuthRegion(a)'
    BY <1>0, <1>5 DEF AuthRegion
  <1>8. Moved(a)
    <2>1. PhaseOf(a) = "unused" /\ PhaseOf(a)' = "running"
      BY <1>0, <1>2, <1>5, PhaseTold DEF PhaseTable
    <2>2. RegionOf(a) = "before" /\ RegionOf(a)' = "before"
      BY <1>5, RegionTold DEF RegionTable
    <2> QED
      BY <2>1, <2>2 DEF Moved, MovedTo
  <1> QED
    BY <1>0, <1>1, <1>2, <1>3, <1>6, <1>7, <1>8, RegionFrame


(* Every step of an apply.                                                 *)
LEMMA RegionApplyStep ==
  ASSUME RegionAll, OneRestorer, PlansApart, ~LateEffects, NEW p \in Procs, ApplyStep(p)
  PROVE  RegionInv' /\ [Transaction!Next]_Mapped
PROOF
  <1>0. /\ auth \in [Procs -> Auths] /\ pc \in [Procs -> PCs] /\ cmd \in [Procs -> Commands]
        /\ mem[p] \in Journals
        /\ ProcRegion(p)
        /\ pc[p] \in ApplyPCs => cmd[p] = "apply"
        /\ pc[p] \in {"check_operation", "replace", "inverse"} => sent[p] < Len(Plan[auth[p]])
        /\ sent[p] \in Nat
    BY DEF RegionAll, IInv, TypeOK, IndexOK, Ownership, RegionInv
  <1> USE DEF At, Goto, files, locals, command
  <1>1. CASE Reserve(p)
    BY <1>1, RegionReserved
  <1>2. CASE AnswerExisting(p)
    BY <1>2, RegionEnd DEF AnswerExisting
  <1>3. ASSUME pc[p] \in ApplyPCs \ {"reserve"}
        PROVE  Engaged(p) /\ cmd[p] = "apply" /\ pc[p] \notin PersistPCs /\ pc[p] # "idle"
    BY <1>0, <1>3 DEF Engaged, Owns, ApplyPCs, PersistPCs
  <1>4. ASSUME NEW l \in ApplyPCs \cup RepairPCs, pc' = [pc EXCEPT ![p] = l],
               UNCHANGED <<provider, journal, reserved, cmd, auth>>, pc[p] \in ApplyPCs \ {"reserve"},
               ProcRegion(p)'
        PROVE  RegionInv' /\ [Transaction!Next]_Mapped
    BY <1>3, <1>4, RegionQuiet DEF ApplyPCs, RepairPCs, PersistPCs
  <1>5. ASSUME UNCHANGED <<provider, cmd, auth>>, NEW l, pc' = [pc EXCEPT ![p] = l]
        PROVE  /\ pc'[p] = l
               /\ \A t : AllRead(auth[p], board, t)' <=> AllRead(auth[p], board, t)
    BY <1>0, <1>5 DEF AllRead, provider
  <1>6. CASE SnapshotBefore(p)
    <2>1. PICK l \in {"read_before", "write_preflight_failed"} : pc' = [pc EXCEPT ![p] = l]
      BY <1>6 DEF SnapshotBefore
    <2>2. pc[p] = "snapshot_before" /\ UNCHANGED <<provider, journal, reserved, cmd, auth>>
      BY <1>6 DEF SnapshotBefore
    <2>3. ProcRegion(p)'
      BY <1>0, <1>5, <2>1, <2>2 DEF ProcRegion, PreflightPCs, ApplyPCs
    <2> QED
      BY <1>4, <2>1, <2>2, <2>3 DEF ApplyPCs
  <1>7. CASE ReadBefore(p)
    <2>1. PICK l \in {"write_prepared", "write_preflight_failed"} : pc' = [pc EXCEPT ![p] = l]
      BY <1>7 DEF ReadBefore
    <2>2. pc[p] = "read_before" /\ UNCHANGED <<provider, journal, reserved, cmd, auth>>
      BY <1>7 DEF ReadBefore
    <2>3. ProcRegion(p)'
      BY <1>0, <1>5, <2>1, <2>2 DEF ProcRegion, PreflightPCs, ApplyPCs
    <2> QED
      BY <1>4, <2>1, <2>2, <2>3 DEF ApplyPCs
  <1>8. CASE CheckOperation(p)
    <2>1. PICK l \in {"replace", "repair_read"} : pc' = [pc EXCEPT ![p] = l]
      BY <1>8 DEF CheckOperation
    <2>2. pc[p] = "check_operation" /\ UNCHANGED <<provider, journal, reserved, cmd, auth>>
      BY <1>8 DEF CheckOperation
    <2>3. ProcRegion(p)'
      BY <1>5, <2>1, <2>2 DEF ProcRegion, PreflightPCs
    <2> QED
      BY <1>4, <2>1, <2>2, <2>3 DEF ApplyPCs, RepairPCs
  <1>9. CASE ReadAfter(p)
    <2>1. /\ pc[p] = "read_after" /\ UNCHANGED <<provider, journal, reserved, cmd, auth>>
          /\ \/ pc' = [pc EXCEPT ![p] = "snapshot_after"] /\ AllRead(auth[p], board, "new")
             \/ pc' = [pc EXCEPT ![p] = "repair_read"]
      BY <1>9 DEF ReadAfter, VerifyAfterDsl
    <2>2. PICK l \in {"snapshot_after", "repair_read"} :
            pc' = [pc EXCEPT ![p] = l] /\ (l = "snapshot_after" => AllRead(auth[p], board, "new"))
      BY <2>1
    <2>3. ProcRegion(p)'
      BY <1>3, <1>5, <2>1, <2>2 DEF ProcRegion, PreflightPCs, ApplyPCs
    <2> QED
      BY <1>4, <2>1, <2>2, <2>3 DEF ApplyPCs, RepairPCs
  <1>10. CASE SnapshotAfter(p)
    <2>1. PICK l \in {"write_committed", "repair_read"} : pc' = [pc EXCEPT ![p] = l]
      BY <1>10 DEF SnapshotAfter
    <2>2. pc[p] = "snapshot_after" /\ UNCHANGED <<provider, journal, reserved, cmd, auth>>
      BY <1>10 DEF SnapshotAfter
    <2>3. ProcRegion(p)'
      BY <1>0, <1>5, <2>1, <2>2 DEF ProcRegion, PreflightPCs, ApplyPCs
    <2> QED
      BY <1>4, <2>1, <2>2, <2>3 DEF ApplyPCs, RepairPCs
  <1>11. CASE ReplaceOperation(p)
    <2>1. PICK reply \in Replies, l \in {"write_applying", "repair_read"} :
            /\ Replace(Plan[auth[p]][sent[p] + 1], "old", "new", reply)
            /\ pc' = [pc EXCEPT ![p] = l]
      BY <1>11 DEF ReplaceOperation
    <2>2. pc[p] = "replace" /\ UNCHANGED <<journal, reserved, cmd, auth>>
      BY <1>11 DEF ReplaceOperation
    <2>3. sent[p] + 1 \in Ops(auth[p])
      BY <1>0, <2>2, PlanType
    <2> QED
      BY <1>3, <2>1, <2>2, <2>3, RegionSent DEF ApplyPCs, PersistPCs
  <1>12. ASSUME NEW l \in ApplyPCs \cup RepairPCs, NEW j, j.status \in Running,
                pc' = [pc EXCEPT ![p] = l], WriteJournal(p, j), UNCHANGED <<provider, cmd, auth>>,
                pc[p] \in ApplyPCs \ {"reserve"}, ProcRegion(p)'
         PROVE  RegionInv' /\ [Transaction!Next]_Mapped
    BY <1>3, <1>12, RegionWritten DEF ApplyPCs, RepairPCs, PersistPCs
  <1>13. CASE WriteReserved(p)
    <2> DEFINE j == [mem[p] EXCEPT !.status = "reserved"]
    <2>1. /\ pc[p] = "write_reserved" /\ pc' = [pc EXCEPT ![p] = "snapshot_before"]
          /\ WriteJournal(p, j) /\ UNCHANGED <<provider, cmd, auth>>
      BY <1>13 DEF WriteReserved
    <2>2. j.status \in Running
      BY <1>0, StatusField DEF Running
    <2>3. ProcRegion(p)'
      BY <1>0, <1>5, <2>1 DEF ProcRegion, PreflightPCs, ApplyPCs
    <2> HIDE DEF j
    <2> QED
      BY <1>12, <2>1, <2>2, <2>3 DEF ApplyPCs
  <1>14. CASE WritePrepared(p)
    <2> DEFINE j == [mem[p] EXCEPT !.status = "prepared"]
    <2>1. /\ pc[p] = "write_prepared" /\ pc' = [pc EXCEPT ![p] = "check_operation"]
          /\ WriteJournal(p, j) /\ UNCHANGED <<provider, cmd, auth>>
      BY <1>14 DEF WritePrepared
    <2>2. j.status \in Running
      BY <1>0, StatusField DEF Running
    <2>3. ProcRegion(p)'
      BY <1>5, <2>1 DEF ProcRegion, PreflightPCs
    <2> HIDE DEF j
    <2> QED
      BY <1>12, <2>1, <2>2, <2>3 DEF ApplyPCs
  <1>15. CASE WriteApplying(p)
    <2> DEFINE j == [mem[p] EXCEPT !.status = "applying", !.applied = sent[p]]
    <2>1. PICK l \in {"check_operation", "read_after", "repair_read"} :
            /\ pc[p] = "write_applying" /\ pc' = [pc EXCEPT ![p] = l]
            /\ UNCHANGED <<provider, cmd, auth>>
            /\ \/ WriteJournal(p, j)
               \/ l = "repair_read" /\ UNCHANGED <<journal, reserved>>
      BY <1>15 DEF WriteApplying
    <2>2. j.status \in Running
      BY <1>0, StatusField DEF Running
    <2>3. ProcRegion(p)'
      BY <1>5, <2>1 DEF ProcRegion, PreflightPCs
    <2> HIDE DEF j
    <2> QED
      BY <1>4, <1>12, <2>1, <2>2, <2>3 DEF ApplyPCs, RepairPCs
  <1>16. CASE WritePreflightFailed(p)
    <2> DEFINE j == [mem[p] EXCEPT !.status = "preflight_failed"]
    <2>1. /\ pc[p] = "write_preflight_failed" /\ pc' = [pc EXCEPT ![p] = "persist_canonical"]
          /\ WriteJournal(p, j) /\ UNCHANGED <<provider, command>>
      BY <1>16 DEF WritePreflightFailed
    <2>2. j.status = "preflight_failed"
      BY <1>0, StatusField
    <2>3. Ends(auth[p], cmd[p], j.status)
      BY <1>0, <2>1, <2>2 DEF Ends, ProcRegion, PreflightPCs, ApplyPCs
    <2> HIDE DEF j
    <2> QED
      BY <1>3, <2>1, <2>3, RegionWritten DEF ApplyPCs, PersistPCs
  <1>17. CASE WriteCommitted(p)
    <2> DEFINE j == [mem[p] EXCEPT !.status = "committed"]
    <2>1. /\ pc[p] = "write_committed" /\ pc' = [pc EXCEPT ![p] = "persist_canonical"]
          /\ WriteJournal(p, j) /\ UNCHANGED <<provider, command>>
      BY <1>17 DEF WriteCommitted
    <2>2. j.status = "committed"
      BY <1>0, StatusField
    <2>3. Ends(auth[p], cmd[p], j.status)
      BY <1>0, <2>1, <2>2 DEF Ends, ProcRegion, ApplyPCs
    <2> HIDE DEF j
    <2> QED
      BY <1>3, <2>1, <2>3, RegionWritten DEF ApplyPCs, PersistPCs
  <1> QED
    BY <1>1, <1>2, <1>6, <1>7, <1>8, <1>9, <1>10, <1>11, <1>13, <1>14, <1>15, <1>16, <1>17
       DEF ApplyStep


(* Every step of a restore.                                                *)
LEMMA RegionRestoreStep ==
  ASSUME RegionAll, OneRestorer, PlansApart, ~LateEffects, NEW p \in Procs, RestoreStep(p)
  PROVE  RegionInv' /\ [Transaction!Next]_Mapped
PROOF
  <1>0. /\ auth \in [Procs -> Auths] /\ pc \in [Procs -> PCs] /\ cmd \in [Procs -> Commands]
        /\ mem[p] \in Journals
        /\ ProcRegion(p)
        /\ pc[p] \in RestorePCs => cmd[p] = "restore"
        /\ pc[p] \in {"check_operation", "replace", "inverse"} => sent[p] < Len(Plan[auth[p]])
        /\ sent[p] \in Nat
    BY DEF RegionAll, IInv, TypeOK, IndexOK, Ownership, RegionInv
  <1> USE DEF At, Goto, files, locals, command
  <1>1. ASSUME pc[p] \in RestorePCs
        PROVE  Engaged(p) /\ cmd[p] = "restore" /\ pc[p] \notin PersistPCs /\ pc[p] # "idle"
    BY <1>0, <1>1 DEF Engaged, RestorePCs, PersistPCs
  <1>2. ASSUME NEW l \in RestorePCs \cup RepairPCs, pc' = [pc EXCEPT ![p] = l],
               UNCHANGED <<provider, journal, reserved, cmd, auth>>, pc[p] \in RestorePCs,
               ProcRegion(p)'
        PROVE  RegionInv' /\ [Transaction!Next]_Mapped
    BY <1>1, <1>2, RegionQuiet DEF RestorePCs, RepairPCs, PersistPCs
  <1>3. ASSUME UNCHANGED <<provider, cmd, auth>>, NEW l, pc' = [pc EXCEPT ![p] = l]
        PROVE  /\ pc'[p] = l
               /\ \A t : AllRead(auth[p], board, t)' <=> AllRead(auth[p], board, t)
    BY <1>0, <1>3 DEF AllRead, provider
  <1>4. CASE SnapshotCurrent(p)
    <2>1. pc[p] = "snapshot_current" /\ UNCHANGED <<provider, journal, reserved>>
      BY <1>4 DEF SnapshotCurrent, Finish
    <2>2. CASE Finish(p, "rejected")
      BY <2>1, <2>2, RegionEnd
    <2>3. CASE pc' = [pc EXCEPT ![p] = "read_current"] /\ UNCHANGED <<cmd, auth>>
      <3>1. ProcRegion(p)'
        BY <1>0, <1>3, <2>1, <2>3 DEF ProcRegion, RestorePCs
      <3> QED
        BY <1>2, <2>1, <2>3, <3>1 DEF RestorePCs
    <2> QED
      BY <1>4, <2>2, <2>3 DEF SnapshotCurrent
  <1>5. CASE ReadCurrent(p)
    <2>1. pc[p] = "read_current" /\ UNCHANGED <<provider, journal, reserved>>
      BY <1>5 DEF ReadCurrent, Finish
    <2>2. CASE Finish(p, "rejected")
      BY <2>1, <2>2, RegionEnd
    <2>3. CASE pc' = [pc EXCEPT ![p] = "inverse"] /\ UNCHANGED <<cmd, auth>>
      <3>1. ProcRegion(p)'
        BY <1>3, <2>1, <2>3 DEF ProcRegion, PreflightPCs
      <3> QED
        BY <1>2, <2>1, <2>3, <3>1 DEF RestorePCs
    <2> QED
      BY <1>5, <2>2, <2>3 DEF ReadCurrent
  <1>6. CASE InverseOperation(p)
    <2> DEFINE n == Len(Plan[auth[p]])
    <2>1. PICK reply \in Replies, l \in {"inverse", "read_restored", "repair_read"} :
            /\ Replace(Plan[auth[p]][n - sent[p]], "new", "old", reply)
            /\ pc' = [pc EXCEPT ![p] = l]
      BY <1>6 DEF InverseOperation, RestoreFails
    <2>2. pc[p] = "inverse" /\ UNCHANGED <<journal, reserved, cmd, auth>>
      BY <1>6 DEF InverseOperation
    <2>3. n - sent[p] \in Ops(auth[p])
      BY <1>0, <2>2, PlanType
    <2> QED
      BY <1>1, <2>1, <2>2, <2>3, RegionSent DEF RestorePCs, PersistPCs
  <1>7. CASE ReadRestored(p)
    <2>1. PICK l \in {"snapshot_restored", "repair_read"} :
            pc' = [pc EXCEPT ![p] = l] /\ (l = "snapshot_restored" => AllRead(auth[p], board, "old"))
      BY <1>7 DEF ReadRestored, RestoreFails, VerifyRestoredDsl
    <2>2. pc[p] = "read_restored" /\ UNCHANGED <<provider, journal, reserved, cmd, auth>>
      BY <1>7 DEF ReadRestored
    <2>3. ProcRegion(p)'
      BY <1>1, <1>3, <2>1, <2>2 DEF ProcRegion, PreflightPCs, RestorePCs
    <2> QED
      BY <1>2, <2>1, <2>2, <2>3 DEF RestorePCs, RepairPCs
  <1>8. CASE SnapshotRestored(p)
    <2>1. PICK l \in {"write_restored", "repair_read"} : pc' = [pc EXCEPT ![p] = l]
      BY <1>8 DEF SnapshotRestored, RestoreFails
    <2>2. pc[p] = "snapshot_restored" /\ UNCHANGED <<provider, journal, reserved, cmd, auth>>
      BY <1>8 DEF SnapshotRestored
    <2>3. ProcRegion(p)'
      BY <1>0, <1>3, <2>1, <2>2 DEF ProcRegion, PreflightPCs, RestorePCs
    <2> QED
      BY <1>2, <2>1, <2>2, <2>3 DEF RestorePCs, RepairPCs
  <1>9. CASE WriteRestored(p)
    <2> DEFINE j == [mem[p] EXCEPT !.status = "restored"]
    <2>1. /\ pc[p] = "write_restored" /\ pc' = [pc EXCEPT ![p] = "persist_canonical"]
          /\ WriteJournal(p, j) /\ UNCHANGED <<provider, command>>
      BY <1>9 DEF WriteRestored
    <2>2. j.status = "restored"
      BY <1>0, StatusField
    <2>3. Ends(auth[p], cmd[p], j.status)
      BY <1>0, <2>1, <2>2 DEF Ends, ProcRegion, RestorePCs
    <2> HIDE DEF j
    <2> QED
      BY <1>1, <2>1, <2>3, RegionWritten DEF RestorePCs, PersistPCs
  <1> QED
    BY <1>4, <1>5, <1>6, <1>7, <1>8, <1>9 DEF RestoreStep

(* Every step of a repair, and the receipts.                               *)
LEMMA RegionSharedStep ==
  ASSUME RegionAll, OneRestorer, PlansApart, ~LateEffects, NEW p \in Procs, SharedStep(p)
  PROVE  RegionInv' /\ [Transaction!Next]_Mapped
PROOF
  <1>0. /\ auth \in [Procs -> Auths] /\ pc \in [Procs -> PCs] /\ cmd \in [Procs -> Commands]
        /\ mem[p] \in Journals /\ cmd[p] \in Commands
        /\ ProcRegion(p)
        /\ todo[p] \subseteq Ops(auth[p])
    BY DEF RegionAll, IInv, TypeOK, IndexOK, RegionInv
  <1> USE DEF At, Goto, files, locals, command
  <1>1. ASSUME pc[p] \in RepairPCs
        PROVE  Engaged(p) /\ pc[p] \notin PersistPCs /\ pc[p] # "idle"
    BY <1>0, <1>1 DEF Engaged, Owns, RepairPCs, PersistPCs, Commands
  <1>2. ASSUME NEW l \in RepairPCs, pc' = [pc EXCEPT ![p] = l],
               UNCHANGED <<provider, journal, reserved, cmd, auth>>, pc[p] \in RepairPCs,
               ProcRegion(p)'
        PROVE  RegionInv' /\ [Transaction!Next]_Mapped
    BY <1>1, <1>2, RegionQuiet DEF RepairPCs, PersistPCs
  <1>3. ASSUME UNCHANGED <<provider, cmd, auth>>, NEW l, pc' = [pc EXCEPT ![p] = l]
        PROVE  /\ pc'[p] = l
               /\ \A t : AllRead(auth[p], board, t)' <=> AllRead(auth[p], board, t)
    BY <1>0, <1>3 DEF AllRead, provider
  <1>4. CASE RepairRead(p)
    <2>1. PICK l \in {"repair_verify", "repair_replace", "write_unrepaired"} : pc' = [pc EXCEPT ![p] = l]
      BY <1>4 DEF RepairRead
    <2>2. pc[p] = "repair_read" /\ UNCHANGED <<provider, journal, reserved, cmd, auth>>
      BY <1>4 DEF RepairRead
    <2>3. ProcRegion(p)'
      BY <1>3, <2>1, <2>2 DEF ProcRegion, PreflightPCs
    <2> QED
      BY <1>2, <2>1, <2>2, <2>3 DEF RepairPCs
  <1>5. CASE RepairReplace(p)
    <2>1. PICK i \in todo[p], reply \in Replies, l \in {"write_unrepaired", "repair_verify", "repair_replace"} :
            /\ Replace(Plan[auth[p]][i], WrongText(p), GoalText(p), reply)
            /\ pc' = [pc EXCEPT ![p] = l]
      BY <1>5 DEF RepairReplace
    <2>2. pc[p] = "repair_replace" /\ UNCHANGED <<journal, reserved, cmd, auth>>
      BY <1>5 DEF RepairReplace
    <2> QED
      BY <1>0, <1>1, <2>1, <2>2, RegionSent DEF RepairPCs, PersistPCs
  <1>6. CASE RepairVerify(p)
    <2>1. PICK l \in {"repair_snapshot", "write_unrepaired"} :
            pc' = [pc EXCEPT ![p] = l] /\ (l = "repair_snapshot" => AllRead(auth[p], board, GoalText(p)))
      BY <1>6 DEF RepairVerify
    <2>2. pc[p] = "repair_verify" /\ UNCHANGED <<provider, journal, reserved, cmd, auth>>
      BY <1>6 DEF RepairVerify
    <2>3. ProcRegion(p)'
      BY <1>3, <2>1, <2>2 DEF ProcRegion, PreflightPCs, GoalText
    <2> QED
      BY <1>2, <2>1, <2>2, <2>3 DEF RepairPCs
  <1>7. CASE RepairSnapshot(p)
    <2>1. PICK l \in {"write_repaired", "write_unrepaired"} : pc' = [pc EXCEPT ![p] = l]
      BY <1>7 DEF RepairSnapshot
    <2>2. pc[p] = "repair_snapshot" /\ UNCHANGED <<provider, journal, reserved, cmd, auth>>
      BY <1>7 DEF RepairSnapshot
    <2>3. ProcRegion(p)'
      BY <1>0, <1>3, <2>1, <2>2 DEF ProcRegion, PreflightPCs
    <2> QED
      BY <1>2, <2>1, <2>2, <2>3 DEF RepairPCs
  <1>8. CASE WriteRepairOutcome(p)
    <2> DEFINE s == RepairStatus(cmd[p], pc[p] = "write_repaired")
               j == [mem[p] EXCEPT !.status = s]
    <2>1. /\ pc[p] \in {"write_repaired", "write_unrepaired"} /\ pc' = [pc EXCEPT ![p] = "persist_canonical"]
          /\ WriteJournal(p, j) /\ UNCHANGED <<provider, command>>
      BY <1>8 DEF WriteRepairOutcome
    <2>2. j.status = s
      BY <1>0, StatusField
    <2>3. Ends(auth[p], cmd[p], s)
      BY <1>0, <2>1 DEF Ends, ProcRegion, RepairStatus, Commands
    <2> HIDE DEF j, s
    <2> QED
      BY <1>1, <2>1, <2>2, <2>3, RegionWritten DEF RepairPCs, PersistPCs
  <1>9. CASE PersistCanonical(p)
    <2>1. /\ pc[p] = "persist_canonical" /\ pc' = [pc EXCEPT ![p] = "persist_requested"]
          /\ UNCHANGED <<provider, journal, reserved, cmd, auth>>
      BY <1>9 DEF PersistCanonical
    <2>2. ProcRegion(p)'
      BY <1>3, <2>1 DEF ProcRegion, PreflightPCs
    <2> QED
      BY <2>1, <2>2, RegionQuiet DEF PersistPCs
  <1>10. CASE PersistRequested(p)
    <2>1. pc[p] = "persist_requested"
      BY <1>10 DEF PersistRequested
    <2> QED
      BY <1>10, <2>1, RegionEnd DEF PersistRequested
  <1> QED
    BY <1>4, <1>5, <1>6, <1>7, <1>8, <1>9, <1>10 DEF SharedStep


(* Every step keeps the invariant and is one of the promise or none.       *)
LEMMA RegionStep ==
  ASSUME RegionAll, Undisturbed, [Next]_vars
  PROVE  RegionInv' /\ [Transaction!Next]_Mapped
PROOF
  <1>1. ASSUME NEW p \in Procs, Start(p)
        PROVE  RegionInv' /\ [Transaction!Next]_Mapped
    <2>1. PICK a \in Auths : StartApply(p, a) \/ StartRestore(p, a) \/ AnswerRestore(p, a)
      BY <1>1 DEF Start
    <2>2. CASE AnswerRestore(p, a)
      <3>1. PICK how : Finish(p, how) /\ UNCHANGED <<provider, journal, reserved>> /\ pc[p] = "idle"
        BY <2>2 DEF AnswerRestore, files, At
      <3> QED
        BY <3>1, RegionEnd DEF Undisturbed
    <2> QED
      BY <2>1, <2>2, RegionStartApply, RegionStartRestore DEF Undisturbed
  <1>2. ASSUME NEW p \in Procs, Continue(p)
        PROVE  RegionInv' /\ [Transaction!Next]_Mapped
    BY <1>2, RegionApplyStep, RegionRestoreStep, RegionSharedStep DEF Continue, Undisturbed
  <1>3. ASSUME NEW p \in Procs
        PROVE  ~Crash(p)
    BY DEF Crash, Undisturbed
  <1>4. CASE Surroundings \/ UNCHANGED vars
    <2>1. ~ExternalEdit /\ ~LateEffect
      <3>1. edits \in 0..0 /\ late = {} /\ MaxEdits = 0
        BY DEF RegionAll, RegionInv, IInv, TypeOK, Undisturbed
      <3> QED
        BY <3>1 DEF ExternalEdit, LateEffect
    <2>2. UNCHANGED <<board, late, journal, reserved, pc, cmd, auth>>
      BY <1>4, <2>1 DEF Surroundings, EnableKillSwitch, DisableKillSwitch, Tick, vars, provider,
        files, locals, command
    <2>3. UNCHANGED Mapped
      BY <2>2 DEF Mapped, PhaseOf, RegionOf, AllRead, Restoring, At
    <2>4. RegionInv'
      <3>1. RegionInv
        BY DEF RegionAll
      <3>2. ASSUME NEW p \in Procs
            PROVE  ProcRegion(p)'
        <4>1. ProcRegion(p)
          BY <3>1 DEF RegionInv
        <4> QED
          BY <2>2, <4>1 DEF ProcRegion, AllRead
      <3>3. ASSUME NEW a \in Auths
            PROVE  AuthRegion(a)'
        <4>1. AuthRegion(a)
          BY <3>1 DEF RegionInv
        <4> QED
          BY <2>2, <4>1 DEF AuthRegion, AllRead, Busy, Restoring, At
      <3> QED
        BY <2>2, <3>1, <3>2, <3>3 DEF RegionInv
    <2> QED
      BY <2>3, <2>4
  <1> QED
    BY <1>1, <1>2, <1>3, <1>4 DEF Next

LEMMA RegionInit ==
  ASSUME Init
  PROVE  RegionInv /\ Transaction!Init
PROOF
  <1>0. board = Base /\ late = {} /\ reserved = {} /\ pc = [p \in Procs |-> "idle"]
        /\ journal = [a \in Auths |-> NoJournal]
    BY DEF Init
  <1>1. \A a \in Auths : AllRead(a, board, "old")
    BY <1>0, PlanType DEF AllRead, Base, SlotsOf
  <1>2. \A a \in Auths : journal[a].status = "none"
    BY <1>0 DEF NoJournal
  <1>3. RegionInv
    <2>1. ASSUME NEW p \in Procs
          PROVE  ProcRegion(p)
      BY <1>0 DEF ProcRegion, PreflightPCs
    <2>2. ASSUME NEW a \in Auths
          PROVE  AuthRegion(a)
      BY <1>1, <1>2 DEF AuthRegion
    <2> QED
      BY <1>0, <2>1, <2>2 DEF RegionInv
  <1>4. \A a \in Auths : PhaseOf(a) = "unused" /\ RegionOf(a) = "before"
    BY <1>0, <1>1, <1>2, PhaseTold, RegionTold DEF PhaseTable, RegionTable
  <1> QED
    BY <1>3, <1>4 DEF Transaction!Init

(* The managed regions are all-or-nothing as the journals say: to whoever  *)
(* reads journals and board, every apply and restore is one transaction of *)
(* ManagedTransaction, however the commands of several processes overlap   *)
(* and fail, as long as nobody else acts on the regions (execute_live_apply,*)
(* _rollback, restore_live_apply, _recover_restore_to_after).              *)
THEOREM ExecutorImplementsTransaction ==
  ASSUME Undisturbed
  PROVE  Spec => ImplementsTransaction
PROOF
  <1>1. Init => RestInv
    BY DEF Init, RestInv, LateKind, ProcRest, AuthRest, Quiet, Waits, NoJournal, ApplyPCs
  <1>2. IInv /\ JournalInv /\ RestInv /\ [Next]_vars => RestInv'
    BY RestStep DEF Undisturbed
  <1>3. Init => RegionInv /\ Transaction!Init
    BY RegionInit
  <1>4. IInv /\ JournalInv /\ RestInv /\ RegionInv /\ [Next]_vars
          => RegionInv' /\ [Transaction!Next]_Mapped
    BY RegionStep DEF RegionAll
  <1> QED
    BY <1>1, <1>2, <1>3, <1>4, Invariance, ToldInvariance, PTL
       DEF Spec, ImplementsTransaction, Transaction!Spec, Mapped

-----------------------------------------------------------------------------
(* Regie.  Every step of a server is a step of the live executor or leaves *)
(* it alone, so what is proved above holds behind Regie as well; what      *)
(* Regie adds about the decision of a review holds while one server at a   *)
(* time runs for the review.                                               *)

(* The initial session has its types.                                      *)
LEMMA RegieInitTypes == RegieInit => IInv /\ RegieTypeOK
  BY InitInv DEF RegieInit, RegieTypeOK, IInv

(* A receipt that is stored belongs to an authorization.                   *)
LEMMA StoredApply ==
  ASSUME RegieTypeOK, Stored("apply").result = "ok"
  PROVE  stored["apply"] \in Auths
  BY DEF RegieTypeOK, Stored, Exists, NoReceipt, Commands

(* A server uses the executor only through its steps.                      *)
LEMMA RegieStepIsStep ==
  ASSUME RegieTypeOK, [RegieNext]_<<vars, sessionVars>>
  PROVE  [Next]_vars
  <1>1. ASSUME NEW p \in Procs, Request(p)
        PROVE  [Next]_vars
    <2>1. CASE \/ \E a \in Auths : Decide(p, a)
               \/ WriteSelection(p) \/ WriteDecision(p)
      BY <2>1 DEF Decide, WriteSelection, WriteDecision
    <2>2. CASE Apply(p)
      <3>1. decision \in Auths /\ StartApply(p, decision)
        BY <2>2 DEF Apply, ApplyAllowed, RegieTypeOK
      <3> QED
        BY <3>1 DEF Next, Start
    <2>3. CASE Restore(p)
      <3>1. stored["apply"] \in Auths
        BY <2>3, StoredApply DEF Restore, RestoreAllowed
      <3>2. StartRestore(p, stored["apply"]) \/ AnswerRestore(p, stored["apply"])
        BY <2>3 DEF Restore
      <3> QED
        BY <3>1, <3>2 DEF Next, Start
    <2>4. CASE Serve(p)
      BY <2>4 DEF Serve, Next
    <2> QED
      BY <1>1, <2>1, <2>2, <2>3, <2>4 DEF Request
  <1>2. ASSUME NEW p \in Procs, ServerCrash(p)
        PROVE  [Next]_vars
    BY <1>2 DEF ServerCrash, Next
  <1>3. CASE Surroundings
    BY <1>3 DEF Next
  <1>4. CASE UNCHANGED <<vars, sessionVars>>
    BY <1>4
  <1> QED
    BY <1>1, <1>2, <1>3, <1>4 DEF RegieNext

(* The part of RegieTypeOK that is about the session directory.            *)
SessionOK ==
  /\ decision \in Auths \cup {None}
  /\ selected \in Auths \cup {None}
  /\ deciding \in [Procs -> Auths \cup {None}]
  /\ ready \subseteq Procs
  /\ stored \in [Commands -> Auths \cup {None}]

(* The types of executor and session make up those of Regie.               *)
LEMMA RegieTypes == (TypeOK /\ SessionOK => RegieTypeOK)
                    /\ (TypeOK' /\ SessionOK' => RegieTypeOK')
  BY DEF RegieTypeOK, SessionOK

(* The session keeps its types.                                            *)
LEMMA RegieTypeStep ==
  ASSUME IInv, RegieTypeOK, [RegieNext]_<<vars, sessionVars>>
  PROVE  IInv' /\ RegieTypeOK'
  <1>1. IInv'
    BY RegieStepIsStep, StepInv
  <1>2. TypeOK'
    BY <1>1 DEF IInv
  <1>3. SessionOK /\ auth \in [Procs -> Auths]
    BY DEF RegieTypeOK, SessionOK, TypeOK
  <1>4. ASSUME NEW p \in Procs, Serve(p)
        PROVE  SessionOK'
    BY <1>3, <1>4 DEF Serve, SessionOK
  <1>5. ASSUME NEW p \in Procs, Request(p)
        PROVE  SessionOK'
    BY <1>3, <1>4, <1>5 DEF Request, Decide, WriteSelection, WriteDecision, Decided,
      Apply, Restore, sessionVars, SessionOK
  <1>6. ASSUME NEW p \in Procs, ServerCrash(p)
        PROVE  SessionOK'
    BY <1>3, <1>6 DEF ServerCrash, Decided, sessionVars, SessionOK
  <1>7. ASSUME UNCHANGED sessionVars
        PROVE  SessionOK'
    BY <1>3, <1>7 DEF sessionVars, SessionOK
  <1>8. SessionOK'
    BY <1>5, <1>6, <1>7 DEF RegieNext, sessionVars
  <1> QED
    BY <1>1, <1>2, <1>8, RegieTypes

(* Every variable of Regie and of the executor behind it has its type.     *)
THEOREM RegieTypeCorrect == RegieSpec => []RegieTypeOK
  <1>1. IInv /\ RegieTypeOK /\ [RegieNext]_<<vars, sessionVars>>
          => IInv' /\ RegieTypeOK'
    BY RegieTypeStep
  <1> QED
    BY RegieInitTypes, <1>1, PTL DEF RegieSpec

(* Regie runs the live executor as it is: whatever servers do with a       *)
(* review, the executor's steps are those of LiveApply, and all that is    *)
(* proved of Spec holds of a review (service.py calls execute_live_apply   *)
(* and restore_live_apply and writes nothing of theirs).                   *)
THEOREM RegieRunsExecutor == RegieSpec => Spec
  <1>1. RegieTypeOK /\ [RegieNext]_<<vars, sessionVars>> => [Next]_vars
    BY RegieStepIsStep
  <1>2. RegieInit => Init
    BY DEF RegieInit
  <1> QED
    BY <1>1, <1>2, RegieTypeCorrect, PTL DEF RegieSpec, Spec

-----------------------------------------------------------------------------
(* The decision.                                                           *)

(* A server decides only while there is no decision, and when it writes    *)
(* the decision the parts beside it are this decision's.                   *)
DecisionInv ==
  /\ \A p \in Procs : deciding[p] # None => decision = None
  /\ \A p \in ready : deciding[p] # None /\ selected = deciding[p]
  /\ SelectionDecided

(* Without a second server no request to decide overtakes another.         *)
LEMMA DecisionStep ==
  ASSUME \A p, q \in Procs : p = q,
         RegieTypeOK, DecisionInv, [RegieNext]_<<vars, sessionVars>>
  PROVE  DecisionInv' /\ (decision # None => decision' = decision)
  <1> DEFINE Goal == DecisionInv' /\ (decision # None => decision' = decision)
  <1> USE DEF DecisionInv, SelectionDecided
  <1>1. deciding \in [Procs -> Auths \cup {None}] /\ ready \subseteq Procs
    BY DEF RegieTypeOK
  <1>2. ASSUME NEW p \in Procs, NEW a \in Auths, Decide(p, a)
        PROVE  Goal
    BY <1>1, <1>2 DEF Decide, Waiting
  <1>3. ASSUME NEW p \in Procs, WriteSelection(p)
        PROVE  Goal
    BY <1>1, <1>3 DEF WriteSelection
  <1>4. ASSUME NEW p \in Procs, WriteDecision(p)
        PROVE  Goal
    BY <1>1, <1>4 DEF WriteDecision, Decided
  <1>5. ASSUME NEW p \in Procs, Apply(p) \/ Restore(p) \/ Serve(p)
        PROVE  Goal
    BY <1>5 DEF Apply, Restore, Serve, sessionVars
  <1>6. ASSUME NEW p \in Procs, ServerCrash(p)
        PROVE  Goal
    BY <1>1, <1>6 DEF ServerCrash, Decided, sessionVars
  <1>7. ASSUME UNCHANGED sessionVars
        PROVE  Goal
    BY <1>7 DEF sessionVars
  <1> QED
    BY <1>2, <1>3, <1>4, <1>5, <1>6, <1>7 DEF RegieNext, Request

(* So a server never meets a decision other than the one it is writing.    *)
LEMMA DecisionInvariance ==
  ASSUME \A p, q \in Procs : p = q
  PROVE  RegieSpec => []DecisionInv
  <1>1. RegieInit => DecisionInv
    BY DEF RegieInit, DecisionInv, SelectionDecided
  <1>2. RegieTypeOK /\ DecisionInv /\ [RegieNext]_<<vars, sessionVars>> => DecisionInv'
    BY DecisionStep
  <1> QED
    BY <1>1, <1>2, RegieTypeCorrect, PTL DEF RegieSpec

(* With one server at a time a decision, once written, is never replaced,  *)
(* in any order of requests and restarts (decide looks it up under _lock). *)
THEOREM DecisionsStay ==
  ASSUME \A p, q \in Procs : p = q
  PROVE  RegieSpec => DecisionImmutable
  <1>1. RegieTypeOK /\ DecisionInv /\ [RegieNext]_<<vars, sessionVars>>
          => [decision # None => decision' = decision]_decision
    BY DecisionStep
  <1> QED
    BY <1>1, DecisionInvariance, RegieTypeCorrect, PTL DEF RegieSpec, DecisionImmutable

(* With one server at a time the selected bundle, the authorization and    *)
(* the plan beside a decision are those of this decision, also when a      *)
(* server was killed between writing them (decide writes it last).         *)
THEOREM SelectionsAreDecided ==
  ASSUME \A p, q \in Procs : p = q
  PROVE  RegieSpec => []SelectionDecided
  <1>1. DecisionInv => SelectionDecided
    BY DEF DecisionInv
  <1> QED
    BY <1>1, DecisionInvariance, PTL

-----------------------------------------------------------------------------
(* The authorization under which a review mutates the board.               *)

(* An apply that can still send replacements, and every replacement sent,  *)
(* belongs to the decision.                                                *)
TransactionInv ==
  /\ \A p \in Procs : pc[p] \in ForwardPCs \cup {"reserve"} =>
       decision # None /\ auth[p] = decision
  /\ \A a \in Auths : calls[a] > 0 => a = decision

(* What one step of the executor may change of that.                       *)
LEMMA ContinueCalls ==
  ASSUME IInv, NEW p \in Procs, Continue(p)
  PROVE  /\ \A q \in Procs \ {p} : pc'[q] = pc[q] /\ auth'[q] = auth[q]
         /\ pc'[p] \in ForwardPCs \cup {"reserve"} =>
              pc[p] \in ForwardPCs \cup {"reserve"} /\ auth'[p] = auth[p]
         /\ calls' = calls \/ (/\ pc[p] = "replace"
                               /\ calls' = [calls EXCEPT ![auth[p]] = @ + 1])
  <1> USE DEF At, Goto, Finish, ForwardPCs, locals, command, history, RestoreFails,
              WriteJournal, Remember
  <1>1. pc \in [Procs -> PCs] /\ auth \in [Procs -> Auths]
    BY DEF IInv, TypeOK
  <1>2. CASE Reserve(p) \/ AnswerExisting(p) \/ WriteReserved(p)
             \/ SnapshotBefore(p) \/ ReadBefore(p) \/ WritePreflightFailed(p)
             \/ WritePrepared(p) \/ CheckOperation(p)
    BY <1>1, <1>2 DEF Reserve, AnswerExisting, WriteReserved, SnapshotBefore, ReadBefore,
      WritePreflightFailed, WritePrepared, CheckOperation
  <1>3. CASE ReplaceOperation(p)
    BY <1>1, <1>3 DEF ReplaceOperation
  <1>4. CASE WriteApplying(p) \/ ReadAfter(p) \/ SnapshotAfter(p) \/ WriteCommitted(p)
    BY <1>1, <1>4 DEF WriteApplying, ReadAfter, SnapshotAfter, WriteCommitted
  <1>5. CASE RestoreStep(p)
    BY <1>1, <1>5 DEF RestoreStep, SnapshotCurrent, ReadCurrent, InverseOperation,
      ReadRestored, SnapshotRestored, WriteRestored
  <1>6. CASE SharedStep(p)
    BY <1>1, <1>6 DEF SharedStep, RepairRead, RepairReplace, RepairVerify,
      RepairSnapshot, WriteRepairOutcome, PersistCanonical, PersistRequested
  <1> QED
    BY <1>2, <1>3, <1>4, <1>5, <1>6 DEF Continue, ApplyStep

(* Every step of a server keeps to the decision.                           *)
LEMMA TransactionStep ==
  ASSUME IInv, RegieTypeOK, TransactionInv, decision # None => decision' = decision,
         DecisionInv, [RegieNext]_<<vars, sessionVars>>
  PROVE  TransactionInv'
  <1> DEFINE Drive == ForwardPCs \cup {"reserve"}
  <1>1. /\ pc \in [Procs -> PCs] /\ auth \in [Procs -> Auths]
        /\ calls \in [Auths -> Nat]
        /\ decision \in Auths \cup {None} /\ None \notin Auths
    BY ServerAssumption DEF IInv, TypeOK, RegieTypeOK
  <1>2. (decision' = decision \/ decision = None) /\ decision' \in Auths \cup {None}
    BY RegieTypeStep DEF RegieTypeOK
  <1>3. ASSUME UNCHANGED <<pc, auth, calls>>, decision # None => decision' = decision
        PROVE  TransactionInv'
    BY <1>1, <1>3 DEF TransactionInv
  <1>4. ASSUME NEW p \in Procs,
               (\E a \in Auths : Decide(p, a)) \/ WriteSelection(p) \/ WriteDecision(p)
        PROVE  TransactionInv'
    BY <1>3, <1>4 DEF Decide, WriteSelection, WriteDecision, vars, locals, command, history
  <1>5. ASSUME NEW p \in Procs, Apply(p)
        PROVE  TransactionInv'
    <2>1. /\ decision # None /\ decision' = decision /\ calls' = calls
          /\ pc' = [pc EXCEPT ![p] = "reserve"]
          /\ auth' = [auth EXCEPT ![p] = decision]
      BY <1>5 DEF Apply, ApplyAllowed, StartApply, Begin, Goto, sessionVars
    <2> QED
      BY <1>1, <2>1 DEF TransactionInv
  <1>6. ASSUME NEW p \in Procs, Restore(p)
        PROVE  TransactionInv'
    <2>1. /\ decision' = decision /\ calls' = calls
          /\ pc'[p] \notin Drive
          /\ \A q \in Procs \ {p} : pc'[q] = pc[q] /\ auth'[q] = auth[q]
      BY <1>1, <1>6 DEF Restore, StartRestore, AnswerRestore, Begin, Finish, Goto,
        ForwardPCs, history, sessionVars
    <2> QED
      BY <1>1, <2>1 DEF TransactionInv
  <1>7. ASSUME NEW p \in Procs, Serve(p)
        PROVE  TransactionInv'
    <2>1. decision' = decision /\ Continue(p)
      BY <1>7 DEF Serve
    <2>2. calls' = calls \/ (pc[p] = "replace" /\ calls' = [calls EXCEPT ![auth[p]] = @ + 1])
      BY <2>1, ContinueCalls
    <2>3. \A a \in Auths : calls'[a] > 0 => a = decision
      BY <1>1, <2>2 DEF TransactionInv, ForwardPCs
    <2>4. \A q \in Procs : pc'[q] \in Drive => pc[q] \in Drive /\ auth'[q] = auth[q]
      BY <2>1, ContinueCalls
    <2> QED
      BY <2>1, <2>3, <2>4 DEF TransactionInv
  <1>8. ASSUME NEW p \in Procs, ServerCrash(p)
        PROVE  TransactionInv'
    <2>1. CASE UNCHANGED <<vars, decision>>
      BY <1>3, <2>1 DEF vars, locals, command, history
    <2>2. CASE Crash(p) /\ UNCHANGED sessionVars
      <3>1. /\ decision' = decision /\ calls' = calls
            /\ pc'[p] \notin Drive
            /\ \A q \in Procs \ {p} : pc'[q] = pc[q] /\ auth'[q] = auth[q]
        BY <1>1, <2>2 DEF Crash, Finish, Goto, ForwardPCs, history, sessionVars
      <3> QED
        BY <1>1, <3>1 DEF TransactionInv
    <2> QED
      BY <1>8, <2>1, <2>2 DEF ServerCrash
  <1>9. CASE Surroundings \/ UNCHANGED <<vars, sessionVars>>
    <2>1. UNCHANGED <<pc, auth, calls>>
      BY <1>9 DEF Surroundings, EnableKillSwitch, DisableKillSwitch, Tick, ExternalEdit,
        LateEffect, vars, locals, command, history
    <2> QED
      BY <1>3, <2>1
  <1>10. ASSUME NEW p \in Procs, Request(p)
         PROVE  TransactionInv'
    BY <1>4, <1>5, <1>6, <1>7, <1>10 DEF Request
  <1> QED
    BY <1>8, <1>9, <1>10 DEF RegieNext

(* With one server at a time one review mutates the board under a single   *)
(* authorization, whatever is requested and killed in whatever order: the  *)
(* executor is only ever started for the decision (apply, decide).         *)
THEOREM OneTransactionPerReview ==
  ASSUME \A p, q \in Procs : p = q
  PROVE  RegieSpec => []OneTransaction
  <1>1. RegieInit => TransactionInv
    BY DEF RegieInit, Init, TransactionInv, ForwardPCs
  <1>2. IInv /\ RegieTypeOK /\ DecisionInv /\ TransactionInv
          /\ [RegieNext]_<<vars, sessionVars>> => TransactionInv'
    BY DecisionStep, TransactionStep
  <1>3. TransactionInv => OneTransaction
    BY DEF TransactionInv, OneTransaction
  <1> QED
    BY <1>1, <1>2, <1>3, Invariance, RegieRunsExecutor, RegieTypeCorrect,
       DecisionInvariance, PTL DEF RegieSpec

-----------------------------------------------------------------------------
(* The phase a page shows and the journal of the decided transaction.      *)

(* A running apply is the first command under the decision, and a running  *)
(* restore is for the apply the session holds.                             *)
CommandFollows(p) ==
  /\ pc[p] # "idle" /\ cmd[p] = "apply" =>
       decision # None /\ auth[p] = decision /\ ~Exists("apply") /\ ~Exists("restore")
  /\ pc[p] # "idle" /\ cmd[p] = "restore" =>
       /\ Exists("apply") /\ auth[p] = stored["apply"]
       /\ pc[p] \notin PersistPCs => journal[auth[p]].status = "committed"
       /\ pc[p] \in PersistPCs => /\ out[p].result # "none"
                                  /\ out[p].result = "ok" <=> journal[auth[p]].status = "restored"

(* The receipts of the session are those of the decided transaction.       *)
SessionFollows ==
  /\ Exists("apply") => stored["apply"] = decision /\ requested["apply"][decision].result # "none"
  /\ Exists("restore") => /\ Exists("apply") /\ stored["restore"] = stored["apply"]
                          /\ requested["apply"][decision].result = "ok"

RestoresTold == \A a \in Auths : requested["restore"][a].result = "ok" => journal[a].status = "restored"

PhaseInv == (\A p \in Procs : CommandFollows(p)) /\ SessionFollows /\ RestoresTold

(* What one step of a command changes.                                     *)
LEMMA ServeEffect ==
  ASSUME IInv, NEW p \in Procs, Continue(p)
  PROVE  /\ pc[p] # "idle"
         /\ pc'[p] # "idle" => cmd'[p] = cmd[p] /\ auth'[p] = auth[p]
         /\ pc[p] \in PersistPCs =>
              /\ UNCHANGED journal
              /\ pc'[p] # "idle" => pc'[p] \in PersistPCs /\ out'[p] = out[p]
         /\ pc[p] \notin PersistPCs /\ cmd[p] = "restore" =>
              \/ UNCHANGED journal /\ pc'[p] \notin PersistPCs
              \/ /\ pc'[p] \in PersistPCs
                 /\ \A a \in Auths \ {auth[p]} : journal'[a] = journal[a]
                 /\ out'[p].result # "none"
                 /\ out'[p].result = "ok" <=> journal'[auth[p]].status = "restored"
         /\ pc[p] \notin PersistPCs =>
              \A a \in Auths \ {auth[p]} : journal'[a] = journal[a]
         /\ pc[p] # "persist_requested" => UNCHANGED requested
         /\ pc[p] = "persist_requested" =>
              requested' = [requested EXCEPT ![cmd[p]][auth[p]] = out[p]] /\ pc'[p] = "idle"
  <1> DEFINE Goal ==
         /\ pc[p] # "idle"
         /\ pc'[p] # "idle" => cmd'[p] = cmd[p] /\ auth'[p] = auth[p]
         /\ pc[p] \in PersistPCs =>
              /\ UNCHANGED journal
              /\ pc'[p] # "idle" => pc'[p] \in PersistPCs /\ out'[p] = out[p]
         /\ pc[p] \notin PersistPCs /\ cmd[p] = "restore" =>
              \/ UNCHANGED journal /\ pc'[p] \notin PersistPCs
              \/ /\ pc'[p] \in PersistPCs
                 /\ \A a \in Auths \ {auth[p]} : journal'[a] = journal[a]
                 /\ out'[p].result # "none"
                 /\ out'[p].result = "ok" <=> journal'[auth[p]].status = "restored"
         /\ pc[p] \notin PersistPCs =>
              \A a \in Auths \ {auth[p]} : journal'[a] = journal[a]
         /\ pc[p] # "persist_requested" => UNCHANGED requested
         /\ pc[p] = "persist_requested" =>
              requested' = [requested EXCEPT ![cmd[p]][auth[p]] = out[p]] /\ pc'[p] = "idle"
  <1>0. /\ pc \in [Procs -> PCs] /\ auth \in [Procs -> Auths] /\ cmd \in [Procs -> Commands]
        /\ out \in [Procs -> Receipts] /\ journal \in [Auths -> Journals]
        /\ mem \in [Procs -> Journals]
        /\ pc[p] \in ApplyPCs => cmd[p] = "apply"
    BY DEF IInv, TypeOK, Ownership
  <1>1. ASSUME NEW l \in PCs \ (PersistPCs \cup {"idle"}),
               pc[p] \notin PersistPCs \cup {"idle"},
               pc' = [pc EXCEPT ![p] = l], UNCHANGED <<cmd, auth, journal, requested>>
        PROVE  Goal
    BY <1>0, <1>1 DEF PersistPCs
  <1>2. ASSUME NEW how, pc[p] \notin PersistPCs \cup {"idle"}, Finish(p, how), UNCHANGED files
        PROVE  Goal
    BY <1>0, <1>2 DEF Finish, Goto, PersistPCs, files, receipts
  <1>3. ASSUME NEW l \in PCs \ {"idle"}, NEW j, pc[p] \notin PersistPCs \cup {"idle"},
               pc' = [pc EXCEPT ![p] = l], WriteJournal(p, j), UNCHANGED command,
               cmd[p] = "restore" => /\ l \in PersistPCs /\ out'[p].result # "none"
                                     /\ out'[p].result = "ok" <=> j.status = "restored"
        PROVE  Goal
    BY <1>0, <1>3 DEF WriteJournal, command, receipts, PersistPCs
  <1> SUFFICES Goal
    OBVIOUS
  <1> HIDE DEF Goal
  <1> USE DEF At, Goto, PCs, ApplyPCs, RestorePCs, RepairPCs, PersistPCs
  <1>4. CASE Reserve(p) \/ SnapshotBefore(p) \/ ReadBefore(p) \/ CheckOperation(p)
    <2>1. PICK l \in {"write_reserved", "read_before", "write_preflight_failed", "write_prepared",
                      "replace", "repair_read"} : pc' = [pc EXCEPT ![p] = l]
      BY <1>4 DEF Reserve, SnapshotBefore, ReadBefore, CheckOperation
    <2>2. pc[p] \notin PersistPCs \cup {"idle"} /\ UNCHANGED <<cmd, auth, journal, requested>>
      BY <1>4 DEF Reserve, SnapshotBefore, ReadBefore, CheckOperation, files, receipts, locals, command
    <2> QED
      BY <1>1, <2>1, <2>2
  <1>5. CASE ReplaceOperation(p) \/ ReadAfter(p) \/ SnapshotAfter(p)
    <2>1. PICK l \in {"write_applying", "repair_read", "snapshot_after", "write_committed"} :
            pc' = [pc EXCEPT ![p] = l]
      BY <1>5 DEF ReplaceOperation, ReadAfter, SnapshotAfter
    <2>2. pc[p] \notin PersistPCs \cup {"idle"} /\ UNCHANGED <<cmd, auth, journal, requested>>
      BY <1>5 DEF ReplaceOperation, ReadAfter, SnapshotAfter, files, receipts, locals, command
    <2> QED
      BY <1>1, <2>1, <2>2
  <1>6. CASE AnswerExisting(p)
    BY <1>2, <1>6 DEF AnswerExisting
  <1>7. CASE WriteReserved(p) \/ WritePreflightFailed(p) \/ WritePrepared(p) \/ WriteCommitted(p)
    <2>1. PICK l \in {"snapshot_before", "persist_canonical", "check_operation"} :
            pc' = [pc EXCEPT ![p] = l]
      BY <1>7 DEF WriteReserved, WritePreflightFailed, WritePrepared, WriteCommitted
    <2>3. PICK j : WriteJournal(p, j)
      BY <1>7 DEF WriteReserved, WritePreflightFailed, WritePrepared, WriteCommitted
    <2>2. pc[p] \notin PersistPCs \cup {"idle"} /\ cmd[p] = "apply" /\ UNCHANGED command
      BY <1>0, <1>7 DEF WriteReserved, WritePreflightFailed, WritePrepared, WriteCommitted
    <2> QED
      BY <1>3, <2>1, <2>2, <2>3
  <1>8. CASE WriteApplying(p)
    <2>1. PICK l \in {"check_operation", "read_after", "repair_read"} :
            /\ pc' = [pc EXCEPT ![p] = l]
            /\ (\E j : WriteJournal(p, j)) \/ UNCHANGED files
      BY <1>8 DEF WriteApplying
    <2>2. pc[p] \notin PersistPCs \cup {"idle"} /\ cmd[p] = "apply" /\ UNCHANGED command
      BY <1>0, <1>8 DEF WriteApplying
    <2> QED
      BY <1>1, <1>3, <2>1, <2>2 DEF files, receipts, command
  <1>9. CASE SnapshotCurrent(p) \/ ReadCurrent(p)
    <2>1. \/ \E l \in {"read_current", "inverse"} :
               pc' = [pc EXCEPT ![p] = l] /\ UNCHANGED <<cmd, auth>>
          \/ Finish(p, "rejected")
      BY <1>9 DEF SnapshotCurrent, ReadCurrent, locals, command
    <2>2. pc[p] \notin PersistPCs \cup {"idle"} /\ UNCHANGED files
      BY <1>9 DEF SnapshotCurrent, ReadCurrent
    <2> QED
      BY <1>1, <1>2, <2>1, <2>2 DEF files, receipts
  <1>10. CASE InverseOperation(p) \/ ReadRestored(p) \/ SnapshotRestored(p)
    <2>1. PICK l \in {"inverse", "read_restored", "repair_read", "snapshot_restored", "write_restored"} :
            pc' = [pc EXCEPT ![p] = l]
      BY <1>10 DEF InverseOperation, ReadRestored, SnapshotRestored, RestoreFails
    <2>2. pc[p] \notin PersistPCs \cup {"idle"} /\ UNCHANGED <<cmd, auth, journal, requested>>
      BY <1>10 DEF InverseOperation, ReadRestored, SnapshotRestored, files, receipts, command
    <2> QED
      BY <1>1, <2>1, <2>2
  <1>11. CASE WriteRestored(p)
    <2> DEFINE j == [mem[p] EXCEPT !.status = "restored"]
    <2>1. /\ pc' = [pc EXCEPT ![p] = "persist_canonical"] /\ WriteJournal(p, j)
          /\ pc[p] \notin PersistPCs \cup {"idle"} /\ UNCHANGED command
      BY <1>11 DEF WriteRestored
    <2>2. out'[p].result = "ok" /\ j.status = "restored"
      BY <1>0, <1>11, StatusField DEF WriteRestored, Issue, Success
    <2> HIDE DEF j
    <2> QED
      BY <1>3, <2>1, <2>2
  <1>12. CASE RepairRead(p) \/ RepairReplace(p) \/ RepairVerify(p) \/ RepairSnapshot(p)
    <2>1. PICK l \in RepairPCs : pc' = [pc EXCEPT ![p] = l]
      BY <1>12 DEF RepairRead, RepairReplace, RepairVerify, RepairSnapshot
    <2>2. pc[p] \notin PersistPCs \cup {"idle"} /\ UNCHANGED <<cmd, auth, journal, requested>>
      BY <1>12 DEF RepairRead, RepairReplace, RepairVerify, RepairSnapshot, files, receipts, locals, command
    <2> QED
      BY <1>1, <2>1, <2>2
  <1>13. CASE WriteRepairOutcome(p)
    <2> DEFINE s == RepairStatus(cmd[p], At(p, "write_repaired"))
               j == [mem[p] EXCEPT !.status = s]
    <2>1. WriteJournal(p, j)
      BY <1>13 DEF WriteRepairOutcome
    <2>4. cmd[p] = "restore" => s # "restored"
      BY DEF RepairStatus
    <2>5. j.status = s
      BY <1>0, StatusField
    <2> HIDE DEF j, s
    <2>2. /\ pc' = [pc EXCEPT ![p] = "persist_canonical"]
          /\ pc[p] \notin PersistPCs \cup {"idle"} /\ UNCHANGED command
      BY <1>13 DEF WriteRepairOutcome
    <2>3. out'[p].result = "failed"
      BY <1>0, <1>13 DEF WriteRepairOutcome, Issue, Failures
    <2> QED
      BY <1>3, <2>1, <2>2, <2>3, <2>4, <2>5
  <1>14. CASE PersistCanonical(p)
    BY <1>0, <1>14 DEF PersistCanonical, locals, command, Goal
  <1>15. CASE PersistRequested(p)
    BY <1>0, <1>15 DEF PersistRequested, Finish, Goal
  <1> QED
    BY <1>4, <1>5, <1>6, <1>7, <1>8, <1>9, <1>10, <1>11, <1>12, <1>13, <1>14, <1>15
       DEF Continue, ApplyStep, RestoreStep, SharedStep

(* A step at the reservation leaves the journal alone.                     *)
LEMMA ReserveKeeps ==
  ASSUME NEW p \in Procs, Continue(p), pc[p] = "reserve"
  PROVE  UNCHANGED journal
  BY DEF Continue, ApplyStep, RestoreStep, SharedStep, Reserve, AnswerExisting, WriteReserved,
    SnapshotBefore, ReadBefore, WritePreflightFailed, WritePrepared, CheckOperation,
    ReplaceOperation, WriteApplying, ReadAfter, SnapshotAfter, WriteCommitted, SnapshotCurrent,
    ReadCurrent, InverseOperation, ReadRestored, SnapshotRestored, WriteRestored, RepairRead,
    RepairReplace, RepairVerify, RepairSnapshot, WriteRepairOutcome, PersistCanonical,
    PersistRequested, At, files

(* Every step of the only server keeps the session to the decision.        *)
LEMMA PhaseStep ==
  ASSUME \A p, q \in Procs : p = q,
         IInv, JournalInv, RegieTypeOK, PhaseInv, decision # None => decision' = decision,
         [RegieNext]_<<vars, sessionVars>>
  PROVE  PhaseInv'
  <1>0. /\ pc \in [Procs -> PCs] /\ auth \in [Procs -> Auths] /\ cmd \in [Procs -> Commands]
        /\ requested \in [Commands -> [Auths -> Receipts]]
        /\ stored \in [Commands -> Auths \cup {None}] /\ None \notin Auths
        /\ "apply" \in Commands /\ "restore" \in Commands
    BY ServerAssumption DEF IInv, TypeOK, RegieTypeOK, Commands
  <1>1. /\ Exists("apply") => stored["apply"] = decision /\ decision \in Auths
        /\ Exists("restore") => stored["restore"] = decision /\ Exists("apply")
    BY <1>0 DEF PhaseInv, SessionFollows, Exists
  <1>2. ASSUME UNCHANGED <<pc, cmd, auth, out, journal, requested, stored>>
        PROVE  PhaseInv'
    <2>1. \A p \in Procs : CommandFollows(p)'
      BY <1>1, <1>2 DEF PhaseInv, CommandFollows, Exists
    <2>2. SessionFollows' /\ RestoresTold'
      BY <1>1, <1>2 DEF PhaseInv, SessionFollows, RestoresTold, Exists
    <2> QED
      BY <2>1, <2>2 DEF PhaseInv
  <1>3. ASSUME NEW p \in Procs, NEW how, Finish(p, how), UNCHANGED <<files, sessionVars>>
        PROVE  PhaseInv'
    <2>1. pc'[p] = "idle" /\ UNCHANGED <<journal, requested, stored, decision>>
      BY <1>0, <1>3 DEF Finish, Goto, files, receipts, sessionVars
    <2>2. \A q \in Procs : CommandFollows(q)'
      BY <2>1 DEF CommandFollows
    <2>3. SessionFollows' /\ RestoresTold'
      BY <2>1 DEF PhaseInv, SessionFollows, RestoresTold, Exists
    <2> QED
      BY <2>2, <2>3 DEF PhaseInv
  <1>4. ASSUME NEW p \in Procs,
               (\E a \in Auths : Decide(p, a)) \/ WriteSelection(p) \/ WriteDecision(p)
        PROVE  PhaseInv'
    BY <1>2, <1>4 DEF Decide, WriteSelection, WriteDecision, vars, locals, command, files, receipts
  <1>5. ASSUME NEW p \in Procs, Apply(p)
        PROVE  PhaseInv'
    <2>1. /\ decision # None /\ ~Exists("apply") /\ ~Exists("restore")
          /\ UNCHANGED <<journal, requested, stored, decision>>
          /\ cmd'[p] = "apply" /\ auth'[p] = decision
      BY <1>0, <1>5 DEF Apply, ApplyAllowed, StartApply, Begin, files, receipts, sessionVars
    <2>2. \A q \in Procs : CommandFollows(q)'
      BY <2>1 DEF CommandFollows, Exists
    <2>3. SessionFollows' /\ RestoresTold'
      BY <2>1 DEF PhaseInv, SessionFollows, RestoresTold, Exists
    <2> QED
      BY <2>2, <2>3 DEF PhaseInv
  <1>6. ASSUME NEW p \in Procs, Restore(p)
        PROVE  PhaseInv'
    <2>1. Exists("apply") /\ UNCHANGED sessionVars
      BY <1>6 DEF Restore, RestoreAllowed, Stored, NoReceipt
    <2>2. CASE AnswerRestore(p, stored["apply"])
      BY <1>3, <2>1, <2>2 DEF AnswerRestore
    <2>3. CASE StartRestore(p, stored["apply"])
      <3>1. /\ journal[stored["apply"]].status = "committed"
            /\ UNCHANGED <<journal, requested, stored, decision>>
            /\ cmd'[p] = "restore" /\ auth'[p] = stored["apply"] /\ pc'[p] = "snapshot_current"
        BY <1>0, <2>1, <2>3 DEF StartRestore, RestoreAdmissible, Begin, Goto, files, receipts, sessionVars
      <3>2. \A q \in Procs : CommandFollows(q)'
        BY <2>1, <3>1 DEF CommandFollows, Exists, PersistPCs
      <3>3. SessionFollows' /\ RestoresTold'
        BY <3>1 DEF PhaseInv, SessionFollows, RestoresTold, Exists
      <3> QED
        BY <3>2, <3>3 DEF PhaseInv
    <2> QED
      BY <1>6, <2>2, <2>3 DEF Restore
  <1>7. ASSUME NEW p \in Procs, Serve(p)
        PROVE  PhaseInv'
    <2>1. Continue(p) /\ UNCHANGED decision /\ pc[p] # "idle"
      BY <1>7, ServeEffect DEF Serve
    <2>2. PICK a \in Auths : a = auth[p]
      BY <1>0
    <2>3. CommandFollows(p) /\ ProcTold(p) /\ AuthTold(a)
      BY DEF PhaseInv, JournalInv
    <2>4. decision = a /\ decision # None
      BY <1>0, <1>1, <2>1, <2>2, <2>3 DEF CommandFollows, Commands
    <2>5. canonical["apply"][a].result = "ok" \/ cmd[p] = "apply"
      BY <1>0, <2>1, <2>2, <2>3 DEF ProcTold, Commands
    <2>6. CASE pc[p] # "persist_requested"
      <3>1. UNCHANGED <<requested, stored>>
        BY <1>7, <2>1, <2>6, ServeEffect DEF Serve, At
      <3>2. CommandFollows(p)'
        <4>1. CASE pc'[p] = "idle"
          BY <4>1 DEF CommandFollows
        <4>2. CASE pc'[p] # "idle" /\ cmd[p] = "apply"
          <5>1. cmd'[p] = cmd[p] /\ auth'[p] = auth[p]
            BY <2>1, <4>2, ServeEffect
          <5> QED
            BY <2>1, <2>3, <3>1, <4>2, <5>1 DEF CommandFollows, Exists
        <4>3. CASE pc'[p] # "idle" /\ cmd[p] = "restore"
          <5>1. cmd'[p] = cmd[p] /\ auth'[p] = auth[p]
            BY <2>1, <4>3, ServeEffect
          <5>2. Exists("apply") /\ auth[p] = stored["apply"]
            BY <2>1, <2>3, <4>3 DEF CommandFollows
          <5>3. CASE pc[p] \in PersistPCs
            <6>1. UNCHANGED journal /\ pc'[p] \in PersistPCs /\ out'[p] = out[p]
              BY <2>1, <4>3, <5>3, ServeEffect
            <6> QED
              BY <2>1, <2>3, <3>1, <4>3, <5>1, <5>2, <5>3, <6>1 DEF CommandFollows, Exists
          <5>4. CASE pc[p] \notin PersistPCs
            <6>1. \/ UNCHANGED journal /\ pc'[p] \notin PersistPCs
                  \/ /\ pc'[p] \in PersistPCs /\ out'[p].result # "none"
                     /\ out'[p].result = "ok" <=> journal'[auth[p]].status = "restored"
              BY <2>1, <4>3, <5>4, ServeEffect
            <6> QED
              BY <2>1, <2>3, <3>1, <4>3, <5>1, <5>2, <5>4, <6>1 DEF CommandFollows, Exists
          <5> QED
            BY <5>3, <5>4
        <4> QED
          BY <1>0, <4>1, <4>2, <4>3 DEF Commands
      <3>3. SessionFollows'
        BY <2>1, <3>1 DEF PhaseInv, SessionFollows, Exists
      <3>4. ASSUME requested["restore"][a].result = "ok"
            PROVE  UNCHANGED journal
        <4>1. journal[a].status = "restored"
          BY <3>4 DEF PhaseInv, RestoresTold
        <4>2. pc[p] \in PersistPCs \cup {"reserve"}
          <5>1. CASE cmd[p] = "restore"
            BY <2>1, <2>2, <2>3, <4>1, <5>1 DEF CommandFollows
          <5>2. CASE cmd[p] = "apply"
            <6>1. pc[p] \in PCs /\ (pc[p] \in RestorePCs => cmd[p] = "restore")
              BY <1>0 DEF IInv, Ownership
            <6> QED
              BY <2>1, <2>2, <2>3, <4>1, <5>2, <6>1 DEF ProcTold, Owns, PCs, ApplyPCs, PersistPCs,
                PreflightPCs, DrivePCs
          <5> QED
            BY <1>0, <5>1, <5>2 DEF Commands
        <4>3. CASE pc[p] \in PersistPCs
          BY <2>1, <4>3, ServeEffect
        <4>4. CASE pc[p] = "reserve"
          BY <2>1, <4>4, ReserveKeeps
        <4> QED
          BY <4>2, <4>3, <4>4
      <3>5. \A b \in Auths \ {a} : journal'[b] = journal[b]
        BY <2>1, <2>2, ServeEffect
      <3>6. RestoresTold'
        BY <3>1, <3>4, <3>5 DEF PhaseInv, RestoresTold
      <3>7. \A q \in Procs : CommandFollows(q)'
        <4>1. \A q \in Procs : q = p
          OBVIOUS
        <4> QED
          BY <3>2, <4>1
      <3> QED
        BY <3>3, <3>6, <3>7 DEF PhaseInv
    <2>7. CASE pc[p] = "persist_requested"
      <3>1. /\ requested' = [requested EXCEPT ![cmd[p]][a] = out[p]] /\ pc'[p] = "idle"
            /\ UNCHANGED journal
            /\ stored' = [stored EXCEPT ![cmd[p]] = a]
        BY <1>7, <2>1, <2>2, <2>7, ServeEffect DEF Serve, At, Stores, PersistPCs
      <3>2. \A q \in Procs : CommandFollows(q)'
        BY <3>1 DEF CommandFollows
      <3>3. CASE cmd[p] = "apply"
        <4>1. out[p].result # "none" /\ ~Exists("restore")
          BY <2>1, <2>2, <2>3, <2>7, <3>3 DEF ProcTold, Owns, CommandFollows
        <4>2. /\ stored'["apply"] = a /\ stored'["restore"] = stored["restore"]
              /\ requested'["apply"][a] = out[p] /\ requested'["restore"] = requested["restore"]
          BY <1>0, <3>1, <3>3
        <4>3. SessionFollows' /\ RestoresTold'
          BY <2>1, <2>4, <3>1, <4>1, <4>2 DEF SessionFollows, RestoresTold, PhaseInv, Exists
        <4> QED
          BY <3>2, <4>3 DEF PhaseInv
      <3>4. CASE cmd[p] = "restore"
        <4>1. /\ Exists("apply") /\ stored["apply"] = a
              /\ out[p].result = "ok" => journal[a].status = "restored"
          BY <2>1, <2>2, <2>3, <2>7, <3>4 DEF CommandFollows, PersistPCs
        <4>2. /\ stored'["restore"] = a /\ stored'["apply"] = stored["apply"]
              /\ requested'["apply"] = requested["apply"] /\ requested'["restore"][a] = out[p]
              /\ \A b \in Auths \ {a} : requested'["restore"][b] = requested["restore"][b]
          BY <1>0, <3>1, <3>4
        <4>3. requested["apply"][a].result = "ok"
          <5>1. requested["apply"][a].result # "none"
            BY <2>4, <4>1 DEF PhaseInv, SessionFollows
          <5> QED
            BY <2>1, <2>2, <2>3, <3>4, <5>1 DEF ProcTold, AuthTold
        <4>4. SessionFollows'
          BY <2>1, <2>4, <4>1, <4>2, <4>3 DEF SessionFollows, Exists
        <4>5. RestoresTold'
          BY <3>1, <4>1, <4>2 DEF RestoresTold, PhaseInv
        <4> QED
          BY <3>2, <4>4, <4>5 DEF PhaseInv
      <3> QED
        BY <1>0, <3>3, <3>4 DEF Commands
    <2> QED
      BY <2>6, <2>7
  <1>8. ASSUME NEW p \in Procs, ServerCrash(p)
        PROVE  PhaseInv'
    BY <1>2, <1>3, <1>8 DEF ServerCrash, Crash, vars, locals, command, files, receipts
  <1>9. CASE (Surroundings /\ UNCHANGED sessionVars) \/ UNCHANGED <<vars, sessionVars>>
    BY <1>2, <1>9 DEF Surroundings, EnableKillSwitch, DisableKillSwitch, Tick, ExternalEdit,
      LateEffect, vars, locals, command, files, receipts, sessionVars
  <1> QED
    BY <1>4, <1>5, <1>6, <1>7, <1>8, <1>9 DEF RegieNext, Request

(* The phase, case by case.                                                *)
LEMMA PhaseCases ==
  /\ Exists("restore") => Phase = IF Stored("restore").result = "ok" THEN "restored" ELSE "restore-failed"
  /\ ~Exists("restore") /\ Exists("apply") =>
       Phase = IF Stored("apply").result = "ok" THEN "applied" ELSE "apply-failed"
  /\ ~Exists("restore") /\ ~Exists("apply") => Phase = IF decision # None THEN "approved" ELSE "review"
  BY DEF Phase, Stored, NoReceipt

(* The phase of the next state.                                            *)
LEMMA PhaseCasesNext ==
  /\ Exists("restore")' =>
       Phase' = IF Stored("restore")'.result = "ok" THEN "restored" ELSE "restore-failed"
  /\ ~Exists("restore")' /\ Exists("apply")' =>
       Phase' = IF Stored("apply")'.result = "ok" THEN "applied" ELSE "apply-failed"
  /\ ~Exists("restore")' /\ ~Exists("apply")' =>
       Phase' = IF decision' # None THEN "approved" ELSE "review"
  BY DEF Phase, Stored, NoReceipt

(* Every step of the only server leaves the phase or advances it.          *)
LEMMA AdvanceStep ==
  ASSUME \A p, q \in Procs : p = q,
         IInv, JournalInv, RegieTypeOK, PhaseInv, decision # None => decision' = decision,
         [RegieNext]_<<vars, sessionVars>>
  PROVE  Phase' = Phase \/ Phase' \in Later(Phase)
  <1>0. /\ pc \in [Procs -> PCs] /\ auth \in [Procs -> Auths] /\ cmd \in [Procs -> Commands]
        /\ requested \in [Commands -> [Auths -> Receipts]]
        /\ stored \in [Commands -> Auths \cup {None}] /\ None \notin Auths
        /\ "apply" \in Commands /\ "restore" \in Commands
    BY ServerAssumption DEF IInv, TypeOK, RegieTypeOK, Commands
  <1>1. /\ Exists("apply") => stored["apply"] = decision /\ decision # None
        /\ Exists("restore") => stored["restore"] = decision /\ Exists("apply")
    BY <1>0 DEF PhaseInv, SessionFollows, Exists
  <1>2. ASSUME UNCHANGED <<requested, stored>>
        PROVE  Phase' = Phase \/ Phase' \in Later(Phase)
    <2>1. \A c \in Commands : Exists(c)' = Exists(c) /\ Stored(c)' = Stored(c)
      BY <1>2 DEF Exists, Stored
    <2>2. CASE Exists("restore")
      BY <1>0, <2>1, <2>2, PhaseCases, PhaseCasesNext
    <2>3. CASE ~Exists("restore") /\ Exists("apply")
      BY <1>0, <2>1, <2>3, PhaseCases, PhaseCasesNext
    <2>4. CASE ~Exists("restore") /\ ~Exists("apply")
      BY <1>0, <2>1, <2>4, PhaseCases, PhaseCasesNext DEF Later
    <2> QED
      BY <2>2, <2>3, <2>4
  <1>3. ASSUME NEW p \in Procs, Serve(p), pc[p] = "persist_requested"
        PROVE  Phase' = Phase \/ Phase' \in Later(Phase)
    <2>1. Continue(p) /\ UNCHANGED decision
      BY <1>3 DEF Serve
    <2>2. PICK a \in Auths : a = auth[p]
      BY <1>0
    <2>3. CommandFollows(p) /\ ProcTold(p) /\ AuthTold(a)
      BY DEF PhaseInv, JournalInv
    <2>4. /\ requested' = [requested EXCEPT ![cmd[p]][a] = out[p]]
          /\ stored' = [stored EXCEPT ![cmd[p]] = a]
      BY <1>3, <2>1, <2>2, ServeEffect DEF Serve, At, Stores
    <2>5. CASE cmd[p] = "apply"
      <3>1. ~Exists("apply") /\ ~Exists("restore") /\ decision # None
        BY <1>3, <2>3, <2>5 DEF CommandFollows
      <3>2. stored'["apply"] = a /\ stored'["restore"] = stored["restore"]
        BY <1>0, <2>4, <2>5
      <3>3. Exists("apply")' /\ ~Exists("restore")'
        BY <1>0, <3>1, <3>2 DEF Exists
      <3> QED
        BY <3>1, <3>3, PhaseCases, PhaseCasesNext DEF Later
    <2>6. CASE cmd[p] = "restore"
      <3>1. /\ Exists("apply") /\ stored["apply"] = a /\ decision = a
            /\ out[p].result = "ok" <=> journal[a].status = "restored"
        BY <1>1, <1>3, <2>2, <2>3, <2>6 DEF CommandFollows, PersistPCs
      <3>2. /\ stored'["restore"] = a /\ requested'["restore"][a] = out[p]
        BY <1>0, <2>4, <2>6
      <3>3. Exists("restore")' /\ Stored("restore")' = out[p]
        BY <1>0, <3>2 DEF Exists, Stored
      <3>4. CASE Exists("restore")
        <4>1. Stored("restore") = requested["restore"][a]
          BY <1>1, <3>1, <3>4 DEF Stored
        <4>2. Stored("restore").result = "ok" => out[p].result = "ok"
          BY <3>1, <4>1 DEF PhaseInv, RestoresTold
        <4> QED
          BY <3>3, <3>4, <4>2, PhaseCases, PhaseCasesNext DEF Later
      <3>5. CASE ~Exists("restore")
        <4>1. requested["apply"][a].result # "none"
          BY <3>1 DEF PhaseInv, SessionFollows
        <4>2. Stored("apply").result = "ok"
          BY <1>3, <2>2, <2>3, <2>6, <3>1, <4>1 DEF ProcTold, AuthTold, Stored
        <4> QED
          BY <3>1, <3>3, <3>5, <4>2, PhaseCases, PhaseCasesNext DEF Later
      <3> QED
        BY <3>4, <3>5
    <2> QED
      BY <1>0, <2>5, <2>6 DEF Commands
  <1>4. ASSUME NEW p \in Procs, Serve(p), pc[p] # "persist_requested"
        PROVE  UNCHANGED <<requested, stored>>
    BY <1>4, ServeEffect DEF Serve, At
  <1>5. ASSUME NEW p \in Procs,
               \/ \E a \in Auths : Decide(p, a)
               \/ WriteSelection(p) \/ WriteDecision(p) \/ Apply(p) \/ Restore(p) \/ ServerCrash(p)
        PROVE  UNCHANGED <<requested, stored>>
    BY <1>5 DEF Decide, WriteSelection, WriteDecision, Apply, StartApply, Restore, StartRestore,
      AnswerRestore, ServerCrash, Crash, vars, files, receipts, sessionVars
  <1>6. CASE (Surroundings /\ UNCHANGED sessionVars) \/ UNCHANGED <<vars, sessionVars>>
    BY <1>2, <1>6 DEF Surroundings, EnableKillSwitch, DisableKillSwitch, Tick, ExternalEdit,
      LateEffect, vars, files, receipts, sessionVars
  <1> QED
    BY <1>2, <1>3, <1>4, <1>5, <1>6 DEF RegieNext, Request

(* In every reachable state of the only server the session follows the     *)
(* decision.                                                               *)
LEMMA PhaseInvariance ==
  ASSUME \A p, q \in Procs : p = q
  PROVE  RegieSpec => []PhaseInv
  <1>1. RegieInit => PhaseInv
    BY DEF RegieInit, Init, PhaseInv, CommandFollows, SessionFollows, RestoresTold, Exists,
      Commands, NoReceipt
  <1>2. IInv /\ JournalInv /\ RegieTypeOK /\ DecisionInv /\ PhaseInv
          /\ [RegieNext]_<<vars, sessionVars>> => PhaseInv'
    BY PhaseStep, DecisionStep
  <1> QED
    BY <1>1, <1>2, Invariance, ToldInvariance, RegieRunsExecutor, RegieTypeCorrect,
       DecisionInvariance, PTL DEF RegieSpec

(* With one server at a time the phase a page shows is what the journal of *)
(* the decided transaction says, after every crash: a failed apply never   *)
(* shows as applied, nor a failed restore as restored (state reads the     *)
(* session's receipts, which _persist_receipt writes last).                *)
THEOREM PhasesAreTruthful ==
  ASSUME \A p, q \in Procs : p = q
  PROVE  RegieSpec => []PhaseTruthful
  <1>1. IInv /\ JournalInv /\ RegieTypeOK /\ PhaseInv => PhaseTruthful
    <2> SUFFICES ASSUME IInv, JournalInv, RegieTypeOK, PhaseInv
                 PROVE  PhaseTruthful
      OBVIOUS
    <2>1. /\ Exists("apply") => stored["apply"] = decision /\ decision \in Auths
          /\ Exists("restore") => /\ Exists("apply") /\ stored["restore"] = decision
                                  /\ requested["apply"][decision].result = "ok"
          /\ Exists("apply") => requested["apply"][decision].result \in {"ok", "failed"}
      <3>1. None \notin Auths /\ stored["apply"] \in Auths \cup {None}
        BY ServerAssumption DEF RegieTypeOK, Commands
      <3>2. \A a \in Auths : requested["apply"][a].result \in {"none", "ok", "failed"}
        BY DEF RegieTypeOK, TypeOK, Receipts, Commands
      <3> QED
        BY <3>1, <3>2 DEF PhaseInv, SessionFollows, Exists
    <2>2. ASSUME NEW a \in Auths, requested["apply"][a].result = "ok"
          PROVE  journal[a].status \in After
      BY <2>2 DEF JournalInv, AuthTold, Told
    <2>3. ASSUME NEW a \in Auths, requested["apply"][a].result = "failed"
          PROVE  journal[a].status \in Undone
      BY <2>3 DEF JournalInv, AuthTold, Told
    <2>4. /\ Phase = "restored" => Exists("restore") /\ Stored("restore").result = "ok"
          /\ Phase = "restore-failed" => Exists("restore")
          /\ Phase = "applied" => Exists("apply") /\ Stored("apply").result = "ok"
          /\ Phase = "apply-failed" => Exists("apply") /\ Stored("apply").result # "ok"
      BY PhaseCases
    <2>5. Phase = "applied" => journal[decision].status \in After
      BY <2>1, <2>2, <2>4 DEF Stored
    <2>6. Phase = "apply-failed" => journal[decision].status \in Undone
      BY <2>1, <2>3, <2>4 DEF Stored
    <2>7. Phase = "restored" => journal[decision].status = "restored"
      BY <2>1, <2>4 DEF Stored, PhaseInv, RestoresTold
    <2>8. Phase = "restore-failed" => journal[decision].status \in After
      BY <2>1, <2>2, <2>4
    <2> QED
      BY <2>1, <2>5, <2>6, <2>7, <2>8 DEF PhaseTruthful, After, Undone
  <1> QED
    BY <1>1, Invariance, ToldInvariance, RegieRunsExecutor, RegieTypeCorrect, PhaseInvariance, PTL

(* With one server at a time a review only goes forward, whatever is       *)
(* requested and killed in whatever order: a restored one stays restored,  *)
(* a failed apply is final, and nothing returns to review (apply and       *)
(* restore refuse or replay what the session's receipts settle).           *)
THEOREM ReviewsGoForward ==
  ASSUME \A p, q \in Procs : p = q
  PROVE  RegieSpec => PhaseAdvances
  <1>1. IInv /\ JournalInv /\ RegieTypeOK /\ DecisionInv /\ PhaseInv
          /\ [RegieNext]_<<vars, sessionVars>>
          => [Phase' = Phase \/ Phase' \in Later(Phase)]_<<vars, sessionVars>>
    BY AdvanceStep, DecisionStep
  <1> QED
    BY <1>1, Invariance, ToldInvariance, RegieRunsExecutor, RegieTypeCorrect, DecisionInvariance,
       PhaseInvariance, PTL DEF RegieSpec, PhaseAdvances

-----------------------------------------------------------------------------
(* What a page offers in a calm behaviour.                                 *)

(* The board is as journal j says.                                         *)
Stands(j) == board = j.after /\ board = j.afterDsl

(* A restore of a is past its checks and has not kept its receipt yet.     *)
Open(a) ==
  \E p \in Procs : /\ Restoring(p, a)
                   /\ pc[p] \notin {"snapshot_current", "read_current", "persist_requested"}

(* A recovered restore says so, with the journal it leaves.                *)
RecoveredTold(r, j) ==
  /\ r.result = "failed" /\ r.repaired /\ r.readable /\ r.journal = j

CalmApply(p) ==
  LET a == auth[p] IN
  /\ pc[p] = "snapshot_after" => board = mem[p].afterDsl
  /\ pc[p] = "write_committed" => Stands(mem[p])
  /\ pc[p] \in PersistPCs /\ out[p].result = "ok" =>
       /\ out[p].journal = journal[a] /\ journal[a].status = "committed"
       /\ Stands(journal[a])
  /\ pc[p] = "persist_requested" => canonical["apply"][a] = out[p]

CalmRestore(p) ==
  LET a == auth[p]
      j == journal[a]
  IN /\ pc[p] \in RestorePCs \cup RepairPCs =>
          /\ RestoreAdmissible(a, canonical["apply"][a])
          /\ mem[p].after = j.after /\ mem[p].afterDsl = j.afterDsl
     /\ pc[p] = "repair_snapshot" => board = mem[p].afterDsl
     /\ pc[p] = "write_repaired" => Stands(mem[p])
     /\ pc[p] \in PersistPCs =>
          /\ out[p].result # "none"
          /\ out[p].result = "failed" /\ out[p].repaired => j.status = "committed"
          /\ j.status = "committed" =>
               /\ RecoveredTold(out[p], j) /\ Stands(j)
               /\ j.after = canonical["apply"][a].journal.after
     /\ pc[p] = "persist_requested" => canonical["restore"][a] = out[p]

CalmAuth(a) ==
  LET kept == canonical["apply"][a]
      prior == canonical["restore"][a]
  IN /\ a \in reserved => /\ a = decision
                          /\ Exists("apply") \/ \E p \in Procs : Owns(p)
     /\ kept.result # "ok" => prior = NoReceipt
     /\ kept.result = "ok" /\ ~Open(a) =>
          /\ journal[a].status = "committed" =>
               /\ RestoreAdmissible(a, kept) /\ Stands(journal[a])
          /\ prior.result = "none" \/ (prior.result = "failed" /\ prior.repaired) =>
               journal[a].status = "committed"
          /\ journal[a].status = "committed" /\ prior.result = "failed" => prior.repaired
     /\ \A c \in Commands :
          (\A p \in Procs : ~(pc[p] = "persist_requested" /\ cmd[p] = c /\ auth[p] = a)) =>
            requested[c][a] = canonical[c][a]

CalmSession ==
  /\ Exists("restore") => requested["restore"][decision].result # "none"
  /\ ~Exists("restore") => \A a \in Auths : requested["restore"][a].result = "none"

CalmInv ==
  /\ late = {}
  /\ \A p \in Procs : pc[p] # "idle" => IF cmd[p] = "apply" THEN CalmApply(p) ELSE CalmRestore(p)
  /\ \A a \in Auths : CalmAuth(a)
  /\ CalmSession

(* Everything a step of a calm behaviour starts from.                      *)
OneServer == \A p, q \in Procs : p = q
CalmAll ==
  /\ OneServer /\ ~LateEffects /\ ~CitingErrors
  /\ IInv /\ JournalInv /\ RegieTypeOK /\ DecisionInv /\ PhaseInv /\ CalmInv

(* The types the steps below read.                                         *)
LEMMA CalmTypes ==
  ASSUME CalmAll
  PROVE  /\ pc \in [Procs -> PCs] /\ auth \in [Procs -> Auths] /\ cmd \in [Procs -> Commands]
         /\ mem \in [Procs -> Journals] /\ out \in [Procs -> Receipts]
         /\ journal \in [Auths -> Journals]
         /\ canonical \in [Commands -> [Auths -> Receipts]]
         /\ requested \in [Commands -> [Auths -> Receipts]]
         /\ stored \in [Commands -> Auths \cup {None}] /\ None \notin Auths
         /\ decision \in Auths \cup {None}
         /\ "apply" \in Commands /\ "restore" \in Commands
         /\ Commands = {"apply", "restore"}
  BY ServerAssumption DEF CalmAll, IInv, TypeOK, RegieTypeOK, Commands

(* What is known of the command at work.                                   *)
LEMMA CalmCommand ==
  ASSUME CalmAll, NEW p \in Procs, pc[p] # "idle"
  PROVE  /\ decision = auth[p] /\ \A q \in Procs : q = p
         /\ \A b \in Auths \ {auth[p]} : b \notin reserved /\ canonical["apply"][b].result = "none"
         /\ cmd[p] = "apply" => /\ ~Exists("apply") /\ ~Exists("restore")
                                /\ pc[p] = "reserve" => auth[p] \notin reserved
                                /\ pc[p] # "persist_requested" =>
                                     canonical["apply"][auth[p]].result = "none"
         /\ cmd[p] = "restore" => /\ Exists("apply")
                                  /\ canonical["apply"][auth[p]].result = "ok"
  <1>0. /\ CommandFollows(p) /\ SessionFollows /\ ProcTold(p)
        /\ \A b \in Auths : CalmAuth(b)
        /\ \A b \in Auths \ reserved : canonical["apply"][b].result = "none"
        /\ Owns(p) /\ pc[p] # "persist_requested" => canonical["apply"][auth[p]].result = "none"
    BY DEF CalmAll, PhaseInv, CalmInv, IInv, Ownership, JournalInv
  <1>1. decision = auth[p]
    BY <1>0, CalmTypes DEF CommandFollows, SessionFollows
  <1>2. \A q \in Procs : q = p
    BY DEF CalmAll, OneServer
  <1>3. ASSUME NEW b \in Auths \ {auth[p]}
        PROVE  b \notin reserved
    BY <1>0, <1>1, <1>3 DEF CalmAuth
  <1>4. cmd[p] = "apply" => ~Exists("apply") /\ ~Exists("restore")
    BY <1>0 DEF CommandFollows
  <1>5. ASSUME cmd[p] = "apply", pc[p] = "reserve"
        PROVE  auth[p] \notin reserved
    <2>1. \A q \in Procs : ~Owns(q)
      BY <1>2, <1>5 DEF Owns
    <2>2. CalmAuth(auth[p])
      BY <1>0, CalmTypes
    <2> QED
      BY <1>4, <1>5, <2>1, <2>2 DEF CalmAuth
  <1>6. ASSUME cmd[p] = "apply", pc[p] # "persist_requested"
        PROVE  canonical["apply"][auth[p]].result = "none"
    BY <1>0, <1>5, <1>6, CalmTypes DEF Owns
  <1>7. cmd[p] = "restore" => Exists("apply") /\ canonical["apply"][auth[p]].result = "ok"
    BY <1>0 DEF CommandFollows, ProcTold
  <1> QED
    BY <1>0, <1>1, <1>2, <1>3, <1>4, <1>5, <1>6, <1>7

(* The authorizations that are not at work stay as they are.               *)
LEMMA CalmOthers ==
  ASSUME CalmAll, NEW p \in Procs, pc[p] # "idle",
         NEW b \in Auths \ {auth[p]}, b \notin reserved',
         \A c \in Commands : canonical'[c][b] = canonical[c][b] /\ requested'[c][b] = requested[c][b]
  PROVE  CalmAuth(b)'
  <1>1. CalmAuth(b) /\ canonical["apply"][b].result = "none"
    BY CalmCommand DEF CalmAll, CalmInv
  <1>2. \A q \in Procs : auth[q] # b
    BY CalmCommand
  <1>3. \A c \in Commands : requested[c][b] = canonical[c][b]
    BY <1>1, <1>2 DEF CalmAuth
  <1>4. canonical["restore"][b] = NoReceipt
    BY <1>1 DEF CalmAuth
  <1> QED
    BY <1>1, <1>3, <1>4, CalmTypes DEF CalmAuth

(* A step of a command between its first and its last leaves what is said  *)
(* of the authorizations: an apply has no receipt yet, a restore is open   *)
(* or has not touched anything.                                            *)
LEMMA CalmKept ==
  ASSUME CalmAll, NEW p \in Procs, pc[p] # "idle", pc[p] # "persist_requested",
         NEW l \in PCs \ {"idle", "reserve", "persist_requested"}, pc' = [pc EXCEPT ![p] = l],
         UNCHANGED <<canonical, requested, stored, decision, cmd, auth>>,
         reserved' \subseteq reserved \cup {auth[p]},
         cmd[p] = "restore" => \/ l \notin {"snapshot_current", "read_current"}
                               \/ pc[p] = "snapshot_current" /\ UNCHANGED <<board, journal>>
  PROVE  (\A b \in Auths : CalmAuth(b)') /\ CalmSession'
  <1> DEFINE a == auth[p]
  <1>0. a \in Auths /\ pc'[p] = l /\ cmd[p] \in Commands
    BY CalmTypes
  <1>1. CalmAuth(a) /\ CalmSession
    BY <1>0 DEF CalmAll, CalmInv
  <1>2. ASSUME NEW b \in Auths \ {a}
        PROVE  CalmAuth(b)'
    <2>1. b \notin reserved'
      BY <1>2, CalmCommand
    <2> QED
      BY <1>2, <2>1, CalmOthers
  <1>3. CalmSession'
    BY <1>1 DEF CalmSession, Exists
  <1>4. \A c \in Commands : requested[c][a] = canonical[c][a]
    <2>1. \A q \in Procs : q = p
      BY CalmCommand
    <2> QED
      BY <1>1, <2>1 DEF CalmAuth
  <1>5. CASE cmd[p] = "apply"
    <2>1. /\ canonical["apply"][a].result = "none" /\ a = decision
          /\ Owns(p)'
      BY <1>0, <1>5, CalmCommand DEF Owns
    <2>2. canonical["restore"][a] = NoReceipt
      BY <1>1, <2>1 DEF CalmAuth
    <2>3. CalmAuth(a)'
      BY <1>0, <1>4, <2>1, <2>2 DEF CalmAuth
    <2> QED
      BY <1>2, <1>3, <2>3
  <1>6. CASE cmd[p] = "restore"
    <2>1. Exists("apply") /\ canonical["apply"][a].result = "ok" /\ a = decision
      BY <1>6, CalmCommand
    <2>2. Exists("apply")'
      BY <2>1 DEF Exists
    <2>3. CASE l \notin {"snapshot_current", "read_current"}
      <3>1. Open(a)'
        BY <1>0, <1>6, <2>3 DEF Open, Restoring, At
      <3> QED
        BY <1>2, <1>3, <1>4, <2>1, <2>2, <3>1 DEF CalmAuth
    <2>4. CASE pc[p] = "snapshot_current" /\ UNCHANGED <<board, journal>>
      <3>1. ~Open(a)
        BY <2>4, CalmCommand DEF Open, Restoring
      <3>2. RestoreAdmissible(a, canonical["apply"][a])' <=> RestoreAdmissible(a, canonical["apply"][a])
        BY <2>4 DEF RestoreAdmissible
      <3>3. Stands(journal[a])' <=> Stands(journal[a])
        BY <2>4 DEF Stands
      <3> QED
        BY <1>1, <1>2, <1>3, <1>4, <2>1, <2>2, <2>4, <3>1, <3>2, <3>3 DEF CalmAuth
    <2> QED
      BY <1>6, <2>3, <2>4
  <1> QED
    BY <1>0, <1>5, <1>6 DEF Commands

(* A restore that finds drift ends, and a command that starts finds things *)
(* as they were.                                                           *)
LEMMA CalmSame ==
  ASSUME CalmAll, UNCHANGED <<board, reserved, journal, canonical, requested, stored, decision>>,
         \A p \in Procs : /\ pc[p] \in {"idle", "snapshot_current", "read_current"}
                          /\ pc'[p] \in {"idle", "reserve", "snapshot_current", "read_current"}
  PROVE  (\A b \in Auths : CalmAuth(b)') /\ CalmSession'
  <1>1. CalmSession'
    BY DEF CalmAll, CalmInv, CalmSession, Exists
  <1>2. ASSUME NEW b \in Auths
        PROVE  CalmAuth(b)'
    <2>1. CalmAuth(b)
      BY DEF CalmAll, CalmInv
    <2>2. ~Open(b)
      BY DEF Open, Restoring, At
    <2>3. b \in reserved => b = decision /\ Exists("apply")
      <3>1. \A p \in Procs : Owns(p) => pc[p] \in {"snapshot_current", "read_current"} /\ cmd[p] = "apply"
        BY DEF Owns
      <3>2. \A p \in Procs : pc[p] \in RestorePCs => cmd[p] = "restore"
        BY DEF CalmAll, IInv, Ownership
      <3>3. \A p \in Procs : ~Owns(p)
        BY <3>1, <3>2 DEF RestorePCs
      <3> QED
        BY <2>1, <3>3 DEF CalmAuth
    <2>4. \A c \in Commands : requested[c][b] = canonical[c][b]
      BY <2>1 DEF CalmAuth
    <2>5. Exists("apply")' <=> Exists("apply")
      BY DEF Exists
    <2>6. RestoreAdmissible(b, canonical["apply"][b])' <=> RestoreAdmissible(b, canonical["apply"][b])
      BY DEF RestoreAdmissible
    <2>7. Stands(journal[b])' <=> Stands(journal[b])
      BY DEF Stands
    <2>8. canonical["apply"][b].result # "ok" => canonical["restore"][b] = NoReceipt
      BY <2>1 DEF CalmAuth
    <2> QED
      BY <2>1, <2>2, <2>3, <2>4, <2>5, <2>6, <2>7, <2>8 DEF CalmAuth
  <1> QED
    BY <1>1, <1>2

(* What is said of the process at work.                                    *)
CalmProc(p) == pc[p] # "idle" => IF cmd[p] = "apply" THEN CalmApply(p) ELSE CalmRestore(p)

(* A quiet apply step: nothing is said before the board has been read      *)
(* after the last operation.                                               *)
LEMMA CalmApplyQuiet ==
  ASSUME CalmAll, NEW p \in Procs, pc[p] # "idle", pc[p] # "persist_requested", cmd[p] = "apply",
         NEW l \in PCs \ ({"idle", "reserve", "snapshot_after", "write_committed"} \cup PersistPCs),
         pc' = [pc EXCEPT ![p] = l],
         UNCHANGED <<canonical, requested, stored, decision, cmd, auth>>,
         reserved' \subseteq reserved \cup {auth[p]}
  PROVE  CalmProc(p)' /\ (\A b \in Auths : CalmAuth(b)') /\ CalmSession'
  <1>1. pc'[p] = l
    BY CalmTypes
  <1>2. CalmProc(p)'
    BY <1>1 DEF CalmProc, CalmApply, PersistPCs
  <1> QED
    BY <1>2, CalmKept DEF PersistPCs

(* Fields of a journal that an assignment to others leaves.                *)
LEMMA OtherFields ==
  ASSUME NEW j \in Journals
  PROVE  /\ \A s : /\ [j EXCEPT !.status = s].after = j.after
                   /\ [j EXCEPT !.status = s].afterDsl = j.afterDsl
                   /\ [j EXCEPT !.restoreFailure = s].after = j.after
                   /\ [j EXCEPT !.restoreFailure = s].afterDsl = j.afterDsl
         /\ \A b : /\ [j EXCEPT !.afterDsl = b].afterDsl = b
                   /\ [j EXCEPT !.after = b].after = b
                   /\ [j EXCEPT !.after = b].afterDsl = j.afterDsl
  BY DEF Journals

(* Every step of an apply.                                                 *)
LEMMA CalmApplyStep ==
  ASSUME CalmAll, NEW p \in Procs, ApplyStep(p), UNCHANGED <<stored, decision>>
  PROVE  CalmProc(p)' /\ (\A b \in Auths : CalmAuth(b)') /\ CalmSession'
  <1> DEFINE Goal == CalmProc(p)' /\ (\A b \in Auths : CalmAuth(b)') /\ CalmSession'
  <1>0. /\ pc \in [Procs -> PCs] /\ auth \in [Procs -> Auths] /\ cmd \in [Procs -> Commands]
        /\ mem \in [Procs -> Journals] /\ mem[p] \in Journals
        /\ out \in [Procs -> Receipts] /\ journal \in [Auths -> Journals]
        /\ pc[p] \in ApplyPCs => cmd[p] = "apply"
        /\ pc[p] # "idle" => CalmProc(p)
    BY CalmTypes DEF CalmAll, CalmInv, CalmProc, IInv, Ownership
  <1> SUFFICES Goal
    OBVIOUS
  <1> USE DEF At, Goto, PCs, ApplyPCs, RestorePCs, RepairPCs, PersistPCs
  <1> HIDE DEF Goal
  <1>1. ASSUME NEW l \in PCs \ ({"idle", "reserve", "snapshot_after", "write_committed"} \cup PersistPCs),
               pc[p] \in ApplyPCs, pc' = [pc EXCEPT ![p] = l],
               UNCHANGED <<canonical, requested, cmd, auth>>,
               reserved' \subseteq reserved \cup {auth[p]}
        PROVE  Goal
    BY <1>0, <1>1, CalmApplyQuiet DEF Goal
  <1>2. CASE Reserve(p) \/ SnapshotBefore(p) \/ ReadBefore(p) \/ CheckOperation(p) \/ ReplaceOperation(p)
    <2>1. PICK l \in {"write_reserved", "read_before", "write_preflight_failed", "write_prepared",
                      "replace", "repair_read", "write_applying"} : pc' = [pc EXCEPT ![p] = l]
      BY <1>2 DEF Reserve, SnapshotBefore, ReadBefore, CheckOperation, ReplaceOperation
    <2>2. /\ pc[p] \in ApplyPCs /\ UNCHANGED <<canonical, requested, cmd, auth>>
          /\ reserved' \subseteq reserved \cup {auth[p]}
      BY <1>2 DEF Reserve, SnapshotBefore, ReadBefore, CheckOperation, ReplaceOperation,
        files, receipts, locals, command
    <2> QED
      BY <1>1, <2>1, <2>2
  <1>3. CASE AnswerExisting(p)
    BY <1>0, <1>3, CalmCommand DEF AnswerExisting
  <1>4. CASE WriteReserved(p) \/ WritePrepared(p) \/ WriteApplying(p)
    <2>1. PICK l \in {"snapshot_before", "check_operation", "read_after", "repair_read"} :
            pc' = [pc EXCEPT ![p] = l]
      BY <1>4 DEF WriteReserved, WritePrepared, WriteApplying
    <2>2. pc[p] \in ApplyPCs /\ UNCHANGED <<canonical, requested, cmd, auth, reserved>>
      BY <1>4 DEF WriteReserved, WritePrepared, WriteApplying, WriteJournal, files, receipts, command
    <2> QED
      BY <1>1, <2>1, <2>2
  <1>5. CASE ReadAfter(p)
    <2>1. pc[p] = "read_after" /\ UNCHANGED <<board, canonical, requested, cmd, auth, reserved>>
      BY <1>5 DEF ReadAfter, files, receipts, command, provider
    <2>2. CASE pc' = [pc EXCEPT ![p] = "repair_read"]
      BY <1>1, <2>1, <2>2
    <2>3. CASE pc' = [pc EXCEPT ![p] = "snapshot_after"] /\ Remember(p, [mem[p] EXCEPT !.afterDsl = board])
      <3>1. mem'[p].afterDsl = board'
        BY <1>0, <2>1, <2>3, OtherFields DEF Remember
      <3>2. CalmProc(p)'
        BY <1>0, <2>1, <2>3, <3>1 DEF CalmProc, CalmApply
      <3> QED
        BY <1>0, <2>1, <2>3, <3>2, CalmKept DEF Goal
    <2> QED
      BY <1>5, <2>2, <2>3 DEF ReadAfter
  <1>6. CASE SnapshotAfter(p)
    <2>1. pc[p] = "snapshot_after" /\ UNCHANGED <<board, canonical, requested, cmd, auth, reserved>>
      BY <1>6 DEF SnapshotAfter, files, receipts, command, provider
    <2>2. CASE pc' = [pc EXCEPT ![p] = "repair_read"]
      BY <1>1, <2>1, <2>2
    <2>3. CASE pc' = [pc EXCEPT ![p] = "write_committed"] /\ Remember(p, [mem[p] EXCEPT !.after = board])
      <3>1. mem'[p].after = board' /\ mem'[p].afterDsl = mem[p].afterDsl
        BY <1>0, <2>1, <2>3, OtherFields DEF Remember
      <3>2. board = mem[p].afterDsl
        BY <1>0, <2>1 DEF CalmProc, CalmApply
      <3>3. CalmProc(p)'
        BY <1>0, <2>1, <2>3, <3>1, <3>2 DEF CalmProc, CalmApply, Stands
      <3> QED
        BY <1>0, <2>1, <2>3, <3>3, CalmKept DEF Goal
    <2> QED
      BY <1>6, <2>2, <2>3 DEF SnapshotAfter
  <1>7. CASE WriteCommitted(p)
    <2> DEFINE j == [mem[p] EXCEPT !.status = "committed"]
    <2>1. /\ pc[p] = "write_committed" /\ pc' = [pc EXCEPT ![p] = "persist_canonical"]
          /\ WriteJournal(p, j) /\ Issue(p, Success(j))
          /\ UNCHANGED <<board, cmd, auth>>
      BY <1>7 DEF WriteCommitted, command, provider
    <2>2. UNCHANGED <<canonical, requested, reserved>>
      BY <2>1 DEF WriteJournal, receipts
    <2>3. j.status = "committed" /\ j.after = mem[p].after /\ j.afterDsl = mem[p].afterDsl
      BY <1>0, StatusField, OtherFields
    <2>4. board = mem[p].after /\ board = mem[p].afterDsl
      BY <1>0, <2>1 DEF CalmProc, CalmApply, Stands
    <2> HIDE DEF j
    <2>5. out'[p].journal = j /\ journal'[auth[p]] = j /\ auth'[p] = auth[p]
      BY <1>0, <2>1, SuccessFields DEF WriteJournal, Issue
    <2>6. CalmProc(p)'
      BY <1>0, <2>1, <2>3, <2>4, <2>5 DEF CalmProc, CalmApply, Stands
    <2> QED
      BY <1>0, <2>1, <2>2, <2>6, CalmKept DEF Goal
  <1>8. CASE WritePreflightFailed(p)
    <2>1. /\ pc[p] = "write_preflight_failed" /\ pc' = [pc EXCEPT ![p] = "persist_canonical"]
          /\ UNCHANGED <<canonical, requested, reserved, cmd, auth>>
      BY <1>8 DEF WritePreflightFailed, WriteJournal, receipts, command
    <2>2. out'[p].result = "failed"
      BY <1>0, <1>8 DEF WritePreflightFailed, Issue, Failures
    <2>3. CalmProc(p)'
      BY <1>0, <2>1, <2>2 DEF CalmProc, CalmApply
    <2> QED
      BY <1>0, <2>1, <2>3, CalmKept DEF Goal
  <1> QED
    BY <1>2, <1>3, <1>4, <1>5, <1>6, <1>7, <1>8 DEF ApplyStep

(* A quiet restore step: the journal still admits the restore and the      *)
(* process still holds its digests.                                        *)
LEMMA CalmRestoreQuiet ==
  ASSUME CalmAll, NEW p \in Procs, pc[p] \in RestorePCs \cup RepairPCs, cmd[p] = "restore",
         NEW l \in (RestorePCs \cup RepairPCs) \ {"snapshot_current"},
         l = "read_current" => pc[p] = "snapshot_current" /\ UNCHANGED board,
         pc' = [pc EXCEPT ![p] = l],
         UNCHANGED <<files, stored, decision, cmd, auth>>,
         mem'[p].after = mem[p].after, mem'[p].afterDsl = mem[p].afterDsl,
         l = "repair_snapshot" => board' = mem[p].afterDsl,
         l = "write_repaired" => Stands(mem[p])'
  PROVE  CalmProc(p)' /\ (\A b \in Auths : CalmAuth(b)') /\ CalmSession'
  <1> USE DEF PCs, RestorePCs, RepairPCs, PersistPCs
  <1>1. pc'[p] = l /\ cmd'[p] = "restore" /\ auth'[p] = auth[p]
        /\ UNCHANGED <<journal, canonical, requested, reserved>>
    BY CalmTypes DEF files, receipts
  <1>2. CalmRestore(p)
    BY DEF CalmAll, CalmInv
  <1>3. /\ RestoreAdmissible(auth[p], canonical["apply"][auth[p]])
        /\ mem[p].after = journal[auth[p]].after /\ mem[p].afterDsl = journal[auth[p]].afterDsl
    BY <1>2 DEF CalmRestore
  <1>4. RestoreAdmissible(auth[p], canonical["apply"][auth[p]])'
    BY <1>1, <1>3 DEF RestoreAdmissible
  <1>5. CalmRestore(p)'
    BY <1>1, <1>3, <1>4 DEF CalmRestore
  <1>6. CalmProc(p)'
    BY <1>1, <1>5 DEF CalmProc
  <1> QED
    BY <1>1, <1>6, CalmKept

(* The last write of a restore.                                            *)
LEMMA CalmRestoreEnd ==
  ASSUME CalmAll, NEW p \in Procs, pc[p] \in RestorePCs \cup RepairPCs, cmd[p] = "restore",
         NEW j, WriteJournal(p, j), pc' = [pc EXCEPT ![p] = "persist_canonical"],
         UNCHANGED <<board, stored, decision, cmd, auth>>,
         out'[p].result # "none",
         out'[p].result = "failed" /\ out'[p].repaired => j.status = "committed",
         j.status = "committed" => RecoveredTold(out'[p], j) /\ Stands(mem[p]),
         j.after = mem[p].after, j.afterDsl = mem[p].afterDsl
  PROVE  CalmProc(p)' /\ (\A b \in Auths : CalmAuth(b)') /\ CalmSession'
  <1> USE DEF PCs, RestorePCs, RepairPCs, PersistPCs
  <1>1. pc'[p] = "persist_canonical" /\ cmd'[p] = "restore" /\ auth'[p] = auth[p]
        /\ UNCHANGED <<canonical, requested, reserved>> /\ journal'[auth[p]] = j
    BY CalmTypes DEF WriteJournal, receipts
  <1>2. CalmRestore(p)
    BY DEF CalmAll, CalmInv
  <1>3. /\ RestoreAdmissible(auth[p], canonical["apply"][auth[p]])
        /\ mem[p].after = journal[auth[p]].after
    BY <1>2 DEF CalmRestore
  <1>4. j.after = canonical["apply"][auth[p]].journal.after
    BY <1>3 DEF RestoreAdmissible
  <1>5. CalmRestore(p)'
    BY <1>1, <1>4 DEF CalmRestore, Stands, RecoveredTold
  <1>6. CalmProc(p)'
    BY <1>1, <1>5 DEF CalmProc
  <1> QED
    BY <1>1, <1>6, CalmKept

(* A command that ends without a trace.                                    *)
LEMMA CalmReject ==
  ASSUME CalmAll, NEW p \in Procs, pc[p] \in {"idle", "snapshot_current", "read_current"},
         NEW how, Finish(p, how),
         UNCHANGED <<board, files, stored, decision>>
  PROVE  CalmProc(p)' /\ (\A b \in Auths : CalmAuth(b)') /\ CalmSession'
  <1>1. pc'[p] = "idle"
    BY CalmTypes DEF Finish, Goto
  <1>2. \A q \in Procs : q = p
    BY DEF CalmAll, OneServer
  <1>3. UNCHANGED <<reserved, journal, canonical, requested>>
    BY DEF files, receipts
  <1>4. (\A b \in Auths : CalmAuth(b)') /\ CalmSession'
    BY <1>1, <1>2, <1>3, CalmSame
  <1> QED
    BY <1>1, <1>4 DEF CalmProc

(* Every step of a restore.                                                *)
LEMMA CalmRestoreStep ==
  ASSUME CalmAll, NEW p \in Procs, RestoreStep(p), UNCHANGED <<stored, decision>>
  PROVE  CalmProc(p)' /\ (\A b \in Auths : CalmAuth(b)') /\ CalmSession'
  <1> DEFINE Goal == CalmProc(p)' /\ (\A b \in Auths : CalmAuth(b)') /\ CalmSession'
  <1>0. /\ pc \in [Procs -> PCs] /\ auth \in [Procs -> Auths] /\ cmd \in [Procs -> Commands]
        /\ mem \in [Procs -> Journals] /\ mem[p] \in Journals
        /\ out \in [Procs -> Receipts] /\ journal \in [Auths -> Journals]
        /\ pc[p] \in RestorePCs => cmd[p] = "restore"
    BY CalmTypes DEF CalmAll, IInv, Ownership
  <1> SUFFICES Goal
    OBVIOUS
  <1> USE DEF At, Goto, RestorePCs, RepairPCs
  <1> HIDE DEF Goal
  <1>1. ASSUME NEW l \in {"read_current", "inverse", "read_restored", "repair_read", "snapshot_restored",
                          "write_restored"},
               l = "read_current" => pc[p] = "snapshot_current" /\ UNCHANGED board,
               pc[p] \in RestorePCs, pc' = [pc EXCEPT ![p] = l], UNCHANGED <<files, cmd, auth>>,
               \/ UNCHANGED mem
               \/ \E why : Remember(p, [mem[p] EXCEPT !.restoreFailure = why])
        PROVE  Goal
    <2>1. mem'[p].after = mem[p].after /\ mem'[p].afterDsl = mem[p].afterDsl
      <3>1. ASSUME NEW why, Remember(p, [mem[p] EXCEPT !.restoreFailure = why])
            PROVE  mem'[p].after = mem[p].after /\ mem'[p].afterDsl = mem[p].afterDsl
        <4> DEFINE j == [mem[p] EXCEPT !.restoreFailure = why]
        <4>1. j.after = mem[p].after /\ j.afterDsl = mem[p].afterDsl
          BY <1>0, OtherFields
        <4>2. mem' = [mem EXCEPT ![p] = j]
          BY <3>1 DEF Remember
        <4> HIDE DEF j
        <4> QED
          BY <1>0, <4>1, <4>2
      <3> QED
        BY <1>1, <3>1
    <2> QED
      BY <1>0, <1>1, <2>1, CalmRestoreQuiet DEF Goal
  <1>2. CASE SnapshotCurrent(p)
    <2>1. pc[p] = "snapshot_current" /\ UNCHANGED <<board, files>>
      BY <1>2 DEF SnapshotCurrent, provider
    <2>2. CASE pc' = [pc EXCEPT ![p] = "read_current"] /\ UNCHANGED locals
      BY <1>1, <2>1, <2>2 DEF locals, command, SnapshotCurrent
    <2>3. CASE Finish(p, "rejected")
      BY <2>1, <2>3, CalmReject DEF Goal
    <2> QED
      BY <1>2, <2>2, <2>3 DEF SnapshotCurrent
  <1>3. CASE ReadCurrent(p)
    <2>1. pc[p] = "read_current" /\ UNCHANGED <<board, files>>
      BY <1>3 DEF ReadCurrent, provider
    <2>2. CASE pc' = [pc EXCEPT ![p] = "inverse"] /\ UNCHANGED locals
      BY <1>1, <2>1, <2>2 DEF locals, command
    <2>3. CASE Finish(p, "rejected")
      BY <2>1, <2>3, CalmReject DEF Goal
    <2> QED
      BY <1>3, <2>2, <2>3 DEF ReadCurrent
  <1>4. CASE InverseOperation(p)
    <2>1. PICK l \in {"inverse", "read_restored", "repair_read"} :
            /\ pc' = [pc EXCEPT ![p] = l]
            /\ UNCHANGED mem \/ \E why : Remember(p, [mem[p] EXCEPT !.restoreFailure = why])
      BY <1>4 DEF InverseOperation, RestoreFails
    <2>2. pc[p] = "inverse" /\ UNCHANGED <<files, cmd, auth>>
      BY <1>4 DEF InverseOperation, command
    <2> QED
      BY <1>1, <2>1, <2>2
  <1>5. CASE ReadRestored(p)
    <2>1. PICK l \in {"snapshot_restored", "repair_read"} :
            /\ pc' = [pc EXCEPT ![p] = l]
            /\ UNCHANGED mem \/ \E why : Remember(p, [mem[p] EXCEPT !.restoreFailure = why])
      BY <1>5 DEF ReadRestored, RestoreFails
    <2>2. pc[p] = "read_restored" /\ UNCHANGED <<files, cmd, auth>>
      BY <1>5 DEF ReadRestored, command
    <2> QED
      BY <1>1, <2>1, <2>2
  <1>6. CASE SnapshotRestored(p)
    <2>1. PICK l \in {"write_restored", "repair_read"} :
            /\ pc' = [pc EXCEPT ![p] = l]
            /\ UNCHANGED mem \/ \E why : Remember(p, [mem[p] EXCEPT !.restoreFailure = why])
      BY <1>6 DEF SnapshotRestored, RestoreFails
    <2>2. pc[p] = "snapshot_restored" /\ UNCHANGED <<files, cmd, auth>>
      BY <1>6 DEF SnapshotRestored, command
    <2> QED
      BY <1>1, <2>1, <2>2
  <1>7. CASE WriteRestored(p)
    <2> DEFINE j == [mem[p] EXCEPT !.status = "restored"]
    <2>1. /\ pc[p] = "write_restored" /\ pc' = [pc EXCEPT ![p] = "persist_canonical"]
          /\ WriteJournal(p, j) /\ Issue(p, Success(j))
          /\ UNCHANGED <<board, cmd, auth>>
      BY <1>7 DEF WriteRestored, command, provider
    <2>2. j.status = "restored" /\ j.after = mem[p].after /\ j.afterDsl = mem[p].afterDsl
      BY <1>0, StatusField, OtherFields
    <2> HIDE DEF j
    <2>3. out'[p].result = "ok"
      BY <1>0, <2>1, SuccessFields DEF Issue
    <2> QED
      BY <1>0, <2>1, <2>2, <2>3, CalmRestoreEnd DEF Goal
  <1> QED
    BY <1>2, <1>3, <1>4, <1>5, <1>6, <1>7 DEF RestoreStep

(* A failed restore that was recovered cites nothing of the provider's.    *)
LEMMA FailureFields ==
  ASSUME ~CitingErrors, NEW m, NEW r, NEW o, NEW j, NEW f \in Failures(m, r, o, j)
  PROVE  f.result = "failed" /\ f.repaired = r /\ f.readable /\ f.journal = j
  BY DEF Failures

(* Every step of a repair.                                                 *)
LEMMA CalmRepairStep ==
  ASSUME CalmAll, NEW p \in Procs, UNCHANGED <<stored, decision>>,
         RepairRead(p) \/ RepairReplace(p) \/ RepairVerify(p) \/ RepairSnapshot(p)
           \/ WriteRepairOutcome(p)
  PROVE  CalmProc(p)' /\ (\A b \in Auths : CalmAuth(b)') /\ CalmSession'
  <1> DEFINE Goal == CalmProc(p)' /\ (\A b \in Auths : CalmAuth(b)') /\ CalmSession'
  <1>0. /\ pc \in [Procs -> PCs] /\ auth \in [Procs -> Auths] /\ cmd \in [Procs -> Commands]
        /\ mem \in [Procs -> Journals] /\ mem[p] \in Journals
        /\ out \in [Procs -> Receipts] /\ journal \in [Auths -> Journals]
        /\ cmd[p] \in {"apply", "restore"}
        /\ pc[p] \in RepairPCs /\ cmd[p] = "restore" => CalmRestore(p)
    BY CalmTypes DEF CalmAll, CalmInv, RepairPCs
  <1> SUFFICES Goal
    OBVIOUS
  <1> USE DEF At, Goto, RestorePCs, RepairPCs, PersistPCs, PCs
  <1> HIDE DEF Goal
  <1>1. ASSUME NEW l \in RepairPCs, pc[p] \in RepairPCs, pc' = [pc EXCEPT ![p] = l],
               UNCHANGED <<files, cmd, auth, mem>>,
               cmd[p] = "restore" /\ l = "repair_snapshot" => board' = mem[p].afterDsl,
               cmd[p] = "restore" /\ l = "write_repaired" => Stands(mem[p])'
        PROVE  Goal
    <2>1. CASE cmd[p] = "apply"
      <3>1. UNCHANGED <<canonical, requested, reserved>>
        BY <1>1 DEF files, receipts
      <3> QED
        BY <1>0, <1>1, <2>1, <3>1, CalmApplyQuiet DEF Goal
    <2>2. CASE cmd[p] = "restore"
      BY <1>0, <1>1, <2>2, CalmRestoreQuiet DEF Goal
    <2> QED
      BY <1>0, <2>1, <2>2
  <1>2. CASE RepairRead(p)
    <2>1. PICK l \in {"repair_verify", "repair_replace", "write_unrepaired"} : pc' = [pc EXCEPT ![p] = l]
      BY <1>2 DEF RepairRead
    <2>2. pc[p] = "repair_read" /\ UNCHANGED <<files, cmd, auth, mem>>
      BY <1>2 DEF RepairRead, command
    <2> QED
      BY <1>1, <2>1, <2>2
  <1>3. CASE RepairReplace(p)
    <2>1. PICK l \in {"repair_verify", "repair_replace", "write_unrepaired"} : pc' = [pc EXCEPT ![p] = l]
      BY <1>3 DEF RepairReplace
    <2>2. pc[p] = "repair_replace" /\ UNCHANGED <<files, cmd, auth, mem>>
      BY <1>3 DEF RepairReplace, command
    <2> QED
      BY <1>1, <2>1, <2>2
  <1>4. CASE RepairVerify(p)
    <2>1. PICK l \in {"repair_snapshot", "write_unrepaired"} :
            pc' = [pc EXCEPT ![p] = l] /\ (l = "repair_snapshot" => board = GoalDsl(p))
      BY <1>4 DEF RepairVerify
    <2>2. pc[p] = "repair_verify" /\ UNCHANGED <<board, files, cmd, auth, mem>>
      BY <1>4 DEF RepairVerify, provider, locals, command
    <2> QED
      BY <1>1, <2>1, <2>2 DEF GoalDsl
  <1>5. CASE RepairSnapshot(p)
    <2>1. PICK l \in {"write_repaired", "write_unrepaired"} :
            pc' = [pc EXCEPT ![p] = l] /\ (l = "write_repaired" => board = GoalSnapshot(p))
      BY <1>5 DEF RepairSnapshot
    <2>2. pc[p] = "repair_snapshot" /\ UNCHANGED <<board, files, cmd, auth, mem>>
      BY <1>5 DEF RepairSnapshot, provider, locals, command
    <2>3. cmd[p] = "restore" /\ l = "write_repaired" => Stands(mem[p])'
      BY <1>0, <2>1, <2>2 DEF GoalSnapshot, CalmRestore, Stands
    <2> QED
      BY <1>1, <2>1, <2>2, <2>3
  <1>6. CASE WriteRepairOutcome(p)
    <2> DEFINE repaired == pc[p] = "write_repaired"
               s == RepairStatus(cmd[p], repaired)
               j == [mem[p] EXCEPT !.status = s]
               bound == IF cmd[p] = "apply" THEN NoJournal ELSE j
    <2>1. /\ pc[p] \in {"write_repaired", "write_unrepaired"}
          /\ pc' = [pc EXCEPT ![p] = "persist_canonical"]
          /\ WriteJournal(p, j) /\ UNCHANGED <<board, cmd, auth>>
      BY <1>6 DEF WriteRepairOutcome, provider, command
    <2>2. PICK f \in Failures(sent[p] > 0, repaired, mem[p].restoreFailure # "mismatch" \/ ~repaired, bound) :
            out' = [out EXCEPT ![p] = f]
      BY <1>6 DEF WriteRepairOutcome, Issue
    <2>3. f.result = "failed" /\ f.repaired = repaired /\ f.readable /\ f.journal = bound
      BY FailureFields DEF CalmAll
    <2>4. out'[p] = f
      BY <1>0, <2>2
    <2>5. j.status = s /\ j.after = mem[p].after /\ j.afterDsl = mem[p].afterDsl
      BY <1>0, StatusField, OtherFields
    <2>6. CASE cmd[p] = "apply"
      <3>1. UNCHANGED <<canonical, requested, reserved>>
        BY <2>1 DEF WriteJournal, receipts
      <3>2. CalmProc(p)'
        BY <1>0, <2>1, <2>3, <2>4, <2>6 DEF CalmProc, CalmApply
      <3> QED
        BY <1>0, <2>1, <2>6, <3>1, <3>2, CalmKept DEF Goal
    <2>7. CASE cmd[p] = "restore"
      <3>1. bound = j /\ (s = "committed" <=> repaired)
        BY <2>7 DEF RepairStatus
      <3>2. repaired => Stands(mem[p])
        BY <1>0, <2>7 DEF CalmRestore
      <3> HIDE DEF j, s, bound, repaired
      <3>3. j.status = "committed" => RecoveredTold(out'[p], j) /\ Stands(mem[p])
        BY <2>3, <2>4, <2>5, <3>1, <3>2 DEF RecoveredTold
      <3>4. /\ out'[p].result # "none"
            /\ out'[p].result = "failed" /\ out'[p].repaired => j.status = "committed"
        BY <2>3, <2>4, <2>5, <3>1
      <3> QED
        BY <1>0, <2>1, <2>5, <2>7, <3>3, <3>4, CalmRestoreEnd DEF Goal
    <2> QED
      BY <1>0, <2>6, <2>7
  <1> QED
    BY <1>2, <1>3, <1>4, <1>5, <1>6

(* The receipt beside the journal.                                         *)
LEMMA CalmPersistCanonical ==
  ASSUME CalmAll, NEW p \in Procs, PersistCanonical(p), UNCHANGED <<stored, decision>>
  PROVE  CalmProc(p)' /\ (\A b \in Auths : CalmAuth(b)') /\ CalmSession'
  <1>0. PICK a \in Auths : a = auth[p]
    BY CalmTypes
  <1>1. /\ pc[p] = "persist_canonical" /\ pc'[p] = "persist_requested"
        /\ canonical' = [canonical EXCEPT ![cmd[p]][a] = out[p]]
        /\ UNCHANGED <<board, reserved, journal, requested, cmd, auth, mem, out>>
    BY <1>0, CalmTypes DEF PersistCanonical, At, Goto, locals, command, provider
  <1>2. /\ \A q \in Procs : q = p
        /\ decision = a
        /\ CalmProc(p) /\ CalmAuth(a) /\ CalmSession /\ ProcTold(p)
        /\ CommandFollows(p)
    BY <1>0, <1>1, CalmCommand DEF CalmAll, CalmInv, CalmProc, JournalInv, PhaseInv
  <1>3. ASSUME NEW b \in Auths \ {a}
        PROVE  CalmAuth(b)'
    <2>1. b \notin reserved'
      BY <1>0, <1>1, <1>3, CalmCommand
    <2>2. \A c \in Commands : canonical'[c][b] = canonical[c][b] /\ requested'[c][b] = requested[c][b]
      BY <1>1, <1>3, CalmTypes
    <2> QED
      BY <1>0, <1>1, <1>3, <2>1, <2>2, CalmOthers
  <1>4. CalmSession'
    BY <1>1, <1>2 DEF CalmSession, Exists
  <1>5. \A c \in Commands : requested[c][a] = canonical[c][a]
    BY <1>1, <1>2 DEF CalmAuth
  <1>6. ~Open(a)'
    BY <1>1, <1>2 DEF Open
  <1>7. CASE cmd[p] = "apply"
    <2>1. /\ canonical'["apply"][a] = out[p] /\ canonical'["restore"][a] = canonical["restore"][a]
      BY <1>1, <1>7, CalmTypes
    <2>2. canonical["restore"][a] = NoReceipt
      BY <1>0, <1>1, <1>2, <1>7, CalmCommand DEF CalmAuth
    <2>3. CalmApply(p)
      BY <1>1, <1>2, <1>7 DEF CalmProc
    <2>4. CalmProc(p)'
      BY <1>0, <1>1, <1>7, <2>1, <2>3 DEF CalmProc, CalmApply, PersistPCs, Stands
    <2>5. out[p].result = "ok" =>
            /\ journal[a].status = "committed" /\ out[p].journal = journal[a]
            /\ Stands(journal[a])
      BY <1>0, <1>1, <2>3 DEF CalmApply, PersistPCs
    <2>6. out[p].result = "ok" =>
            RestoreAdmissible(a, canonical["apply"][a])' /\ Stands(journal[a])'
      BY <1>1, <2>1, <2>2, <2>5 DEF RestoreAdmissible, Stands, NoReceipt
    <2>7. Owns(p)'
      BY <1>1, <1>7 DEF Owns
    <2>8. \A c \in Commands :
            (\A q \in Procs : ~(pc'[q] = "persist_requested" /\ cmd'[q] = c /\ auth'[q] = a)) =>
              requested'[c][a] = canonical'[c][a]
      BY <1>0, <1>1, <1>5, <1>7, <2>1, CalmTypes
    <2>9. CalmAuth(a)'
      BY <1>1, <1>2, <2>1, <2>2, <2>5, <2>6, <2>7, <2>8 DEF CalmAuth, NoReceipt
    <2> QED
      BY <1>3, <1>4, <2>4, <2>9
  <1>8. CASE cmd[p] = "restore"
    <2>1. /\ canonical'["restore"][a] = out[p] /\ canonical'["apply"][a] = canonical["apply"][a]
      BY <1>1, <1>8, CalmTypes
    <2>2. Exists("apply") /\ canonical["apply"][a].result = "ok"
      BY <1>0, <1>1, <1>8, CalmCommand
    <2>3. /\ out[p].result # "none"
          /\ out[p].result = "failed" /\ out[p].repaired => journal[a].status = "committed"
          /\ journal[a].status = "committed" =>
               /\ RecoveredTold(out[p], journal[a]) /\ Stands(journal[a])
               /\ journal[a].after = canonical["apply"][a].journal.after
      <3>1. CalmRestore(p)
        BY <1>1, <1>2, <1>8 DEF CalmProc
      <3> QED
        BY <1>0, <1>1, <3>1 DEF CalmRestore, PersistPCs
    <2>4. CalmProc(p)'
      <3>1. CalmRestore(p)'
        BY <1>0, <1>1, <2>1, <2>3 DEF CalmRestore, RestorePCs, RepairPCs, PersistPCs, Stands, RecoveredTold
      <3> QED
        BY <1>1, <1>8, <3>1 DEF CalmProc
    <2>5. journal[a].status = "committed" =>
            RestoreAdmissible(a, canonical["apply"][a])' /\ Stands(journal[a])'
      BY <1>1, <2>1, <2>3 DEF RestoreAdmissible, Stands, RecoveredTold
    <2>6. Exists("apply")'
      BY <2>2 DEF Exists
    <2>7. \A c \in Commands :
            (\A q \in Procs : ~(pc'[q] = "persist_requested" /\ cmd'[q] = c /\ auth'[q] = a)) =>
              requested'[c][a] = canonical'[c][a]
      BY <1>0, <1>1, <1>5, <1>8, <2>1, CalmTypes
    <2>8. journal[a].status = "committed" /\ out[p].result = "failed" => out[p].repaired
      BY <2>3 DEF RecoveredTold
    <2>9. CalmAuth(a)'
      BY <1>1, <1>2, <2>1, <2>2, <2>3, <2>5, <2>6, <2>7, <2>8 DEF CalmAuth
    <2> QED
      BY <1>3, <1>4, <2>4, <2>9
  <1> QED
    BY <1>7, <1>8, CalmTypes

(* The receipt at the requested path, and in the session.                  *)
LEMMA CalmPersistRequested ==
  ASSUME CalmAll, NEW p \in Procs, PersistRequested(p), UNCHANGED decision,
         stored' = [stored EXCEPT ![cmd[p]] = auth[p]]
  PROVE  CalmProc(p)' /\ (\A b \in Auths : CalmAuth(b)') /\ CalmSession'
  <1>0. PICK a \in Auths : a = auth[p]
    BY CalmTypes
  <1>1. /\ pc[p] = "persist_requested" /\ pc'[p] = "idle"
        /\ requested' = [requested EXCEPT ![cmd[p]][a] = out[p]]
        /\ stored' = [stored EXCEPT ![cmd[p]] = a]
        /\ UNCHANGED <<board, reserved, journal, canonical>>
    BY <1>0, CalmTypes DEF PersistRequested, At, Goto, Finish, provider
  <1>2. /\ \A q \in Procs : q = p
        /\ decision = a
        /\ CalmProc(p) /\ CalmAuth(a) /\ CalmSession /\ ProcTold(p)
        /\ CommandFollows(p)
        /\ cmd[p] \in Commands
    BY <1>0, <1>1, CalmCommand, CalmTypes DEF CalmAll, CalmInv, CalmProc, JournalInv, PhaseInv
  <1>3. ASSUME NEW b \in Auths \ {a}
        PROVE  CalmAuth(b)'
    <2>1. b \notin reserved'
      BY <1>0, <1>1, <1>3, CalmCommand
    <2>2. \A c \in Commands : canonical'[c][b] = canonical[c][b] /\ requested'[c][b] = requested[c][b]
      BY <1>1, <1>3, CalmTypes
    <2> QED
      BY <1>0, <1>1, <1>3, <2>1, <2>2, CalmOthers
  <1>4. canonical[cmd[p]][a] = out[p]
    BY <1>0, <1>1, <1>2 DEF CalmProc, CalmApply, CalmRestore, Commands
  <1>5. \A c \in Commands : requested'[c][a] = canonical[c][a]
    <2>1. \A c \in Commands \ {cmd[p]} : requested[c][a] = canonical[c][a]
      BY <1>0, <1>2 DEF CalmAuth
    <2> QED
      BY <1>1, <1>2, <1>4, <2>1, CalmTypes
  <1>6. ~Open(a) /\ ~Open(a)'
    BY <1>1, <1>2 DEF Open, Restoring, At
  <1>7. Exists("apply")' /\ (cmd[p] = "restore" <=> Exists("restore")')
    BY <1>0, <1>1, <1>2, CalmCommand, CalmTypes DEF Exists, Commands
  <1>8. CalmAuth(a)'
    <2>1. RestoreAdmissible(a, canonical["apply"][a])' <=> RestoreAdmissible(a, canonical["apply"][a])
      BY <1>1 DEF RestoreAdmissible
    <2>2. Stands(journal[a])' <=> Stands(journal[a])
      BY <1>1 DEF Stands
    <2> QED
      BY <1>1, <1>2, <1>5, <1>6, <1>7, <2>1, <2>2 DEF CalmAuth
  <1>9. CalmSession'
    <2>1. CASE cmd[p] = "apply"
      <3>1. ~Exists("restore") /\ requested'["restore"] = requested["restore"]
        BY <1>1, <1>2, <2>1, CalmCommand, CalmTypes
      <3> QED
        BY <1>2, <1>7, <2>1, <3>1 DEF CalmSession
    <2>2. CASE cmd[p] = "restore"
      <3>1. out[p].result # "none" /\ requested'["restore"][a] = out[p]
        BY <1>1, <1>2, <2>2, CalmTypes DEF CommandFollows, PersistPCs
      <3> QED
        BY <1>2, <1>7, <2>2, <3>1 DEF CalmSession
    <2> QED
      BY <1>2, <2>1, <2>2 DEF Commands
  <1> QED
    BY <1>1, <1>3, <1>8, <1>9 DEF CalmProc

(* A command starts.                                                       *)
LEMMA CalmStart ==
  ASSUME CalmAll, NEW p \in Procs, Apply(p) \/ Restore(p)
  PROVE  CalmProc(p)' /\ (\A b \in Auths : CalmAuth(b)') /\ CalmSession'
  <1>0. /\ pc[p] = "idle" /\ UNCHANGED <<stored, decision>>
        /\ \A q \in Procs : q = p
    BY DEF Apply, Restore, Waiting, At, sessionVars, CalmAll, OneServer
  <1>1. CASE Apply(p)
    <2>1. /\ pc'[p] = "reserve" /\ cmd'[p] = "apply"
          /\ UNCHANGED <<board, reserved, journal, canonical, requested>>
      BY <1>1, CalmTypes DEF Apply, StartApply, Begin, Goto, provider, files, receipts
    <2>2. CalmProc(p)'
      BY <2>1 DEF CalmProc, CalmApply, PersistPCs
    <2> QED
      BY <1>0, <2>1, <2>2, CalmSame
  <1>2. CASE Restore(p)
    <2>1. Stored("apply").result = "ok"
      BY <1>2 DEF Restore, RestoreAllowed
    <2>5. PICK a \in Auths : a = stored["apply"]
      BY <2>1, CalmTypes DEF Stored, Exists, NoReceipt
    <2>3. CASE AnswerRestore(p, a)
      BY <1>0, <2>3, CalmReject DEF AnswerRestore, provider
    <2>4. CASE StartRestore(p, a)
      <3>1. /\ pc'[p] = "snapshot_current" /\ cmd'[p] = "restore" /\ auth'[p] = a
            /\ mem'[p] = journal[a]
            /\ UNCHANGED <<board, reserved, journal, canonical, requested>>
        BY <2>4, CalmTypes DEF StartRestore, Begin, Goto, provider, files, receipts
      <3>2. requested["apply"][a] = canonical["apply"][a]
        BY <1>0, CalmTypes DEF CalmAll, CalmInv, CalmAuth
      <3>3. RestoreAdmissible(a, canonical["apply"][a])
        BY <2>4, <3>2 DEF StartRestore, TransactionReceipts
      <3>4. RestoreAdmissible(a, canonical["apply"][a])'
        BY <3>1, <3>3 DEF RestoreAdmissible
      <3>5. CalmRestore(p)'
        BY <3>1, <3>4 DEF CalmRestore, PersistPCs
      <3>6. CalmProc(p)'
        BY <3>1, <3>5 DEF CalmProc
      <3> QED
        BY <1>0, <3>1, <3>6, CalmSame
    <2> QED
      BY <1>2, <2>3, <2>4, <2>5 DEF Restore
  <1> QED
    BY <1>1, <1>2

(* A step that leaves board, files and commands alone; a decision is only  *)
(* written before anything was reserved under one.                         *)
LEMMA CalmFrame ==
  ASSUME CalmAll, UNCHANGED <<board, files, pc, cmd, auth, mem, out, stored>>,
         decision # None => decision' = decision
  PROVE  (\A p \in Procs : CalmProc(p)') /\ (\A b \in Auths : CalmAuth(b)') /\ CalmSession'
  <1>0. UNCHANGED <<reserved, journal, canonical, requested>>
    BY DEF files, receipts
  <1>1. ASSUME NEW p \in Procs
        PROVE  CalmProc(p)'
    <2>1. CalmProc(p)
      BY DEF CalmAll, CalmInv, CalmProc
    <2>2. CalmApply(p)' <=> CalmApply(p)
      BY <1>0 DEF CalmApply, Stands
    <2>3. CalmRestore(p)' <=> CalmRestore(p)
      BY <1>0 DEF CalmRestore, Stands, RestoreAdmissible, RecoveredTold
    <2> QED
      BY <2>1, <2>2, <2>3 DEF CalmProc
  <1>2. ASSUME NEW b \in Auths
        PROVE  CalmAuth(b)'
    <2>1. CalmAuth(b)
      BY DEF CalmAll, CalmInv
    <2>2. b \in reserved => decision' = b
      BY <2>1, CalmTypes DEF CalmAuth
    <2>3. Open(b)' <=> Open(b)
      BY DEF Open, Restoring, At
    <2>4. \A p \in Procs : Owns(p)' <=> Owns(p)
      BY DEF Owns
    <2>5. Exists("apply")' <=> Exists("apply")
      BY DEF Exists
    <2>6. RestoreAdmissible(b, canonical["apply"][b])' <=> RestoreAdmissible(b, canonical["apply"][b])
      BY <1>0 DEF RestoreAdmissible
    <2>7. Stands(journal[b])' <=> Stands(journal[b])
      BY <1>0 DEF Stands
    <2>8. \A p \in Procs, c \in Commands :
            (pc'[p] = "persist_requested" /\ cmd'[p] = c /\ auth'[p] = b)
              <=> (pc[p] = "persist_requested" /\ cmd[p] = c /\ auth[p] = b)
      OBVIOUS
    <2> QED
      BY <1>0, <2>1, <2>2, <2>3, <2>4, <2>5, <2>6, <2>7, <2>8 DEF CalmAuth
  <1>3. CalmSession'
    <2>1. Exists("restore")' <=> Exists("restore")
      BY DEF Exists
    <2>2. Exists("restore") => decision' = decision
      BY CalmTypes DEF CalmAll, PhaseInv, SessionFollows, Exists
    <2>3. CalmSession
      BY DEF CalmAll, CalmInv
    <2> QED
      BY <1>0, <2>1, <2>2, <2>3 DEF CalmSession
  <1> QED
    BY <1>1, <1>2, <1>3

(* Every step of a calm behaviour.                                         *)
LEMMA CalmStep ==
  ASSUME CalmAll, [RegieNext]_<<vars, sessionVars>>,
         \/ \E p \in Procs : Request(p)
         \/ Surroundings /\ UNCHANGED sessionVars /\ UNCHANGED edits
         \/ UNCHANGED <<vars, sessionVars>>
  PROVE  CalmInv'
  <1> DEFINE Goal == (\A p \in Procs : CalmProc(p)') /\ (\A b \in Auths : CalmAuth(b)') /\ CalmSession'
  <1>1. late' = {}
    <2>1. [Next]_vars
      BY RegieStepIsStep DEF CalmAll
    <2> QED
      BY <2>1, NothingLate DEF CalmAll, CalmInv
  <1>2. decision # None => decision' = decision
    BY DecisionStep DEF CalmAll, OneServer
  <1>3. \A p, q \in Procs : p = q
    BY DEF CalmAll, OneServer
  <1>4. ASSUME NEW p \in Procs,
               (\E a \in Auths : Decide(p, a)) \/ WriteSelection(p) \/ WriteDecision(p)
        PROVE  Goal
    <2>1. UNCHANGED <<vars, stored>>
      BY <1>4 DEF Decide, WriteSelection, WriteDecision
    <2> QED
      BY <1>2, <2>1, CalmFrame DEF vars, provider, locals, command
  <1>5. ASSUME NEW p \in Procs, Apply(p) \/ Restore(p)
        PROVE  Goal
    BY <1>3, <1>5, CalmStart
  <1>6. ASSUME NEW p \in Procs, Serve(p)
        PROVE  Goal
    <2>1. Continue(p) /\ UNCHANGED decision
          /\ stored' = IF pc[p] = "persist_requested" THEN [stored EXCEPT ![cmd[p]] = auth[p]] ELSE stored
      BY <1>6 DEF Serve, At, Stores
    <2>2. CASE ApplyStep(p)
      <3>1. pc[p] # "persist_requested"
        BY <2>2 DEF ApplyStep, Reserve, AnswerExisting, WriteReserved,
          SnapshotBefore, ReadBefore, WritePreflightFailed, WritePrepared, CheckOperation,
          ReplaceOperation, WriteApplying, ReadAfter, SnapshotAfter, WriteCommitted, At
      <3> QED
        BY <1>3, <2>1, <2>2, <3>1, CalmApplyStep
    <2>3. CASE RestoreStep(p)
      <3>1. pc[p] # "persist_requested"
        BY <2>3 DEF RestoreStep, SnapshotCurrent,
          ReadCurrent, InverseOperation, ReadRestored, SnapshotRestored, WriteRestored, At
      <3> QED
        BY <1>3, <2>1, <2>3, <3>1, CalmRestoreStep
    <2>4. CASE PersistRequested(p)
      BY <1>3, <2>1, <2>4, CalmPersistRequested DEF PersistRequested, At
    <2>5. CASE PersistCanonical(p)
      BY <1>3, <2>1, <2>5, CalmPersistCanonical DEF PersistCanonical, At
    <2>6. CASE RepairRead(p) \/ RepairReplace(p) \/ RepairVerify(p) \/ RepairSnapshot(p)
                 \/ WriteRepairOutcome(p)
      <3>1. pc[p] # "persist_requested"
        BY <2>6 DEF RepairRead, RepairReplace, RepairVerify, RepairSnapshot, WriteRepairOutcome, At
      <3> QED
        BY <1>3, <2>1, <2>6, <3>1, CalmRepairStep
    <2> QED
      BY <2>1, <2>2, <2>3, <2>4, <2>5, <2>6 DEF Continue, SharedStep
  <1>7. ASSUME Surroundings, UNCHANGED sessionVars, UNCHANGED edits
        PROVE  Goal
    <2>1. ~ExternalEdit /\ ~LateEffect
      <3>1. edits \in Nat /\ late = {}
        BY BoundAssumption DEF CalmAll, CalmInv, IInv, TypeOK
      <3> QED
        BY <1>7, <3>1 DEF ExternalEdit, LateEffect
    <2>2. UNCHANGED <<board, files, pc, cmd, auth, mem, out, stored>>
      BY <1>7, <2>1 DEF Surroundings, EnableKillSwitch, DisableKillSwitch, Tick, provider, locals,
        command, sessionVars
    <2> QED
      BY <1>2, <2>2, CalmFrame
  <1>8. ASSUME UNCHANGED <<vars, sessionVars>>
        PROVE  Goal
    BY <1>2, <1>8, CalmFrame DEF vars, provider, locals, command, sessionVars
  <1>9. Goal
    BY <1>4, <1>5, <1>6, <1>7, <1>8 DEF Request
  <1> QED
    BY <1>1, <1>9 DEF CalmInv, CalmProc

(* What a page of a calm behaviour offers follows from the invariant.      *)
LEMMA CalmOffers ==
  ASSUME CalmAll
  PROVE  OffersHold /\ RestoreAvailable
  <1>1. ASSUME NEW b \in Auths, canonical["apply"][b].result = "ok",
               journal[b].status = "committed", \A p \in Procs : ~Restoring(p, b)
        PROVE  CanRestore(b)
    <2>1. ~Open(b)
      BY <1>1 DEF Open
    <2>2. CalmAuth(b)
      BY DEF CalmAll, CalmInv
    <2> QED
      BY <1>1, <2>1, <2>2 DEF CalmAuth, CanRestore, Stands
  <1>2. ASSUME AllWaiting
        PROVE  /\ \A p \in Procs : pc[p] = "idle" /\ ~Owns(p)
               /\ \A b \in Auths : ~Open(b) /\ CalmAuth(b)
               /\ \A b \in Auths, c \in Commands : requested[c][b] = canonical[c][b]
               /\ CalmSession /\ SessionFollows
    <2>1. \A p \in Procs : pc[p] = "idle"
      BY <1>2 DEF AllWaiting, Waiting, At
    <2>2. \A p \in Procs : ~Owns(p)
      BY <2>1 DEF Owns
    <2>3. ASSUME NEW b \in Auths
          PROVE  ~Open(b) /\ CalmAuth(b) /\ \A c \in Commands : requested[c][b] = canonical[c][b]
      <3>1. CalmAuth(b)
        BY DEF CalmAll, CalmInv
      <3> QED
        BY <2>1, <3>1 DEF Open, Restoring, At, CalmAuth
    <2> QED
      BY <2>1, <2>2, <2>3 DEF CalmAll, CalmInv, PhaseInv
  <1>3. /\ Exists("apply") => stored["apply"] = decision /\ decision \in Auths
        /\ Exists("restore") => Exists("apply") /\ stored["restore"] = decision
    BY CalmTypes DEF CalmAll, PhaseInv, SessionFollows, Exists
  <1>4. ASSUME AllWaiting, OffersApply
        PROVE  decision \notin reserved
    BY <1>2, <1>4, CalmTypes DEF OffersApply, CalmAuth
  <1>5. ASSUME AllWaiting, Exists("restore")
        PROVE  /\ Stored("restore") = canonical["restore"][decision]
               /\ Stored("restore").result \in {"ok", "failed"}
    <2>1. Stored("restore") = requested["restore"][decision] /\ decision \in Auths
      BY <1>3, <1>5 DEF Stored
    <2>2. Stored("restore") = canonical["restore"][decision]
      BY <1>2, <1>5, <2>1, CalmTypes
    <2>3. Stored("restore").result # "none"
      BY <1>2, <1>5, <2>1 DEF CalmSession
    <2>4. canonical["restore"][decision] \in Receipts
      BY <2>1, CalmTypes
    <2> QED
      BY <2>2, <2>3, <2>4 DEF Receipts
  <1>6. ASSUME AllWaiting, Exists("apply")
        PROVE  Stored("apply") = canonical["apply"][decision]
    BY <1>2, <1>3, <1>6, CalmTypes DEF Stored
  <1>7. ASSUME AllWaiting, ~Exists("restore"), decision \in Auths
        PROVE  canonical["restore"][decision].result = "none"
    <2>1. requested["restore"][decision].result = "none"
      BY <1>2, <1>7 DEF CalmSession
    <2> QED
      BY <1>2, <1>7, <2>1, CalmTypes
  <1>8. ASSUME AllWaiting, OffersRestore
        PROVE  RestoreAdmissible(decision, Stored("apply"))
    <2>1. Exists("apply")
      BY <1>8 DEF OffersRestore, Stored, NoReceipt
    <2>2. /\ Stored("apply") = canonical["apply"][decision] /\ decision \in Auths
          /\ canonical["apply"][decision].result = "ok"
      BY <1>3, <1>6, <1>8, <2>1 DEF OffersRestore
    <2>3. LET prior == canonical["restore"][decision] IN
            prior.result = "none" \/ (prior.result = "failed" /\ prior.repaired)
      BY <1>5, <1>7, <1>8, <2>2 DEF OffersRestore
    <2>4. CalmAuth(decision) /\ ~Open(decision)
      BY <1>2, <1>8, <2>2
    <2> QED
      BY <2>2, <2>3, <2>4 DEF CalmAuth
  <1>9. AppliedIsRestorable
    <2> SUFFICES ASSUME AllWaiting, decision # None, journal[decision].status = "committed",
                        canonical["apply"][decision].result = "ok"
                 PROVE  OffersRestore
      BY DEF AppliedIsRestorable
    <2>1. decision \in Auths
      BY CalmTypes
    <2>2. CalmAuth(decision) /\ ~Open(decision)
      BY <1>2, <2>1
    <2>3. decision \in reserved
      BY <2>1 DEF CalmAll, IInv, Ownership
    <2>4. Exists("apply")
      BY <1>2, <2>2, <2>3 DEF CalmAuth
    <2>5. RestoreAdmissible(decision, canonical["apply"][decision])
          /\ (canonical["restore"][decision].result = "failed" => canonical["restore"][decision].repaired)
      BY <2>2 DEF CalmAuth
    <2>6. Exists("restore") => /\ Stored("restore").result # "ok"
                               /\ Stored("restore").repaired
      BY <1>5, <2>5 DEF RestoreAdmissible
    <2> QED
      BY <1>6, <2>4, <2>6 DEF OffersRestore
  <1> QED
    BY <1>1, <1>4, <1>8, <1>9 DEF OffersHold, RestoreAvailable

(* The initial state of a review.                                          *)
LEMMA CalmInitial ==
  ASSUME RegieInit
  PROVE  CalmInv
  <1> USE DEF RegieInit, Init
  <1>1. \A p \in Procs : pc[p] = "idle"
    OBVIOUS
  <1>2. \A c \in Commands, b \in Auths : canonical[c][b] = NoReceipt /\ requested[c][b] = NoReceipt
    OBVIOUS
  <1>3. "apply" \in Commands /\ "restore" \in Commands
    BY DEF Commands
  <1>4. NoReceipt.result = "none"
    BY DEF NoReceipt
  <1>5. ASSUME NEW b \in Auths
        PROVE  CalmAuth(b)
    BY <1>2, <1>3, <1>4 DEF CalmAuth
  <1>6. CalmSession
    BY <1>2, <1>3, <1>4 DEF CalmSession, Exists
  <1> QED
    BY <1>1, <1>5, <1>6 DEF CalmInv

(* Whatever the page of the only server offers the executor accepts, and   *)
(* an applied review can be restored from it, also after any number of     *)
(* restores that failed and were recovered: as long as the server is not   *)
(* killed, nobody else edits the board, no timed-out call takes effect     *)
(* later and no error text spoils a receipt (controls of state, the        *)
(* checks of restore_live_apply and restore_ready).                        *)
THEOREM OffersAreServed ==
  ASSUME OneServer, ~LateEffects, ~CitingErrors
  PROVE  ReviewSpec => []OffersServed
  <1>1. ReviewSpec => RegieSpec
    <2>1. ReviewInit => RegieInit
      BY DEF ReviewInit
    <2>2. [ReviewNext]_<<vars, sessionVars, calm>> => [RegieNext]_<<vars, sessionVars>>
      BY DEF ReviewNext, RegieNext
    <2> QED
      BY <2>1, <2>2, PTL DEF ReviewSpec, RegieSpec
  <1>2. ReviewInit => (calm => CalmInv)
    BY CalmInitial DEF ReviewInit
  <1>3. IInv /\ JournalInv /\ RegieTypeOK /\ DecisionInv /\ PhaseInv /\ (calm => CalmInv)
          /\ [ReviewNext]_<<vars, sessionVars, calm>> => (calm => CalmInv)'
    <2> SUFFICES ASSUME IInv, JournalInv, RegieTypeOK, DecisionInv, PhaseInv, calm => CalmInv,
                        [ReviewNext]_<<vars, sessionVars, calm>>, calm'
                 PROVE  CalmInv'
      OBVIOUS
    <2>1. calm
      BY DEF ReviewNext
    <2>2. CalmAll
      BY <2>1 DEF CalmAll
    <2>3. /\ [RegieNext]_<<vars, sessionVars>>
          /\ \/ \E p \in Procs : Request(p)
             \/ Surroundings /\ UNCHANGED sessionVars /\ UNCHANGED edits
             \/ UNCHANGED <<vars, sessionVars>>
      BY <2>1 DEF ReviewNext, RegieNext
    <2> QED
      BY <2>2, <2>3, CalmStep
  <1>4. IInv /\ JournalInv /\ RegieTypeOK /\ DecisionInv /\ PhaseInv /\ (calm => CalmInv)
          => OffersServed
    BY CalmOffers DEF CalmAll, OffersServed
  <1>5. RegieSpec => []DecisionInv /\ []PhaseInv
    BY DecisionInvariance, PhaseInvariance, PTL DEF OneServer
  <1> QED
    BY <1>1, <1>2, <1>3, <1>4, <1>5, Invariance, ToldInvariance, RegieRunsExecutor,
       RegieTypeCorrect, PTL DEF ReviewSpec
=============================================================================
