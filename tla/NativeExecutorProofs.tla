------------------------- MODULE NativeExecutorProofs -------------------------
(***************************************************************************)
(* Theorems about NativeExecutor for every bundle and every number of      *)
(* processes and runs, with failures of every call and write, kills, calls *)
(* that take effect late, and other people's edits of the board.           *)
(***************************************************************************)
EXTENDS NativeExecutor, SumProofs

-----------------------------------------------------------------------------
(* Constants and types.                                                    *)

(* The operations of a bundle are numbered from 1.                         *)
LEMMA BundleFacts ==
  /\ Len(Bundle) \in Nat
  /\ Ops = 1..Len(Bundle)
  /\ \A i \in Ops : Kind(i) \in Kinds /\ Delta[i] \in Int
  <1>1. Len(Bundle) \in Nat /\ Ops = 1..Len(Bundle)
    BY BundleAssumption DEF Ops
  <1>2. ASSUME NEW i \in Ops PROVE Kind(i) \in Kinds
    <2> DEFINE Operations == [kind : Kinds, content : STRING]
    <2>1. Bundle \in Seq(Operations)
      BY BundleAssumption
    <2>2. Bundle[i] \in Operations
      <3> HIDE DEF Operations
      <3> QED
        BY <2>1, <1>1
    <2> QED
      BY <2>2 DEF Kind
  <1>3. ASSUME NEW i \in Ops PROVE Delta[i] \in Int
    BY DEF Delta
  <1> QED
    BY <1>1, <1>2, <1>3

(* None is no process.                                                     *)
LEMMA NoneFacts == None \notin Procs /\ None \notin Int
  BY BoundAssumption

(* Assigning fields of an evidence record yields one.                      *)
LEMMA EvidenceUpdates ==
  /\ NoEvidence \in Evidence
  /\ \A m \in Evidence :
       /\ [m EXCEPT !.pending = TRUE] \in Evidence
       /\ \A b \in BOOLEAN : [m EXCEPT !.attempted = b] \in Evidence
       /\ \A n \in Inventory : [m EXCEPT !.baseline = n] \in Evidence
       /\ m.completed < Len(Bundle) =>
            [m EXCEPT !.completed = @ + 1, !.pending = FALSE] \in Evidence
  <1>1. NoEvidence \in Evidence
    BY BundleFacts DEF NoEvidence, Evidence, Inventory
  <1>2. ASSUME NEW m \in Evidence
        PROVE  /\ [m EXCEPT !.pending = TRUE] \in Evidence
               /\ \A b \in BOOLEAN : [m EXCEPT !.attempted = b] \in Evidence
               /\ \A n \in Inventory : [m EXCEPT !.baseline = n] \in Evidence
    BY DEF Evidence
  <1>3. ASSUME NEW m \in Evidence, m.completed < Len(Bundle)
        PROVE  [m EXCEPT !.completed = @ + 1, !.pending = FALSE] \in Evidence
    <2>1. m.completed + 1 \in 0..Len(Bundle)
      BY <1>3, BundleFacts DEF Evidence
    <2> QED
      BY <2>1 DEF Evidence
  <1> QED
    BY <1>1, <1>2, <1>3

(* What marks a field assignment leaves.                                   *)
LEMMA MarkedUpdates ==
  ASSUME NEW m \in Evidence
  PROVE  /\ Marked(m) \in Nat
         /\ [m EXCEPT !.pending = TRUE].completed = m.completed
         /\ [m EXCEPT !.pending = TRUE].pending
         /\ Marked([m EXCEPT !.pending = TRUE]) = m.completed + 1
         /\ [m EXCEPT !.completed = @ + 1, !.pending = FALSE].completed = m.completed + 1
         /\ ~[m EXCEPT !.completed = @ + 1, !.pending = FALSE].pending
         /\ Marked([m EXCEPT !.completed = @ + 1, !.pending = FALSE]) = m.completed + 1
  BY BundleFacts DEF Evidence, Marked

(* Evidence covers itself.                                                 *)
LEMMA CoversItself ==
  ASSUME NEW m \in Evidence
  PROVE  Covers(m, m) /\ Marked(m) >= Marked(m)
  <1>1. Marked(m) \in Nat
    BY MarkedUpdates
  <1>2. m.completed \in Nat
    BY BundleFacts DEF Evidence
  <1> QED
    BY <1>1, <1>2 DEF Covers

(* What the two outcomes of a checkpoint are.                              *)
LEMMA CheckpointOutcome ==
  ASSUME TypeOK, NEW p \in Procs, NEW m \in Evidence, NEW state \in States,
         NEW next \in PCs, Checkpoint(p, m, state, next)
  PROVE  /\ memory' = [memory EXCEPT ![p] = m]
         /\ memory' \in [Procs -> Evidence] /\ pc' \in [Procs -> PCs]
         /\ receipt' \in [state : States, evidence : Evidence]
         /\ memory'[p] = m
         /\ \A q \in Procs \ {p} : pc'[q] = pc[q]
         /\ \/ pc'[p] = next /\ receipt'.evidence = m
            \/ pc'[p] = "fail" /\ receipt' = receipt
            \/ pc'[p] = "fail" /\ receipt'.evidence = m
  BY DEF Checkpoint, Goto, TypeOK, PCs

-----------------------------------------------------------------------------
(* The inductive invariant.                                                *)

(* A run that is not idle holds the lock and is the only one.              *)
LEMMA Alone ==
  ASSUME IInv, NEW p \in Procs, pc[p] # "idle"
  PROVE  holder = p /\ RunInv(p) /\ \A q \in Procs \ {p} : pc[q] = "idle"
  BY DEF IInv

(* After a step of the only run p, the invariant is about p alone.         *)
LEMMA OnlyRun ==
  ASSUME NEW p \in Procs,
         TypeOK', AtMostOnce', WriteAhead', Bounded(receipt.evidence)',
         \A q \in Procs \ {p} : pc'[q] = "idle",
         \/ holder' = p /\ pc'[p] # "idle" /\ RunInv(p)'
         \/ holder' = None /\ pc'[p] = "idle"
  PROVE  IInv'
  BY NoneFacts DEF IInv

(* A step that leaves the board alone keeps what it says of the board.     *)
LEMMA BoardKept ==
  ASSUME AtMostOnce, WriteAhead, TypeOK, receipt'.evidence \in Evidence,
         UNCHANGED <<made, late>>, Marked(receipt'.evidence) >= Marked(receipt.evidence)
  PROVE  AtMostOnce' /\ WriteAhead'
  <1>1. AtMostOnce'
    BY DEF AtMostOnce
  <1>2. Marked(receipt.evidence) \in Nat /\ Marked(receipt'.evidence) \in Nat
    BY MarkedUpdates DEF TypeOK
  <1>3. WriteAhead'
    BY <1>2, BundleFacts DEF WriteAhead, Happened
  <1> QED
    BY <1>1, <1>3

(* The invariant holds at first.                                           *)
LEMMA InitIInv == Init => IInv
  <1> SUFFICES ASSUME Init PROVE IInv
    OBVIOUS
  <1>1. TypeOK
    <2>1. receipt \in [state : States, evidence : Evidence]
      BY EvidenceUpdates DEF Init, States
    <2>2. memory \in [Procs -> Evidence] /\ pc \in [Procs -> PCs]
      BY EvidenceUpdates DEF Init, PCs
    <2>3. edits \in 0..MaxEdits /\ runs \in 0..MaxRuns
      BY BoundAssumption DEF Init
    <2> QED
      BY <2>1, <2>2, <2>3 DEF Init, TypeOK
  <1>2. \A i \in Ops : ~Happened(i)
    BY DEF Init, Happened
  <1>3. AtMostOnce /\ WriteAhead
    BY <1>2, <1>1 DEF Init, AtMostOnce, WriteAhead, Happened, TypeOK
  <1>4. Bounded(receipt.evidence)
    BY DEF Init, Bounded, NoEvidence
  <1>5. \A p \in Procs : pc[p] = "idle" /\ holder # p
    BY NoneFacts DEF Init
  <1> QED
    BY <1>1, <1>3, <1>4, <1>5 DEF IInv

(* A run starts from no evidence or from all the receipt has.              *)
LEMMA LaunchKeeps ==
  ASSUME IInv, NEW p \in Procs, NEW m \in Evidence, holder = None, Launch(p, m),
         Agrees(m, receipt.evidence), m.pending => ReconcilePending(m)
  PROVE  IInv'
  <1>1. TypeOK'
    BY BoundAssumption DEF IInv, TypeOK, Launch, board, PCs
  <1>2. AtMostOnce' /\ WriteAhead' /\ Bounded(receipt.evidence)'
    BY DEF IInv, Launch, board, AtMostOnce, WriteAhead, Happened, Bounded, Marked
  <1>3. \A q \in Procs \ {p} : pc'[q] = "idle"
    BY NoneFacts DEF IInv, Launch, TypeOK
  <1>4. pc'[p] = "preflight" /\ memory'[p] = m /\ holder' = p
    BY DEF IInv, Launch, TypeOK
  <1>5. RunInv(p)'
    BY <1>4 DEF IInv, Launch, RunInv, Bounded, Agrees, ReconcilePending
  <1> QED
    BY <1>1, <1>2, <1>3, <1>4, <1>5, OnlyRun

-----------------------------------------------------------------------------
(* The steps of a run.                                                     *)

(* A step that only changes where the run is keeps the types.              *)
LEMMA GotoTypes ==
  ASSUME TypeOK, NEW p \in Procs, NEW step \in PCs, Goto(p, step),
         UNCHANGED <<board, runs, memory>>,
         receipt' \in [state : States, evidence : Evidence],
         holder' \in Procs \cup {None}
  PROVE  TypeOK' /\ pc'[p] = step /\ \A q \in Procs \ {p} : pc'[q] = pc[q]
  BY DEF TypeOK, Goto, board

(* Reading and finding something amiss leaves the receipt as it was.       *)
LEMMA ReadKeeps ==
  ASSUME IInv, NEW p \in Procs, NEW step \in PCs \ {"idle", "call"}, pc[p] # "idle",
         Goto(p, step), UNCHANGED <<board, receipt, runs, holder, memory>>,
         step # "fail" => pc[p] # "fail",
         step \in {"preflight", "operation"} /\ memory[p].pending
           => ReconcilePending(memory[p]),
         step = "readback" => memory[p].completed < Len(Bundle)
  PROVE  IInv'
  <1>1. holder = p /\ RunInv(p) /\ \A q \in Procs \ {p} : pc[q] = "idle"
    BY Alone
  <1>2. TypeOK' /\ pc'[p] = step /\ \A q \in Procs \ {p} : pc'[q] = pc[q]
    BY GotoTypes DEF IInv, TypeOK
  <1>3. AtMostOnce' /\ WriteAhead' /\ Bounded(receipt.evidence)'
    BY DEF IInv, board, AtMostOnce, WriteAhead, Happened, Bounded, Marked
  <1>4. Agrees(memory[p], receipt.evidence) => Covers(memory[p], receipt.evidence)
    BY MarkedUpdates DEF IInv, TypeOK, Agrees, Covers, Marked, Evidence
  <1>5. RunInv(p)'
    BY <1>1, <1>2, <1>4 DEF RunInv, Bounded, Agrees, Covers, ReconcilePending, Marked
  <1> QED
    BY <1>1, <1>2, <1>3, <1>5, OnlyRun

(* A run that writes a receipt m that is ahead of the last one.            *)
LEMMA CheckpointKeeps ==
  ASSUME IInv, NEW p \in Procs, NEW m \in Evidence, NEW next \in {"call", "operation"},
         pc[p] # "idle", Checkpoint(p, m, "in_progress", next),
         UNCHANGED <<board, runs, holder>>,
         Bounded(m), Covers(m, receipt.evidence),
         next = "call" => m.pending /\ ~Happened(m.completed + 1),
         next = "operation" => ~m.pending
  PROVE  IInv'
  <1>1. holder = p /\ \A q \in Procs \ {p} : pc[q] = "idle"
    BY Alone
  <1>2. "in_progress" \in States /\ next \in PCs /\ TypeOK
    BY DEF States, PCs, IInv
  <1>3. /\ memory' \in [Procs -> Evidence] /\ pc' \in [Procs -> PCs]
        /\ receipt' \in [state : States, evidence : Evidence]
        /\ memory'[p] = m
        /\ \A q \in Procs \ {p} : pc'[q] = pc[q]
        /\ \/ pc'[p] = next /\ receipt'.evidence = m
           \/ pc'[p] = "fail" /\ receipt' = receipt
           \/ pc'[p] = "fail" /\ receipt'.evidence = m
    BY <1>2, CheckpointOutcome
  <1>4. TypeOK'
    BY <1>2, <1>3 DEF TypeOK, board
  <1>5. receipt'.evidence \in Evidence /\ Marked(receipt.evidence) \in Nat
          /\ Marked(m) \in Nat /\ receipt.evidence \in Evidence
    BY <1>2, <1>3, MarkedUpdates DEF TypeOK
  <1>6. Covers(m, receipt'.evidence) /\ Marked(receipt'.evidence) >= Marked(receipt.evidence)
    BY <1>3, <1>5 DEF Covers, Evidence
  <1>7. AtMostOnce' /\ WriteAhead'
    BY <1>5, <1>6, BoardKept DEF IInv, board
  <1>8. Bounded(receipt.evidence)'
    BY <1>3 DEF IInv, Bounded
  <1>9. RunInv(p)' /\ pc'[p] # "idle"
    BY <1>3, <1>6 DEF RunInv, Bounded, Agrees, Covers, Happened, board, Marked
  <1> QED
    BY <1>1, <1>3, <1>4, <1>7, <1>8, <1>9, OnlyRun

(* A run that ends leaves a receipt that covers the last one.              *)
LEMMA EndKeeps ==
  ASSUME IInv, NEW p \in Procs, pc[p] # "idle", Goto(p, "idle"), Release(p),
         UNCHANGED <<board, runs, memory>>,
         receipt' \in [state : States, evidence : Evidence],
         Covers(receipt'.evidence, receipt.evidence), Bounded(receipt'.evidence)
  PROVE  IInv'
  <1>1. holder = p /\ \A q \in Procs \ {p} : pc[q] = "idle"
    BY Alone
  <1>2. holder' = None
    BY <1>1 DEF Release
  <1>3. TypeOK' /\ pc'[p] = "idle" /\ \A q \in Procs \ {p} : pc'[q] = pc[q]
    BY <1>2, GotoTypes DEF IInv, PCs
  <1>4. AtMostOnce' /\ WriteAhead'
    BY BoardKept DEF IInv, board, Covers
  <1>5. Bounded(receipt.evidence)'
    BY DEF Bounded
  <1> QED
    BY <1>1, <1>2, <1>3, <1>4, <1>5, OnlyRun

(* The preflight sends the run to its next operation, to the readback of   *)
(* the pending one, or to its error handler.                               *)
LEMMA PreflightKeeps ==
  ASSUME IInv, NEW p \in Procs, Preflight(p)
  PROVE  IInv'
  <1> DEFINE m == memory[p]
             n == [m EXCEPT !.baseline = IF @ = None THEN items ELSE @]
  <1>1. pc[p] = "preflight" /\ pc[p] # "idle"
    BY DEF Preflight
  <1>2. holder = p /\ RunInv(p) /\ \A q \in Procs \ {p} : pc[q] = "idle"
    BY <1>1, Alone
  <1>3. TypeOK /\ m \in Evidence
    BY DEF IInv, TypeOK
  <1>4. n \in Evidence
    <2>1. (IF m.baseline = None THEN items ELSE m.baseline) \in Inventory
      BY <1>3 DEF TypeOK, Inventory, Evidence
    <2> QED
      BY <1>3, <2>1, EvidenceUpdates DEF Evidence
  <1>5. n.completed = m.completed /\ n.pending = m.pending
    BY <1>3 DEF Evidence
  <1>6. memory' = [memory EXCEPT ![p] = n] /\ memory'[p] = n
    BY <1>3 DEF Preflight, TypeOK
  <1>7. PICK step \in {"fail", "readback", "operation"} :
          /\ Goto(p, step)
          /\ step = "readback" => ReconcilePending(m)
    BY DEF Preflight
  <1>8. TypeOK' /\ pc'[p] = step /\ \A q \in Procs \ {p} : pc'[q] = pc[q]
    <2>1. memory' \in [Procs -> Evidence]
      BY <1>3, <1>4, <1>6 DEF TypeOK
    <2>2. pc' \in [Procs -> PCs] /\ pc'[p] = step /\ \A q \in Procs \ {p} : pc'[q] = pc[q]
      BY <1>3, <1>7 DEF TypeOK, Goto, PCs
    <2> QED
      BY <1>3, <2>1, <2>2 DEF TypeOK, Preflight, board
  <1>9. AtMostOnce' /\ WriteAhead' /\ Bounded(receipt.evidence)'
    BY DEF IInv, Preflight, board, AtMostOnce, WriteAhead, Happened, Bounded, Marked
  <1>10. RunInv(p)'
    <2>1. Agrees(m, receipt.evidence) /\ Bounded(m) /\ (m.pending => ReconcilePending(m))
      BY <1>1, <1>2 DEF RunInv
    <2>2. Agrees(n, receipt'.evidence) /\ Bounded(n) /\ (n.pending => ReconcilePending(n))
      BY <1>5, <2>1 DEF Agrees, Bounded, ReconcilePending, Preflight
    <2>3. Covers(n, receipt'.evidence)
      BY <2>2, <1>3, <1>4, MarkedUpdates
         DEF Agrees, Covers, Marked, Evidence, Preflight, TypeOK
    <2>4. step = "readback" => n.completed < Len(Bundle)
      BY <1>5, <1>7, <2>1 DEF Bounded, ReconcilePending
    <2> QED
      BY <1>6, <1>8, <2>2, <2>3, <2>4 DEF RunInv
  <1> QED
    BY <1>2, <1>7, <1>8, <1>9, <1>10, OnlyRun DEF Preflight

(* An operation is announced that has not happened: all that may have is   *)
(* verified by the receipt, which says the same as the run.                *)
LEMMA AnnounceKeeps ==
  ASSUME IInv, NEW p \in Procs, Announce(p)
  PROVE  IInv'
  <1> DEFINE m == memory[p]
             n == [m EXCEPT !.pending = TRUE]
  <1>1. pc[p] = "operation" /\ m.completed < Len(Bundle) /\ ~ReconcilePending(m)
    BY DEF Announce, HasNext
  <1>2. RunInv(p)
    BY <1>1, Alone
  <1>3. m \in Evidence /\ receipt.evidence \in Evidence /\ TypeOK
    BY DEF IInv, TypeOK
  <1>4. Agrees(m, receipt.evidence) /\ ~m.pending
    BY <1>1, <1>2 DEF RunInv
  <1>5. Marked(receipt.evidence) = m.completed
    BY <1>3, <1>4 DEF Agrees, Marked, Evidence
  <1>6. m.completed + 1 \in Ops
    BY <1>1, <1>3, BundleFacts DEF Evidence
  <1>7. ~Happened(m.completed + 1)
    BY <1>3, <1>5, <1>6, BundleFacts DEF IInv, WriteAhead, Evidence
  <1>8. /\ n \in Evidence /\ n.completed = m.completed /\ n.pending
        /\ Marked(n) = m.completed + 1
    BY <1>3, EvidenceUpdates, MarkedUpdates
  <1>9. Bounded(n) /\ Covers(n, receipt.evidence)
    BY <1>1, <1>3, <1>4, <1>5, <1>8, BundleFacts DEF Bounded, Covers, Agrees, Evidence
  <1>10. Checkpoint(p, n, "in_progress", "call") /\ UNCHANGED <<board, runs, holder>>
    BY DEF Announce
  <1> HIDE DEF n
  <1> QED
    BY <1>1, <1>7, <1>8, <1>9, <1>10, CheckpointKeeps

(* The verified operation is counted.                                      *)
LEMMA VerifyKeeps ==
  ASSUME IInv, NEW p \in Procs, Verify(p)
  PROVE  IInv'
  <1> DEFINE m == memory[p]
             n == [m EXCEPT !.completed = @ + 1, !.pending = FALSE]
  <1>1. pc[p] = "readback"
    BY DEF Verify
  <1>2. RunInv(p)
    BY <1>1, Alone
  <1>3. m \in Evidence /\ receipt.evidence \in Evidence
    BY DEF IInv, TypeOK
  <1>4. Agrees(m, receipt.evidence) /\ m.completed < Len(Bundle)
    BY <1>1, <1>2 DEF RunInv
  <1>5. /\ n \in Evidence /\ n.completed = m.completed + 1 /\ ~n.pending
        /\ Marked(n) = m.completed + 1
    BY <1>3, <1>4, EvidenceUpdates, MarkedUpdates
  <1>6. Marked(receipt.evidence) <= m.completed + 1
    BY <1>3, <1>4, BundleFacts DEF Agrees, Marked, Evidence
  <1>7. Bounded(n) /\ Covers(n, receipt.evidence)
    BY <1>3, <1>4, <1>5, <1>6, BundleFacts DEF Bounded, Covers, Agrees, Evidence
  <1>8. Checkpoint(p, n, "in_progress", "operation") /\ UNCHANGED <<board, runs, holder>>
    BY DEF Verify
  <1> HIDE DEF n
  <1> QED
    BY <1>1, <1>5, <1>7, <1>8, CheckpointKeeps

(* A call executes the announced operation, which had not happened.        *)
LEMMA CallKeeps ==
  ASSUME IInv, NEW p \in Procs, Call(p)
  PROVE  IInv'
  <1> DEFINE m == memory[p]
             i == m.completed + 1
             n == [m EXCEPT !.attempted = TRUE]
  <1>1. pc[p] = "call" /\ pc[p] # "idle"
    BY DEF Call
  <1>2. holder = p /\ RunInv(p) /\ \A q \in Procs \ {p} : pc[q] = "idle"
    BY <1>1, Alone
  <1>3. TypeOK /\ m \in Evidence /\ receipt.evidence \in Evidence
    BY DEF IInv, TypeOK
  <1>4. Agrees(m, receipt.evidence) /\ m.pending /\ ~Happened(i) /\ Bounded(m)
    BY <1>1, <1>2 DEF RunInv
  <1>5. i \in Ops /\ i <= Marked(receipt.evidence) /\ Delta[i] \in Int
          /\ m.completed < Len(Bundle)
    BY <1>3, <1>4, BundleFacts DEF Bounded, Agrees, Marked, Evidence
  <1>6. n \in Evidence /\ n.completed = m.completed /\ n.pending = m.pending
    BY <1>3 DEF Evidence
  <1>7. memory' = [memory EXCEPT ![p] = n] /\ memory'[p] = n
    BY <1>3 DEF Call, TypeOK
  <1>8. PICK step \in {"readback", "fail"} : Goto(p, step)
    BY DEF Call
  <1>9. pc' \in [Procs -> PCs] /\ pc'[p] = step /\ \A q \in Procs \ {p} : pc'[q] = pc[q]
    BY <1>3, <1>8 DEF TypeOK, Goto, PCs
  <1>10. made[i] = 0 /\ i \notin late
    BY <1>3, <1>4, <1>5 DEF Happened, TypeOK
  <1>11. \/ made' = [made EXCEPT ![i] = @ + 1] /\ late' = late /\ items' = items + Delta[i]
         \/ made' = made /\ items' = items /\ late' \in {late, late \cup {i}}
    BY DEF Call, Upcoming
  <1>12. TypeOK'
    <2>1. made' \in [Ops -> Nat] /\ items' \in Int /\ late' \subseteq Ops
      BY <1>3, <1>5, <1>11 DEF TypeOK
    <2>2. memory' \in [Procs -> Evidence]
      BY <1>3, <1>6, <1>7 DEF TypeOK
    <2> QED
      BY <1>3, <1>9, <2>1, <2>2 DEF TypeOK, Call
  <1>13. AtMostOnce'
    <2>1. CASE made' = [made EXCEPT ![i] = @ + 1] /\ late' = late
      <3>1. made'[i] = 1 /\ \A j \in Ops \ {i} : made'[j] = made[j]
        BY <1>3, <1>5, <1>10, <2>1 DEF TypeOK
      <3> QED
        BY <1>3, <1>10, <2>1, <3>1 DEF IInv, AtMostOnce, TypeOK
    <2>2. CASE made' = made /\ late' \in {late, late \cup {i}}
      BY <1>10, <2>2 DEF IInv, AtMostOnce
    <2> QED
      BY <1>11, <2>1, <2>2
  <1>14. \A j \in Ops \ {i} : Happened(j)' => Happened(j)
    BY <1>3, <1>5, <1>11 DEF Happened, TypeOK
  <1>15. WriteAhead' /\ Bounded(receipt.evidence)'
    BY <1>5, <1>14 DEF IInv, WriteAhead, Bounded, Call, Marked
  <1>16. RunInv(p)'
    <2>1. Agrees(n, receipt'.evidence) /\ Bounded(n)
      BY <1>4, <1>6 DEF Agrees, Bounded, Call
    <2>2. Covers(n, receipt'.evidence)
      BY <2>1, <1>3, <1>6, MarkedUpdates DEF Agrees, Covers, Marked, Evidence, Call
    <2> QED
      BY <1>5, <1>6, <1>7, <1>9, <2>1, <2>2 DEF RunInv
  <1> QED
    BY <1>2, <1>9, <1>12, <1>13, <1>15, <1>16, OnlyRun DEF Call

(* The last receipt of a run, and a kill.                                  *)
LEMMA SucceedKeeps ==
  ASSUME IInv, NEW p \in Procs, Succeed(p)
  PROVE  IInv'
  <1> DEFINE m == memory[p]
             success == [state |-> "complete", evidence |-> m]
  <1>1. pc[p] = "postflight" /\ pc[p] # "idle"
    BY DEF Succeed
  <1>2. holder = p /\ RunInv(p) /\ \A q \in Procs \ {p} : pc[q] = "idle"
    BY <1>1, Alone
  <1>3. TypeOK /\ m \in Evidence /\ receipt.evidence \in Evidence
    BY DEF IInv, TypeOK
  <1>4. Agrees(m, receipt.evidence) /\ Bounded(m)
    BY <1>1, <1>2 DEF RunInv
  <1>5. Covers(m, receipt.evidence) /\ Covers(m, m)
    BY <1>3, <1>4, MarkedUpdates DEF Agrees, Covers, Marked, Evidence
  <1>6. success \in [state : States, evidence : Evidence] /\ success.evidence = m
    BY <1>3 DEF States
  <1>7. CASE receipt' = success /\ Goto(p, "idle") /\ Release(p)
    BY <1>1, <1>4, <1>5, <1>6, <1>7, EndKeeps DEF Succeed
  <1>8. CASE receipt' \in {receipt, success} /\ Goto(p, "fail") /\ UNCHANGED holder
    <2>1. receipt' \in [state : States, evidence : Evidence]
      BY <1>3, <1>6, <1>8 DEF TypeOK
    <2>2. TypeOK' /\ pc'[p] = "fail" /\ \A q \in Procs \ {p} : pc'[q] = pc[q]
      BY <1>3, <1>8, <2>1, GotoTypes DEF Succeed, PCs, TypeOK
    <2>3. receipt'.evidence \in {receipt.evidence, m}
      BY <1>6, <1>8
    <2>4. receipt'.evidence \in Evidence
            /\ Marked(receipt'.evidence) >= Marked(receipt.evidence)
      BY <1>3, <1>5, <2>3, CoversItself DEF Covers
    <2>5. AtMostOnce' /\ WriteAhead'
      BY <1>3, <2>4, BoardKept DEF IInv, Succeed, board
    <2>6. Bounded(receipt.evidence)' /\ Covers(m, receipt'.evidence)
      BY <1>4, <1>5, <2>3 DEF IInv, Bounded
    <2>7. RunInv(p)'
      BY <1>4, <2>2, <2>6 DEF RunInv, Succeed, Bounded, Covers, Marked
    <2> QED
      BY <1>2, <1>8, <2>2, <2>5, <2>6, <2>7, OnlyRun
  <1> QED
    BY <1>7, <1>8 DEF Succeed

(* The error handler's receipt covers the last one, by Covers in RunInv.   *)
LEMMA WriteFailureKeeps ==
  ASSUME IInv, NEW p \in Procs, WriteFailure(p)
  PROVE  IInv'
  <1> DEFINE failure == [state |-> "failed", evidence |-> memory[p]]
  <1>1. pc[p] = "fail" /\ pc[p] # "idle"
    BY DEF WriteFailure
  <1>2. RunInv(p)
    BY <1>1, Alone
  <1>3. memory[p] \in Evidence /\ receipt.evidence \in Evidence
    BY DEF IInv, TypeOK
  <1>4. failure \in [state : States, evidence : Evidence] /\ failure.evidence = memory[p]
    BY <1>3 DEF States
  <1>5. receipt' \in [state : States, evidence : Evidence]
    BY <1>4 DEF WriteFailure, IInv, TypeOK
  <1>6. Covers(memory[p], receipt.evidence) /\ Bounded(memory[p])
    BY <1>1, <1>2 DEF RunInv
  <1>7. Covers(receipt.evidence, receipt.evidence)
    BY <1>3, CoversItself
  <1>8. Covers(receipt'.evidence, receipt.evidence) /\ Bounded(receipt'.evidence)
    BY <1>4, <1>6, <1>7 DEF WriteFailure, IInv
  <1> QED
    BY <1>1, <1>5, <1>8, EndKeeps DEF WriteFailure

(* A killed run leaves the receipt as it is.                               *)
LEMMA CrashKeeps ==
  ASSUME IInv, NEW p \in Procs, Crash(p)
  PROVE  IInv'
  <1>1. receipt' \in [state : States, evidence : Evidence] /\ receipt' = receipt
    BY DEF Crash, IInv, TypeOK
  <1>2. Covers(receipt'.evidence, receipt.evidence) /\ Bounded(receipt'.evidence)
    BY <1>1, CoversItself DEF IInv, TypeOK
  <1> QED
    BY <1>1, <1>2, EndKeeps DEF Crash

(* A call that timed out and takes effect now happened before already.     *)
LEMMA TakeEffectKeeps ==
  ASSUME IInv, NEW i \in Ops, TakeEffect(i)
  PROVE  IInv'
  <1>1. TypeOK /\ i \in late /\ made[i] = 0 /\ Delta[i] \in Int
    BY BundleFacts DEF IInv, AtMostOnce, TakeEffect
  <1>2. TypeOK'
    BY <1>1 DEF TypeOK, TakeEffect
  <1>3. \A j \in Ops : made'[j] = IF j = i THEN 1 ELSE made[j]
    BY <1>1 DEF TypeOK, TakeEffect
  <1>4. AtMostOnce'
    BY <1>1, <1>3 DEF IInv, AtMostOnce, TakeEffect, TypeOK
  <1>5. \A j \in Ops : Happened(j)' <=> Happened(j)
    BY <1>1, <1>3 DEF Happened, TakeEffect
  <1>6. WriteAhead' /\ Bounded(receipt.evidence)'
    BY <1>5 DEF IInv, WriteAhead, TakeEffect, Bounded, Marked
  <1>7. ASSUME NEW p \in Procs, RunInv(p), pc[p] = "call" => memory[p].completed + 1 \in Ops
        PROVE  RunInv(p)'
    BY <1>5, <1>7 DEF TakeEffect, RunInv, Bounded, Agrees, Covers, ReconcilePending, Marked
  <1>8. ASSUME NEW p \in Procs, holder = p
        PROVE  RunInv(p)'
    <2>1. RunInv(p) /\ memory[p] \in Evidence
      BY <1>8 DEF IInv, TypeOK
    <2>2. pc[p] = "call" => memory[p].completed + 1 \in Ops
      BY <2>1, BundleFacts DEF RunInv, Bounded, Evidence
    <2> QED
      BY <1>7, <2>1, <2>2
  <1> QED
    BY <1>2, <1>4, <1>6, <1>8 DEF IInv, TakeEffect

(* Other people's edits concern nothing the invariant speaks of.           *)
LEMMA EditKeeps ==
  ASSUME IInv, Edit
  PROVE  IInv'
  <1>1. TypeOK'
    <2>1. foreign' \in [Contents -> Nat] /\ items' \in Int
      BY DEF IInv, TypeOK, Edit
    <2>2. edits' \in 0..MaxEdits
      BY BoundAssumption DEF IInv, TypeOK, Edit
    <2> QED
      BY <2>1, <2>2 DEF IInv, TypeOK, Edit
  <1>2. UNCHANGED <<made, late, receipt, holder, pc, memory>>
    BY DEF Edit
  <1>3. AtMostOnce' /\ WriteAhead' /\ Bounded(receipt.evidence)'
    BY <1>2 DEF IInv, AtMostOnce, WriteAhead, Happened, Bounded, Marked
  <1>4. \A p \in Procs : RunInv(p) => RunInv(p)'
    BY <1>2 DEF RunInv, Bounded, Agrees, Covers, ReconcilePending, Happened, Marked
  <1> QED
    BY <1>1, <1>2, <1>3, <1>4 DEF IInv

(* Every step of a run keeps the invariant.                                *)
LEMMA RunStepKeeps ==
  ASSUME IInv, NEW p \in Procs, RunStep(p) \/ ReadFails(p)
  PROVE  IInv'
  <1>1. pc[p] = "operation" /\ memory[p].pending => ReconcilePending(memory[p])
    BY Alone DEF RunInv
  <1>2. CASE ReadOperation(p)
    <2>1. Goto(p, "readback") /\ pc[p] = "operation" /\ memory[p].completed < Len(Bundle)
      BY <1>2 DEF ReadOperation, HasNext
    <2> QED
      BY <1>2, <2>1, ReadKeeps DEF ReadOperation, PCs
  <1>3. CASE ReconcileComment(p)
    <2>1. PICK step \in {"readback", "fail"} : Goto(p, step)
      BY <1>3 DEF ReconcileComment
    <2>2. pc[p] = "operation" /\ memory[p].completed < Len(Bundle)
      BY <1>3 DEF ReconcileComment, HasNext
    <2> QED
      BY <1>3, <2>1, <2>2, ReadKeeps DEF ReconcileComment, PCs
  <1>4. CASE PreflightMismatch(p)
    <2>1. Goto(p, "fail") /\ pc[p] = "operation"
      BY <1>4 DEF PreflightMismatch, HasNext
    <2> QED
      BY <1>4, <2>1, ReadKeeps DEF PreflightMismatch, PCs
  <1>5. CASE ReadPostflight(p)
    <2>1. PICK step \in {"postflight", "fail"} : Goto(p, step)
      BY <1>5 DEF ReadPostflight
    <2> QED
      BY <1>5, <2>1, ReadKeeps DEF ReadPostflight, PCs
  <1>6. CASE ReadFails(p)
    <2>1. Goto(p, "fail") /\ pc[p] # "idle"
      BY <1>6 DEF ReadFails
    <2> QED
      BY <1>6, <2>1, ReadKeeps DEF ReadFails, PCs
  <1> QED
    BY <1>2, <1>3, <1>4, <1>5, <1>6, PreflightKeeps, AnnounceKeeps, CallKeeps,
       VerifyKeeps, SucceedKeeps, WriteFailureKeeps DEF RunStep

(* A run starts from what the receipt says.                                *)
LEMMA StartKeeps ==
  ASSUME IInv, NEW p \in Procs, Fresh(p) \/ Resume(p)
  PROVE  IInv'
  <1>1. TypeOK /\ receipt.evidence \in Evidence
    BY DEF IInv, TypeOK
  <1>2. CASE Fresh(p)
    <2>1. Agrees(NoEvidence, receipt.evidence) /\ ~NoEvidence.pending
      BY <1>1, <1>2 DEF Fresh, Unmarked, Agrees, NoEvidence, Evidence
    <2> QED
      BY <1>2, <2>1, LaunchKeeps, EvidenceUpdates DEF Fresh
  <1>3. CASE Resume(p)
    <2> DEFINE e == receipt.evidence
               m == [e EXCEPT !.attempted = @ \/ e.completed > 0]
    <2>1. m \in Evidence /\ m.completed = e.completed /\ m.pending = e.pending
      BY <1>1 DEF Evidence
    <2>2. Agrees(m, e) /\ (m.pending => ReconcilePending(m))
      BY <1>3, <2>1 DEF Resume, Resumable, Agrees, ReconcilePending
    <2>3. holder = None /\ Launch(p, m)
      BY <1>3 DEF Resume
    <2> HIDE DEF m
    <2> QED
      BY <2>1, <2>2, <2>3, LaunchKeeps
  <1> QED
    BY <1>2, <1>3

-----------------------------------------------------------------------------
(* The theorems.                                                           *)

(* IInv is an invariant: one run at a time, in agreement with its receipt. *)
THEOREM ExecutorInvariance == Spec => []IInv
  <1>1. ASSUME IInv, [Next]_vars PROVE IInv'
    <2>1. CASE UNCHANGED vars
      <3>1. TypeOK' /\ AtMostOnce' /\ WriteAhead' /\ Bounded(receipt.evidence)'
        BY <1>1, <2>1 DEF IInv, vars, board, TypeOK, AtMostOnce, WriteAhead,
          Happened, Bounded, Marked
      <3>2. \A p \in Procs : RunInv(p) => RunInv(p)'
        BY <2>1 DEF vars, board, RunInv, Bounded, Agrees, Covers,
          ReconcilePending, Happened, Marked
      <3> QED
        BY <1>1, <2>1, <3>1, <3>2 DEF IInv, vars
    <2> QED
      BY <1>1, <2>1, StartKeeps, RunStepKeeps, CrashKeeps, TakeEffectKeeps,
         EditKeeps DEF Next
  <1> QED
    BY <1>1, InitIInv, PTL DEF Spec

(* The variables stay in their types.                                      *)
THEOREM ExecutorTypeCorrect == Spec => []TypeOK
  <1>1. IInv => TypeOK
    BY DEF IInv
  <1> QED
    BY <1>1, ExecutorInvariance, PTL

(* No operation of a bundle is executed twice, whatever fails, is killed,  *)
(* resumed, started side by side or takes effect late.                     *)
THEOREM OperationsHappenAtMostOnce == Spec => []AtMostOnce
  <1>1. IInv => AtMostOnce
    BY DEF IInv
  <1> QED
    BY <1>1, ExecutorInvariance, PTL

(* The receipt on disk verifies or announces all that may have happened.   *)
THEOREM ReceiptsAreWrittenAhead == Spec => []WriteAhead
  <1>1. IInv => WriteAhead
    BY DEF IInv
  <1> QED
    BY <1>1, ExecutorInvariance, PTL

(* What a run writes covers the receipt it replaces.                       *)
LEMMA WritesCover ==
  ASSUME IInv, NEW p \in Procs, RunStep(p)
  PROVE  receipt' = receipt \/ Covers(receipt'.evidence, receipt.evidence)
  <1> DEFINE m == memory[p]
  <1>1. m \in Evidence /\ receipt.evidence \in Evidence /\ TypeOK
    BY DEF IInv, TypeOK
  <1>2. pc[p] # "idle" => RunInv(p)
    BY Alone
  <1>3. Agrees(m, receipt.evidence) => Marked(receipt.evidence) <= m.completed + 1
    BY <1>1, BundleFacts DEF Agrees, Marked, Evidence
  <1>4. CASE Announce(p)
    <2> DEFINE n == [m EXCEPT !.pending = TRUE]
    <2>1. Agrees(m, receipt.evidence)
      BY <1>2, <1>4 DEF Announce, HasNext, RunInv
    <2>2. n.completed = m.completed /\ Marked(n) = m.completed + 1
      BY <1>1, MarkedUpdates
    <2>3. Covers(n, receipt.evidence)
      BY <1>1, <1>3, <2>1, <2>2, BundleFacts, CoversItself DEF Covers, Agrees, Evidence
    <2>4. Checkpoint(p, n, "in_progress", "call")
      BY <1>4 DEF Announce
    <2>5. receipt' = receipt \/ receipt'.evidence = n
      <3> HIDE DEF n
      <3> QED
        BY <2>4 DEF Checkpoint
    <2> QED
      BY <2>3, <2>5
  <1>5. CASE Verify(p)
    <2> DEFINE n == [m EXCEPT !.completed = @ + 1, !.pending = FALSE]
    <2>1. Agrees(m, receipt.evidence)
      BY <1>2, <1>5 DEF Verify, RunInv
    <2>2. n.completed = m.completed + 1 /\ Marked(n) = m.completed + 1
      BY <1>1, MarkedUpdates
    <2>3. Covers(n, receipt.evidence)
      BY <1>1, <1>3, <2>1, <2>2, BundleFacts, CoversItself DEF Covers, Agrees, Evidence
    <2>4. receipt' = receipt \/ receipt'.evidence = n
      BY <1>5 DEF Verify, Checkpoint
    <2> QED
      BY <2>3, <2>4
  <1>6. CASE Succeed(p)
    <2>1. Agrees(m, receipt.evidence)
      BY <1>2, <1>6 DEF Succeed, RunInv
    <2>2. Covers(m, receipt.evidence)
      BY <1>1, <2>1, CoversItself DEF Covers, Agrees, Marked
    <2>3. receipt' = receipt \/ receipt'.evidence = m
      BY <1>6 DEF Succeed
    <2> QED
      BY <2>2, <2>3
  <1>7. CASE WriteFailure(p)
    <2>1. Covers(m, receipt.evidence)
      BY <1>2, <1>7 DEF WriteFailure, RunInv
    <2>2. receipt' = receipt \/ receipt'.evidence = m
      BY <1>7 DEF WriteFailure
    <2> QED
      BY <2>1, <2>2
  <1> QED
    BY <1>4, <1>5, <1>6, <1>7 DEF RunStep, Preflight, ReadOperation,
       ReconcileComment, PreflightMismatch, Call, ReadPostflight

(* No receipt forgets what an earlier one verified or announced.           *)
THEOREM ReceiptsKeepProgress == Spec => ProgressKept
  <1>1. ASSUME IInv, [Next]_vars
        PROVE  [/\ receipt'.evidence.completed >= receipt.evidence.completed
                /\ Marked(receipt'.evidence) >= Marked(receipt.evidence)]_vars
    <2>1. receipt.evidence \in Evidence
      BY <1>1 DEF IInv, TypeOK
    <2>2. CASE receipt' = receipt
      BY <2>1, <2>2, CoversItself DEF Covers
    <2>3. CASE \E p \in Procs : RunStep(p)
      BY <1>1, <2>2, <2>3, WritesCover DEF Covers
    <2> QED
      BY <1>1, <2>2, <2>3 DEF Next, vars, Fresh, Resume, Launch, ReadFails, Crash,
         TakeEffect, Edit
  <1> QED
    BY <1>1, ExecutorInvariance, PTL DEF Spec, ProgressKept

-----------------------------------------------------------------------------
(* What was made is found again.                                           *)

(* For each verified operation there is an item on the board.              *)
Verified(c, n) == {i \in Equal(c) : i <= n}
Backed(n) == \A c \in Contents : Cardinality(Verified(c, n)) <= ItemsOf(c)

(* On a board that nobody else edits it is the operation's own, and the    *)
(* items are those that operations have made and not deleted.              *)
Own(n) == edits = 0 => \A i \in 1..n : Kind(i) = "read" \/ made[i] = 1
Effect == [i \in Ops |-> IF made[i] = 1 THEN Delta[i] ELSE 0]
Unedited ==
  edits = 0 => /\ items = SumFunctionOnSet(Effect, Ops)
               /\ \A c \in Contents : foreign[c] = 0

(* What evidence says is so, and it says with what the board began.        *)
Known(m) ==
  /\ Backed(m.completed) /\ Own(m.completed)
  /\ m.completed > 0 \/ m.pending => m.baseline # None
  /\ edits = 0 => m.baseline \in {None, 0}

RunKnown(p) ==
  LET m == memory[p] IN
  /\ Known(m)
  /\ pc[p] \in {"operation", "call", "readback", "postflight"} => m.baseline # None
  /\ pc[p] = "readback" => Backed(m.completed + 1) /\ Own(m.completed + 1)
  /\ pc[p] = "postflight" => ~m.pending

ResultsInv ==
  /\ IInv
  /\ Unedited
  /\ Known(receipt.evidence)
  /\ receipt.state \in {"none", "complete"} => ~receipt.evidence.pending
  /\ \A p \in Procs : holder = p => RunKnown(p)

(* Sets of operations are finite.                                          *)
LEMMA OpsFacts ==
  /\ IsFiniteSet(Ops)
  /\ \A i \in Ops : i \in Nat /\ i >= 1
  /\ \A c : Equal(c) \subseteq Ops /\ IsFiniteSet(Equal(c))
  /\ \A c, n : Verified(c, n) \subseteq Equal(c) /\ IsFiniteSet(Verified(c, n))
               /\ Cardinality(Verified(c, n)) \in Nat
  <1>1. IsFiniteSet(Ops) /\ \A i \in Ops : i \in Nat /\ i >= 1
    BY BundleFacts, FS_Interval
  <1>2. ASSUME NEW c PROVE Equal(c) \subseteq Ops /\ IsFiniteSet(Equal(c))
    <2>1. Equal(c) \subseteq Ops
      BY DEF Equal
    <2> QED
      BY <1>1, <2>1, FS_Subset
  <1>3. ASSUME NEW c, NEW n
        PROVE  /\ Verified(c, n) \subseteq Equal(c) /\ IsFiniteSet(Verified(c, n))
               /\ Cardinality(Verified(c, n)) \in Nat
    <2>1. Verified(c, n) \subseteq Equal(c)
      BY DEF Verified
    <2>2. IsFiniteSet(Verified(c, n))
      BY <1>2, <2>1, FS_Subset
    <2> QED
      BY <2>1, <2>2, FS_CardinalityType
  <1> QED
    BY <1>1, <1>2, <1>3

(* How many items of a content there are is a number.                      *)
LEMMA ItemsNat ==
  ASSUME TypeOK, NEW c \in Contents
  PROVE  /\ SumFunctionOnSet(made, Equal(c)) \in Nat /\ foreign[c] \in Nat
         /\ ItemsOf(c) \in Nat
  <1>1. \A i \in Equal(c) : made[i] \in Nat
    BY OpsFacts DEF TypeOK
  <1>2. IsFiniteSet(Equal(c))
    BY OpsFacts
  <1>3. SumFunctionOnSet(made, Equal(c)) \in Nat
    BY <1>1, <1>2, SumNat
  <1>4. foreign[c] \in Nat
    BY DEF TypeOK
  <1> QED
    BY <1>3, <1>4 DEF ItemsOf

(* One operation more is verified.                                         *)
LEMMA VerifiedNext ==
  ASSUME NEW n \in Nat, n + 1 \in Ops, NEW c
  PROVE  Cardinality(Verified(c, n + 1))
           = Cardinality(Verified(c, n)) + (IF Content(n + 1) = c THEN 1 ELSE 0)
  <1>1. CASE Content(n + 1) = c
    <2>1. Verified(c, n + 1) = Verified(c, n) \cup {n + 1} /\ n + 1 \notin Verified(c, n)
      BY <1>1, OpsFacts DEF Verified, Equal
    <2>2. IsFiniteSet(Verified(c, n))
      BY OpsFacts
    <2>3. Cardinality(Verified(c, n) \cup {n + 1}) = Cardinality(Verified(c, n)) + 1
      BY <2>1, <2>2, FS_AddElement
    <2> QED
      BY <1>1, <2>1, <2>3
  <1>2. CASE Content(n + 1) # c
    <2>1. Verified(c, n + 1) = Verified(c, n)
      BY <1>2, OpsFacts DEF Verified, Equal
    <2>2. Cardinality(Verified(c, n)) \in Nat
      BY OpsFacts
    <2> QED
      BY <1>2, <2>1, <2>2
  <1> QED
    BY <1>1, <1>2

(* The next operation has a result if there is an item more of its content *)
(* than operations before it.                                              *)
LEMMA BackedNext ==
  ASSUME TypeOK, NEW n \in Nat, n + 1 \in Ops, Backed(n),
         Content(n + 1) \in Contents =>
           Cardinality(Verified(Content(n + 1), n)) + 1 <= ItemsOf(Content(n + 1))
  PROVE  Backed(n + 1)
  <1> SUFFICES ASSUME NEW c \in Contents
               PROVE  Cardinality(Verified(c, n + 1)) <= ItemsOf(c)
    BY DEF Backed
  <1>1. Cardinality(Verified(c, n)) \in Nat /\ ItemsOf(c) \in Nat
    BY OpsFacts, ItemsNat
  <1>2. Cardinality(Verified(c, n)) <= ItemsOf(c)
    BY DEF Backed
  <1>3. Cardinality(Verified(c, n + 1))
          = Cardinality(Verified(c, n)) + (IF Content(n + 1) = c THEN 1 ELSE 0)
    BY VerifiedNext
  <1> QED
    BY <1>1, <1>2, <1>3

(* An operation whose content can be told apart is one that is reconciled. *)
LEMMA ContentKinds ==
  ASSUME NEW i \in Ops
  PROVE  /\ Content(i) \in Contents <=> Kind(i) \in Reconcilable
         /\ \A j \in Equal(Content(i)) : Kind(j) = Kind(i)
  BY BundleAssumption DEF Contents, Equal

-----------------------------------------------------------------------------
(* The board only grows.                                                   *)

(* Others leave alone what the bundle made, and edits are counted.         *)
Grows ==
  /\ \A i \in Ops : made'[i] >= made[i]
  /\ \A c \in Contents : foreign'[c] >= foreign[c]
  /\ edits' >= edits

(* A result stays.                                                         *)
LEMMA BackedStays ==
  ASSUME TypeOK, TypeOK', Grows, NEW n, Backed(n)
  PROVE  Backed(n)'
  <1> SUFFICES ASSUME NEW c \in Contents
               PROVE  Cardinality(Verified(c, n)) <= ItemsOf(c)'
    BY DEF Backed
  <1>1. Cardinality(Verified(c, n)) \in Nat /\ ItemsOf(c) \in Nat
          /\ IsFiniteSet(Equal(c))
    BY OpsFacts, ItemsNat
  <1>2. Cardinality(Verified(c, n)) <= ItemsOf(c)
    BY DEF Backed
  <1>3. \A i \in Equal(c) : made[i] \in Int /\ made'[i] \in Int /\ made[i] <= made'[i]
    BY OpsFacts DEF TypeOK, Grows
  <1>4. SumFunctionOnSet(made, Equal(c)) <= SumFunctionOnSet(made', Equal(c))
    BY <1>1, <1>3, SumMono
  <1>5. \A i \in Equal(c) : made'[i] \in Nat /\ made[i] \in Nat
    BY OpsFacts DEF TypeOK
  <1>6. SumFunctionOnSet(made', Equal(c)) \in Nat /\ SumFunctionOnSet(made, Equal(c)) \in Nat
    BY <1>1, <1>5, SumNat
  <1>7. foreign[c] \in Nat /\ foreign'[c] \in Nat /\ foreign'[c] >= foreign[c]
    BY DEF TypeOK, Grows
  <1> QED
    BY <1>1, <1>2, <1>4, <1>6, <1>7 DEF ItemsOf

(* What evidence says stays so.                                            *)
LEMMA KnownStays ==
  ASSUME TypeOK, TypeOK', AtMostOnce', Grows, NEW n, n \in 0..Len(Bundle)
  PROVE  /\ Backed(n) => Backed(n)'
         /\ Own(n) => Own(n)'
         /\ edits' = 0 => edits = 0
  <1>1. edits' = 0 => edits = 0
    BY BoundAssumption DEF TypeOK, Grows
  <1>2. Backed(n) => Backed(n)'
    BY BackedStays
  <1>3. ASSUME Own(n), edits' = 0, NEW i \in 1..n, Kind(i) # "read"
        PROVE  made'[i] = 1
    <2>1. i \in Ops /\ made[i] = 1
      BY <1>1, <1>3, BundleFacts DEF Own
    <2>2. made'[i] \in Nat /\ made'[i] >= 1 /\ made'[i] <= 1
      BY <2>1 DEF TypeOK, Grows, AtMostOnce
    <2> QED
      BY <2>2
  <1>4. Own(n) => Own(n)'
    BY <1>3 DEF Own
  <1> QED
    BY <1>1, <1>2, <1>4

(* A board that stays as it is, or on which an operation happens.          *)
LEMMA BoardGrows ==
  ASSUME TypeOK,
         \/ UNCHANGED made
         \/ \E i \in Ops : made' = [made EXCEPT ![i] = @ + 1],
         UNCHANGED <<foreign, edits>>
  PROVE  Grows
  <1>1. \A c \in Contents : foreign'[c] >= foreign[c]
    BY DEF TypeOK
  <1>2. edits' >= edits
    BY BoundAssumption DEF TypeOK
  <1>3. \A i \in Ops : made'[i] >= made[i]
    BY DEF TypeOK
  <1> QED
    BY <1>1, <1>2, <1>3 DEF Grows

(* An operation that happens changes the number of items by what it does.  *)
LEMMA EffectOne ==
  ASSUME TypeOK, NEW i \in Ops, made[i] = 0, made' = [made EXCEPT ![i] = @ + 1],
         items' = items + Delta[i], UNCHANGED <<foreign, edits>>, Unedited
  PROVE  Unedited'
  <1> SUFFICES ASSUME edits = 0
               PROVE  items' = SumFunctionOnSet(Effect', Ops)
    BY DEF Unedited
  <1> DEFINE R == Ops \ {i}
  <1>1. items = SumFunctionOnSet(Effect, Ops)
    BY DEF Unedited
  <1>2. IsFiniteSet(Ops) /\ IsFiniteSet(R)
    BY OpsFacts, FS_Subset
  <1>3. made'[i] = 1 /\ \A j \in R : made'[j] = made[j]
    BY DEF TypeOK
  <1>4. Effect[i] = 0 /\ Effect'[i] = Delta[i] /\ \A j \in R : Effect'[j] = Effect[j]
    BY <1>3 DEF Effect
  <1>5. \A j \in Ops : Effect[j] \in Int /\ Effect'[j] \in Int
    BY BundleFacts DEF Effect
  <1>6. SumFunctionOnSet(Effect, Ops) = Effect[i] + SumFunctionOnSet(Effect, R)
    BY <1>2, <1>5, SumRemove
  <1>7. SumFunctionOnSet(Effect', Ops) = Effect'[i] + SumFunctionOnSet(Effect', R)
    BY <1>2, <1>5, SumRemove
  <1>8. SumFunctionOnSet(Effect', R) = SumFunctionOnSet(Effect, R)
    BY <1>2, <1>4, SumSame
  <1>9. SumFunctionOnSet(Effect, R) \in Int
    BY <1>2, <1>5, SumInt
  <1>10. Delta[i] \in Int
    BY BundleFacts
  <1> HIDE DEF R
  <1> QED
    BY <1>1, <1>4, <1>6, <1>7, <1>8, <1>9, <1>10

-----------------------------------------------------------------------------
(* What the board shows of a pending operation.                            *)

(* All that has happened is verified by the evidence m or its next         *)
(* operation, and nobody else has edited the board.                        *)
Settled(n) ==
  /\ n \in Nat /\ n + 1 \in Ops
  /\ edits = 0 /\ Own(n)
  /\ \A i \in Ops : i > n + 1 => made[i] = 0

(* The items of its content are those of the verified operations and its   *)
(* own.                                                                    *)
LEMMA OwnItems ==
  ASSUME TypeOK, NEW n, Settled(n), Kind(n + 1) \in Reconcilable
  PROVE  SumFunctionOnSet(made, Equal(Content(n + 1)))
           = Cardinality(Verified(Content(n + 1), n)) + made[n + 1]
  <1> DEFINE c == Content(n + 1)
             V == Verified(c, n)
             R == Equal(c) \ V
             Q == R \ {n + 1}
  <1>1. n \in Nat /\ n + 1 \in Ops
    BY DEF Settled
  <1>2. IsFiniteSet(Equal(c)) /\ IsFiniteSet(V) /\ V \subseteq Equal(c) /\ Equal(c) \subseteq Ops
          /\ Cardinality(V) \in Nat
    BY OpsFacts
  <1>3. IsFiniteSet(R) /\ IsFiniteSet(Q)
    BY <1>2, FS_Subset
  <1>4. n + 1 \in R
    BY <1>1 DEF Equal, Verified
  <1>5. \A i \in V : made[i] = 1
    <2> TAKE i \in V
    <2>1. i \in Equal(c) /\ i <= n /\ i \in Ops /\ i \in Nat /\ i >= 1
      BY OpsFacts DEF Verified
    <2>2. Kind(i) \in Reconcilable
      BY <1>1, <2>1, ContentKinds
    <2> QED
      BY <1>1, <2>1, <2>2 DEF Settled, Own, Reconcilable
  <1>6. \A i \in Q : made[i] = 0
    <2> TAKE i \in Q
    <2>1. i \in Ops /\ i \in Nat /\ ~(i <= n) /\ i # n + 1
      BY <1>2, OpsFacts DEF Verified
    <2> QED
      BY <1>1, <2>1 DEF Settled
  <1>7. \A i \in Equal(c) : made[i] \in Int
    BY <1>2 DEF TypeOK
  <1>8. \A i \in R : made[i] \in Int
    BY <1>7
  <1>9. made[n + 1] \in Nat
    BY <1>1 DEF TypeOK
  <1> HIDE DEF R, Q, V, c
  <1>10. SumFunctionOnSet(made, V) = Cardinality(V)
    BY <1>2, <1>5, SumOnes
  <1>11. SumFunctionOnSet(made, Q) = 0
    BY <1>3, <1>6, SumZeros
  <1>12. SumFunctionOnSet(made, R) = made[n + 1] + SumFunctionOnSet(made, Q)
    BY <1>3, <1>4, <1>8, SumRemove DEF Q
  <1>13. SumFunctionOnSet(made, Equal(c)) = SumFunctionOnSet(made, V) + SumFunctionOnSet(made, R)
    BY <1>2, <1>7, SumSplit DEF R
  <1>14. SumFunctionOnSet(made, Equal(c)) = Cardinality(V) + made[n + 1]
    BY <1>2, <1>9, <1>10, <1>11, <1>12, <1>13
  <1> QED
    BY <1>14 DEF V, c

(* The number of items has changed by what the verified operations and it  *)
(* have done.                                                              *)
LEMMA OwnEffect ==
  ASSUME TypeOK, NEW n, Settled(n), made[n + 1] = 1
  PROVE  SumFunctionOnSet(Effect, Ops) = ExpectedDelta(n) + Delta[n + 1]
  <1> DEFINE V == 1..n
             R == Ops \ V
             Q == R \ {n + 1}
  <1>1. n \in Nat /\ n + 1 \in Ops
    BY DEF Settled
  <1>2. IsFiniteSet(Ops) /\ IsFiniteSet(V) /\ V \subseteq Ops
    BY <1>1, OpsFacts, BundleFacts, FS_Interval
  <1>3. IsFiniteSet(R) /\ IsFiniteSet(Q)
    BY <1>2, FS_Subset
  <1>4. n + 1 \in R
    BY <1>1
  <1>5. \A i \in V : Effect[i] = Delta[i]
    <2> TAKE i \in V
    <2>1. i \in Ops
      BY <1>2
    <2>2. CASE Kind(i) = "read"
      BY <2>1, <2>2 DEF Effect, Delta
    <2>3. CASE Kind(i) # "read"
      BY <2>1, <2>3 DEF Effect, Settled, Own
    <2> QED
      BY <2>2, <2>3
  <1>6. \A i \in Q : Effect[i] = 0
    <2> TAKE i \in Q
    <2>1. i \in Ops /\ i \in Nat /\ i >= 1 /\ i \notin 1..n /\ i # n + 1
      BY OpsFacts
    <2>2. i > n + 1
      BY <1>1, <2>1
    <2> QED
      BY <2>1, <2>2 DEF Effect, Settled
  <1>7. \A i \in Ops : Effect[i] \in Int /\ Delta[i] \in Int
    BY BundleFacts DEF Effect
  <1>8. \A i \in R : Effect[i] \in Int
    BY <1>7
  <1>9. Effect[n + 1] = Delta[n + 1] /\ Delta[n + 1] \in Int
    BY <1>1, BundleFacts DEF Effect
  <1>10. \A i \in V : Delta[i] \in Int
    BY <1>2, <1>7
  <1> HIDE DEF R, Q, V
  <1>11. SumFunctionOnSet(Effect, V) = SumFunctionOnSet(Delta, V)
    BY <1>2, <1>5, SumSame
  <1>12. SumFunctionOnSet(Effect, Q) = 0
    BY <1>3, <1>6, SumZeros
  <1>13. SumFunctionOnSet(Effect, R) = Effect[n + 1] + SumFunctionOnSet(Effect, Q)
    BY <1>3, <1>4, <1>8, SumRemove DEF Q
  <1>14. SumFunctionOnSet(Effect, Ops) = SumFunctionOnSet(Effect, V) + SumFunctionOnSet(Effect, R)
    BY <1>2, <1>7, SumSplit DEF R
  <1>15. SumFunctionOnSet(Delta, V) \in Int
    BY <1>2, <1>10, SumInt
  <1> QED
    BY <1>9, <1>11, <1>12, <1>13, <1>14, <1>15 DEF V, ExpectedDelta

(* No two comments of the bundle are equal: comments are found by their    *)
(* content alone.                                                          *)
CommentsDiffer ==
  \A i, j \in Ops : Kind(i) = "comment" /\ Content(i) = Content(j) => i = j

(* No verified operation has the content of the comment that comes next.   *)
LEMMA CommentIsNew ==
  ASSUME CommentsDiffer, NEW n \in Nat, n + 1 \in Ops, IsComment(Content(n + 1))
  PROVE  Cardinality(Verified(Content(n + 1), n)) = 0
  <1>1. Kind(n + 1) = "comment"
    BY ContentKinds DEF IsComment
  <1>2. \A i \in Equal(Content(n + 1)) : i = n + 1
    BY <1>1 DEF CommentsDiffer, Equal
  <1>3. Verified(Content(n + 1), n) = {}
    BY <1>2 DEF Verified
  <1> QED
    BY <1>3, FS_EmptySet

(* An item that reconciliation finds is one that no verified operation     *)
(* claims.                                                                 *)
LEMMA CandidatesAre ==
  ASSUME CommentsDiffer, TypeOK, NEW m, NEW n \in Nat, m.completed = n, n + 1 \in Ops,
         Kind(n + 1) \in Reconcilable
  PROVE  Candidates(m) = ItemsOf(Content(n + 1)) - Cardinality(Verified(Content(n + 1), n))
  <1>1. Content(n + 1) \in Contents
    BY ContentKinds
  <1>2. ItemsOf(Content(n + 1)) \in Nat
    BY <1>1, ItemsNat
  <1>3. CASE IsComment(Content(n + 1))
    BY <1>2, <1>3, CommentIsNew DEF Candidates
  <1>4. CASE ~IsComment(Content(n + 1))
    BY <1>4 DEF Candidates, Verified
  <1> QED
    BY <1>3, <1>4

(* Nothing past what the receipt marks has happened.                       *)
LEMMA NothingPast ==
  ASSUME IInv, NEW n \in Nat, Marked(receipt.evidence) <= n
  PROVE  \A i \in Ops : i > n => made[i] = 0
  <1> TAKE i \in Ops
  <1> SUFFICES ASSUME i > n PROVE made[i] = 0
    OBVIOUS
  <1>1. Marked(receipt.evidence) \in Nat /\ i \in Nat
    BY MarkedUpdates, OpsFacts DEF IInv, TypeOK
  <1>2. ~Happened(i)
    BY <1>1 DEF IInv, WriteAhead
  <1> QED
    BY <1>2 DEF Happened, IInv, TypeOK

(* The one item that reconciliation finds is the pending operation's.      *)
LEMMA Found ==
  ASSUME CommentsDiffer, IInv, Unedited, NEW m \in Evidence, Known(m),
         Agrees(m, receipt.evidence), Bounded(m), ReconcilePending(m), Candidates(m) = 1
  PROVE  Backed(m.completed + 1) /\ Own(m.completed + 1)
  <1>1. PICK n : n = m.completed
    OBVIOUS
  <1> DEFINE c == Content(n + 1)
  <1>2. n \in Nat /\ n + 1 \in Ops /\ Kind(n + 1) \in Reconcilable
    BY <1>1, BundleFacts DEF Bounded, ReconcilePending, Evidence
  <1>3. c \in Contents
    BY <1>2, ContentKinds
  <1>4. TypeOK /\ Backed(n) /\ Own(n)
    BY <1>1 DEF IInv, Known
  <1>5. ItemsOf(c) - Cardinality(Verified(c, n)) = 1
    BY <1>1, <1>2, <1>4, CandidatesAre
  <1>6. ItemsOf(c) \in Nat /\ Cardinality(Verified(c, n)) \in Nat
    BY <1>3, <1>4, ItemsNat, OpsFacts
  <1>7. Backed(n + 1)
    BY <1>2, <1>4, <1>5, <1>6, BackedNext
  <1>8. ASSUME edits = 0 PROVE made[n + 1] = 1
    <2>1. Marked(receipt.evidence) = n + 1
      BY <1>1, <1>2 DEF Agrees, Marked, ReconcilePending
    <2>2. \A i \in Ops : i > n + 1 => made[i] = 0
      BY <1>2, <2>1, NothingPast
    <2>3. SumFunctionOnSet(made, Equal(c)) = Cardinality(Verified(c, n)) + made[n + 1]
      BY <1>2, <1>4, <1>8, <2>2, OwnItems DEF Settled
    <2>4. foreign[c] = 0
      BY <1>3, <1>8 DEF Unedited
    <2>5. ItemsOf(c) = SumFunctionOnSet(made, Equal(c))
      BY <1>3, <1>4, <2>4, ItemsNat DEF ItemsOf
    <2>6. made[n + 1] \in Nat
      BY <1>2, <1>4 DEF TypeOK
    <2> QED
      BY <1>5, <1>6, <2>3, <2>5, <2>6
  <1>9. Own(n + 1)
    <2> SUFFICES ASSUME edits = 0, NEW i \in 1..(n + 1), Kind(i) # "read" PROVE made[i] = 1
      BY DEF Own
    <2>1. CASE i = n + 1
      BY <1>8, <2>1
    <2>2. CASE i # n + 1
      BY <1>2, <1>4, <2>2 DEF Own
    <2> QED
      BY <2>1, <2>2
  <1> QED
    BY <1>1, <1>7, <1>9

(* If nothing has happened yet the board is as it was.                     *)
LEMMA NothingYet ==
  ASSUME IInv, Unedited, Marked(receipt.evidence) = 0, edits = 0
  PROVE  items = 0
  <1>1. \A i \in Ops : made[i] = 0
    BY NothingPast, OpsFacts
  <1>2. \A i \in Ops : Effect[i] = 0
    BY <1>1 DEF Effect
  <1>3. SumFunctionOnSet(Effect, Ops) = 0
    BY <1>2, OpsFacts, SumZeros
  <1> QED
    BY <1>3 DEF Unedited

-----------------------------------------------------------------------------
(* The steps.                                                              *)

(* Types, as the step lemmas need them.                                    *)
LEMMA RunFacts ==
  ASSUME ResultsInv, NEW p \in Procs, pc[p] # "idle"
  PROVE  /\ holder = p /\ RunInv(p) /\ RunKnown(p)
         /\ TypeOK /\ memory[p] \in Evidence /\ receipt.evidence \in Evidence
         /\ memory[p].completed \in 0..Len(Bundle)
  <1>1. holder = p /\ RunInv(p)
    BY Alone DEF ResultsInv
  <1>2. TypeOK /\ memory[p] \in Evidence /\ receipt.evidence \in Evidence
    BY DEF ResultsInv, IInv, TypeOK
  <1> QED
    BY <1>1, <1>2 DEF ResultsInv, Evidence

(* What evidence says of the verified operations.                          *)
Upheld(m) == Backed(m.completed) /\ Own(m.completed)

(* Evidence that is right stays so while the board grows.                  *)
LEMMA EvidenceStays ==
  ASSUME TypeOK, TypeOK', AtMostOnce', Grows, NEW m \in Evidence, Known(m)
  PROVE  Known(m)'
  <1>1. PICK n : n = m.completed
    OBVIOUS
  <1>2. n \in 0..Len(Bundle)
    BY <1>1 DEF Evidence
  <1>3. Backed(n)' /\ Own(n)' /\ (edits' = 0 => edits = 0)
    BY <1>1, <1>2, KnownStays DEF Known
  <1> QED
    BY <1>1, <1>3 DEF Known

(* A step that leaves the board as it is leaves right what is right.       *)
LEMMA BoardSame ==
  ASSUME UNCHANGED board
  PROVE  /\ Unedited => Unedited'
         /\ \A n : (Backed(n) => Backed(n)') /\ (Own(n) => Own(n)')
         /\ \A m : Known(m) => Known(m)'
  <1>1. Unedited => Unedited'
    BY DEF board, Unedited, Effect
  <1>2. ASSUME NEW n PROVE (Backed(n) => Backed(n)') /\ (Own(n) => Own(n)')
    BY DEF board, Backed, Own, ItemsOf
  <1>3. ASSUME NEW m PROVE Known(m) => Known(m)'
    BY <1>2 DEF Known, board
  <1> QED
    BY <1>1, <1>2, <1>3

(* After a step of the only run p, the invariant is about p alone.         *)
LEMMA OnlyRunKnows ==
  ASSUME IInv', Unedited', Known(receipt.evidence)',
         receipt'.state \in {"none", "complete"} => ~receipt'.evidence.pending,
         NEW p \in Procs, holder' \in {p, None}, holder' = p => RunKnown(p)'
  PROVE  ResultsInv'
  BY NoneFacts DEF ResultsInv

(* A step that only reads the board: m is what the run knows after it.     *)
LEMMA ReadKnows ==
  ASSUME ResultsInv, IInv', NEW p \in Procs, pc[p] # "idle",
         UNCHANGED <<board, receipt, holder, memory>>,
         pc'[p] \in {"operation", "call", "readback", "postflight"}
           => memory[p].baseline # None,
         pc'[p] = "readback" => Backed(memory[p].completed + 1) /\ Own(memory[p].completed + 1),
         pc'[p] = "postflight" => ~memory[p].pending
  PROVE  ResultsInv'
  <1>1. holder = p /\ RunKnown(p)
    BY RunFacts
  <1>2. Unedited' /\ Known(receipt.evidence)'
    BY BoardSame DEF ResultsInv
  <1>3. PICK m : m = memory[p]
    OBVIOUS
  <1>4. Known(m)' /\ (pc'[p] = "readback" => Backed(m.completed + 1)' /\ Own(m.completed + 1)')
    BY <1>1, <1>3, BoardSame DEF RunKnown
  <1>5. memory'[p] = m
    BY <1>3
  <1>6. RunKnown(p)'
    BY <1>3, <1>4, <1>5 DEF RunKnown
  <1> QED
    BY <1>1, <1>2, <1>6, OnlyRunKnows DEF ResultsInv

(* The read steps.                                                         *)
LEMMA ReadsKnow ==
  ASSUME CommentsDiffer, ResultsInv, IInv', NEW p \in Procs,
         \/ ReadOperation(p) \/ ReconcileComment(p) \/ PreflightMismatch(p)
         \/ ReadPostflight(p) \/ ReadFails(p)
  PROVE  ResultsInv'
  <1> DEFINE m == memory[p]
  <1>1. pc[p] # "idle"
    BY DEF ReadOperation, ReconcileComment, PreflightMismatch, HasNext, ReadPostflight, ReadFails
  <1>2. /\ holder = p /\ RunInv(p) /\ RunKnown(p)
        /\ TypeOK /\ m \in Evidence /\ receipt.evidence \in Evidence
        /\ m.completed \in 0..Len(Bundle)
    BY <1>1, RunFacts
  <1>3. UNCHANGED <<board, receipt, holder, memory>>
    BY DEF ReadOperation, ReconcileComment, PreflightMismatch, ReadPostflight, ReadFails
  <1>4. Backed(m.completed) /\ Own(m.completed)
    BY <1>2 DEF RunKnown, Known
  <1>5. CASE ReadOperation(p)
    <2>1. PICK n : n = m.completed
      OBVIOUS
    <2>2. n \in Nat /\ n + 1 \in Ops /\ Kind(n + 1) = "read" /\ pc[p] = "operation"
      BY <1>2, <1>5, <2>1, BundleFacts DEF ReadOperation, HasNext, Upcoming
    <2>3. Content(n + 1) \notin Contents
      BY <2>2, ContentKinds DEF Reconcilable
    <2>4. Backed(n + 1)
      BY <1>2, <1>4, <2>1, <2>2, <2>3, BackedNext
    <2>5. Own(n + 1)
      BY <1>4, <2>1, <2>2 DEF Own
    <2>6. m.baseline # None
      BY <1>2, <2>2 DEF RunKnown
    <2>7. pc'[p] = "readback"
      BY <1>2, <1>5 DEF ReadOperation, Goto, TypeOK
    <2> QED
      BY <1>1, <1>3, <2>1, <2>4, <2>5, <2>6, <2>7, ReadKnows
  <1>6. CASE ReconcileComment(p)
    <2>1. pc[p] = "operation" /\ ReconcilePending(m)
      BY <1>6 DEF ReconcileComment, HasNext
    <2>2. pc'[p] = (IF Candidates(m) = 1 THEN "readback" ELSE "fail")
      BY <1>2, <1>6 DEF ReconcileComment, Goto, TypeOK
    <2>3. m.baseline # None
      BY <1>2, <2>1 DEF RunKnown
    <2>4. Agrees(m, receipt.evidence) /\ Bounded(m) /\ Known(m)
      BY <1>2, <2>1 DEF RunInv, RunKnown
    <2>5. Candidates(m) = 1 => Backed(m.completed + 1) /\ Own(m.completed + 1)
      BY <1>2, <2>1, <2>4, Found DEF ResultsInv
    <2> QED
      BY <1>1, <1>3, <2>2, <2>3, <2>5, ReadKnows
  <1>7. CASE PreflightMismatch(p) \/ ReadFails(p)
    <2>1. pc'[p] = "fail"
      BY <1>2, <1>7 DEF PreflightMismatch, ReadFails, Goto, TypeOK
    <2> QED
      BY <1>1, <1>3, <2>1, ReadKnows
  <1>8. CASE ReadPostflight(p)
    <2>1. pc[p] = "operation" /\ m.completed = Len(Bundle)
      BY <1>8 DEF ReadPostflight
    <2>2. pc'[p] \in {"fail", "postflight"}
      BY <1>2, <1>8 DEF ReadPostflight, Goto, TypeOK
    <2>3. m.baseline # None
      BY <1>2, <2>1 DEF RunKnown
    <2>4. ~m.pending
      BY <1>2, <2>1, BundleFacts DEF RunInv, Bounded
    <2> QED
      BY <1>1, <1>3, <2>2, <2>3, <2>4, ReadKnows
  <1> QED
    BY <1>5, <1>6, <1>7, <1>8

(* The preflight finds the pending document or diagram, or the board as    *)
(* the bundle found it.                                                    *)
LEMMA PreflightKnows ==
  ASSUME CommentsDiffer, ResultsInv, IInv', NEW p \in Procs, Preflight(p)
  PROVE  ResultsInv'
  <1>1. pc[p] = "preflight" /\ pc[p] # "idle"
    BY DEF Preflight
  <1>2. PICK m : m = memory[p]
    OBVIOUS
  <1>3. /\ holder = p /\ RunInv(p) /\ RunKnown(p)
        /\ TypeOK /\ m \in Evidence /\ receipt.evidence \in Evidence
        /\ m.completed \in 0..Len(Bundle)
    BY <1>1, <1>2, RunFacts
  <1>4. PICK n : n = [m EXCEPT !.baseline = IF @ = None THEN items ELSE @]
    OBVIOUS
  <1>5. UNCHANGED <<board, receipt, holder>> /\ memory'[p] = n
    BY <1>2, <1>3, <1>4 DEF Preflight, TypeOK
  <1>6. /\ n.completed = m.completed /\ n.pending = m.pending
        /\ n.baseline = (IF m.baseline = None THEN items ELSE m.baseline)
    BY <1>3, <1>4 DEF Evidence
  <1>7. Agrees(m, receipt.evidence) /\ Bounded(m) /\ Known(m) /\ Unedited /\ IInv
    BY <1>1, <1>2, <1>3 DEF RunInv, RunKnown, ResultsInv
  <1>8. n.baseline # None
    BY <1>3, <1>6, NoneFacts DEF TypeOK
  <1>9. ASSUME edits = 0 PROVE n.baseline = 0
    <2>1. CASE m.baseline = None
      <3>1. m.completed = 0 /\ ~m.pending
        BY <1>3, <1>7, <2>1, BundleFacts DEF Known
      <3>2. Marked(receipt.evidence) = 0
        BY <1>7, <3>1 DEF Agrees, Marked
      <3>3. items = 0
        BY <1>7, <1>9, <3>2, NothingYet
      <3> QED
        BY <1>6, <2>1, <3>3
    <2>2. CASE m.baseline # None
      BY <1>6, <1>7, <1>9, <2>2 DEF Known
    <2> QED
      BY <2>1, <2>2
  <1>10. Known(n)
    BY <1>6, <1>7, <1>8, <1>9 DEF Known
  <1>11. Known(n)' /\ Unedited' /\ Known(receipt.evidence)'
    BY <1>5, <1>7, <1>10, BoardSame DEF ResultsInv
  <1>12. pc'[p] \in {"fail", "operation", "readback"}
           /\ (pc'[p] = "readback" =>
                 PreflightAccepted(m) /\ ReconcilePending(m) /\ Kind(m.completed + 1) # "comment")
    BY <1>2, <1>3 DEF Preflight, Goto, TypeOK
  <1>13. ASSUME pc'[p] = "readback"
         PROVE  Backed(n.completed + 1)' /\ Own(n.completed + 1)'
    <2>1. ReconcilePending(m) /\ m.pending
      BY <1>12, <1>13 DEF ReconcilePending
    <2>2. m.baseline # None
      BY <1>7, <2>1 DEF Known
    <2>3. Candidates(m) = 1
      BY <1>12, <1>13, <2>2 DEF PreflightAccepted
    <2>4. Backed(m.completed + 1) /\ Own(m.completed + 1)
      BY <1>3, <1>7, <2>1, <2>3, Found
    <2> QED
      BY <1>5, <1>6, <2>4, BoardSame
  <1>14. RunKnown(p)'
    BY <1>5, <1>8, <1>11, <1>12, <1>13 DEF RunKnown
  <1> QED
    BY <1>3, <1>5, <1>11, <1>14, OnlyRunKnows DEF ResultsInv

(* A run that writes the receipt n: what n says of the board is right.     *)
LEMMA CheckpointKnows ==
  ASSUME ResultsInv, IInv', NEW p \in Procs, NEW n \in Evidence, pc[p] # "idle",
         NEW next \in {"call", "operation"}, Checkpoint(p, n, "in_progress", next),
         UNCHANGED <<board, holder>>, Known(n), n.baseline # None
  PROVE  ResultsInv'
  <1>1. holder = p /\ TypeOK
    BY RunFacts
  <1>2. memory'[p] = n /\ pc'[p] \in {next, "fail"}
          /\ (receipt' = receipt \/ receipt' = [state |-> "in_progress", evidence |-> n])
    BY <1>1 DEF Checkpoint, Goto, TypeOK
  <1>3. Known(n)' /\ Unedited'
    BY BoardSame DEF ResultsInv
  <1>4. Known(receipt.evidence)'
          /\ (receipt'.state \in {"none", "complete"} => ~receipt'.evidence.pending)
    <2>1. CASE receipt' = receipt
      BY <2>1, BoardSame DEF ResultsInv
    <2>2. CASE receipt' = [state |-> "in_progress", evidence |-> n]
      BY <1>3, <2>2 DEF Known
    <2> QED
      BY <1>2, <2>1, <2>2
  <1>5. RunKnown(p)'
    BY <1>2, <1>3 DEF RunKnown
  <1> QED
    BY <1>1, <1>3, <1>4, <1>5, OnlyRunKnows

(* An operation is announced, or counted as verified.                      *)
LEMMA WritesKnow ==
  ASSUME ResultsInv, IInv', NEW p \in Procs, Announce(p) \/ Verify(p)
  PROVE  ResultsInv'
  <1> DEFINE m == memory[p]
  <1>1. pc[p] \in {"operation", "readback"} /\ pc[p] # "idle" /\ UNCHANGED <<board, holder>>
    BY DEF Announce, HasNext, Verify
  <1>2. RunInv(p) /\ RunKnown(p) /\ m \in Evidence
    BY <1>1, RunFacts
  <1>3. Known(m) /\ m.baseline # None
    BY <1>1, <1>2 DEF RunKnown
  <1>4. CASE Announce(p)
    <2> DEFINE n == [m EXCEPT !.pending = TRUE]
    <2>1. n \in Evidence /\ n.completed = m.completed /\ n.baseline = m.baseline
      BY <1>2 DEF Evidence
    <2>2. Checkpoint(p, n, "in_progress", "call")
      BY <1>4 DEF Announce
    <2> HIDE DEF n
    <2>3. Known(n)
      BY <1>3, <2>1 DEF Known
    <2> QED
      BY <1>1, <1>3, <2>1, <2>2, <2>3, CheckpointKnows
  <1>5. CASE Verify(p)
    <2> DEFINE n == [m EXCEPT !.completed = @ + 1, !.pending = FALSE]
    <2>1. pc[p] = "readback" /\ Checkpoint(p, n, "in_progress", "operation")
      BY <1>5 DEF Verify
    <2>2. m.completed < Len(Bundle)
      BY <1>2, <2>1 DEF RunInv
    <2>3. n \in Evidence
      BY <1>2, <2>2, EvidenceUpdates
    <2>4. n.completed = m.completed + 1 /\ n.baseline = m.baseline
      BY <1>2 DEF Evidence
    <2> HIDE DEF n
    <2>5. Backed(n.completed) /\ Own(n.completed)
      BY <1>2, <2>1, <2>4 DEF RunKnown
    <2>6. Known(n)
      BY <1>3, <2>4, <2>5 DEF Known
    <2> QED
      BY <1>1, <1>3, <2>1, <2>3, <2>4, <2>6, CheckpointKnows
  <1> QED
    BY <1>4, <1>5

(* A call adds the item of the announced operation.                        *)
LEMMA CallKnows ==
  ASSUME ResultsInv, IInv', NEW p \in Procs, Call(p)
  PROVE  ResultsInv'
  <1>1. pc[p] = "call" /\ pc[p] # "idle"
    BY DEF Call
  <1>2. PICK m : m = memory[p]
    OBVIOUS
  <1>3. /\ holder = p /\ RunInv(p) /\ RunKnown(p)
        /\ TypeOK /\ m \in Evidence /\ receipt.evidence \in Evidence
    BY <1>1, <1>2, RunFacts
  <1>4. PICK n : n = m.completed
    OBVIOUS
  <1>5. /\ m.pending /\ ~Happened(n + 1) /\ Bounded(m)
        /\ Known(m) /\ m.baseline # None
    BY <1>1, <1>2, <1>3, <1>4 DEF RunInv, RunKnown
  <1>6. n \in Nat /\ n + 1 \in Ops /\ n \in 0..Len(Bundle)
    BY <1>3, <1>4, <1>5, BundleFacts DEF Bounded, Evidence
  <1>7. made[n + 1] = 0
    BY <1>3, <1>5, <1>6 DEF Happened, TypeOK
  <1>8. Backed(n) /\ Own(n)
    BY <1>4, <1>5 DEF Known
  <1>9. /\ UNCHANGED <<foreign, edits, receipt, holder>>
        /\ \/ UNCHANGED <<made, items>> /\ pc'[p] = "fail"
           \/ made' = [made EXCEPT ![n + 1] = @ + 1] /\ items' = items + Delta[n + 1]
                /\ pc'[p] \in {"readback", "fail"}
    BY <1>2, <1>3, <1>4 DEF Call, Upcoming, Goto, TypeOK
  <1>10. memory'[p].completed = n /\ memory'[p].baseline = m.baseline
           /\ memory'[p].pending = m.pending
    <2>1. memory'[p] = [m EXCEPT !.attempted = TRUE]
      BY <1>2, <1>3 DEF Call, TypeOK
    <2> QED
      BY <1>3, <1>4, <2>1 DEF Evidence
  <1>11. Grows
    BY <1>3, <1>6, <1>9, BoardGrows
  <1>12. TypeOK' /\ AtMostOnce'
    BY DEF IInv
  <1>13. Unedited'
    <2>1. CASE UNCHANGED <<made, items>>
      BY <1>9, <2>1 DEF ResultsInv, Unedited, Effect
    <2>2. CASE made' = [made EXCEPT ![n + 1] = @ + 1] /\ items' = items + Delta[n + 1]
      BY <1>3, <1>6, <1>7, <1>9, <2>2, EffectOne DEF ResultsInv
    <2> QED
      BY <1>9, <2>1, <2>2
  <1>14. Known(receipt.evidence)'
    <2>1. PICK e : e = receipt.evidence
      OBVIOUS
    <2>2. Known(e)'
      BY <1>3, <1>11, <1>12, <2>1, EvidenceStays DEF ResultsInv
    <2>3. receipt'.evidence = e
      BY <1>9, <2>1
    <2> QED
      BY <2>2, <2>3
  <1>15. Known(m)'
    BY <1>3, <1>5, <1>11, <1>12, EvidenceStays
  <1>16. ASSUME made' = [made EXCEPT ![n + 1] = @ + 1]
         PROVE  Backed(n + 1)' /\ Own(n + 1)'
    <2> DEFINE c == Content(n + 1)
    <2>1. made'[n + 1] = 1 /\ \A i \in Ops \ {n + 1} : made'[i] = made[i]
      BY <1>3, <1>6, <1>7, <1>16 DEF TypeOK
    <2>2. Own(n + 1)'
      <3> SUFFICES ASSUME edits' = 0, NEW i \in 1..(n + 1), Kind(i) # "read" PROVE made'[i] = 1
        BY DEF Own
      <3>1. CASE i = n + 1
        BY <2>1, <3>1
      <3>2. CASE i # n + 1
        <4>1. i \in 1..n /\ i \in Ops
          BY <1>6, <3>2, BundleFacts
        <4>2. made[i] = 1
          BY <1>8, <1>9, <4>1 DEF Own
        <4> QED
          BY <2>1, <3>2, <4>1, <4>2
      <3> QED
        BY <3>1, <3>2
    <2>3. ASSUME NEW d \in Contents
          PROVE  Cardinality(Verified(d, n + 1)) <= ItemsOf(d)'
      <3>1. /\ Cardinality(Verified(d, n + 1))
                 = Cardinality(Verified(d, n)) + (IF c = d THEN 1 ELSE 0)
            /\ Cardinality(Verified(d, n)) \in Nat
        BY <1>6, VerifiedNext, OpsFacts
      <3>2. ItemsOf(d) \in Nat /\ SumFunctionOnSet(made, Equal(d)) \in Nat /\ foreign[d] \in Nat
        BY <1>3, ItemsNat
      <3>3. Cardinality(Verified(d, n)) <= ItemsOf(d)
        BY <1>8 DEF Backed
      <3>4. IsFiniteSet(Equal(d)) /\ Equal(d) \subseteq Ops
        BY OpsFacts
      <3>5. \A i \in Equal(d) : made[i] \in Int /\ made'[i] \in Int /\ made[i] <= made'[i]
        BY <1>3, <1>12, <1>11, <3>4 DEF TypeOK, Grows
      <3>6. CASE c = d
        <4> DEFINE Q == Equal(d) \ {n + 1}
        <4>1. n + 1 \in Equal(d) /\ IsFiniteSet(Q)
          BY <1>6, <3>4, <3>6, FS_Subset DEF Equal
        <4>2. SumFunctionOnSet(made, Equal(d)) = made[n + 1] + SumFunctionOnSet(made, Q)
          BY <3>4, <3>5, <4>1, SumRemove
        <4>3. SumFunctionOnSet(made', Equal(d)) = made'[n + 1] + SumFunctionOnSet(made', Q)
          BY <3>4, <3>5, <4>1, SumRemove
        <4>4. \A i \in Q : made'[i] = made[i]
          BY <2>1, <3>4
        <4>5. SumFunctionOnSet(made', Q) = SumFunctionOnSet(made, Q)
          BY <4>1, <4>4, SumSame
        <4>6. \A i \in Q : made[i] \in Int
          BY <3>5
        <4>7. SumFunctionOnSet(made, Q) \in Int
          BY <4>1, <4>6, SumInt
        <4> HIDE DEF Q
        <4>8. SumFunctionOnSet(made', Equal(d)) = SumFunctionOnSet(made, Equal(d)) + 1
          BY <1>7, <2>1, <4>2, <4>3, <4>5, <4>7
        <4>9. ItemsOf(d)' = ItemsOf(d) + 1
          BY <1>9, <3>2, <4>8 DEF ItemsOf
        <4> HIDE DEF c
        <4> QED
          BY <3>1, <3>2, <3>3, <3>6, <4>9
      <3>7. CASE c # d
        <4>1. SumFunctionOnSet(made, Equal(d)) <= SumFunctionOnSet(made', Equal(d))
          BY <3>4, <3>5, SumMono
        <4>2. SumFunctionOnSet(made', Equal(d)) \in Int
          BY <3>4, <3>5, SumInt
        <4>3. ItemsOf(d)' >= ItemsOf(d) /\ ItemsOf(d)' \in Int
          BY <1>9, <3>2, <4>1, <4>2 DEF ItemsOf
        <4> HIDE DEF c
        <4> QED
          BY <3>1, <3>2, <3>3, <3>7, <4>3
      <3> QED
        BY <3>6, <3>7
    <2> QED
      BY <2>2, <2>3 DEF Backed
  <1>17. RunKnown(p)'
    <2>1. Known(memory[p])'
      BY <1>4, <1>10, <1>15 DEF Known
    <2>2. pc'[p] \in {"readback", "fail"} /\ memory'[p].baseline # None
      BY <1>5, <1>9, <1>10
    <2>3. pc'[p] = "readback" => Backed(n + 1)' /\ Own(n + 1)'
      BY <1>9, <1>16
    <2> QED
      BY <1>10, <2>1, <2>2, <2>3 DEF RunKnown
  <1> QED
    BY <1>3, <1>9, <1>13, <1>14, <1>17, OnlyRunKnows DEF ResultsInv

(* The receipt that ends a run, and a kill.                                *)
LEMMA EndsKnow ==
  ASSUME ResultsInv, IInv', NEW p \in Procs, Succeed(p) \/ WriteFailure(p) \/ Crash(p)
  PROVE  ResultsInv'
  <1>1. pc[p] # "idle" /\ UNCHANGED <<board, memory>>
    BY DEF Succeed, WriteFailure, Crash
  <1>2. PICK m : m = memory[p]
    OBVIOUS
  <1>3. holder = p /\ RunKnown(p) /\ TypeOK /\ Known(m)
    BY <1>1, <1>2, RunFacts DEF RunKnown
  <1>4. Known(m)' /\ Unedited'
    BY <1>1, <1>3, BoardSame DEF ResultsInv
  <1>5. \/ receipt' = receipt
        \/ receipt' = [state |-> "complete", evidence |-> m] /\ pc[p] = "postflight"
        \/ receipt' = [state |-> "failed", evidence |-> m]
    BY <1>2 DEF Succeed, WriteFailure, Crash
  <1>6. Known(receipt.evidence)'
          /\ (receipt'.state \in {"none", "complete"} => ~receipt'.evidence.pending)
    <2>1. CASE receipt' = receipt
      <3>1. PICK e : e = receipt.evidence
        OBVIOUS
      <3>2. Known(e)' /\ receipt'.evidence = e
        BY <1>1, <2>1, <3>1, BoardSame DEF ResultsInv
      <3> QED
        BY <2>1, <3>2 DEF ResultsInv
    <2>2. CASE receipt' = [state |-> "complete", evidence |-> m] /\ pc[p] = "postflight"
      <3>1. receipt'.evidence = m /\ ~m.pending
        BY <1>2, <1>3, <2>2 DEF RunKnown
      <3> QED
        BY <1>4, <3>1
    <2>3. CASE receipt' = [state |-> "failed", evidence |-> m]
      <3>1. receipt'.evidence = m /\ receipt'.state = "failed"
        BY <2>3
      <3> QED
        BY <1>4, <3>1
    <2> QED
      BY <1>5, <2>1, <2>2, <2>3
  <1>7. pc'[p] \in {"idle", "fail"} /\ holder' \in {p, None}
    BY <1>3 DEF Succeed, WriteFailure, Crash, Goto, TypeOK, Release
  <1>8. RunKnown(p)'
    <2>1. memory'[p] = m
      BY <1>1, <1>2
    <2> QED
      BY <1>4, <1>7, <2>1 DEF RunKnown
  <1> QED
    BY <1>4, <1>6, <1>7, <1>8, OnlyRunKnows

(* A run starts from what the receipt says.                                *)
LEMMA StartsKnow ==
  ASSUME ResultsInv, IInv', NEW p \in Procs, Fresh(p) \/ Resume(p)
  PROVE  ResultsInv'
  <1>1. TypeOK /\ receipt.evidence \in Evidence /\ Unedited /\ Known(receipt.evidence)
    BY DEF ResultsInv, IInv, TypeOK
  <1>2. PICK e : e = receipt.evidence
    OBVIOUS
  <1>3. UNCHANGED <<board, receipt>> /\ holder' = p /\ pc'[p] = "preflight"
    BY <1>1 DEF Fresh, Resume, Launch, TypeOK
  <1>4. Known(e)' /\ Unedited' /\ receipt'.evidence = e
    BY <1>1, <1>2, <1>3, BoardSame
  <1>5. Known(memory[p])'
    <2>1. CASE Fresh(p)
      <3>1. memory'[p] = NoEvidence
        BY <1>1, <2>1 DEF Fresh, Launch, TypeOK
      <3>2. \A c \in Contents : Cardinality(Verified(c, 0)) <= ItemsOf(c)
        <4> TAKE c \in Contents
        <4>1. Verified(c, 0) = {}
          BY OpsFacts DEF Verified, Equal
        <4>2. ItemsOf(c) \in Nat
          BY <1>1, ItemsNat
        <4> QED
          BY <4>1, <4>2, FS_EmptySet
      <3>3. Backed(0) /\ Own(0)
        BY <3>2 DEF Backed, Own
      <3>4. Backed(0)' /\ Own(0)'
        BY <1>3, <3>3, BoardSame
      <3> QED
        BY <3>1, <3>4 DEF Known, NoEvidence
    <2>2. CASE Resume(p)
      <3>1. memory'[p] = [e EXCEPT !.attempted = @ \/ e.completed > 0]
        BY <1>1, <1>2, <2>2 DEF Resume, Launch, TypeOK
      <3>2. /\ memory'[p].completed = e.completed /\ memory'[p].pending = e.pending
            /\ memory'[p].baseline = e.baseline
        BY <1>1, <1>2, <3>1 DEF Evidence
      <3> QED
        BY <1>4, <3>2 DEF Known
    <2> QED
      BY <2>1, <2>2
  <1>6. RunKnown(p)'
    BY <1>3, <1>5 DEF RunKnown
  <1> QED
    BY <1>1, <1>3, <1>4, <1>6, OnlyRunKnows DEF ResultsInv

(* What runs know stays so when the board grows without them.              *)
LEMMA OthersKnow ==
  ASSUME ResultsInv, IInv', Grows, Unedited', UNCHANGED <<receipt, holder, pc, memory>>
  PROVE  ResultsInv'
  <1>1. TypeOK /\ TypeOK' /\ AtMostOnce' /\ receipt.evidence \in Evidence
    BY DEF ResultsInv, IInv, TypeOK
  <1>2. Known(receipt.evidence)'
    <2>1. PICK e : e = receipt.evidence
      OBVIOUS
    <2>2. Known(e)'
      BY <1>1, <2>1, EvidenceStays DEF ResultsInv
    <2> QED
      BY <2>1, <2>2
  <1>3. ASSUME NEW p \in Procs, holder = p PROVE RunKnown(p)'
    <2>1. PICK m : m = memory[p]
      OBVIOUS
    <2>2. PICK n : n = m.completed + 1
      OBVIOUS
    <2>3. RunKnown(p) /\ RunInv(p) /\ m \in Evidence
      BY <1>1, <1>3, <2>1 DEF ResultsInv, IInv, TypeOK
    <2>4. Known(m)'
      BY <1>1, <2>1, <2>3, EvidenceStays DEF RunKnown
    <2>5. ASSUME pc[p] = "readback" PROVE Backed(n)' /\ Own(n)'
      <3>1. n \in 0..Len(Bundle)
        BY <2>1, <2>2, <2>3, <2>5, BundleFacts DEF RunInv, Evidence
      <3>2. Backed(n) /\ Own(n)
        BY <2>1, <2>2, <2>3, <2>5 DEF RunKnown
      <3> QED
        BY <1>1, <3>1, <3>2, KnownStays
    <2>6. memory'[p] = m /\ pc'[p] = pc[p]
      BY <2>1
    <2> QED
      BY <2>1, <2>2, <2>3, <2>4, <2>5, <2>6 DEF RunKnown
  <1> QED
    BY <1>2, <1>3 DEF ResultsInv

(* A call that takes effect late, and other people's edits.                *)
LEMMA OutsideKnows ==
  ASSUME ResultsInv, IInv', (\E i \in Ops : TakeEffect(i)) \/ Edit
  PROVE  ResultsInv'
  <1>1. TypeOK /\ AtMostOnce
    BY DEF ResultsInv, IInv
  <1>2. CASE \E i \in Ops : TakeEffect(i)
    <2>1. PICK i \in Ops : TakeEffect(i)
      BY <1>2
    <2>2. /\ made[i] = 0 /\ made' = [made EXCEPT ![i] = @ + 1] /\ items' = items + Delta[i]
          /\ UNCHANGED <<foreign, edits, receipt, holder, pc, memory>>
      BY <1>1, <2>1 DEF TakeEffect, AtMostOnce
    <2>3. Grows
      BY <1>1, <2>2, BoardGrows
    <2>4. Unedited'
      BY <1>1, <2>2, EffectOne DEF ResultsInv
    <2> QED
      BY <2>2, <2>3, <2>4, OthersKnow
  <1>3. CASE Edit
    <2>1. edits \in Nat /\ edits' = edits + 1
      BY <1>1, <1>3, BoundAssumption DEF Edit, TypeOK
    <2>2. Unedited'
      BY <2>1 DEF Unedited
    <2>3. UNCHANGED <<made, receipt, holder, pc, memory>>
      BY <1>3 DEF Edit
    <2>4. \A c \in Contents : foreign[c] \in Nat /\ foreign'[c] >= foreign[c]
      BY <1>1, <1>3 DEF Edit, TypeOK
    <2>5. \A i \in Ops : made'[i] >= made[i]
      BY <1>1, <2>3 DEF TypeOK
    <2>6. Grows
      BY <2>1, <2>4, <2>5 DEF Grows
    <2> QED
      BY <1>3, <2>2, <2>3, <2>6, OthersKnow
  <1> QED
    BY <1>2, <1>3

(* At first nothing is on record.                                          *)
LEMMA InitKnows == Init => ResultsInv
  <1> SUFFICES ASSUME Init PROVE ResultsInv
    OBVIOUS
  <1>1. IInv /\ TypeOK
    BY InitIInv DEF IInv
  <1>2. Unedited
    <2>1. \A i \in Ops : Effect[i] = 0
      BY DEF Init, Effect
    <2>2. SumFunctionOnSet(Effect, Ops) = 0
      BY <2>1, OpsFacts, SumZeros
    <2> QED
      BY <2>2 DEF Init, Unedited
  <1>3. Known(receipt.evidence)
    <2>1. \A c \in Contents : Cardinality(Verified(c, 0)) <= ItemsOf(c)
      <3> TAKE c \in Contents
      <3>1. Verified(c, 0) = {}
        BY OpsFacts DEF Verified, Equal
      <3>2. ItemsOf(c) \in Nat
        BY <1>1, ItemsNat
      <3> QED
        BY <3>1, <3>2, FS_EmptySet
    <2> QED
      BY <2>1 DEF Init, Known, NoEvidence, Backed, Own
  <1>4. \A p \in Procs : holder # p
    BY NoneFacts DEF Init
  <1> QED
    BY <1>1, <1>2, <1>3, <1>4 DEF ResultsInv, Init, NoEvidence

(* If the pending operation was made, and nobody else edited the board, it *)
(* is the only candidate, and the number of items is as expected.          *)
LEMMA PendingIsFound == CommentsDiffer /\ ResultsInv => ResultsFound
  <1> SUFFICES ASSUME CommentsDiffer, ResultsInv PROVE ResultsFound
    OBVIOUS
  <1>1. PICK e : e = receipt.evidence
    OBVIOUS
  <1>2. PICK n : n = e.completed
    OBVIOUS
  <1>3. TypeOK /\ IInv /\ Unedited /\ Known(e) /\ e \in Evidence /\ Bounded(e)
          /\ n \in Nat /\ receipt.state \in States
    BY <1>1, <1>2, BundleFacts DEF ResultsInv, IInv, TypeOK, Evidence
  <1>4. VerifiedBacked
    BY <1>1, <1>2, <1>3 DEF VerifiedBacked, Known, Backed, Verified
  <1>5. ASSUME holder = None, edits = 0, ~SearchOnly, ReconcilePending(e), made[n + 1] = 1
        PROVE  Resumable /\ PreflightAccepted(e) /\ Candidates(e) = 1
    <2> DEFINE c == Content(n + 1)
    <2>1. e.pending /\ n + 1 \in Ops /\ Kind(n + 1) \in Reconcilable
      BY <1>2, <1>3, <1>5, BundleFacts DEF ReconcilePending, Bounded
    <2>2. e.baseline = 0
      BY <1>3, <1>5, <2>1 DEF Known
    <2>3. Resumable
      <3>1. receipt.state \notin {"none", "complete"}
        BY <1>1, <2>1 DEF ResultsInv
      <3>2. receipt.state \in {"in_progress", "failed"}
        BY <1>3, <3>1 DEF States
      <3> QED
        BY <1>1, <1>2, <1>5, <2>1, <2>2, <3>2, NoneFacts DEF Resumable
    <2>4. Settled(n)
      <3>1. Marked(receipt.evidence) = n + 1
        BY <1>1, <1>2, <2>1 DEF Marked
      <3>2. \A i \in Ops : i > n + 1 => made[i] = 0
        BY <1>3, <2>1, <3>1, NothingPast
      <3> QED
        BY <1>2, <1>3, <1>5, <2>1, <3>2 DEF Settled, Known
    <2>5. c \in Contents
      BY <2>1, ContentKinds
    <2>6. Candidates(e) = 1
      <3>1. SumFunctionOnSet(made, Equal(c)) = Cardinality(Verified(c, n)) + 1
        BY <1>3, <1>5, <2>1, <2>4, OwnItems
      <3>2. foreign[c] = 0 /\ Cardinality(Verified(c, n)) \in Nat
        BY <1>3, <1>5, <2>5, OpsFacts DEF Unedited
      <3>3. ItemsOf(c) = Cardinality(Verified(c, n)) + 1
        BY <3>1, <3>2 DEF ItemsOf
      <3>4. Candidates(e) = ItemsOf(c) - Cardinality(Verified(c, n))
        BY <1>2, <1>3, <2>1, CandidatesAre
      <3> QED
        BY <3>2, <3>3, <3>4
    <2>7. InventoryAccepted(e)
      <3>1. items = ExpectedDelta(n) + Delta[n + 1]
        BY <1>3, <1>5, <2>4, OwnEffect DEF Unedited
      <3>2. Delta[n + 1] \in {0, 1} /\ (Kind(n + 1) = "canvas" => Delta[n + 1] = 1)
        BY <2>1 DEF Delta, Reconcilable
      <3>3. ExpectedDelta(n) \in Int
        <4>1. IsFiniteSet(1..n)
          BY <1>3, FS_Interval
        <4>2. 1..n \subseteq Ops
          BY <1>3, <2>1, BundleFacts
        <4>3. \A i \in 1..n : Delta[i] \in Int
          BY <4>2, BundleFacts
        <4> QED
          BY <4>1, <4>3, SumInt DEF ExpectedDelta
      <3>4. items - e.baseline - ExpectedDelta(n) = Delta[n + 1]
        BY <2>2, <3>1, <3>2, <3>3
      <3> QED
        BY <1>2, <3>2, <3>4 DEF InventoryAccepted
    <2> QED
      BY <2>3, <2>6, <2>7 DEF PreflightAccepted
  <1> QED
    BY <1>1, <1>2, <1>4, <1>5 DEF ResultsFound, Recoverable

(* Reconciliation finds what an operation has made and nothing else, for   *)
(* every bundle without two equal comments, whatever fails, is killed,     *)
(* resumed or takes effect late: no item is taken for the result of two    *)
(* operations, and on a board that nobody else edits the pending           *)
(* document, diagram or comment, if it was made, is found.                 *)
THEOREM ResultsAreFound == CommentsDiffer => (Spec => []ResultsFound)
  <1> SUFFICES ASSUME CommentsDiffer PROVE Spec => []ResultsFound
    OBVIOUS
  <1>1. ASSUME ResultsInv, IInv', [Next]_vars PROVE ResultsInv'
    <2>1. CASE UNCHANGED vars
      <3>1. UNCHANGED <<board, receipt, holder, pc, memory>>
        BY <2>1 DEF vars
      <3>2. UNCHANGED <<made, foreign, edits>> /\ TypeOK
        BY <1>1, <3>1 DEF board, ResultsInv, IInv
      <3>3. Grows
        BY <3>2, BoardGrows
      <3>4. Unedited /\ UNCHANGED board
        BY <1>1, <3>1 DEF ResultsInv
      <3>5. Unedited'
        BY <3>4, BoardSame
      <3> QED
        BY <1>1, <3>1, <3>3, <3>5, OthersKnow
    <2>2. CASE \E p \in Procs : RunStep(p)
      BY <1>1, <2>2, ReadsKnow, PreflightKnows, WritesKnow, CallKnows, EndsKnow DEF RunStep
    <2> QED
      BY <1>1, <2>1, <2>2, StartsKnow, ReadsKnow, EndsKnow, OutsideKnows DEF Next
  <1>2. ResultsInv => ResultsFound
    BY PendingIsFound
  <1> QED
    BY <1>1, <1>2, InitKnows, ExecutorInvariance, PTL DEF Spec
=============================================================================
