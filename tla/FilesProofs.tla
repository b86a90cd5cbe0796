------------------------------ MODULE FilesProofs ------------------------------
(***************************************************************************)
(* Theorems about components that work on files: live tests and their      *)
(* index (LiveTests), the output of a package (PackageOutput), the         *)
(* decisions of the Fundus (Fundus), what the receipts about a managed     *)
(* region prove (RegionReceipts), what a live operation is begun with      *)
(* (LiveOrders), and what the promise of ManagedTransaction means for a    *)
(* reader of its journal.                                                  *)
(***************************************************************************)
EXTENDS LiveTests, PackageOutput, Fundus, LiveOrders, ManagedTransaction,
        FiniteSetTheorems, SequenceTheorems, TLAPS

-----------------------------------------------------------------------------
(* Live tests. *)

TestShots == [board : Nat, items : [ItemTypes -> Nat]]
TestReceipts == [board : Nat, before : TestShots, after : TestShots]
TestFolders ==
  [made : BOOLEAN, before : TestShots, after : TestShots, receipt : TestReceipts]
TestRecords == [alias : Aliases, place : Places, when : Nat, shared : BOOLEAN]

BoundSteps == {"before", "layout", "after", "readback", "receipt"}
TestCommands ==
  [step : {"create", "bind"} \cup BoundSteps, board : Nat, alias : Aliases,
   place : Places, mode : Modes]

TestsTyped ==
  /\ boards \in Seq([ItemTypes -> Nat])
  /\ listed \in [Aliases -> 0..Len(boards)]
  /\ outputs \in [Places -> TestFolders]
  /\ retired \subseteq TestFolders
  /\ tests \subseteq TestRecords /\ IsFiniteSet(tests)
  /\ begun \in Nat

Vouched(folder) ==
  folder.receipt.board # 0 =>
    /\ folder.receipt.board \in 1..Len(boards)
    /\ Conforms(boards[folder.receipt.board])

(* Records are of different commands, and one is shared if an older one    *)
(* has its directory.                                                      *)
IndexOrdered ==
  /\ \A r \in tests : r.when <= begun
  /\ \A r, s \in tests : r.when = s.when => r = s
  /\ \A r, s \in tests : r.place = s.place /\ s.when < r.when => r.shared

(* What is known of the command under way.                                 *)
TestUnderWay ==
  /\ test.step \in {"bind"} \cup BoundSteps => listed[test.alias] # 0
  /\ test.step \in BoundSteps => test.board = listed[test.alias]
  /\ test.step \in {"create", "bind", "before", "layout", "after", "readback"} =>
       \A r \in tests : r.when < begun
  /\ test.step = "readback" =>
       outputs[test.place].after = [board |-> test.board, items |-> boards[test.board]]
  /\ test.step = "receipt" => Conforms(boards[test.board])

CommandTyped ==
  \/ test = NoTest
  \/ test \in TestCommands
  \/ test \in [step : {"retire"}, todo : SUBSET PrunedRecords]
  \/ test \in [step : {"forget"}, todo : SUBSET AliasesToPrune]

TestInv ==
  /\ TestsTyped
  /\ CommandTyped
  /\ \A d \in Places : Vouched(outputs[d])
  /\ \A folder \in retired : Vouched(folder)
  /\ IndexOrdered
  /\ TestUnderWay
  /\ KeptUsable

(* A new record keeps none that was not kept before, and a prune prunes    *)
(* only what is older than all that it keeps.                              *)
LEMMA KeptOnlyShrinks ==
  ASSUME TestsTyped, TestsTyped', tests \subseteq tests'
  PROVE  KeptRecords' \cap tests \subseteq KeptRecords
<1> SUFFICES ASSUME NEW r \in tests, r \in KeptRecords' PROVE r \in KeptRecords
  OBVIOUS
<1>1. NewerThan(r) \subseteq NewerThan(r)' /\ IsFiniteSet(NewerThan(r)')
  <2>1. NewerThan(r)' \subseteq tests' /\ IsFiniteSet(tests')
    BY DEF NewerThan, TestsTyped
  <2> QED
    BY <2>1, FS_Subset DEF NewerThan
<1>2. /\ Cardinality(NewerThan(r)) <= Cardinality(NewerThan(r)')
      /\ Cardinality(NewerThan(r)) \in Nat /\ Cardinality(NewerThan(r)') \in Nat
  BY <1>1, FS_Subset, FS_CardinalityType
<1>3. Cardinality(NewerThan(r)') < KeepTests
  BY DEF KeptRecords
<1> QED
  BY <1>2, <1>3, TestAssumption DEF KeptRecords

LEMMA PrunedAreOlder ==
  ASSUME TestsTyped, IndexOrdered, NEW r \in PrunedRecords, NEW s \in KeptRecords
  PROVE  r.when < s.when
<1>1. /\ r \in tests /\ s \in tests /\ r # s
      /\ r.when \in Nat /\ s.when \in Nat
      /\ ~(Cardinality(NewerThan(r)) < KeepTests)
      /\ Cardinality(NewerThan(s)) < KeepTests
  BY DEF PrunedRecords, KeptRecords, TestsTyped, TestRecords
<1>2. ASSUME s.when < r.when PROVE FALSE
  <2>1. NewerThan(r) \subseteq NewerThan(s) /\ IsFiniteSet(NewerThan(s))
    <3>1. NewerThan(s) \subseteq tests
      BY DEF NewerThan
    <3>2. \A x \in tests : x.when \in Nat
      BY DEF TestsTyped, TestRecords
    <3> QED
      BY <1>1, <1>2, <3>1, <3>2, FS_Subset DEF NewerThan, TestsTyped
  <2>2. /\ Cardinality(NewerThan(r)) <= Cardinality(NewerThan(s))
        /\ Cardinality(NewerThan(r)) \in Nat /\ Cardinality(NewerThan(s)) \in Nat
    BY <2>1, FS_Subset, FS_CardinalityType
  <2> QED
    BY <1>1, <2>2, TestAssumption
<1>3. r.when # s.when
  BY <1>1 DEF IndexOrdered
<1> QED
  BY <1>1, <1>2, <1>3

(* A test that is under way is typed.                                      *)
LEMMA TestIsTyped ==
  ASSUME CommandTyped, test.step \in {"create", "bind"} \cup BoundSteps
  PROVE  test \in TestCommands
BY DEF CommandTyped, NoTest, BoundSteps

LEMMA BoundIsListed ==
  ASSUME TestsTyped, CommandTyped, TestUnderWay, test.step \in BoundSteps
  PROVE  /\ test \in TestCommands
         /\ test.board = listed[test.alias] /\ test.board \in 1..Len(boards)
         /\ boards[test.board] \in [ItemTypes -> Nat]
         /\ Shot \in TestShots
<1>1. test \in TestCommands
  BY TestIsTyped
<1>2. test.alias \in Aliases /\ test.board = listed[test.alias] /\ listed[test.alias] # 0
  BY <1>1 DEF TestCommands, TestUnderWay
<1>3. test.board \in 1..Len(boards)
  BY <1>2 DEF TestsTyped
<1>4. boards[test.board] \in [ItemTypes -> Nat]
  BY <1>3 DEF TestsTyped
<1> QED
  BY <1>1, <1>2, <1>3, <1>4 DEF Shot, TestShots

(* Boards stay, and what is on them stays.                                 *)
BoardsGrow ==
  /\ Len(boards) <= Len(boards')
  /\ \A i \in 1..Len(boards) : \A t \in ItemTypes : boards[i][t] <= boards'[i][t]

LEMMA TypedStep ==
  ASSUME TestInv, TestNext
  PROVE  TestsTyped' /\ BoardsGrow
<1> USE DEF TestInv
<1>0. ASSUME boards' = boards PROVE BoardsGrow
  BY <1>0 DEF BoardsGrow, TestsTyped
<1>a. /\ NoShot \in TestShots /\ NoFolder \in TestFolders
      /\ NoItems \in [ItemTypes -> Nat]
  BY DEF NoShot, NoFolder, NoReceipt, NoItems, TestShots, TestFolders, TestReceipts
<1>b. \A d \in Places : outputs[d] \in TestFolders
  BY DEF TestsTyped
<1>1. ASSUME NEW alias \in Aliases, NEW where \in Places, NEW mode \in Modes,
             StartTest(alias, where, mode)
      PROVE  TestsTyped' /\ BoardsGrow
  <2>1. outputs' \in [Places -> TestFolders]
    BY <1>1, <1>b DEF StartTest, TestsTyped, TestFolders
  <2> QED
    BY <1>0, <1>1, <2>1 DEF StartTest, TestsTyped, BeginCommand
<1>2. CASE CreateBoard
  <2>1. test.alias \in Aliases
    BY <1>2, TestIsTyped DEF CreateBoard, TestCommands
  <2>2. /\ boards' \in Seq([ItemTypes -> Nat]) /\ Len(boards') = Len(boards) + 1
        /\ \A i \in 1..Len(boards) : boards'[i] = boards[i]
    BY <1>2, <1>a DEF CreateBoard, TestsTyped
  <2>3. listed' \in [Aliases -> 0..Len(boards')]
    BY <1>2, <2>1, <2>2 DEF CreateBoard, TestsTyped
  <2>4. BoardsGrow
    <3> SUFFICES ASSUME NEW i \in 1..Len(boards), NEW t \in ItemTypes
                 PROVE  boards[i][t] <= boards'[i][t]
      BY <2>2 DEF BoardsGrow, TestsTyped
    <3>1. boards[i] \in [ItemTypes -> Nat]
      BY DEF TestsTyped
    <3> QED
      BY <2>2, <3>1
  <2> QED
    BY <1>2, <2>2, <2>3, <2>4 DEF CreateBoard, TestsTyped
<1>3. CASE BindBoard
  BY <1>0, <1>3 DEF BindBoard, TestsTyped
<1>4. CASE SnapshotBefore
  <2>1. test.place \in Places /\ Shot \in TestShots
    BY <1>4, BoundIsListed DEF SnapshotBefore, BoundSteps, TestCommands
  <2>2. outputs' \in [Places -> TestFolders]
    BY <1>4, <1>b, <2>1 DEF SnapshotBefore, TestsTyped, TestFolders
  <2> QED
    BY <1>0, <1>4, <2>2 DEF SnapshotBefore, TestsTyped
<1>5. CASE CreateLayout
  <2> DEFINE b == listed[test.alias]
  <2>1. b \in 1..Len(boards) /\ boards[b] \in [ItemTypes -> Nat]
    BY <1>5, BoundIsListed DEF CreateLayout, BoundSteps
  <2>2. PICK created \in SUBSET ItemTypes :
          boards' = [boards EXCEPT ![b] =
                       [t \in ItemTypes |-> @[t] + (IF t \in created THEN 1 ELSE 0)]]
    BY <1>5 DEF CreateLayout
  <2> DEFINE new == [t \in ItemTypes |-> boards[b][t] + (IF t \in created THEN 1 ELSE 0)]
  <2>3. new \in [ItemTypes -> Nat] /\ \A t \in ItemTypes : boards[b][t] <= new[t]
    BY <2>1
  <2>4. boards' = [boards EXCEPT ![b] = new]
    BY <2>2
  <2> HIDE DEF new
  <2>5. boards' \in Seq([ItemTypes -> Nat]) /\ Len(boards') = Len(boards)
    BY <2>1, <2>3, <2>4 DEF TestsTyped
  <2>6. \A i \in 1..Len(boards) : boards'[i] = IF i = b THEN new ELSE boards[i]
    BY <2>1, <2>4 DEF TestsTyped
  <2>7. BoardsGrow
    <3> SUFFICES ASSUME NEW i \in 1..Len(boards), NEW t \in ItemTypes
                 PROVE  boards[i][t] <= boards'[i][t]
      BY <2>5 DEF BoardsGrow, TestsTyped
    <3>1. boards[i] \in [ItemTypes -> Nat] /\ boards[i][t] \in Nat
      BY DEF TestsTyped
    <3>2. CASE i = b
      <4>1. boards'[i][t] = new[t]
        BY <2>6, <3>2
      <4> QED
        BY <2>3, <3>2, <4>1
    <3>3. CASE i # b
      <4>1. boards'[i][t] = boards[i][t]
        BY <2>6, <3>3
      <4> QED
        BY <3>1, <4>1
    <3> QED
      BY <3>2, <3>3
  <2> QED
    BY <1>5, <2>5, <2>7 DEF CreateLayout, TestsTyped
<1>6. CASE SnapshotAfter
  <2>1. test.place \in Places /\ Shot \in TestShots
    BY <1>6, BoundIsListed DEF SnapshotAfter, BoundSteps, TestCommands
  <2>2. outputs' \in [Places -> TestFolders]
    BY <1>6, <1>b, <2>1 DEF SnapshotAfter, TestsTyped, TestFolders
  <2> QED
    BY <1>0, <1>6, <2>2 DEF SnapshotAfter, TestsTyped
<1>7. CASE ReadBack
  <2>1. test.alias \in Aliases /\ test.place \in Places
    BY <1>7, BoundIsListed DEF ReadBack, BoundSteps, TestCommands
  <2>2. Record \in TestRecords
    BY <2>1 DEF Record, TestRecords, TestsTyped
  <2>3. tests' \subseteq TestRecords /\ IsFiniteSet(tests')
    <3>1. tests' = tests \/ tests' = tests \cup {Record}
      BY <1>7 DEF ReadBack
    <3> QED
      BY <2>2, <3>1, FS_AddElement DEF TestsTyped
  <2> QED
    BY <1>0, <1>7, <2>3 DEF ReadBack, TestsTyped
<1>8. CASE WriteTestReceipt
  <2> DEFINE here == outputs[test.place]
             receipt == [board |-> test.board, before |-> here.before, after |-> here.after]
  <2>1. test.place \in Places /\ test.board \in Nat
    BY <1>8, BoundIsListed DEF WriteTestReceipt, BoundSteps, TestCommands
  <2>2. receipt \in TestReceipts
    BY <1>b, <2>1 DEF TestFolders, TestReceipts
  <2>3. outputs' = [outputs EXCEPT ![test.place].receipt = receipt]
    BY <1>8 DEF WriteTestReceipt
  <2> HIDE DEF receipt
  <2>4. outputs' \in [Places -> TestFolders]
    BY <1>b, <2>1, <2>2, <2>3 DEF TestsTyped, TestFolders
  <2> QED
    BY <1>0, <1>8, <2>4 DEF WriteTestReceipt, TestsTyped
<1>9. CASE AbandonCommand
  BY <1>0, <1>9 DEF AbandonCommand, TestsTyped
<1>10. CASE StartPrune
  BY <1>0, <1>10 DEF StartPrune, BeginCommand, TestsTyped
<1>11. CASE Retire
  <2>1. outputs' \in [Places -> TestFolders] /\ retired' \subseteq TestFolders
    <3>1. \/ UNCHANGED <<outputs, retired>>
          \/ \E r \in test.todo : /\ retired' = retired \cup {outputs[r.place]}
                                  /\ outputs' = [outputs EXCEPT ![r.place] = NoFolder]
      BY <1>11 DEF Retire
    <3>2. test.todo \subseteq TestRecords
      BY <1>11 DEF Retire, CommandTyped, NoTest, TestCommands, BoundSteps, PrunedRecords,
           TestsTyped
    <3> QED
      BY <1>a, <1>b, <3>1, <3>2 DEF TestsTyped, TestRecords
  <2> QED
    BY <1>0, <1>11, <2>1 DEF Retire, TestsTyped
<1>12. CASE RetireDone
  BY <1>0, <1>12 DEF RetireDone, TestsTyped
<1>13. CASE Forget
  <2>1. listed' \in [Aliases -> 0..Len(boards)]
    <3>1. 0 \in 0..Len(boards) /\ listed \in [Aliases -> 0..Len(boards)]
      BY DEF TestsTyped
    <3>2. PICK alias : listed' = [listed EXCEPT ![alias] = 0]
      BY <1>13 DEF Forget
    <3> QED
      BY <3>1, <3>2
  <2> QED
    BY <1>0, <1>13, <2>1 DEF Forget, TestsTyped
<1>14. CASE RewriteIndex
  <2>1. tests' \subseteq tests
    BY <1>14 DEF RewriteIndex, KeptRecords
  <2> QED
    BY <1>0, <1>14, <2>1, FS_Subset DEF RewriteIndex, TestsTyped
<1>15. ASSUME NEW alias \in Aliases, RemoveBoard(alias) PROVE TestsTyped' /\ BoardsGrow
  BY <1>0, <1>15 DEF RemoveBoard, BeginCommand, TestsTyped
<1>16. ASSUME NEW alias \in Aliases, NEW board \in DOMAIN boards, AddBoard(alias, board)
       PROVE  TestsTyped' /\ BoardsGrow
  BY <1>0, <1>16 DEF AddBoard, BeginCommand, TestsTyped
<1> QED
  BY <1>1, <1>2, <1>3, <1>4, <1>5, <1>6, <1>7, <1>8, <1>9, <1>10, <1>11, <1>12, <1>13,
     <1>14, <1>15, <1>16 DEF TestNext

LEMMA CommandStep ==
  ASSUME TestInv, TestNext
  PROVE  CommandTyped'
<1> USE DEF TestInv
<1>0. ASSUME tests' = tests PROVE PrunedRecords' = PrunedRecords /\ AliasesToPrune' = AliasesToPrune
  BY <1>0 DEF PrunedRecords, KeptRecords, NewerThan, AliasesToPrune, AliasesOf
<1>1. ASSUME NEW alias \in Aliases, NEW where \in Places, NEW mode \in Modes,
             StartTest(alias, where, mode)
      PROVE  CommandTyped'
  BY <1>1 DEF StartTest, CommandTyped, TestCommands, NoTest
<1>2. CASE CreateBoard \/ BindBoard \/ SnapshotBefore \/ CreateLayout \/ SnapshotAfter
           \/ ReadBack \/ WriteTestReceipt
  <2>1. test \in TestCommands
    BY <1>2, TestIsTyped DEF CreateBoard, BindBoard, SnapshotBefore, CreateLayout,
       SnapshotAfter, ReadBack, WriteTestReceipt, BoundSteps
  <2>2. \/ test' = NoTest
        \/ \E step \in {"bind"} \cup BoundSteps : TestAt(step)
        \/ \E step \in {"before", "after"} :
             test' = [test EXCEPT !.board = listed[test.alias], !.step = step]
    BY <1>2 DEF CreateBoard, BindBoard, SnapshotBefore, CreateLayout,
       SnapshotAfter, ReadBack, WriteTestReceipt, BoundSteps
  <2>3. listed[test.alias] \in Nat
    BY <2>1 DEF TestsTyped, TestCommands
  <2> QED
    BY <2>1, <2>2, <2>3 DEF CommandTyped, TestCommands, TestAt, BoundSteps
<1>3. CASE AbandonCommand \/ RewriteIndex
  BY <1>3 DEF AbandonCommand, RewriteIndex, CommandTyped
<1>4. CASE StartPrune
  BY <1>0, <1>4 DEF StartPrune, CommandTyped
<1>5. CASE Retire
  <2>1. test \in [step : {"retire"}, todo : SUBSET PrunedRecords]
    BY <1>5 DEF Retire, CommandTyped, NoTest, TestCommands, BoundSteps
  <2> QED
    BY <1>0, <1>5, <2>1 DEF Retire, CommandTyped
<1>6. CASE RetireDone
  BY <1>0, <1>6 DEF RetireDone, CommandTyped
<1>7. CASE Forget
  <2>1. test \in [step : {"forget"}, todo : SUBSET AliasesToPrune]
    BY <1>7 DEF Forget, CommandTyped, NoTest, TestCommands, BoundSteps
  <2> QED
    BY <1>0, <1>7, <2>1 DEF Forget, CommandTyped
<1>8. ASSUME NEW alias \in Aliases, RemoveBoard(alias) PROVE CommandTyped'
  BY <1>8 DEF RemoveBoard, BeginCommand, CommandTyped
<1>9. ASSUME NEW alias \in Aliases, NEW board, AddBoard(alias, board) PROVE CommandTyped'
  BY <1>9 DEF AddBoard, BeginCommand, CommandTyped
<1> QED
  BY <1>1, <1>2, <1>3, <1>4, <1>5, <1>6, <1>7, <1>8, <1>9 DEF TestNext

(* Only a receipt that is written is new; what it vouches for has been     *)
(* compared with the plan.                                                 *)
LEMMA VouchedStep ==
  ASSUME TestInv, TestNext
  PROVE  /\ \A d \in Places : Vouched(outputs[d])'
         /\ \A folder \in retired' : Vouched(folder)'
<1> USE DEF TestInv
<1>1. TestsTyped' /\ BoardsGrow
  BY TypedStep
<1>2. ASSUME NEW i \in 1..Len(boards), Conforms(boards[i])
      PROVE  i \in 1..Len(boards') /\ Conforms(boards'[i])
  <2>1. i \in 1..Len(boards') /\ Len(boards) \in Nat /\ Len(boards') \in Nat
    BY <1>1 DEF BoardsGrow, TestsTyped
  <2>2. boards[i] \in [ItemTypes -> Nat] /\ boards'[i] \in [ItemTypes -> Nat]
    BY <2>1, <1>1 DEF TestsTyped
  <2>3. \A t \in ItemTypes : boards[i][t] <= boards'[i][t]
    BY <1>1 DEF BoardsGrow
  <2> QED
    BY <1>2, <2>1, <2>2, <2>3 DEF Conforms
<1>3. ASSUME NEW folder, Vouched(folder)
      PROVE  folder.receipt.board # 0 => /\ folder.receipt.board \in 1..Len(boards')
                                         /\ Conforms(boards'[folder.receipt.board])
  BY <1>2, <1>3 DEF Vouched
<1> DEFINE Old(folder) == \/ \E d \in Places : folder.receipt = outputs[d].receipt
                          \/ folder \in retired
                          \/ folder.receipt.board = 0
           Backed(folder) == folder.receipt.board # 0 =>
                               /\ folder.receipt.board \in 1..Len(boards')
                               /\ Conforms(boards'[folder.receipt.board])
<1>4. ASSUME NEW folder, Old(folder) PROVE Backed(folder)
  BY <1>3, <1>4 DEF Vouched
<1>5. NoFolder.receipt.board = 0
  BY DEF NoFolder, NoReceipt
<1>b. \A d \in Places : outputs[d] \in TestFolders
  BY DEF TestsTyped
<1>6. SUFFICES /\ \A d \in Places : Backed(outputs'[d])
               /\ \A folder \in retired' : Backed(folder)
  BY DEF Vouched
<1>7. ASSUME /\ \A d \in Places : Old(outputs'[d])
             /\ \A folder \in retired' : Old(folder)
      PROVE  /\ \A d \in Places : Backed(outputs'[d])
             /\ \A folder \in retired' : Backed(folder)
  BY <1>4, <1>7
<1> HIDE DEF Backed
<1>8. CASE WriteTestReceipt
  <2> DEFINE here == outputs[test.place]
             receipt == [board |-> test.board, before |-> here.before, after |-> here.after]
  <2>1. test.place \in Places /\ test.board \in 1..Len(boards) /\ Conforms(boards[test.board])
    BY <1>8, BoundIsListed DEF WriteTestReceipt, BoundSteps, TestCommands, TestUnderWay
  <2>2. outputs' = [outputs EXCEPT ![test.place].receipt = receipt] /\ retired' = retired
    BY <1>8 DEF WriteTestReceipt
  <2>3. receipt.board = test.board
    OBVIOUS
  <2> HIDE DEF receipt
  <2>4. Backed(outputs'[test.place])
    <3>1. outputs'[test.place].receipt = receipt
      BY <1>b, <2>1, <2>2 DEF TestsTyped, TestFolders
    <3> QED
      BY <1>2, <2>1, <2>3, <3>1 DEF Backed
  <2>5. \A d \in Places \ {test.place} : Old(outputs'[d])
    BY <2>2 DEF TestsTyped
  <2> QED
    BY <1>4, <2>2, <2>4, <2>5
<1>9. CASE Retire
  <2>1. \/ UNCHANGED <<outputs, retired>>
        \/ \E r \in test.todo : /\ retired' = retired \cup {outputs[r.place]}
                                /\ outputs' = [outputs EXCEPT ![r.place] = NoFolder]
    BY <1>9 DEF Retire
  <2>2. test.todo \subseteq TestRecords
    BY <1>9 DEF Retire, CommandTyped, NoTest, TestCommands, BoundSteps, PrunedRecords,
         TestsTyped
  <2>3. /\ \A d \in Places : Old(outputs'[d])
        /\ \A folder \in retired' : Old(folder)
    BY <1>5, <2>1, <2>2 DEF TestsTyped, TestRecords
  <2> QED
    BY <1>7, <2>3
<1>10. ASSUME NEW alias \in Aliases, NEW where \in Places, NEW mode \in Modes,
              StartTest(alias, where, mode)
       PROVE  /\ \A d \in Places : Backed(outputs'[d])
              /\ \A folder \in retired' : Backed(folder)
  BY <1>b, <1>7, <1>10 DEF StartTest, TestsTyped, TestFolders
<1>11. CASE SnapshotBefore \/ SnapshotAfter
  <2>1. \A d \in Places : Old(outputs'[d])
    BY <1>b, <1>11 DEF SnapshotBefore, SnapshotAfter, TestsTyped, TestFolders
  <2> QED
    BY <1>7, <1>11, <2>1 DEF SnapshotBefore, SnapshotAfter
<1>12. CASE outputs' = outputs /\ retired' = retired
  BY <1>7, <1>12
<1> QED
  BY <1>8, <1>9, <1>10, <1>11, <1>12 DEF TestNext, CreateBoard, BindBoard, CreateLayout,
     ReadBack, AbandonCommand, StartPrune, RetireDone, Forget, RewriteIndex, RemoveBoard,
     AddBoard, BeginCommand

LEMMA OrderedStep ==
  ASSUME TestInv, TestNext
  PROVE  IndexOrdered'
<1> USE DEF TestInv
<1>1. /\ \A r \in tests : r.when \in Nat /\ r.when <= begun
      /\ begun \in Nat /\ begun' \in Nat /\ begun <= begun'
  <2>1. begun' = begun \/ begun' = begun + 1
    BY DEF TestNext, StartTest, CreateBoard, BindBoard, SnapshotBefore, CreateLayout,
       SnapshotAfter, ReadBack, WriteTestReceipt, AbandonCommand, StartPrune, Retire,
       RetireDone, Forget, RewriteIndex, RemoveBoard, AddBoard, BeginCommand
  <2> QED
    BY <2>1 DEF TestsTyped, TestRecords, IndexOrdered
<1>2. ASSUME tests' \subseteq tests PROVE IndexOrdered'
  <2>1. \A r \in tests' : r.when <= begun'
    BY <1>1, <1>2
  <2> QED
    BY <1>2, <2>1 DEF IndexOrdered
<1>3. ASSUME ReadBack, tests' = tests \cup {Record} PROVE IndexOrdered'
  <2>1. /\ Record.when = begun /\ begun' = begun
        /\ \A r \in tests : r.when < begun
        /\ \A r \in tests : r.place = Record.place => Record.shared
    BY <1>3 DEF ReadBack, TestUnderWay, Record
  <2>2. \A r \in tests' : r.when <= begun'
    BY <1>1, <1>3, <2>1
  <2>3. \A r, s \in tests' : r.when = s.when => r = s
    BY <1>1, <1>3, <2>1 DEF IndexOrdered
  <2>4. \A r, s \in tests' : r.place = s.place /\ s.when < r.when => r.shared
    BY <1>1, <1>3, <2>1 DEF IndexOrdered
  <2> QED
    BY <2>2, <2>3, <2>4 DEF IndexOrdered
<1>4. tests' \subseteq tests \/ (ReadBack /\ tests' = tests \cup {Record})
  BY DEF TestNext, StartTest, CreateBoard, BindBoard, SnapshotBefore, CreateLayout,
     SnapshotAfter, ReadBack, WriteTestReceipt, AbandonCommand, StartPrune, Retire,
     RetireDone, Forget, RewriteIndex, RemoveBoard, AddBoard, KeptRecords
<1> QED
  BY <1>2, <1>3, <1>4

LEMMA UnderWayStep ==
  ASSUME TestInv, TestNext
  PROVE  TestUnderWay'
<1> USE DEF TestInv
<1>0. ASSUME test'.step \in {"idle", "retire", "forget"} PROVE TestUnderWay'
  BY <1>0 DEF TestUnderWay, BoundSteps
<1>1. ASSUME NEW alias \in Aliases, NEW where \in Places, NEW mode \in Modes,
             StartTest(alias, where, mode)
      PROVE  TestUnderWay'
  <2>1. \A r \in tests' : r.when < begun'
    <3>1. \A r \in tests : r.when \in Nat /\ r.when <= begun
      BY DEF TestsTyped, TestRecords, IndexOrdered
    <3> QED
      BY <1>1, <3>1 DEF StartTest, BeginCommand, TestsTyped
  <2>2. CASE test' = NoTest
    BY <1>0, <2>2 DEF NoTest
  <2>3. CASE /\ ~(Reusing(mode) /\ listed[alias] = 0)
             /\ test' = [step |-> IF Reusing(mode) THEN "bind" ELSE "create", board |-> 0,
                         alias |-> alias, place |-> where, mode |-> mode]
    BY <1>1, <2>1, <2>3 DEF StartTest, TestUnderWay, BoundSteps
  <2> QED
    BY <1>1, <2>2, <2>3 DEF StartTest
<1>2. CASE CreateBoard
  <2>1. test \in TestCommands
    BY <1>2, TestIsTyped DEF CreateBoard
  <2>2. CASE TestAt("bind") /\ listed' = [listed EXCEPT ![test.alias] = Len(boards) + 1]
    <3>1. listed'[test'.alias] = Len(boards) + 1 /\ Len(boards) + 1 # 0
      BY <2>1, <2>2 DEF TestAt, TestCommands, TestsTyped
    <3>2. test'.step = "bind" /\ \A r \in tests : r.when < begun
      BY <1>2, <2>1, <2>2 DEF CreateBoard, TestUnderWay, TestAt, TestCommands
    <3> QED
      BY <1>2, <3>1, <3>2 DEF CreateBoard, TestUnderWay, BoundSteps
  <2> QED
    BY <1>0, <1>2, <2>2 DEF CreateBoard, NoTest
<1>3. CASE BindBoard
  <2>1. test \in TestCommands
    BY <1>3, TestIsTyped DEF BindBoard
  <2>2. CASE \E step \in {"before", "after"} :
               test' = [test EXCEPT !.board = listed[test.alias], !.step = step]
    BY <1>3, <2>1, <2>2 DEF BindBoard, TestUnderWay, BoundSteps, TestCommands
  <2> QED
    BY <1>0, <1>3, <2>2 DEF BindBoard, NoTest
<1>4. CASE SnapshotBefore
  <2>1. test \in TestCommands
    BY <1>4, TestIsTyped DEF SnapshotBefore, BoundSteps
  <2> QED
    BY <1>4, <2>1 DEF SnapshotBefore, TestUnderWay, TestAt, BoundSteps, TestCommands
<1>5. CASE CreateLayout
  <2>1. test \in TestCommands
    BY <1>5, TestIsTyped DEF CreateLayout, BoundSteps
  <2>2. CASE TestAt("after")
    BY <1>5, <2>1, <2>2 DEF CreateLayout, TestUnderWay, TestAt, BoundSteps, TestCommands
  <2> QED
    BY <1>0, <1>5, <2>2 DEF CreateLayout, NoTest
<1>6. CASE SnapshotAfter
  <2>1. test \in TestCommands /\ test.place \in Places
    BY <1>6, TestIsTyped DEF SnapshotAfter, BoundSteps, TestCommands
  <2>2. test' = [test EXCEPT !.step = "readback"]
    BY <1>6 DEF SnapshotAfter, TestAt
  <2>3. outputs'[test.place].after = Shot
    <3>1. outputs[test.place] \in TestFolders
      BY <2>1 DEF TestsTyped
    <3> QED
      BY <1>6, <2>1, <3>1 DEF SnapshotAfter, TestsTyped, TestFolders
  <2>4. test.board = listed[test.alias] /\ listed[test.alias] # 0
    BY <1>6 DEF SnapshotAfter, TestUnderWay, BoundSteps
  <2>5. \A r \in tests : r.when < begun
    BY <1>6 DEF SnapshotAfter, TestUnderWay
  <2> QED
    BY <1>6, <2>1, <2>2, <2>3, <2>4, <2>5
    DEF SnapshotAfter, TestUnderWay, BoundSteps, TestCommands, Shot
<1>7. CASE ReadBack
  <2>1. test \in TestCommands
    BY <1>7, TestIsTyped DEF ReadBack, BoundSteps
  <2>2. CASE TestAt("receipt") /\ Conforms(outputs[test.place].after.items)
    <3>1. Conforms(boards[test.board])
      BY <1>7, <2>2 DEF ReadBack, TestUnderWay
    <3>2. /\ test'.step = "receipt" /\ test'.board = test.board /\ test'.alias = test.alias
          /\ UNCHANGED <<boards, listed>>
      BY <1>7, <2>1, <2>2 DEF ReadBack, TestAt, TestCommands
    <3>3. listed[test.alias] # 0 /\ test.board = listed[test.alias]
      BY <1>7 DEF ReadBack, TestUnderWay, BoundSteps
    <3>4. Conforms(boards[test.board])'
      BY <3>1, <3>2 DEF Conforms
    <3> QED
      BY <3>2, <3>3, <3>4 DEF TestUnderWay, BoundSteps
  <2> QED
    BY <1>0, <1>7, <2>2 DEF ReadBack, NoTest
<1>8. CASE Retire \/ Forget
  <2>1. test'.step = test.step
    BY <1>8 DEF Retire, Forget, CommandTyped, NoTest, TestCommands, BoundSteps
  <2> QED
    BY <1>0, <1>8, <2>1 DEF Retire, Forget
<1>9. CASE test' = test /\ test = NoTest
  BY <1>0, <1>9 DEF NoTest
<1> QED
  BY <1>0, <1>1, <1>2, <1>3, <1>4, <1>5, <1>6, <1>7, <1>8, <1>9 DEF TestNext, NoTest,
     WriteTestReceipt, AbandonCommand, StartPrune, RetireDone, RewriteIndex, RemoveBoard,
     AddBoard, BeginCommand

LEMMA KeptStep ==
  ASSUME TestInv, TestNext
  PROVE  KeptUsable'
<1> USE DEF TestInv
<1>0. TestsTyped'
  BY TypedStep
<1>a. \A r \in tests : r.alias \in Aliases /\ r.place \in Places
  BY DEF TestsTyped, TestRecords
<1>b. KeptRecords \subseteq tests /\ KeptRecords' \subseteq tests'
  BY DEF KeptRecords
<1>c. tests' = tests => KeptRecords' = KeptRecords
  BY DEF KeptRecords, NewerThan
<1>d. \A d \in Places : outputs[d] \in TestFolders
  BY DEF TestsTyped
<1>1. ASSUME tests' = tests,
             \A r \in KeptRecords : listed[r.alias] # 0 => listed'[r.alias] # 0,
             \A r \in KeptRecords : ~r.shared /\ outputs[r.place].after # NoShot =>
                                      outputs'[r.place].after # NoShot
      PROVE  KeptUsable'
  BY <1>1, <1>c DEF KeptUsable
<1>2. ASSUME NEW alias \in Aliases, NEW where \in Places, NEW mode \in Modes,
             StartTest(alias, where, mode)
      PROVE  KeptUsable'
  BY <1>1, <1>2, <1>a, <1>b, <1>d DEF StartTest, TestsTyped, TestFolders
<1>3. CASE CreateBoard
  <2>1. \A a \in Aliases : listed[a] # 0 => listed'[a] # 0
    BY <1>3 DEF CreateBoard, TestsTyped
  <2> QED
    BY <1>1, <1>3, <1>a, <1>b, <2>1 DEF CreateBoard
<1>4. CASE SnapshotBefore \/ SnapshotAfter
  <2>1. Shot # NoShot /\ test.place \in Places
    <3>1. listed[test.alias] # 0 /\ test \in TestCommands
      BY <1>4, TestIsTyped DEF SnapshotBefore, SnapshotAfter, TestUnderWay, BoundSteps
    <3> QED
      BY <3>1 DEF Shot, NoShot, TestCommands
  <2>2. \A d \in Places : outputs[d].after # NoShot => outputs'[d].after # NoShot
    BY <1>4, <1>d, <2>1 DEF SnapshotBefore, SnapshotAfter, TestsTyped, TestFolders
  <2> QED
    BY <1>1, <1>4, <1>a, <1>b, <2>2 DEF SnapshotBefore, SnapshotAfter
<1>5. CASE WriteTestReceipt
  <2>1. \A d \in Places : outputs'[d].after = outputs[d].after
    BY <1>5, <1>d DEF WriteTestReceipt, TestsTyped, TestFolders
  <2> QED
    BY <1>1, <1>5, <1>a, <1>b, <2>1 DEF WriteTestReceipt
<1>6. ASSUME ReadBack, tests' = tests \cup {Record} PROVE KeptUsable'
  <2>1. /\ listed[test.alias] # 0 /\ test.board # 0
        /\ outputs[test.place].after = [board |-> test.board, items |-> boards[test.board]]
    BY <1>6 DEF ReadBack, TestUnderWay, BoundSteps
  <2>2. outputs[test.place].after # NoShot
    BY <2>1 DEF NoShot
  <2>3. ASSUME NEW r \in KeptRecords'
        PROVE  listed[r.alias] # 0 /\ (~r.shared => outputs[r.place].after # NoShot)
    <3>1. CASE r = Record
      BY <2>1, <2>2, <3>1 DEF Record
    <3>2. CASE r \in tests
      <4>1. r \in KeptRecords
        BY <1>0, <1>6, <3>2, KeptOnlyShrinks
      <4> QED
        BY <4>1 DEF KeptUsable
    <3> QED
      BY <1>6, <1>b, <3>1, <3>2
  <2> QED
    BY <1>6, <2>3 DEF ReadBack, KeptUsable
<1>7. CASE Retire
  <2>1. test \in [step : {"retire"}, todo : SUBSET PrunedRecords]
    BY <1>7 DEF Retire, CommandTyped, NoTest, TestCommands, BoundSteps
  <2>2. PICK r \in test.todo :
          outputs' = outputs \/ outputs' = [outputs EXCEPT ![r.place] = NoFolder]
    BY <1>7 DEF Retire
  <2>3. ASSUME NEW s \in KeptRecords, ~s.shared PROVE outputs'[s.place] = outputs[s.place]
    <3>1. r \in PrunedRecords /\ r \in tests /\ s \in tests
      BY <1>b, <2>1 DEF PrunedRecords
    <3>2. r.when < s.when
      BY <3>1, PrunedAreOlder
    <3>3. s.place # r.place
      BY <2>3, <3>1, <3>2 DEF IndexOrdered
    <3> QED
      BY <1>a, <2>2, <3>1, <3>3 DEF TestsTyped
  <2> QED
    BY <1>1, <1>7, <2>3 DEF Retire
<1>8. CASE Forget
  <2>1. test \in [step : {"forget"}, todo : SUBSET AliasesToPrune]
    BY <1>8 DEF Forget, CommandTyped, NoTest, TestCommands, BoundSteps
  <2>2. PICK alias \in test.todo : listed' = [listed EXCEPT ![alias] = 0]
    BY <1>8 DEF Forget
  <2>3. \A r \in KeptRecords : r.alias # alias
    BY <2>1 DEF AliasesToPrune, AliasesOf
  <2>4. \A r \in KeptRecords : listed'[r.alias] = listed[r.alias]
    BY <1>a, <1>b, <2>2, <2>3 DEF TestsTyped
  <2> QED
    BY <1>1, <1>8, <2>4 DEF Forget
<1>9. CASE RewriteIndex
  <2>1. KeptRecords' \subseteq KeptRecords
    BY <1>9, <1>b DEF RewriteIndex
  <2> QED
    BY <1>9, <2>1 DEF RewriteIndex, KeptUsable
<1>10. ASSUME NEW alias \in Aliases, RemoveBoard(alias) PROVE KeptUsable'
  <2>1. \A r \in tests : r.alias # alias
    BY <1>10 DEF RemoveBoard, AliasesOf
  <2>2. \A r \in KeptRecords : listed'[r.alias] = listed[r.alias]
    BY <1>a, <1>b, <1>10, <2>1 DEF RemoveBoard, TestsTyped
  <2> QED
    BY <1>1, <1>10, <2>2 DEF RemoveBoard
<1>11. ASSUME NEW alias \in Aliases, NEW board \in DOMAIN boards, AddBoard(alias, board)
       PROVE  KeptUsable'
  <2>1. board # 0
    BY DEF TestsTyped
  <2>2. \A a \in Aliases : listed[a] # 0 => listed'[a] # 0
    BY <1>11, <2>1 DEF AddBoard, TestsTyped
  <2> QED
    BY <1>1, <1>11, <1>a, <1>b, <2>2 DEF AddBoard
<1>12. CASE UNCHANGED <<tests, listed, outputs>>
  BY <1>1, <1>12
<1> QED
  BY <1>2, <1>3, <1>4, <1>5, <1>6, <1>7, <1>8, <1>9, <1>10, <1>11, <1>12
  DEF TestNext, BindBoard, CreateLayout, ReadBack, AbandonCommand, StartPrune, RetireDone

LEMMA TestStep == TestSpec => []TestInv
<1>1. TestInit => TestInv
  <2> SUFFICES ASSUME TestInit PROVE TestInv
    OBVIOUS
  <2>1. TestsTyped
    <3>1. boards \in Seq([ItemTypes -> Nat]) /\ Len(boards) = 0
      BY DEF TestInit
    <3>2. NoFolder \in TestFolders
      BY DEF NoShot, NoFolder, NoReceipt, NoItems, TestShots, TestFolders, TestReceipts
    <3> QED
      BY <3>1, <3>2, FS_EmptySet DEF TestsTyped, TestInit
  <2>2. CommandTyped /\ IndexOrdered /\ TestUnderWay
    BY DEF TestInit, CommandTyped, IndexOrdered, TestUnderWay, NoTest, BoundSteps
  <2>3. /\ \A d \in Places : Vouched(outputs[d])
        /\ \A folder \in retired : Vouched(folder)
    BY DEF TestInit, Vouched, NoFolder, NoReceipt
  <2>4. KeptUsable
    BY DEF TestInit, KeptUsable, KeptRecords
  <2> QED
    BY <2>1, <2>2, <2>3, <2>4 DEF TestInv
<1>2. TestInv /\ [TestNext]_testVars => TestInv'
  <2> SUFFICES ASSUME TestInv, [TestNext]_testVars PROVE TestInv'
    OBVIOUS
  <2>1. CASE TestNext
    BY <2>1, TypedStep, CommandStep, VouchedStep, OrderedStep, UnderWayStep, KeptStep
    DEF TestInv
  <2>2. CASE UNCHANGED testVars
    BY <2>2 DEF TestInv, testVars, TestsTyped, CommandTyped, Vouched, Conforms, IndexOrdered,
       TestUnderWay, KeptUsable, KeptRecords, PrunedRecords, NewerThan, AliasesToPrune,
       AliasesOf
  <2> QED
    BY <2>1, <2>2
<1> QED
  BY <1>1, <1>2, PTL DEF TestSpec

(* Whatever tests failed before, with whichever aliases and directories,   *)
(* and however they were resumed: a receipt names a board that has the     *)
(* whole layout (the checks before a receipt is written).                  *)
THEOREM ReceiptsAreBacked == TestSpec => []ReceiptBacked
<1>1. TestInv => ReceiptBacked
  BY DEF TestInv, ReceiptBacked, Vouched
<1> QED
  BY <1>1, TestStep, PTL

(* For every number of tests to keep: a prune that is complete, cut short  *)
(* or between two steps has not taken the alias or the snapshots of a test *)
(* it keeps (prune_live_tests).                                            *)
THEOREM KeptTestsStayUsable == TestSpec => []KeptUsable
<1>1. TestInv => KeptUsable
  BY DEF TestInv
<1> QED
  BY <1>1, TestStep, PTL

-----------------------------------------------------------------------------
(* The output of a package.  Numbers of files and directories are not used *)
(* again, so that what is lost from its name does not come back: what the  *)
(* command finds in place at its last readback was there all the time, and *)
(* was complete when it was read the first time after the renaming.        *)

Opening == {"parent", "openParent", "absent", "mkdir", "openStaging", "linkedStaging"}
Filling == {"create", "write"}
Readings == {"names", "before", "digest", "after", "namesAgain"}
Renaming == {"parentAgain", "stagingAgain", "absentAgain", "rename", "renamed"}
Proving == {"parentAfter", "sync", "parentFinal", "targetPath", "targetBound"}
Ended == {"scrub", "failed", "killed"}
Names == Range(Artifacts)

Inodes == [content : {"none", "own", "part", "same", "foreign"}, stamp : Nat]
Owned == UNION {[S -> Nat \ {0}] : S \in SUBSET Names}
Works ==
  [step : Opening \cup Filling \cup Readings \cup Renaming \cup Proving \cup Ended \cup {"done"},
   before : 0..2, parent : 0..2, folder : Nat, owned : Owned, todo : Seq(Names), noted : Nat,
   next : {"", "parentAgain", "parentAfter", "done"}, published : BOOLEAN,
   outcome : {"none", "scrubbed", "incomplete", "interrupted"}]

PackageTyped ==
  /\ place \in 1..2
  /\ holds \in [1..2 -> [DirectoryNames -> Nat]]
  /\ folders \in Seq([FileNames -> Nat])
  /\ bytes \in Seq(Inodes)
  /\ work \in Works
  /\ meddled \in Nat
  /\ theirs \subseteq (1..2) \X (Nat \ {0})
  /\ offered \subseteq Names

(* A directory has one name, and numbers are not used again.               *)
NamedOnce ==
  /\ \A q \in 1..2, n \in DirectoryNames : holds[q][n] <= Len(folders)
  /\ \A q, p \in 1..2, n, m \in DirectoryNames :
       holds[q][n] = holds[p][m] /\ holds[q][n] # Absent => q = p /\ n = m
  /\ \A a \in DOMAIN work.owned : work.owned[a] <= Len(bytes)

(* What is known of the command at each step, and of its directory.        *)
KnownOf(w) ==
  /\ w.folder = Absent => DOMAIN w.owned = {}
  /\ w.step \in Opening => w.folder = Absent
  /\ w.step = "openParent" => w.before \in 1..2
  /\ w.step \notin Ended \cup {"parent", "openParent"} =>
       w.parent \in 1..2 /\ w.parent = w.before
  /\ w.step \in Readings \cup Renaming \cup Proving \cup {"done"} => DOMAIN w.owned = Names
  /\ w.step \in Readings => w.next # ""
  /\ w.step \in Proving => w.next = "parentAfter"
  /\ w.step = "done" => w.next = "done"
  /\ w.step \in Filling \cup Readings => w.todo # <<>>
  /\ w.step \in Opening \cup {"names"} => w.todo = Artifacts
  /\ w.step = "create" => Names \subseteq DOMAIN w.owned \cup Range(w.todo)
  /\ w.step = "write" => /\ Head(w.todo) \in DOMAIN w.owned
                            /\ Names \subseteq DOMAIN w.owned \cup Range(Tail(w.todo))
  /\ w.step = "scrub" => w.outcome \in {"scrubbed", "incomplete"}

CommandKnown == KnownOf(work)

FolderKnown ==
  /\ work.before <= place
  /\ work.step = "linkedStaging" => work.noted \in 1..Len(folders)
  /\ work.step \in Filling \cup Readings \cup Renaming \cup Proving \cup {"done"} =>
       /\ work.folder \in 1..Len(folders)
       /\ \A q \in 1..2, n \in DirectoryNames : holds[q][n] = work.folder => q = work.parent

WorkKnown == CommandKnown /\ FolderKnown

(* The command is cleaning up: what is left is in the artifacts to come.   *)
Scrubbing ==
  work.step = "scrub" /\ work.outcome = "scrubbed" =>
    \A a \in DOMAIN work.owned :
      a \in Range(work.todo) \/ bytes[work.owned[a]].content \notin {"own", "part"}

Renamed ==
  \/ work.step \in Proving \cup {"renamed", "done"}
  \/ work.step \in Readings /\ work.next # "parentAgain"

ShownOffered ==
  Renamed => Showing \subseteq offered /\ (work.published \/ work.step = "renamed")

Home == place = work.before /\ holds[work.before]["target"] = work.folder

(* Of the first readback after the renaming: an artifact that has been     *)
(* read was shown then, unless its file or the target is lost by now, for  *)
(* good.                                                                   *)
FirstReadback ==
  \/ work.step \in Readings \ {"names"} /\ work.next = "parentAfter"
  \/ work.step \in {"parentAfter", "sync", "parentFinal", "targetPath"}

FirstLeft ==
  CASE work.step \in {"before", "digest"} -> Range(work.todo)
    [] work.step = "after" -> Range(Tail(work.todo))
    [] OTHER -> {}

ReadShown ==
  FirstReadback => \A a \in Names \ FirstLeft : Home /\ OwnedLinked(a) => a \in offered

(* Of the last one, which the target has come up to: an artifact that is   *)
(* still in place was shown.                                               *)
LastReadback ==
  \/ work.step = "targetBound"
  \/ work.step \in Readings /\ work.next = "done"
  \/ work.step = "done"

LastLeft ==
  CASE work.step \in {"targetBound", "names"} -> Names
    [] work.step = "before" -> Range(work.todo)
    [] work.step \in {"digest", "after"} -> Range(Tail(work.todo))
    [] OTHER -> {}

PlacedShown ==
  LastReadback => /\ \A a \in Names : OwnedLinked(a) => a \in offered
                  /\ \A a \in Names \ LastLeft : a \in offered

PackageInv ==
  /\ PackageTyped
  /\ NamedOnce
  /\ WorkKnown
  /\ Scrubbing
  /\ ShownOffered
  /\ ReadShown
  /\ PlacedShown
  /\ TargetTheirs
  /\ FailedScrubbed

-----------------------------------------------------------------------------

LEMMA OwnedIs ==
  \A f : f \in Owned <=> DOMAIN f \subseteq Names /\ f \in [DOMAIN f -> Nat \ {0}]
BY DEF Owned

LEMMA ArtifactsTyped == Artifacts \in Seq(Names) /\ Names \subseteq FileNames /\ Artifacts # <<>>
BY PackageAssumption DEF Names, Range, FileNames

LEMMA NextArtifact ==
  ASSUME NEW s \in Seq(Names), s # <<>>
  PROVE  /\ Head(s) \in Names /\ Tail(s) \in Seq(Names)
         /\ Range(s) \subseteq {Head(s)} \cup Range(Tail(s))
         /\ Range(Tail(s)) \subseteq Range(s)
         /\ Len(s) > 1 => Tail(s) # <<>>
         /\ ~(Len(s) > 1) => Range(s) = {Head(s)} /\ Range(Tail(s)) = {}
<1>1. /\ Head(s) \in Names /\ Tail(s) \in Seq(Names) /\ Len(s) \in Nat /\ Len(s) # 0
      /\ Head(s) = s[1] /\ DOMAIN s = 1..Len(s)
      /\ Len(Tail(s)) = Len(s) - 1 /\ DOMAIN Tail(s) = 1..(Len(s) - 1)
      /\ \A i \in 1..(Len(s) - 1) : Tail(s)[i] = s[i + 1]
  BY HeadTailProperties
<1>2. Range(s) \subseteq {Head(s)} \cup Range(Tail(s))
  <2> SUFFICES ASSUME NEW i \in 1..Len(s) PROVE s[i] = Head(s) \/ s[i] \in Range(Tail(s))
    BY <1>1 DEF Range
  <2>1. CASE i = 1
    BY <1>1, <2>1
  <2>2. CASE i # 1
    <3>1. i - 1 \in 1..(Len(s) - 1) /\ Tail(s)[i - 1] = s[i]
      BY <1>1, <2>2
    <3> QED
      BY <1>1, <3>1 DEF Range
  <2> QED
    BY <2>1, <2>2
<1>3. Range(Tail(s)) \subseteq Range(s)
  <2> SUFFICES ASSUME NEW i \in 1..(Len(s) - 1) PROVE Tail(s)[i] \in Range(s)
    BY <1>1 DEF Range
  <2>1. i + 1 \in 1..Len(s)
    BY <1>1
  <2> QED
    BY <1>1, <2>1 DEF Range
<1>4. Len(s) > 1 => Tail(s) # <<>>
  <2>1. Tail(s) = <<>> => Len(Tail(s)) = 0
    BY EmptySeq
  <2> QED
    BY <1>1, <2>1
<1>5. ASSUME ~(Len(s) > 1) PROVE Range(Tail(s)) = {} /\ Range(s) = {Head(s)}
  <2>1. Len(s) = 1 /\ DOMAIN s = 1..1 /\ DOMAIN Tail(s) = {}
    BY <1>1, <1>5
  <2> QED
    BY <1>1, <2>1 DEF Range
<1> QED
  BY <1>1, <1>2, <1>3, <1>4, <1>5

(* A failure ends the command, or has it clean up what it has created.     *)
LEMMA RefuseStep ==
  ASSUME PackageInv, Refuse, place' = place, PackageTyped', NamedOnce', TargetTheirs'
  PROVE  PackageInv'
<1>1. work \in Works
  BY DEF PackageInv, PackageTyped
<1>2. CASE work.folder = Absent
  <2>1. /\ work'.step = "failed" /\ work'.folder = work.folder /\ work'.owned = work.owned
        /\ DOMAIN work.owned = {} /\ work'.before = work.before /\ work.before <= place
    BY <1>1, <1>2 DEF Refuse, Works, PackageInv, WorkKnown, CommandKnown, KnownOf, FolderKnown
  <2>2. WorkKnown' /\ Scrubbing' /\ FailedScrubbed'
    BY <1>2, <2>1 DEF WorkKnown, CommandKnown, KnownOf, FolderKnown, Scrubbing,
       FailedScrubbed, Opening, Filling, Readings, Renaming, Proving, Ended
  <2>3. ShownOffered' /\ ReadShown' /\ PlacedShown'
    BY <2>1 DEF ShownOffered, ReadShown, PlacedShown, Renamed, FirstReadback, LastReadback,
       Readings, Proving
  <2> QED
    BY <2>2, <2>3 DEF PackageInv
<1>3. CASE work.folder # Absent
  <2>1. /\ work'.step = "scrub" /\ work'.folder = work.folder /\ work'.owned = work.owned
        /\ work'.outcome = "scrubbed" /\ work'.todo = Artifacts
        /\ work'.before = work.before /\ work.before <= place
    BY <1>1, <1>3 DEF Refuse, Works, PackageInv, WorkKnown, CommandKnown, KnownOf, FolderKnown
  <2>2. DOMAIN work.owned \subseteq Range(Artifacts)
    BY <1>1, OwnedIs DEF Works, Names
  <2>3. WorkKnown' /\ Scrubbing' /\ FailedScrubbed'
    BY <1>3, <2>1, <2>2 DEF WorkKnown, CommandKnown, KnownOf, FolderKnown, Scrubbing,
       FailedScrubbed, Opening, Filling, Readings, Renaming, Proving, Ended
  <2>4. ShownOffered' /\ ReadShown' /\ PlacedShown'
    BY <2>1 DEF ShownOffered, ReadShown, PlacedShown, Renamed, FirstReadback, LastReadback,
       Readings, Proving
  <2> QED
    BY <2>3, <2>4 DEF PackageInv
<1> QED
  BY <1>2, <1>3

LEMMA RefusedTyped ==
  ASSUME work \in Works, Refuse
  PROVE  work' \in Works
BY ArtifactsTyped DEF Refuse, Works, Opening, Filling, Readings, Renaming, Proving, Ended

LEMMA RefuseOnly ==
  ASSUME PackageInv, Refuse, Observed, UNCHANGED theirs, UNCHANGED meddled
  PROVE  PackageInv'
<1>1. work \in Works
  BY DEF PackageInv, PackageTyped
<1>2. work'.owned = work.owned
  BY <1>1 DEF Refuse, Works
<1>3. PackageTyped'
  BY <1>1, RefusedTyped DEF PackageInv, PackageTyped, Observed, tree
<1>4. NamedOnce' /\ TargetTheirs'
  BY <1>2 DEF PackageInv, NamedOnce, TargetTheirs, Observed, tree
<1> QED
  BY <1>3, <1>4, RefuseStep DEF Observed, tree

(* What others do. *)
LEMMA MeddleFacts ==
  ASSUME PackageInv, Meddlers
  PROVE  /\ PackageTyped' /\ NamedOnce' /\ TargetTheirs'
         /\ work' = work /\ work.step \notin {"done", "failed", "killed"}
         /\ Len(folders) <= Len(folders')
         /\ (place' = place \/ (place = 1 /\ place' = 2))
         /\ \A q \in 1..2, n \in DirectoryNames, d \in 1..Len(folders) :
              holds'[q][n] = d => holds[q][n] = d
         /\ \A d \in 1..Len(folders), a \in DOMAIN work.owned :
              folders'[d][a] = work.owned[a] => folders[d][a] = work.owned[a]
         /\ \A a \in DOMAIN work.owned :
              bytes'[work.owned[a]].content \in {"own", "part"} =>
                bytes'[work.owned[a]].content = bytes[work.owned[a]].content
         /\ offered' = IF work.published \/ work.step = "renamed"
                       THEN offered \cup Showing' ELSE offered
<1> USE DEF PackageInv
<1>0. PackageTyped /\ NamedOnce /\ TargetTheirs
  OBVIOUS
<1>a. work \in Works /\ DOMAIN work.owned \subseteq Names /\ Names \subseteq FileNames
  BY OwnedIs, ArtifactsTyped DEF PackageTyped, Works
<1>b. \A a \in DOMAIN work.owned : work.owned[a] \in 1..Len(bytes)
  <2>1. \A a \in DOMAIN work.owned : work.owned[a] \in Nat \ {0}
    BY <1>a, OwnedIs DEF Works
  <2>2. Len(bytes) \in Nat
    BY DEF PackageTyped
  <2> QED
    BY <2>1, <2>2 DEF NamedOnce
<1>c. \A content \in {"none", "own", "part", "same", "foreign"} : Stamped(content) \in Inodes
  BY DEF Stamped, Inodes, PackageTyped
<1>d. Len(folders) \in Nat /\ Len(bytes) \in Nat
  BY DEF PackageTyped
<1>1. Meddle
  BY DEF Meddlers, PutDirectory, TakeDirectory, ReplaceParent, PutFile, TakeFile, WriteOver
<1>2. /\ work' = work /\ work.step \notin {"done", "failed", "killed"}
      /\ meddled' \in Nat
      /\ offered' = IF work.published \/ work.step = "renamed"
                    THEN offered \cup Showing' ELSE offered
  BY <1>1 DEF Meddle, PackageTyped
<1>3. offered' \subseteq Names
  BY <1>a, <1>2 DEF Showing, PackageTyped
<1>4. SUFFICES /\ place' \in 1..2
               /\ holds' \in [1..2 -> [DirectoryNames -> Nat]]
               /\ folders' \in Seq([FileNames -> Nat])
               /\ bytes' \in Seq(Inodes)
               /\ theirs' \subseteq (1..2) \X (Nat \ {0})
               /\ NamedOnce' /\ TargetTheirs'
               /\ Len(folders) <= Len(folders')
               /\ (place' = place \/ (place = 1 /\ place' = 2))
               /\ \A q \in 1..2, n \in DirectoryNames, d \in 1..Len(folders) :
                    holds'[q][n] = d => holds[q][n] = d
               /\ \A d \in 1..Len(folders), a \in DOMAIN work.owned :
                    folders'[d][a] = work.owned[a] => folders[d][a] = work.owned[a]
               /\ \A a \in DOMAIN work.owned :
                    bytes'[work.owned[a]].content \in {"own", "part"} =>
                      bytes'[work.owned[a]].content = bytes[work.owned[a]].content
  BY <1>a, <1>2, <1>3 DEF PackageTyped
<1> HIDE DEF PackageInv
<1>5. CASE PutDirectory
  <2>1. PICK q \in 1..2, name \in DirectoryNames :
          /\ holds[q][name] = Absent
          /\ holds' = [holds EXCEPT ![q][name] = Len(folders) + 1]
          /\ folders' = Append(folders, [EmptyFolder EXCEPT !["other"] = Len(bytes) + 1])
          /\ bytes' = Append(bytes, Stamped("foreign"))
          /\ theirs' = IF name = "target" THEN theirs \cup {<<q, Len(folders) + 1>>} ELSE theirs
          /\ place' = place
    BY <1>5 DEF PutDirectory
  <2>2. holds' \in [1..2 -> [DirectoryNames -> Nat]]
    BY <1>0, <1>d, <2>1 DEF PackageTyped
  <2>3. [EmptyFolder EXCEPT !["other"] = Len(bytes) + 1] \in [FileNames -> Nat]
    <3>1. EmptyFolder \in [FileNames -> Nat]
      BY DEF EmptyFolder, Absent
    <3>2. Len(bytes) + 1 \in Nat
      BY <1>d
    <3>3. \A f \in [FileNames -> Nat], n \in Nat :
            [f EXCEPT !["other"] = n] \in [FileNames -> Nat]
      OBVIOUS
    <3> QED
      BY <3>1, <3>2, <3>3
  <2>4. /\ folders' \in Seq([FileNames -> Nat]) /\ Len(folders') = Len(folders) + 1
        /\ \A d \in 1..Len(folders) : folders'[d] = folders[d]
    BY <1>0, <2>1, <2>3 DEF PackageTyped
  <2>5. /\ bytes' \in Seq(Inodes) /\ Len(bytes') = Len(bytes) + 1
        /\ \A i \in 1..Len(bytes) : bytes'[i] = bytes[i]
    BY <1>0, <1>c, <2>1 DEF PackageTyped
  <2>6. \A p \in 1..2, m \in DirectoryNames :
          holds'[p][m] = IF p = q /\ m = name THEN Len(folders) + 1 ELSE holds[p][m]
    BY <1>0, <2>1 DEF PackageTyped
  <2>7. NamedOnce'
    <3>1. \A p \in 1..2, m \in DirectoryNames :
            holds[p][m] \in Nat /\ holds[p][m] <= Len(folders)
      BY <1>0 DEF PackageTyped, NamedOnce
    <3>2. \A p \in 1..2, m \in DirectoryNames : holds'[p][m] <= Len(folders')
      BY <1>d, <2>4, <2>6, <3>1
    <3>3. \A p, r \in 1..2, m, n \in DirectoryNames :
            holds'[p][m] = holds'[r][n] /\ holds'[p][m] # Absent => p = r /\ m = n
      BY <1>0, <1>d, <2>6, <3>1 DEF NamedOnce
    <3>4. \A a \in DOMAIN work'.owned : work'.owned[a] <= Len(bytes')
      BY <1>2, <1>b, <1>d, <2>5
    <3> QED
      BY <3>2, <3>3, <3>4 DEF NamedOnce
  <2>8. theirs' \subseteq (1..2) \X (Nat \ {0})
    BY <1>0, <1>d, <2>1 DEF PackageTyped
  <2>9. TargetTheirs'
    BY <1>0, <2>1, <2>6 DEF TargetTheirs, PackageTyped, Absent, DirectoryNames
  <2>10. \A p \in 1..2, n \in DirectoryNames, d \in 1..Len(folders) :
           holds'[p][n] = d => holds[p][n] = d
    BY <1>d, <2>6
  <2> QED
    BY <1>0, <1>b, <1>d, <2>1, <2>2, <2>4, <2>5, <2>7, <2>8, <2>9, <2>10 DEF PackageTyped
<1>6. CASE TakeDirectory
  <2>1. PICK q \in 1..2, name \in DirectoryNames :
          /\ holds[q][name] # Absent
          /\ holds' = [holds EXCEPT ![q][name] = Absent]
          /\ theirs' = theirs \ {<<q, holds[q][name]>>}
          /\ UNCHANGED <<place, folders, bytes>>
    BY <1>6 DEF TakeDirectory
  <2>2. holds' \in [1..2 -> [DirectoryNames -> Nat]]
    BY <1>0, <2>1 DEF PackageTyped, Absent
  <2>3. \A p \in 1..2, m \in DirectoryNames :
          holds'[p][m] = IF p = q /\ m = name THEN Absent ELSE holds[p][m]
    BY <1>0, <2>1 DEF PackageTyped
  <2>4. NamedOnce'
    BY <1>0, <1>2, <1>b, <1>d, <2>1, <2>3 DEF NamedOnce, Absent, PackageTyped
  <2>5. TargetTheirs'
    <3> SUFFICES ASSUME NEW taken \in theirs' PROVE holds'[taken[1]]["target"] = taken[2]
      BY DEF TargetTheirs
    <3>1. /\ taken \in theirs /\ taken[1] \in 1..2 /\ taken = <<taken[1], taken[2]>>
          /\ taken # <<q, holds[q][name]>> /\ holds[taken[1]]["target"] = taken[2]
      BY <1>0, <2>1 DEF TargetTheirs, PackageTyped
    <3>2. ~(taken[1] = q /\ name = "target")
      BY <3>1
    <3> QED
      BY <2>3, <3>1, <3>2 DEF DirectoryNames
  <2>6. \A p \in 1..2, n \in DirectoryNames, d \in 1..Len(folders) :
          holds'[p][n] = d => holds[p][n] = d
    BY <1>d, <2>3 DEF Absent
  <2> QED
    BY <1>0, <1>d, <2>1, <2>2, <2>4, <2>5, <2>6 DEF PackageTyped
<1>7. CASE ReplaceParent
  BY <1>0, <1>2, <1>7 DEF ReplaceParent, PackageTyped, NamedOnce, TargetTheirs
<1>8. CASE PutFile
  <2>1. PICK d \in DOMAIN folders, name \in FileNames :
          /\ folders' = [folders EXCEPT ![d][name] = Len(bytes) + 1]
          /\ bytes' = Append(bytes, Stamped("foreign"))
          /\ UNCHANGED <<place, holds, theirs>>
    BY <1>8 DEF PutFile
  <2>2. /\ folders' \in Seq([FileNames -> Nat]) /\ Len(folders') = Len(folders)
        /\ \A c \in 1..Len(folders), n \in FileNames :
             folders'[c][n] = IF c = d /\ n = name THEN Len(bytes) + 1 ELSE folders[c][n]
    <3>1. d \in 1..Len(folders) /\ folders[d] \in [FileNames -> Nat]
      BY <1>0, <2>1 DEF PackageTyped
    <3> QED
      BY <1>0, <1>d, <2>1, <3>1 DEF PackageTyped
  <2>3. /\ bytes' \in Seq(Inodes) /\ Len(bytes') = Len(bytes) + 1
        /\ \A i \in 1..Len(bytes) : bytes'[i] = bytes[i]
    BY <1>0, <1>c, <2>1 DEF PackageTyped
  <2>4. NamedOnce' /\ TargetTheirs'
    BY <1>0, <1>2, <1>b, <1>d, <2>1, <2>2, <2>3 DEF NamedOnce, TargetTheirs
  <2>5. \A c \in 1..Len(folders), a \in DOMAIN work.owned :
          folders'[c][a] = work.owned[a] => folders[c][a] = work.owned[a]
    BY <1>a, <1>b, <1>d, <2>2
  <2> QED
    BY <1>0, <1>b, <1>d, <2>1, <2>2, <2>3, <2>4, <2>5 DEF PackageTyped
<1>9. CASE TakeFile
  <2>1. PICK d \in DOMAIN folders, name \in FileNames :
          /\ folders' = [folders EXCEPT ![d][name] = Absent]
          /\ UNCHANGED <<place, holds, bytes, theirs>>
    BY <1>9 DEF TakeFile
  <2>2. /\ folders' \in Seq([FileNames -> Nat]) /\ Len(folders') = Len(folders)
        /\ \A c \in 1..Len(folders), n \in FileNames :
             folders'[c][n] = IF c = d /\ n = name THEN Absent ELSE folders[c][n]
    <3>1. d \in 1..Len(folders) /\ folders[d] \in [FileNames -> Nat]
      BY <1>0, <2>1 DEF PackageTyped
    <3> QED
      BY <1>0, <1>d, <2>1, <3>1 DEF PackageTyped, Absent
  <2>3. NamedOnce' /\ TargetTheirs'
    BY <1>0, <1>2, <2>1, <2>2 DEF NamedOnce, TargetTheirs
  <2>4. \A c \in 1..Len(folders), a \in DOMAIN work.owned :
          folders'[c][a] = work.owned[a] => folders[c][a] = work.owned[a]
    BY <1>a, <1>b, <1>d, <2>2 DEF Absent
  <2> QED
    BY <1>0, <1>d, <2>1, <2>2, <2>3, <2>4 DEF PackageTyped
<1>10. CASE WriteOver
  <2>1. PICK a \in DOMAIN work.owned, content \in {"foreign", "same"} :
          /\ bytes' = [bytes EXCEPT ![work.owned[a]] = Stamped(content)]
          /\ UNCHANGED <<place, holds, folders, theirs>>
    BY <1>10 DEF WriteOver
  <2>2. /\ bytes' \in Seq(Inodes) /\ Len(bytes') = Len(bytes)
        /\ \A i \in 1..Len(bytes) :
             bytes'[i] = IF i = work.owned[a] THEN Stamped(content) ELSE bytes[i]
    BY <1>0, <1>b, <1>c, <2>1 DEF PackageTyped
  <2>3. NamedOnce' /\ TargetTheirs'
    BY <1>0, <1>2, <2>1, <2>2 DEF NamedOnce, TargetTheirs
  <2>4. \A c \in DOMAIN work.owned :
          bytes'[work.owned[c]].content \in {"own", "part"} =>
            bytes'[work.owned[c]].content = bytes[work.owned[c]].content
    BY <1>b, <2>1, <2>2 DEF Stamped
  <2> QED
    BY <1>0, <1>d, <2>1, <2>2, <2>3, <2>4 DEF PackageTyped
<1> QED
  BY <1>5, <1>6, <1>7, <1>8, <1>9, <1>10 DEF Meddlers

LEMMA KnownStays ==
  ASSUME CommandKnown, work' = work
  PROVE  CommandKnown'
BY DEF CommandKnown

LEMMA MeddleStep ==
  ASSUME PackageInv, Meddlers
  PROVE  PackageInv'
<1>0. /\ PackageTyped' /\ NamedOnce' /\ TargetTheirs'
      /\ work' = work /\ work.step \notin {"done", "failed", "killed"}
      /\ Len(folders) <= Len(folders')
      /\ (place' = place \/ (place = 1 /\ place' = 2))
      /\ \A q \in 1..2, n \in DirectoryNames, d \in 1..Len(folders) :
           holds'[q][n] = d => holds[q][n] = d
      /\ \A d \in 1..Len(folders), a \in DOMAIN work.owned :
           folders'[d][a] = work.owned[a] => folders[d][a] = work.owned[a]
      /\ \A a \in DOMAIN work.owned :
           bytes'[work.owned[a]].content \in {"own", "part"} =>
             bytes'[work.owned[a]].content = bytes[work.owned[a]].content
      /\ offered' = IF work.published \/ work.step = "renamed"
                    THEN offered \cup Showing' ELSE offered
  BY MeddleFacts
<1>a. /\ Len(folders) \in Nat /\ Len(folders') \in Nat /\ work.before \in 0..2 /\ place \in 1..2
      /\ PackageTyped /\ WorkKnown /\ Scrubbing /\ ShownOffered /\ ReadShown /\ PlacedShown
      /\ offered \subseteq offered'
  <2>1. Len(folders) \in Nat /\ Len(folders') \in Nat /\ work.before \in 0..2 /\ place \in 1..2
    <3>1. /\ folders \in Seq([FileNames -> Nat]) /\ folders' \in Seq([FileNames -> Nat])
          /\ place \in 1..2 /\ work \in Works
      BY <1>0 DEF PackageInv, PackageTyped
    <3>2. work.before \in 0..2
      BY <3>1 DEF Works
    <3> QED
      BY <3>1, <3>2
  <2>2. offered \subseteq offered'
    BY <1>0
  <2> QED
    BY <2>1, <2>2 DEF PackageInv
<1>1. WorkKnown'
  <2>1. /\ work.before <= place'
        /\ work.step = "linkedStaging" => work.noted \in 1..Len(folders')
    <3>1. /\ work.before <= place
          /\ work.step = "linkedStaging" => work.noted \in 1..Len(folders)
      BY <1>a DEF WorkKnown, CommandKnown, KnownOf, FolderKnown
    <3> QED
      BY <1>0, <1>a, <3>1
  <2>2. ASSUME work.step \in Filling \cup Readings \cup Renaming \cup Proving \cup {"done"}
        PROVE  /\ work.folder \in 1..Len(folders')
               /\ \A q \in 1..2, n \in DirectoryNames :
                    holds'[q][n] = work.folder => q = work.parent
    <3>1. /\ work.folder \in 1..Len(folders)
          /\ \A q \in 1..2, n \in DirectoryNames :
               holds[q][n] = work.folder => q = work.parent
      BY <1>a, <2>2 DEF WorkKnown, CommandKnown, KnownOf, FolderKnown
    <3> QED
      BY <1>0, <1>a, <3>1
  <2>3. work' = work /\ WorkKnown
    BY <1>0, <1>a
  <2>4. work' = work /\ CommandKnown'
    <3>1. CommandKnown
      BY <2>3 DEF WorkKnown
    <3> QED
      BY <2>3, <3>1, KnownStays
  <2> QED
    BY <2>1, <2>2, <2>4 DEF WorkKnown, FolderKnown
<1>2. Scrubbing' /\ FailedScrubbed'
  BY <1>0, <1>a DEF Scrubbing, FailedScrubbed
<1>3. ShownOffered'
  BY <1>0, <1>a DEF ShownOffered, Renamed
<1>4. ReadShown'
  <2> SUFFICES ASSUME FirstReadback', NEW a \in Names \ FirstLeft', Home', OwnedLinked(a)'
               PROVE  a \in offered'
    BY DEF ReadShown
  <2>1. FirstReadback /\ FirstLeft' = FirstLeft
    BY <1>0 DEF FirstReadback, FirstLeft
  <2>2. /\ work.before \in 1..2 /\ work.folder \in 1..Len(folders) /\ DOMAIN work.owned = Names
        /\ work.before <= place
    BY <1>a, <2>1 DEF FirstReadback, WorkKnown, CommandKnown, KnownOf, FolderKnown, Readings,
       Proving, Ended
  <2>3. Home
    BY <1>0, <1>a, <2>2 DEF Home, DirectoryNames
  <2>4. OwnedLinked(a)
    BY <1>0, <2>2 DEF OwnedLinked
  <2> QED
    BY <1>a, <2>1, <2>3, <2>4 DEF ReadShown
<1>5. PlacedShown'
  <2> SUFFICES ASSUME LastReadback'
               PROVE  /\ \A a \in Names : OwnedLinked(a)' => a \in offered'
                      /\ \A a \in Names \ LastLeft' : a \in offered'
    BY DEF PlacedShown
  <2>1. LastReadback /\ LastLeft' = LastLeft
    BY <1>0 DEF LastReadback, LastLeft
  <2>2. work.folder \in 1..Len(folders) /\ DOMAIN work.owned = Names
    BY <1>a, <2>1 DEF LastReadback, WorkKnown, CommandKnown, KnownOf, FolderKnown, Readings,
       Proving, Ended
  <2>3. \A a \in Names : OwnedLinked(a)' => OwnedLinked(a)
    BY <1>0, <2>2 DEF OwnedLinked
  <2> QED
    BY <1>a, <2>1, <2>3 DEF PlacedShown
<1> QED
  BY <1>0, <1>1, <1>2, <1>3, <1>4, <1>5 DEF PackageInv

(* The command has looked at something, or written down where it is.       *)
LEMMA QuietStep ==
  ASSUME PackageInv, Observed, UNCHANGED theirs, UNCHANGED meddled,
         work' \in Works, work'.owned = work.owned, work'.step \notin {"scrub", "failed"},
         WorkKnown', ShownOffered', ReadShown', PlacedShown'
  PROVE  PackageInv'
<1>1. PackageTyped' /\ NamedOnce' /\ TargetTheirs'
  BY DEF PackageInv, PackageTyped, NamedOnce, TargetTheirs, Observed, tree
<1>2. Scrubbing' /\ FailedScrubbed'
  BY DEF Scrubbing, FailedScrubbed
<1> QED
  BY <1>1, <1>2 DEF PackageInv

(* Before the renaming nothing is shown.                                   *)
LEMMA EarlyStep ==
  ASSUME \/ work'.step \in Opening \cup Filling \cup (Renaming \ {"renamed"}) \cup {"killed"}
         \/ work'.step \in Readings /\ work'.next = "parentAgain"
  PROVE  ShownOffered' /\ ReadShown' /\ PlacedShown'
BY DEF ShownOffered, ReadShown, PlacedShown, Renamed, FirstReadback, LastReadback, Opening,
   Filling, Renaming, Readings, Proving

LEMMA OpeningStep ==
  ASSUME PackageInv,
         SnapshotParent \/ OpenParent \/ MakeStaging \/ OpenStaging \/ CheckStaging
         \/ (TargetMustBeAbsent /\ work.step = "absent")
  PROVE  PackageInv'
<1>0. /\ work \in Works /\ WorkKnown /\ place \in 1..2 /\ work.step \in Opening
      /\ Len(folders) \in Nat
  BY DEF PackageInv, PackageTyped, SnapshotParent, OpenParent, MakeStaging, OpenStaging,
     CheckStaging, Working, Opening
<1>1. CASE SnapshotParent
  <2>1. work' = [work EXCEPT !.step = "openParent", !.before = place]
    BY <1>1 DEF SnapshotParent
  <2>2. work' \in Works
    <3>1. place \in 0..2
      BY <1>0
    <3> QED
      BY <1>0, <2>1, <3>1 DEF Works, Opening
  <2>3. WorkKnown'
    <3>1. /\ work'.step = "openParent" /\ work'.before = place /\ work'.folder = work.folder
          /\ work'.owned = work.owned /\ work'.todo = work.todo
      BY <1>0, <2>1 DEF Works
    <3>2. place' = place /\ place <= place
      BY <1>0, <1>1 DEF SnapshotParent, Observed, tree
    <3> QED
      BY <1>0, <3>1, <3>2 DEF WorkKnown, CommandKnown, KnownOf, FolderKnown, Opening, Filling,
         Readings, Renaming, Proving, Ended
  <2> QED
    BY <1>0, <1>1, <2>1, <2>2, <2>3, QuietStep, EarlyStep
    DEF SnapshotParent, Works, Opening, Working
<1>2. ASSUME OpenParent, ~Refuse PROVE PackageInv'
  <2>1. /\ work' = [work EXCEPT !.step = "absent", !.parent = place] /\ place = work.before
        /\ work.step = "openParent"
    BY <1>2 DEF OpenParent, Working
  <2>2. work' \in Works
    BY <1>0, <2>1 DEF Works, Opening
  <2>3. WorkKnown'
    BY <1>0, <1>2, <2>1 DEF WorkKnown, CommandKnown, KnownOf, FolderKnown, OpenParent,
       Observed, tree, Works, Opening, Filling, Readings, Renaming, Proving, Ended
  <2> QED
    BY <1>0, <1>2, <2>1, <2>2, <2>3, QuietStep, EarlyStep
    DEF OpenParent, Works, Opening, Working
<1>3. ASSUME TargetMustBeAbsent, work.step = "absent", ~Refuse PROVE PackageInv'
  <2>1. work' = [work EXCEPT !.step = "mkdir"]
    BY <1>3 DEF TargetMustBeAbsent, Working, Unless, Goes
  <2>2. work' \in Works
    BY <1>0, <2>1 DEF Works, Opening
  <2>3. WorkKnown'
    BY <1>0, <1>3, <2>1 DEF WorkKnown, CommandKnown, KnownOf, FolderKnown, TargetMustBeAbsent,
       Observed, tree, Works, Opening, Filling, Readings, Renaming, Proving, Ended
  <2> QED
    BY <1>0, <1>3, <2>1, <2>2, <2>3, QuietStep, EarlyStep
    DEF TargetMustBeAbsent, Works, Opening, Working
<1>4. CASE MakeStaging
  <2>0. /\ work.step = "mkdir" /\ work.parent \in 1..2 /\ work.parent = work.before
        /\ work.folder = Absent /\ DOMAIN work.owned = {} /\ work.todo = Artifacts
        /\ UNCHANGED <<meddled, theirs, offered>>
    BY <1>0, <1>4 DEF MakeStaging, Working, WorkKnown, CommandKnown, KnownOf, FolderKnown,
       Opening, Ended
  <2>1. CASE work' = [work EXCEPT !.step = "failed"] /\ UNCHANGED tree
    <3>1. work' \in Works
      BY <1>0, <2>1 DEF Works, Ended
    <3>2. /\ work'.step = "failed" /\ work'.owned = work.owned /\ work'.folder = Absent
          /\ work'.before = work.before
      BY <1>0, <2>0, <2>1 DEF Works
    <3>3. PackageTyped' /\ NamedOnce' /\ TargetTheirs'
      BY <2>0, <2>1, <3>1, <3>2 DEF PackageInv, PackageTyped, NamedOnce, TargetTheirs, tree
    <3>4. WorkKnown' /\ Scrubbing' /\ FailedScrubbed'
      BY <1>0, <2>0, <2>1, <3>2 DEF WorkKnown, CommandKnown, KnownOf, FolderKnown, Scrubbing,
         FailedScrubbed, Opening, Filling, Readings, Renaming, Proving, Ended, tree
    <3>5. ShownOffered' /\ ReadShown' /\ PlacedShown'
      BY <3>2 DEF ShownOffered, ReadShown, PlacedShown, Renamed, FirstReadback, LastReadback,
         Readings, Proving
    <3> QED
      BY <3>3, <3>4, <3>5 DEF PackageInv
  <2>2. CASE /\ holds[work.parent]["staging"] = Absent
             /\ holds' = [holds EXCEPT ![work.parent]["staging"] = Len(folders) + 1]
             /\ folders' = Append(folders, EmptyFolder)
             /\ work' = [work EXCEPT !.step = "openStaging"]
             /\ UNCHANGED <<place, bytes>>
    <3>1. /\ work' \in Works /\ work'.step = "openStaging" /\ work'.owned = work.owned
          /\ work'.folder = Absent /\ work'.todo = Artifacts /\ work'.before = work.before
          /\ work'.parent = work.parent
      BY <1>0, <2>0, <2>2 DEF Works, Opening
    <3>2. EmptyFolder \in [FileNames -> Nat]
      BY DEF EmptyFolder, Absent
    <3>3. folders' \in Seq([FileNames -> Nat]) /\ Len(folders') = Len(folders) + 1
      BY <2>2, <3>2 DEF PackageInv, PackageTyped
    <3>4. \A p \in 1..2, m \in DirectoryNames :
            holds'[p][m] = IF p = work.parent /\ m = "staging" THEN Len(folders) + 1
                           ELSE holds[p][m]
      BY <2>2 DEF PackageInv, PackageTyped
    <3>5. holds' \in [1..2 -> [DirectoryNames -> Nat]]
      <4>1. Len(folders) + 1 \in Nat /\ holds[work.parent] \in [DirectoryNames -> Nat]
        BY <1>0, <2>0 DEF PackageInv, PackageTyped
      <4> QED
        BY <2>0, <2>2, <4>1 DEF PackageInv, PackageTyped
    <3>6. PackageTyped'
      BY <2>0, <2>2, <3>1, <3>3, <3>5 DEF PackageInv, PackageTyped
    <3>7. NamedOnce'
      <4>1. \A p \in 1..2, m \in DirectoryNames :
              holds[p][m] \in Nat /\ holds[p][m] <= Len(folders)
        BY DEF PackageInv, PackageTyped, NamedOnce
      <4>2. \A p \in 1..2, m \in DirectoryNames : holds'[p][m] <= Len(folders')
        BY <1>0, <3>3, <3>4, <4>1
      <4>3. \A p, r \in 1..2, m, n \in DirectoryNames :
              holds'[p][m] = holds'[r][n] /\ holds'[p][m] # Absent => p = r /\ m = n
        BY <1>0, <3>4, <4>1 DEF PackageInv, NamedOnce
      <4> QED
        BY <2>0, <2>2, <3>1, <4>2, <4>3 DEF NamedOnce
    <3>8. TargetTheirs'
      BY <2>0, <3>4 DEF PackageInv, PackageTyped, TargetTheirs, DirectoryNames
    <3>9. WorkKnown'
      BY <1>0, <2>0, <2>2, <3>1 DEF WorkKnown, CommandKnown, KnownOf, FolderKnown, Opening,
         Filling, Readings, Renaming, Proving, Ended
    <3>10. Scrubbing' /\ FailedScrubbed'
      BY <3>1 DEF Scrubbing, FailedScrubbed
    <3> QED
      BY <3>1, <3>6, <3>7, <3>8, <3>9, <3>10, EarlyStep DEF PackageInv, Opening
  <2> QED
    BY <1>4, <2>1, <2>2 DEF MakeStaging, Goes
<1>5. ASSUME OpenStaging, ~Refuse PROVE PackageInv'
  <2> DEFINE d == holds[work.parent]["staging"]
  <2>1. work.step = "openStaging" /\ work.parent \in 1..2
    BY <1>0, <1>5 DEF OpenStaging, Working, WorkKnown, CommandKnown, KnownOf, FolderKnown,
       Opening, Ended
  <2>2. d \in 1..Len(folders)
    BY <1>0, <1>5, <2>1 DEF OpenStaging, PackageInv, PackageTyped, NamedOnce, DirectoryNames,
       Absent
  <2>3. work' = [work EXCEPT !.step = "linkedStaging", !.noted = d]
    BY <1>5 DEF OpenStaging
  <2> HIDE DEF d
  <2>4. work' \in Works
    <3>1. d \in Nat
      BY <1>0, <2>2
    <3> QED
      BY <1>0, <2>3, <3>1 DEF Works, Opening
  <2>5. WorkKnown'
    BY <1>0, <1>5, <2>1, <2>2, <2>3 DEF WorkKnown, CommandKnown, KnownOf, FolderKnown,
       OpenStaging, Observed, tree, Works, Opening, Filling, Readings, Renaming, Proving,
       Ended
  <2> QED
    BY <1>0, <1>5, <2>3, <2>4, <2>5, QuietStep, EarlyStep
    DEF OpenStaging, Works, Opening, Working
<1>6. ASSUME CheckStaging, ~Refuse PROVE PackageInv'
  <2>1. /\ work.step = "linkedStaging" /\ work.parent \in 1..2 /\ work.noted \in 1..Len(folders)
        /\ work.todo = Artifacts
    BY <1>0, <1>6 DEF CheckStaging, Working, WorkKnown, CommandKnown, KnownOf, FolderKnown,
       Opening, Ended
  <2>2. /\ holds[work.parent]["staging"] = work.noted
        /\ work' = [work EXCEPT !.step = "create", !.folder = work.noted]
    BY <1>6 DEF CheckStaging
  <2>3. \A q \in 1..2, n \in DirectoryNames : holds[q][n] = work.noted => q = work.parent
    BY <2>1, <2>2 DEF PackageInv, NamedOnce, DirectoryNames, Absent
  <2>4. work' \in Works
    BY <1>0, <2>1, <2>2 DEF Works, Filling
  <2>5. WorkKnown'
    BY <1>0, <1>6, <2>1, <2>2, <2>3, ArtifactsTyped DEF WorkKnown, CommandKnown, KnownOf,
       FolderKnown, CheckStaging, Observed, tree, Works, Opening, Filling, Readings, Renaming,
       Proving, Ended, Names, Absent
  <2> QED
    BY <1>0, <1>6, <2>2, <2>4, <2>5, QuietStep, EarlyStep
    DEF CheckStaging, Works, Filling, Working
<1>7. ASSUME OpenParent \/ OpenStaging \/ CheckStaging \/ TargetMustBeAbsent, Refuse
      PROVE  PackageInv'
  BY <1>7, RefuseOnly DEF OpenParent, OpenStaging, CheckStaging, TargetMustBeAbsent, Working
<1> QED
  BY <1>1, <1>2, <1>3, <1>4, <1>5, <1>6, <1>7

LEMMA FillingStep ==
  ASSUME PackageInv, CreateArtifact \/ WriteArtifact
  PROVE  PackageInv'
<1> DEFINE a == Head(work.todo)
<1>0. /\ work \in Works /\ WorkKnown /\ work.step \in Filling /\ work.todo \in Seq(Names)
      /\ work.todo # <<>> /\ work.folder \in 1..Len(folders) /\ Len(folders) \in Nat
      /\ Len(bytes) \in Nat /\ UNCHANGED <<meddled, theirs, offered>>
      /\ a \in Names /\ Tail(work.todo) \in Seq(Names)
  <2>1. /\ work \in Works /\ WorkKnown /\ work.step \in Filling
        /\ Len(folders) \in Nat /\ Len(bytes) \in Nat
    <3>1. work \in Works /\ WorkKnown
      BY DEF PackageInv, PackageTyped
    <3>2. Len(folders) \in Nat /\ Len(bytes) \in Nat
      BY DEF PackageInv, PackageTyped
    <3>3. work.step \in Filling
      BY DEF CreateArtifact, WriteArtifact, Working, Filling
    <3> QED
      BY <3>1, <3>2, <3>3
  <2>2. work.todo \in Seq(Names) /\ work.todo # <<>> /\ work.folder \in 1..Len(folders)
    BY <2>1 DEF Works, WorkKnown, CommandKnown, KnownOf, FolderKnown
  <2>3. UNCHANGED <<meddled, theirs, offered>>
    BY DEF CreateArtifact, WriteArtifact, Working, Observed
  <2> QED
    BY <2>1, <2>2, <2>3, NextArtifact
<1>a. /\ DOMAIN work.owned \subseteq Names /\ work.owned \in Owned
      /\ \A b \in DOMAIN work.owned : work.owned[b] \in 1..Len(bytes)
  <2>1. /\ DOMAIN work.owned \subseteq Names /\ work.owned \in Owned
        /\ \A b \in DOMAIN work.owned : work.owned[b] \in Nat \ {0}
    BY <1>0, OwnedIs DEF Works
  <2>2. \A b \in DOMAIN work.owned : work.owned[b] <= Len(bytes)
    BY DEF PackageInv, NamedOnce
  <2> QED
    BY <1>0, <2>1, <2>2
<1>1. ASSUME CreateArtifact, Refuse, UNCHANGED tree PROVE PackageInv'
  BY <1>0, <1>1, RefuseOnly DEF Observed
<1>2. ASSUME CreateArtifact,
             folders' = [folders EXCEPT ![work.folder][a] = Len(bytes) + 1],
             bytes' = Append(bytes, [content |-> "none", stamp |-> 0]),
             work' = [work EXCEPT !.step = "write",
                        !.owned = [b \in DOMAIN @ \cup {a} |->
                                     IF b = a THEN Len(bytes) + 1 ELSE @[b]]],
             UNCHANGED <<place, holds>>
      PROVE  PackageInv'
  <2> DEFINE new == [b \in DOMAIN work.owned \cup {a} |->
                       IF b = a THEN Len(bytes) + 1 ELSE work.owned[b]]
  <2>1. work' = [work EXCEPT !.step = "write", !.owned = new]
    BY <1>0, <1>2 DEF Works
  <2>2. /\ DOMAIN new = DOMAIN work.owned \cup {a}
        /\ \A b \in DOMAIN new : new[b] \in 1..(Len(bytes) + 1)
        /\ new \in [DOMAIN new -> 1..(Len(bytes) + 1)]
    BY <1>0, <1>a
  <2>3. new \in Owned
    <3>1. DOMAIN new \subseteq Names /\ 1..(Len(bytes) + 1) \subseteq Nat \ {0}
      BY <1>0, <1>a, <2>2
    <3>2. new \in [DOMAIN new -> Nat \ {0}]
      BY <2>2, <3>1
    <3> QED
      BY <3>1, <3>2, OwnedIs
  <2> HIDE DEF new
  <2>4. /\ work' \in Works /\ work'.step = "write" /\ work'.owned = new
        /\ work'.folder = work.folder /\ work'.todo = work.todo /\ work'.before = work.before
        /\ work'.parent = work.parent
    BY <1>0, <2>1, <2>3 DEF Works, Filling
  <2>5. folders' \in Seq([FileNames -> Nat]) /\ Len(folders') = Len(folders)
    <3>1. /\ folders[work.folder] \in [FileNames -> Nat] /\ Len(bytes) + 1 \in Nat
          /\ folders \in Seq([FileNames -> Nat])
      BY <1>0 DEF PackageInv, PackageTyped
    <3> DEFINE filled == [folders[work.folder] EXCEPT ![a] = Len(bytes) + 1]
    <3>2. filled \in [FileNames -> Nat]
      BY <3>1
    <3>3. folders' = [folders EXCEPT ![work.folder] = filled]
      BY <1>2
    <3> HIDE DEF filled
    <3> QED
      BY <1>0, <3>1, <3>2, <3>3
  <2>6. bytes' \in Seq(Inodes) /\ Len(bytes') = Len(bytes) + 1
    <3>1. [content |-> "none", stamp |-> 0] \in Inodes
      BY DEF Inodes
    <3> QED
      BY <1>2, <3>1 DEF PackageInv, PackageTyped
  <2>7. PackageTyped'
    BY <1>0, <1>2, <2>4, <2>5, <2>6 DEF PackageInv, PackageTyped
  <2>8. NamedOnce'
    <3>1. \A b \in DOMAIN work'.owned : work'.owned[b] <= Len(bytes')
      BY <1>0, <2>2, <2>4, <2>6
    <3>2. holds' = holds
      BY <1>2
    <3> QED
      BY <2>5, <3>1, <3>2 DEF PackageInv, NamedOnce
  <2>9. work.step = "create" /\ Names \subseteq DOMAIN work.owned \cup Range(work.todo)
    BY <1>0, <1>2 DEF CreateArtifact, Working, WorkKnown, CommandKnown, KnownOf
  <2>10. CommandKnown'
    <3>1. Names \subseteq DOMAIN new \cup Range(Tail(work.todo)) /\ a \in DOMAIN new
      BY <1>0, <2>2, <2>9, NextArtifact
    <3>2. work.folder # Absent /\ work.parent \in 1..2 /\ work.parent = work.before
      <4>1. work.step = "create"
        BY <2>9
      <4>2. work.folder # Absent
        BY <1>0 DEF Absent
      <4>3. /\ work.step \notin Ended \cup {"parent", "openParent"}
            /\ CommandKnown
        BY <1>0, <4>1 DEF Ended, WorkKnown
      <4> QED
        BY <4>2, <4>3 DEF CommandKnown, KnownOf
    <3> QED
      BY <1>0, <2>4, <3>1, <3>2
      DEF CommandKnown, KnownOf, Opening, Filling, Readings, Renaming, Proving, Ended
  <2>11. FolderKnown'
    BY <1>0, <1>2, <2>4, <2>5
    DEF WorkKnown, FolderKnown, Filling, Readings, Renaming, Proving
  <2>12. TargetTheirs' /\ Scrubbing' /\ FailedScrubbed'
    BY <1>0, <1>2, <2>4 DEF PackageInv, TargetTheirs, Scrubbing, FailedScrubbed
  <2> QED
    BY <2>4, <2>7, <2>8, <2>10, <2>11, <2>12, EarlyStep DEF PackageInv, WorkKnown, Filling
<1>3. CASE WriteArtifact
  <2>1. PICK content \in {"own", "part"} :
          /\ bytes' = [bytes EXCEPT ![work.owned[a]] = [@ EXCEPT !.content = content]]
          /\ IF content = "part" THEN Refuse
             ELSE IF Len(work.todo) > 1
             THEN work' = [work EXCEPT !.step = "create", !.todo = Tail(@)]
             ELSE work' = [work EXCEPT !.step = "names", !.todo = Artifacts, !.next = "parentAgain"]
    BY <1>3 DEF WriteArtifact
  <2>2. work.step = "write" /\ UNCHANGED <<place, holds, folders>>
    BY <1>3 DEF WriteArtifact, Working
  <2>3. a \in DOMAIN work.owned /\ Names \subseteq DOMAIN work.owned \cup Range(Tail(work.todo))
    BY <1>0, <2>2 DEF WorkKnown, CommandKnown, KnownOf
  <2>4. bytes' \in Seq(Inodes) /\ Len(bytes') = Len(bytes)
    <3>1. bytes \in Seq(Inodes) /\ work.owned[a] \in 1..Len(bytes)
      BY <1>a, <2>3 DEF PackageInv, PackageTyped
    <3>2. \A inode \in Inodes : [inode EXCEPT !.content = content] \in Inodes
      BY DEF Inodes
    <3>3. bytes[work.owned[a]] \in Inodes
      BY <3>1
    <3> QED
      BY <2>1, <3>1, <3>2, <3>3
  <2>5. work' \in Works /\ work'.owned = work.owned
    <3>1. CASE Refuse
      BY <1>0, <3>1, RefusedTyped DEF Refuse, Works
    <3>2. CASE work' = [work EXCEPT !.step = "create", !.todo = Tail(@)]
      BY <1>0, <3>2 DEF Works, Filling
    <3>3. CASE work' = [work EXCEPT !.step = "names", !.todo = Artifacts, !.next = "parentAgain"]
      BY <1>0, <3>3, ArtifactsTyped DEF Works, Readings
    <3> QED
      BY <2>1, <3>1, <3>2, <3>3
  <2>6. PackageTyped' /\ NamedOnce' /\ TargetTheirs'
    BY <1>0, <2>2, <2>4, <2>5 DEF PackageInv, PackageTyped, NamedOnce, TargetTheirs
  <2>7. CASE Refuse
    BY <2>2, <2>6, <2>7, RefuseStep
  <2>8. CASE Len(work.todo) > 1 /\ work' = [work EXCEPT !.step = "create", !.todo = Tail(@)]
    <3>1. /\ work'.step = "create" /\ work'.todo = Tail(work.todo) /\ work'.folder = work.folder
          /\ work'.before = work.before /\ work'.parent = work.parent
      BY <1>0, <2>8 DEF Works
    <3>2. Tail(work.todo) # <<>>
      BY <1>0, <2>8, NextArtifact
    <3>3. work.folder # Absent /\ work.parent \in 1..2 /\ work.parent = work.before
      BY <1>0, <2>2 DEF Absent, WorkKnown, CommandKnown, KnownOf, Ended
    <3>4. CommandKnown'
      BY <2>3, <2>5, <3>1, <3>2, <3>3
      DEF CommandKnown, KnownOf, Opening, Filling, Readings, Renaming, Proving, Ended
    <3>5. FolderKnown' /\ Scrubbing' /\ FailedScrubbed'
      BY <1>0, <2>2, <3>1 DEF WorkKnown, FolderKnown, Scrubbing, FailedScrubbed, Filling
    <3> QED
      BY <2>6, <3>1, <3>4, <3>5, EarlyStep DEF PackageInv, WorkKnown, Filling
  <2>9. CASE /\ ~(Len(work.todo) > 1)
             /\ work' = [work EXCEPT !.step = "names", !.todo = Artifacts, !.next = "parentAgain"]
    <3>1. /\ work'.step = "names" /\ work'.todo = Artifacts /\ work'.folder = work.folder
          /\ work'.before = work.before /\ work'.parent = work.parent
          /\ work'.next = "parentAgain"
      BY <1>0, <2>9 DEF Works
    <3>2. DOMAIN work.owned = Names
      BY <1>0, <1>a, <2>3, <2>9, NextArtifact
    <3>3. work.folder # Absent /\ work.parent \in 1..2 /\ work.parent = work.before
      BY <1>0, <2>2 DEF Absent, WorkKnown, CommandKnown, KnownOf, Ended
    <3>4. CommandKnown'
      BY <2>5, <3>1, <3>2, <3>3, ArtifactsTyped
      DEF CommandKnown, KnownOf, Opening, Filling, Readings, Renaming, Proving, Ended
    <3>5. FolderKnown' /\ Scrubbing' /\ FailedScrubbed'
      BY <1>0, <2>2, <3>1 DEF WorkKnown, FolderKnown, Scrubbing, FailedScrubbed, Filling
    <3> QED
      BY <2>6, <3>1, <3>4, <3>5, EarlyStep DEF PackageInv, WorkKnown, Readings
  <2> QED
    BY <2>1, <2>7, <2>8, <2>9
<1> QED
  BY <1>1, <1>2, <1>3 DEF CreateArtifact

(* Where nothing has changed, what is shown and linked is as before.       *)
LEMMA LookingOnly ==
  ASSUME Observed, work'.folder = work.folder, work'.owned = work.owned,
         work'.before = work.before
  PROVE  /\ Showing' = Showing /\ (Home' <=> Home)
         /\ \A a : OwnedLinked(a)' <=> OwnedLinked(a)
BY DEF Observed, tree, Showing, Complete, Home, OwnedLinked

LEMMA ReadingStep ==
  ASSUME PackageInv, CheckNames \/ StatArtifact \/ DigestArtifact \/ StatArtifactAgain
  PROVE  PackageInv'
<1> DEFINE a == Head(work.todo)
<1>0. /\ work \in Works /\ WorkKnown /\ work.step \in Readings /\ work.todo \in Seq(Names)
      /\ work.todo # <<>> /\ DOMAIN work.owned = Names /\ work.folder # Absent
      /\ work.next \in {"parentAgain", "parentAfter", "done"}
      /\ work.parent \in 1..2 /\ work.parent = work.before
      /\ ShownOffered /\ ReadShown /\ PlacedShown /\ Len(folders) \in Nat
      /\ Observed /\ UNCHANGED meddled /\ UNCHANGED theirs
  <2>1. work \in Works /\ WorkKnown /\ work.step \in Readings /\ Len(folders) \in Nat
    BY DEF PackageInv, PackageTyped, CheckNames, StatArtifact, DigestArtifact,
       StatArtifactAgain, Working, Readings
  <2>2. /\ work.todo \in Seq(Names) /\ work.todo # <<>> /\ DOMAIN work.owned = Names
        /\ work.folder # Absent /\ work.next \in {"parentAgain", "parentAfter", "done"}
    <3>1. work.todo \in Seq(Names) /\ work.next \in {"", "parentAgain", "parentAfter", "done"}
      BY <2>1 DEF Works
    <3>2. work.todo # <<>> /\ DOMAIN work.owned = Names /\ work.next # ""
      BY <2>1 DEF WorkKnown, CommandKnown, KnownOf
    <3>3. work.folder \in 1..Len(folders)
      BY <2>1 DEF WorkKnown, FolderKnown
    <3>4. work.folder # Absent
      BY <3>3 DEF Absent
    <3> QED
      BY <3>1, <3>2, <3>4
  <2>3. work.parent \in 1..2 /\ work.parent = work.before
    <3>1. work.step \notin Ended \cup {"parent", "openParent"}
      BY <2>1 DEF Readings, Ended
    <3> QED
      BY <2>1, <3>1 DEF WorkKnown, CommandKnown, KnownOf
  <2>4. Observed /\ UNCHANGED meddled /\ UNCHANGED theirs
    BY DEF CheckNames, StatArtifact, DigestArtifact, StatArtifactAgain, Working
  <2> QED
    BY <2>1, <2>2, <2>3, <2>4 DEF PackageInv
<1>a. /\ a \in Names /\ Tail(work.todo) \in Seq(Names)
      /\ Range(work.todo) \subseteq {a} \cup Range(Tail(work.todo))
      /\ Len(work.todo) > 1 => Tail(work.todo) # <<>>
      /\ ~(Len(work.todo) > 1) => Range(Tail(work.todo)) = {}
  BY <1>0, NextArtifact
<1>1. CASE Refuse
  BY <1>0, <1>1, RefuseOnly
(* The next step, and what it has to keep. *)
<1>2. ASSUME work' \in Works, work'.owned = work.owned, work'.folder = work.folder,
             work'.before = work.before, work'.parent = work.parent, work'.next = work.next,
             work'.published = work.published, work'.todo # <<>>,
             work'.step \in Readings \/ work'.step = work.next,
             ReadShown', PlacedShown', work'.step # "names"
      PROVE  PackageInv'
  <2>1. CommandKnown'
    BY <1>0, <1>2 DEF CommandKnown, KnownOf, Opening, Filling, Readings, Renaming, Proving,
       Ended
  <2>2. FolderKnown'
    BY <1>0, <1>2 DEF WorkKnown, FolderKnown, Observed, tree, Readings, Renaming, Proving
  <2>3. ShownOffered'
    <3>1. Renamed' => Renamed /\ work.step # "renamed"
      BY <1>0, <1>2 DEF Renamed, Readings, Proving
    <3>2. Showing' = Showing /\ offered' = offered
      BY <1>0, <1>2, LookingOnly DEF Observed
    <3> QED
      BY <1>0, <1>2, <3>1, <3>2 DEF ShownOffered
  <2>4. work'.step \notin {"scrub", "failed"}
    BY <1>0, <1>2 DEF Readings
  <2> QED
    BY <1>0, <1>2, <2>1, <2>2, <2>3, <2>4, QuietStep DEF WorkKnown
(* Both readbacks keep what is shown, of what they have behind them. *)
<1>3. ASSUME work'.owned = work.owned, work'.folder = work.folder,
             work'.before = work.before, work'.next = work.next,
             work'.step \in Readings \ {"names"} \/ work'.step = work.next,
             work.step = "names" => FirstLeft' = Names,
             FirstLeft \subseteq FirstLeft' \cup {a},
             a \in FirstLeft' \/ (Complete(work.owned[a]) /\ work.step = "digest")
               \/ a \notin FirstLeft
      PROVE  ReadShown'
  <2> SUFFICES ASSUME FirstReadback', NEW b \in Names \ FirstLeft', Home', OwnedLinked(b)'
               PROVE  b \in offered
    BY <1>0 DEF ReadShown, Observed
  <2>1. FirstReadback /\ Renamed
    BY <1>0, <1>3 DEF FirstReadback, Renamed, Readings
  <2>2. Home /\ OwnedLinked(b)
    BY <1>0, <1>3, LookingOnly
  <2>3. CASE b \notin FirstLeft
    BY <1>0, <2>1, <2>2, <2>3 DEF ReadShown
  <2>4. CASE b \in FirstLeft
    <3>1. b = a /\ Complete(work.owned[a])
      BY <1>3, <2>4
    <3>2. b \in Showing
      BY <1>0, <2>2, <3>1 DEF Showing, Home, OwnedLinked
    <3> QED
      BY <1>0, <2>1, <3>2 DEF ShownOffered
  <2> QED
    BY <2>3, <2>4
<1>4. ASSUME work'.owned = work.owned, work'.folder = work.folder,
             work'.before = work.before, work'.next = work.next,
             work'.step \in Readings \/ work'.step = work.next,
             LastLeft \subseteq LastLeft' \cup {a},
             a \in LastLeft' \/ OwnedLinked(a) \/ a \notin LastLeft
      PROVE  PlacedShown'
  <2> SUFFICES ASSUME LastReadback'
               PROVE  /\ \A b \in Names : OwnedLinked(b)' => b \in offered
                      /\ \A b \in Names \ LastLeft' : b \in offered
    BY <1>0 DEF PlacedShown, Observed
  <2>1. LastReadback
    BY <1>0, <1>4 DEF LastReadback, Readings
  <2>2. \A b \in Names : OwnedLinked(b) => b \in offered
    BY <1>0, <2>1 DEF PlacedShown
  <2>3. \A b \in Names : OwnedLinked(b)' => OwnedLinked(b)
    BY <1>0, <1>4, LookingOnly
  <2>4. \A b \in Names \ LastLeft : b \in offered
    BY <1>0, <2>1 DEF PlacedShown
  <2> QED
    BY <1>4, <1>a, <2>2, <2>3, <2>4
<1> HIDE DEF a
<1>5. ASSUME CheckNames, ~Refuse PROVE PackageInv'
  <2>1. CASE work.step = "names" /\ work' = [work EXCEPT !.step = "before"]
    <3>1. /\ work' \in Works /\ work'.step = "before" /\ work'.todo = Artifacts
          /\ work'.owned = work.owned /\ work'.folder = work.folder
          /\ work'.before = work.before /\ work'.parent = work.parent
          /\ work'.next = work.next /\ work'.published = work.published
      BY <1>0, <2>1 DEF Works, WorkKnown, CommandKnown, KnownOf, Readings
    <3>2. FirstLeft' = Names /\ LastLeft' = Names
      BY <3>1 DEF FirstLeft, LastLeft, Names
    <3>3. FirstLeft \subseteq Names /\ LastLeft \subseteq Names
      BY <2>1 DEF FirstLeft, LastLeft
    <3>4. ReadShown' /\ PlacedShown'
      BY <1>3, <1>4, <1>a, <3>1, <3>2, <3>3 DEF Readings
    <3> QED
      BY <1>2, <3>1, <3>4, ArtifactsTyped DEF Readings
  <2>2. CASE work.step = "namesAgain" /\ work' = [work EXCEPT !.step = work.next]
    <3>1. /\ work' \in Works /\ work'.step = work.next /\ work'.todo = work.todo
          /\ work'.owned = work.owned /\ work'.folder = work.folder
          /\ work'.before = work.before /\ work'.parent = work.parent
          /\ work'.next = work.next /\ work'.published = work.published
      BY <1>0, <2>2, ArtifactsTyped DEF Works, Renaming, Proving
    <3>2. FirstLeft = {} /\ LastLeft = {}
      BY <2>2 DEF FirstLeft, LastLeft
    <3>3. ReadShown' /\ PlacedShown'
      BY <1>3, <1>4, <2>2, <3>1, <3>2
    <3> QED
      BY <1>0, <1>2, <3>1, <3>3, ArtifactsTyped
  <2> QED
    BY <1>0, <1>5, <2>1, <2>2 DEF CheckNames, Working, Goes, Works
<1>6. ASSUME StatArtifact, ~Refuse PROVE PackageInv'
  <2>1. /\ work.step = "before" /\ OwnedLinked(a)
        /\ work' = [work EXCEPT !.step = "digest", !.noted = bytes[work.owned[a]].stamp]
    BY <1>6 DEF StatArtifact, Working, Reading, a
  <2>2. bytes[work.owned[a]].stamp \in Nat
    <3>1. work.owned[a] \in 1..Len(bytes)
      <4>1. work.owned \in Owned /\ bytes \in Seq(Inodes) /\ a \in DOMAIN work.owned
        BY <1>0, <1>a DEF Works, PackageInv, PackageTyped
      <4>2. work.owned[a] \in Nat \ {0} /\ work.owned[a] <= Len(bytes) /\ Len(bytes) \in Nat
        BY <4>1, OwnedIs DEF PackageInv, NamedOnce
      <4> QED
        BY <4>2
    <3>2. bytes[work.owned[a]] \in Inodes
      BY <3>1 DEF PackageInv, PackageTyped
    <3> QED
      BY <3>2 DEF Inodes
  <2>3. /\ work' \in Works /\ work'.step = "digest" /\ work'.todo = work.todo
        /\ work'.owned = work.owned /\ work'.folder = work.folder
        /\ work'.before = work.before /\ work'.parent = work.parent
        /\ work'.next = work.next /\ work'.published = work.published
    BY <1>0, <2>1, <2>2 DEF Works, Readings
  <2>4. /\ FirstLeft = Range(work.todo) /\ FirstLeft' = Range(work.todo)
        /\ LastLeft = Range(work.todo) /\ LastLeft' = Range(Tail(work.todo))
    BY <2>1, <2>3 DEF FirstLeft, LastLeft
  <2>5. ReadShown' /\ PlacedShown'
    BY <1>3, <1>4, <1>a, <2>1, <2>3, <2>4 DEF Readings
  <2> QED
    BY <1>0, <1>2, <2>3, <2>5 DEF Readings
<1>7. ASSUME DigestArtifact, ~Refuse PROVE PackageInv'
  <2>1. work.step = "digest" /\ Complete(work.owned[a]) /\ work' = [work EXCEPT !.step = "after"]
    BY <1>7 DEF DigestArtifact, Working, Reading, Unless, Goes, a
  <2>2. /\ work' \in Works /\ work'.step = "after" /\ work'.todo = work.todo
        /\ work'.owned = work.owned /\ work'.folder = work.folder
        /\ work'.before = work.before /\ work'.parent = work.parent
        /\ work'.next = work.next /\ work'.published = work.published
    BY <1>0, <2>1 DEF Works, Readings
  <2>3. /\ FirstLeft = Range(work.todo) /\ FirstLeft' = Range(Tail(work.todo))
        /\ LastLeft = Range(Tail(work.todo)) /\ LastLeft' = Range(Tail(work.todo))
    BY <2>1, <2>2 DEF FirstLeft, LastLeft
  <2>4. ReadShown' /\ PlacedShown'
    BY <1>3, <1>4, <1>a, <2>1, <2>2, <2>3 DEF Readings
  <2> QED
    BY <1>0, <1>2, <2>2, <2>4 DEF Readings
<1>8. ASSUME StatArtifactAgain, ~Refuse PROVE PackageInv'
  <2>0. work.step = "after"
    BY <1>8 DEF StatArtifactAgain, Working
  <2>1. CASE Len(work.todo) > 1 /\ work' = [work EXCEPT !.step = "before", !.todo = Tail(@)]
    <3>1. /\ work' \in Works /\ work'.step = "before" /\ work'.todo = Tail(work.todo)
          /\ work'.owned = work.owned /\ work'.folder = work.folder
          /\ work'.before = work.before /\ work'.parent = work.parent
          /\ work'.next = work.next /\ work'.published = work.published
      BY <1>0, <1>a, <2>1 DEF Works, Readings
    <3>2. /\ FirstLeft = Range(Tail(work.todo)) /\ FirstLeft' = Range(Tail(work.todo))
          /\ LastLeft = Range(Tail(work.todo)) /\ LastLeft' = Range(Tail(work.todo))
      BY <2>0, <3>1 DEF FirstLeft, LastLeft
    <3>3. ReadShown' /\ PlacedShown'
      BY <1>3, <1>4, <2>0, <3>1, <3>2 DEF Readings
    <3> QED
      BY <1>2, <1>a, <2>1, <3>1, <3>3 DEF Readings
  <2>2. CASE ~(Len(work.todo) > 1) /\ work' = [work EXCEPT !.step = "namesAgain"]
    <3>1. /\ work' \in Works /\ work'.step = "namesAgain" /\ work'.todo = work.todo
          /\ work'.owned = work.owned /\ work'.folder = work.folder
          /\ work'.before = work.before /\ work'.parent = work.parent
          /\ work'.next = work.next /\ work'.published = work.published
      BY <1>0, <2>2 DEF Works, Readings
    <3>2. FirstLeft = {} /\ LastLeft = {}
      BY <1>a, <2>0, <2>2 DEF FirstLeft, LastLeft
    <3>3. ReadShown' /\ PlacedShown'
      BY <1>3, <1>4, <2>0, <3>1, <3>2 DEF Readings
    <3> QED
      BY <1>0, <1>2, <3>1, <3>3 DEF Readings
  <2> QED
    BY <1>8, <2>1, <2>2 DEF StatArtifactAgain, Goes
<1> QED
  BY <1>1, <1>5, <1>6, <1>7, <1>8

LEMMA PublishStep ==
  ASSUME PackageInv,
         \/ CheckParent \/ CheckStagingAgain \/ CheckTarget \/ SyncParent \/ CheckTargetFinal
         \/ TargetMustBeAbsent /\ work.step = "absentAgain"
  PROVE  PackageInv'
<1>0. /\ work \in Works /\ WorkKnown /\ work.step \in Renaming \cup Proving
      /\ DOMAIN work.owned = Names /\ work.folder # Absent
      /\ work.parent \in 1..2 /\ work.parent = work.before
      /\ ShownOffered /\ ReadShown /\ PlacedShown
      /\ Observed /\ UNCHANGED meddled /\ UNCHANGED theirs
  <2>1. work \in Works /\ WorkKnown /\ work.step \in Renaming \cup Proving
    BY DEF PackageInv, PackageTyped, CheckParent, CheckStagingAgain, CheckTarget, SyncParent,
       CheckTargetFinal, Working, Renaming, Proving
  <2>2. DOMAIN work.owned = Names
    BY <2>1 DEF WorkKnown, CommandKnown, KnownOf
  <2>3. work.folder # Absent
    <3>1. work.folder \in 1..Len(folders)
      BY <2>1 DEF WorkKnown, FolderKnown
    <3> QED
      BY <3>1 DEF Absent
  <2>4. work.parent \in 1..2 /\ work.parent = work.before
    <3>1. work.step \notin Ended \cup {"parent", "openParent"}
      BY <2>1 DEF Renaming, Proving, Ended
    <3> QED
      BY <2>1, <3>1 DEF WorkKnown, CommandKnown, KnownOf
  <2>5. Observed /\ UNCHANGED meddled /\ UNCHANGED theirs
    BY DEF CheckParent, CheckStagingAgain, CheckTarget, SyncParent, CheckTargetFinal,
       TargetMustBeAbsent, Working
  <2> QED
    BY <2>1, <2>2, <2>3, <2>4, <2>5 DEF PackageInv
<1>1. CASE Refuse
  BY <1>0, <1>1, RefuseOnly
<1> DEFINE Same == /\ work' \in Works /\ work'.owned = work.owned /\ work'.folder = work.folder
                   /\ work'.before = work.before /\ work'.parent = work.parent
(* The next step, and what it has to keep. *)
<1>2. ASSUME Same, work'.step \in Renaming \cup Proving \cup {"names"},
             work'.step \in Proving => work'.next = "parentAfter",
             work'.step = "names" => work'.next # "" /\ work'.todo = Artifacts,
             ShownOffered', ReadShown', PlacedShown'
      PROVE  PackageInv'
  <2>1. CommandKnown'
    BY <1>0, <1>2, ArtifactsTyped
    DEF CommandKnown, KnownOf, Opening, Filling, Readings, Renaming, Proving, Ended
  <2>2. FolderKnown'
    <3>1. work'.step # "linkedStaging"
      BY <1>2 DEF Renaming, Proving
    <3> QED
      BY <1>0, <1>2, <3>1 DEF WorkKnown, FolderKnown, Observed, tree
  <2>3. work'.step \notin {"scrub", "failed"}
    BY <1>2 DEF Renaming, Proving
  <2> QED
    BY <1>0, <1>2, <2>1, <2>2, <2>3, QuietStep DEF WorkKnown
<1>3. ASSUME Same, work.step \in {"absentAgain", "stagingAgain", "parentAgain"},
             work'.step \in Renaming \ {"renamed"}
      PROVE  PackageInv'
  BY <1>2, <1>3, EarlyStep DEF Renaming, Proving
<1>4. ASSUME Same, work'.next = work.next, work'.published = work.published,
             work.step \in Proving, work'.step \in Proving \cup {"names"}
      PROVE  ShownOffered' /\ work.next = "parentAfter"
  <2>1. Renamed /\ work.step # "renamed"
    BY <1>4 DEF Renamed, Proving
  <2>2. Showing' = Showing /\ offered' = offered
    BY <1>0, <1>4, LookingOnly DEF Observed
  <2> QED
    BY <1>0, <1>4, <2>1, <2>2 DEF ShownOffered, WorkKnown, CommandKnown, KnownOf
<1>5. ASSUME CheckParent, ~Refuse PROVE PackageInv'
  <2>1. CASE work.step = "parentAgain" /\ work' = [work EXCEPT !.step = "stagingAgain"]
    <3>1. Same /\ work'.step = "stagingAgain"
      BY <1>0, <2>1 DEF Works, Renaming
    <3> QED
      BY <1>3, <2>1, <3>1 DEF Renaming
  <2>2. CASE \/ work.step = "parentAfter" /\ work' = [work EXCEPT !.step = "sync"]
             \/ work.step = "parentFinal" /\ work' = [work EXCEPT !.step = "targetPath"]
    <3>1. /\ Same /\ work'.next = work.next /\ work'.published = work.published
          /\ work'.step \in {"sync", "targetPath"}
      BY <1>0, <2>2 DEF Works, Proving
    <3>2. ShownOffered' /\ work.next = "parentAfter"
      BY <1>4, <2>2, <3>1 DEF Proving
    <3>3. ReadShown'
      <4>1. FirstReadback /\ FirstLeft = {} /\ FirstLeft' = {}
        BY <2>2, <3>1 DEF FirstReadback, FirstLeft
      <4> QED
        BY <1>0, <3>1, <4>1, LookingOnly DEF ReadShown, Observed
    <3>4. PlacedShown'
      BY <3>1 DEF PlacedShown, LastReadback, Readings
    <3> QED
      BY <1>2, <3>1, <3>2, <3>3, <3>4 DEF Proving
  <2> QED
    BY <1>5, <2>1, <2>2 DEF CheckParent, Working, Unless, Goes
<1>6. ASSUME CheckStagingAgain, ~Refuse PROVE PackageInv'
  <2>1. work.step = "stagingAgain" /\ work' = [work EXCEPT !.step = "absentAgain"]
    BY <1>6 DEF CheckStagingAgain, Working, Unless, Goes
  <2>2. Same /\ work'.step = "absentAgain"
    BY <1>0, <2>1 DEF Works, Renaming
  <2> QED
    BY <1>3, <2>1, <2>2 DEF Renaming
<1>7. ASSUME TargetMustBeAbsent, work.step = "absentAgain", ~Refuse PROVE PackageInv'
  <2>1. work' = [work EXCEPT !.step = "rename"]
    BY <1>7 DEF TargetMustBeAbsent, Working, Unless, Goes
  <2>2. Same /\ work'.step = "rename"
    BY <1>0, <2>1 DEF Works, Renaming
  <2> QED
    BY <1>3, <1>7, <2>2 DEF Renaming
<1>8. CASE CheckTarget
  <2>0. work.step = "renamed"
    BY <1>8 DEF CheckTarget, Working
  <2>1. CASE work' = [work EXCEPT !.step = "scrub", !.todo = Artifacts, !.outcome = "scrubbed",
                                  !.published = TRUE]
    <3>1. /\ Same /\ work'.step = "scrub" /\ work'.todo = Artifacts /\ work'.outcome = "scrubbed"
      BY <1>0, <2>1, ArtifactsTyped DEF Works, Ended
    <3>2. PackageTyped' /\ NamedOnce' /\ TargetTheirs'
      BY <1>0, <3>1 DEF PackageInv, PackageTyped, NamedOnce, TargetTheirs, Observed, tree
    <3>3. CommandKnown' /\ FolderKnown'
      BY <1>0, <3>1 DEF WorkKnown, CommandKnown, KnownOf, FolderKnown, Opening, Filling,
         Readings, Renaming, Proving, Ended, Observed, tree
    <3>4. Scrubbing' /\ FailedScrubbed'
      BY <1>0, <3>1 DEF Scrubbing, FailedScrubbed, Names
    <3>5. ShownOffered' /\ ReadShown' /\ PlacedShown'
      BY <3>1 DEF ShownOffered, ReadShown, PlacedShown, Renamed, FirstReadback, LastReadback,
         Readings, Proving
    <3> QED
      BY <3>2, <3>3, <3>4, <3>5 DEF PackageInv, WorkKnown
  <2>2. CASE work' = [work EXCEPT !.step = "names", !.todo = Artifacts, !.next = "parentAfter",
                                  !.published = TRUE]
    <3>1. /\ Same /\ work'.step = "names" /\ work'.todo = Artifacts
          /\ work'.next = "parentAfter" /\ work'.published = TRUE
      BY <1>0, <2>2, ArtifactsTyped DEF Works, Readings
    <3>2. ShownOffered'
      <4>1. Renamed
        BY <2>0 DEF Renamed
      <4>2. Showing' = Showing /\ offered' = offered
        BY <1>0, <3>1, LookingOnly DEF Observed
      <4> QED
        BY <1>0, <3>1, <4>1, <4>2 DEF ShownOffered
    <3>3. ReadShown' /\ PlacedShown'
      BY <3>1 DEF ReadShown, PlacedShown, FirstReadback, LastReadback, Readings
    <3> QED
      BY <1>2, <3>1, <3>2, <3>3 DEF Proving
  <2> QED
    BY <1>8, <2>1, <2>2 DEF CheckTarget
<1>9. CASE SyncParent
  <2>1. work.step = "sync" /\ work' = [work EXCEPT !.step = "parentFinal"]
    BY <1>9 DEF SyncParent, Working, Goes
  <2>2. /\ Same /\ work'.next = work.next /\ work'.published = work.published
        /\ work'.step = "parentFinal"
    BY <1>0, <2>1 DEF Works, Proving
  <2>3. ShownOffered' /\ work.next = "parentAfter"
    BY <1>4, <2>1, <2>2 DEF Proving
  <2>4. ReadShown'
    <3>1. FirstReadback /\ FirstLeft = {} /\ FirstLeft' = {}
      BY <2>1, <2>2 DEF FirstReadback, FirstLeft
    <3> QED
      BY <1>0, <2>2, <3>1, LookingOnly DEF ReadShown, Observed
  <2>5. PlacedShown'
    BY <2>2 DEF PlacedShown, LastReadback, Readings
  <2> QED
    BY <1>2, <2>2, <2>3, <2>4, <2>5 DEF Proving
<1>10. ASSUME CheckTargetFinal, ~Refuse PROVE PackageInv'
  <2>1. CASE /\ work.step = "targetPath" /\ holds[place]["target"] = work.folder
             /\ work' = [work EXCEPT !.step = "targetBound"]
    <3>1. /\ Same /\ work'.next = work.next /\ work'.published = work.published
          /\ work'.step = "targetBound"
      BY <1>0, <2>1 DEF Works, Proving
    <3>2. ShownOffered' /\ work.next = "parentAfter"
      BY <1>4, <2>1, <3>1 DEF Proving
    <3>3. ReadShown'
      BY <3>1 DEF ReadShown, FirstReadback, Readings
    <3>4. Home
      <4>1. place \in 1..2
        BY DEF PackageInv, PackageTyped
      <4>2. place = work.parent
        BY <1>0, <2>1, <4>1 DEF WorkKnown, FolderKnown, DirectoryNames
      <4> QED
        BY <1>0, <2>1, <4>2 DEF Home
    <3>5. PlacedShown'
      <4>1. FirstReadback /\ FirstLeft = {} /\ LastLeft' = Names
        BY <2>1, <3>1 DEF FirstReadback, FirstLeft, LastLeft
      <4>2. \A a \in Names : OwnedLinked(a) => a \in offered
        BY <1>0, <3>4, <4>1 DEF ReadShown
      <4> QED
        BY <1>0, <3>1, <4>1, <4>2, LookingOnly DEF PlacedShown, Observed
    <3> QED
      BY <1>2, <3>1, <3>2, <3>3, <3>5 DEF Proving
  <2>2. CASE /\ work.step = "targetBound"
             /\ work' = [work EXCEPT !.step = "names", !.todo = Artifacts, !.next = "done"]
    <3>1. /\ Same /\ work'.next = "done" /\ work'.published = work.published
          /\ work'.step = "names" /\ work'.todo = Artifacts
      BY <1>0, <2>2, ArtifactsTyped DEF Works, Readings
    <3>2. ShownOffered'
      <4>1. Renamed /\ work.step # "renamed"
        BY <2>2 DEF Renamed, Proving
      <4>2. Showing' = Showing /\ offered' = offered
        BY <1>0, <3>1, LookingOnly DEF Observed
      <4> QED
        BY <1>0, <3>1, <4>1, <4>2 DEF ShownOffered
    <3>3. ReadShown'
      BY <3>1 DEF ReadShown, FirstReadback, Readings
    <3>4. PlacedShown'
      <4>1. LastReadback /\ LastLeft' = Names
        BY <2>2, <3>1 DEF LastReadback, LastLeft
      <4> QED
        BY <1>0, <3>1, <4>1, LookingOnly DEF PlacedShown, Observed
    <3> QED
      BY <1>2, <3>1, <3>2, <3>3, <3>4 DEF Proving
  <2> QED
    BY <1>10, <2>1, <2>2 DEF CheckTargetFinal, Working, Goes
<1> QED
  BY <1>1, <1>5, <1>6, <1>7, <1>8, <1>9, <1>10

LEMMA RenameStep ==
  ASSUME PackageInv, RenameNoreplace
  PROVE  PackageInv'
<1>0. /\ work \in Works /\ WorkKnown /\ work.step = "rename" /\ place \in 1..2
      /\ DOMAIN work.owned = Names /\ work.folder \in 1..Len(folders) /\ Len(folders) \in Nat
      /\ work.parent \in 1..2 /\ work.parent = work.before
      /\ UNCHANGED <<place, folders, bytes, meddled, theirs>>
      /\ holds \in [1..2 -> [DirectoryNames -> Nat]]
      /\ \A q \in 1..2, n \in DirectoryNames : holds[q][n] = work.folder => q = work.parent
      /\ work.before <= place
  <2>1. /\ work \in Works /\ WorkKnown /\ work.step = "rename" /\ place \in 1..2
        /\ Len(folders) \in Nat /\ holds \in [1..2 -> [DirectoryNames -> Nat]]
        /\ UNCHANGED <<place, folders, bytes, meddled, theirs>>
    BY DEF PackageInv, PackageTyped, RenameNoreplace, Working
  <2>2. DOMAIN work.owned = Names /\ work.parent \in 1..2 /\ work.parent = work.before
    BY <2>1 DEF WorkKnown, CommandKnown, KnownOf, Renaming, Ended
  <2>3. /\ work.folder \in 1..Len(folders) /\ work.before <= place
        /\ \A q \in 1..2, n \in DirectoryNames : holds[q][n] = work.folder => q = work.parent
    BY <2>1 DEF WorkKnown, FolderKnown, Renaming
  <2> QED
    BY <2>1, <2>2, <2>3
<1>1. CASE Refuse /\ UNCHANGED <<holds, offered>>
  BY <1>0, <1>1, RefuseOnly DEF Observed, tree
<1>2. CASE /\ holds[work.parent]["target"] = Absent
           /\ holds' = [holds EXCEPT ![work.parent] =
                          [target |-> @["staging"], staging |-> Absent]]
           /\ work' = [work EXCEPT !.step = "renamed"]
           /\ offered' = Showing'
  <2>1. /\ work' \in Works /\ work'.step = "renamed" /\ work'.owned = work.owned
        /\ work'.folder = work.folder /\ work'.before = work.before
        /\ work'.parent = work.parent /\ work'.todo = work.todo
    BY <1>0, <1>2 DEF Works, Renaming
  <2>2. \A q \in 1..2 : /\ holds'[q]["target"] = IF q = work.parent THEN holds[q]["staging"]
                                                ELSE holds[q]["target"]
                        /\ holds'[q]["staging"] = IF q = work.parent THEN Absent
                                                  ELSE holds[q]["staging"]
    BY <1>0, <1>2
  <2>3. holds' \in [1..2 -> [DirectoryNames -> Nat]]
    <3> DEFINE moved == [target |-> holds[work.parent]["staging"], staging |-> Absent]
    <3>1. moved \in [DirectoryNames -> Nat]
      BY <1>0 DEF DirectoryNames, Absent
    <3>2. holds' = [holds EXCEPT ![work.parent] = moved]
      BY <1>0, <1>2
    <3> HIDE DEF moved
    <3> QED
      BY <1>0, <3>1, <3>2
  <2>4. offered' \subseteq Names
    BY <1>0, <1>2, <2>1 DEF Showing
  <2>5. PackageTyped'
    BY <1>0, <2>1, <2>3, <2>4 DEF PackageInv, PackageTyped
  <2>6. NamedOnce'
    BY <1>0, <1>2, <2>1, <2>2 DEF PackageInv, NamedOnce, DirectoryNames, Absent
  <2>7. TargetTheirs'
    <3> SUFFICES ASSUME NEW taken \in theirs PROVE holds'[taken[1]]["target"] = taken[2]
      BY <1>0 DEF TargetTheirs
    <3>1. taken[1] \in 1..2 /\ taken[2] # 0 /\ holds[taken[1]]["target"] = taken[2]
      BY DEF PackageInv, PackageTyped, TargetTheirs
    <3>2. taken[1] # work.parent
      BY <1>2, <3>1 DEF Absent
    <3> QED
      BY <2>2, <3>1, <3>2
  <2>8. CommandKnown'
    BY <1>0, <2>1
    DEF CommandKnown, KnownOf, Opening, Filling, Readings, Renaming, Proving, Ended, Absent
  <2>9. FolderKnown'
    BY <1>0, <2>1, <2>2 DEF FolderKnown, DirectoryNames, Absent
  <2>10. Scrubbing' /\ FailedScrubbed'
    BY <2>1 DEF Scrubbing, FailedScrubbed
  <2>11. ShownOffered' /\ ReadShown' /\ PlacedShown'
    BY <1>2, <2>1 DEF ShownOffered, ReadShown, PlacedShown, FirstReadback, LastReadback,
       Readings
  <2> QED
    BY <2>5, <2>6, <2>7, <2>8, <2>9, <2>10, <2>11 DEF PackageInv, WorkKnown
<1> QED
  BY <1>1, <1>2 DEF RenameNoreplace, Goes

LEMMA EndingStep ==
  ASSUME PackageInv, ScrubArtifact \/ CallRaises \/ Interrupt \/ KillCompiler
  PROVE  PackageInv'
<1>0. /\ work \in Works /\ WorkKnown /\ work.before <= place
      /\ UNCHANGED <<place, holds, folders, meddled, theirs, offered>>
      /\ DOMAIN work.owned \subseteq Names
      /\ \A a \in DOMAIN work.owned : work.owned[a] \in 1..Len(bytes)
  <2>1. work \in Works /\ WorkKnown /\ bytes \in Seq(Inodes)
    BY DEF PackageInv, PackageTyped
  <2>2. work.before <= place
    BY <2>1 DEF WorkKnown, FolderKnown
  <2>3. UNCHANGED <<place, holds, folders, meddled, theirs, offered>>
    BY DEF ScrubArtifact, CallRaises, Interrupt, KillCompiler, Working, Observed, tree
  <2>4. work.owned \in Owned
    BY <2>1 DEF Works
  <2>5. /\ DOMAIN work.owned \subseteq Names
        /\ \A a \in DOMAIN work.owned : work.owned[a] \in Nat \ {0} /\ work.owned[a] <= Len(bytes)
    BY <2>4, OwnedIs DEF PackageInv, NamedOnce
  <2>6. \A a \in DOMAIN work.owned : work.owned[a] \in 1..Len(bytes)
    BY <2>1, <2>5
  <2> QED
    BY <2>1, <2>2, <2>3, <2>5, <2>6
(* A command that ends, or goes on cleaning up.                            *)
<1>1. ASSUME work' \in Works, work'.owned = work.owned, work'.folder = work.folder,
             work'.before = work.before, work'.step \in Ended,
             work'.step = "scrub" => work'.outcome \in {"scrubbed", "incomplete"},
             bytes' \in Seq(Inodes), Len(bytes') = Len(bytes), Scrubbing', FailedScrubbed'
      PROVE  PackageInv'
  <2>1. PackageTyped' /\ NamedOnce' /\ TargetTheirs'
    BY <1>0, <1>1 DEF PackageInv, PackageTyped, NamedOnce, TargetTheirs
  <2>2. CommandKnown' /\ FolderKnown'
    BY <1>0, <1>1 DEF WorkKnown, CommandKnown, KnownOf, FolderKnown, Opening, Filling, Readings,
       Renaming, Proving, Ended
  <2>3. ShownOffered' /\ ReadShown' /\ PlacedShown'
    BY <1>1 DEF ShownOffered, ReadShown, PlacedShown, Renamed, FirstReadback, LastReadback,
       Readings, Proving, Ended
  <2> QED
    BY <1>1, <2>1, <2>2, <2>3 DEF PackageInv, WorkKnown
<1>b. bytes \in Seq(Inodes)
  BY DEF PackageInv, PackageTyped
<1>2. CASE ScrubArtifact
  <2> DEFINE a == Head(work.todo)
  <2>0. /\ work.step = "scrub" /\ work.todo \in Seq(Names)
        /\ work.outcome \in {"scrubbed", "incomplete"} /\ Scrubbing
    BY <1>0, <1>2 DEF ScrubArtifact, Working, WorkKnown, CommandKnown, KnownOf, Works,
       PackageInv
  <2>a. ASSUME work.todo # <<>>
        PROVE  /\ Tail(work.todo) \in Seq(Names)
               /\ Range(work.todo) \subseteq {a} \cup Range(Tail(work.todo))
    BY <2>0, <2>a, NextArtifact
  <2> HIDE DEF a
  <2>1. CASE work.todo = <<>> /\ work' = [work EXCEPT !.step = "failed"] /\ bytes' = bytes
    <3>1. /\ work' \in Works /\ work'.step = "failed" /\ work'.owned = work.owned
          /\ work'.folder = work.folder /\ work'.before = work.before
          /\ work'.outcome = work.outcome
      BY <1>0, <2>1 DEF Works, Ended
    <3>2. Range(work.todo) = {}
      BY <2>1 DEF Range
    <3>3. Scrubbing' /\ FailedScrubbed'
      BY <2>0, <2>1, <3>1, <3>2 DEF Scrubbing, FailedScrubbed
    <3> QED
      BY <1>1, <1>b, <2>1, <3>1, <3>3 DEF Ended
  <2>2. CASE /\ work.todo # <<>> /\ a \notin DOMAIN work.owned
             /\ work' = [work EXCEPT !.todo = Tail(@)] /\ bytes' = bytes
    <3>1. /\ work' \in Works /\ work'.step = "scrub" /\ work'.owned = work.owned
          /\ work'.folder = work.folder /\ work'.before = work.before
          /\ work'.outcome = work.outcome /\ work'.todo = Tail(work.todo)
      BY <1>0, <2>0, <2>a, <2>2 DEF Works
    <3>2. Scrubbing' /\ FailedScrubbed'
      BY <2>0, <2>a, <2>2, <3>1 DEF Scrubbing, FailedScrubbed
    <3> QED
      BY <1>1, <1>b, <2>0, <2>2, <3>1, <3>2 DEF Ended
  <2>3. CASE /\ work.todo # <<>> /\ a \in DOMAIN work.owned
             /\ work' = [work EXCEPT !.todo = Tail(@)]
             /\ bytes' = [bytes EXCEPT ![work.owned[a]] = [@ EXCEPT !.content = "none"]]
    <3>1. /\ work' \in Works /\ work'.step = "scrub" /\ work'.owned = work.owned
          /\ work'.folder = work.folder /\ work'.before = work.before
          /\ work'.outcome = work.outcome /\ work'.todo = Tail(work.todo)
      BY <1>0, <2>0, <2>a, <2>3 DEF Works
    <3>2. \A inode \in Inodes : /\ [inode EXCEPT !.content = "none"] \in Inodes
                               /\ [inode EXCEPT !.content = "none"].content = "none"
      BY DEF Inodes
    <3>3. bytes[work.owned[a]] \in Inodes /\ work.owned[a] \in 1..Len(bytes)
      BY <1>0, <1>b, <2>3
    <3>4. /\ bytes' \in Seq(Inodes) /\ Len(bytes') = Len(bytes)
          /\ bytes'[work.owned[a]].content = "none"
          /\ \A i \in 1..Len(bytes) : i # work.owned[a] => bytes'[i] = bytes[i]
      BY <1>b, <2>3, <3>2, <3>3
    <3>5. Scrubbing' /\ FailedScrubbed'
      <4>1. \A b \in DOMAIN work.owned : \/ bytes'[work.owned[b]].content = "none"
                                         \/ b # a /\ bytes'[work.owned[b]] = bytes[work.owned[b]]
        BY <1>0, <3>4
      <4> QED
        BY <2>0, <2>a, <2>3, <3>1, <4>1 DEF Scrubbing, FailedScrubbed
    <3> QED
      BY <1>1, <2>0, <3>1, <3>4, <3>5 DEF Ended
  <2>4. CASE /\ work.todo # <<>>
             /\ work' = [work EXCEPT !.todo = Tail(@), !.outcome = "incomplete"]
             /\ bytes' = bytes
    <3>1. /\ work' \in Works /\ work'.step = "scrub" /\ work'.owned = work.owned
          /\ work'.folder = work.folder /\ work'.before = work.before
          /\ work'.outcome = "incomplete"
      BY <1>0, <2>0, <2>a, <2>4 DEF Works
    <3>2. Scrubbing' /\ FailedScrubbed'
      BY <3>1 DEF Scrubbing, FailedScrubbed
    <3> QED
      BY <1>1, <1>b, <2>4, <3>1, <3>2 DEF Ended
  <2> QED
    BY <1>2, <2>1, <2>2, <2>3, <2>4 DEF ScrubArtifact, Goes, a
<1>3. CASE Refuse /\ bytes' = bytes
  BY <1>0, <1>3, RefuseOnly DEF Observed, tree
<1>4. CASE work' = [work EXCEPT !.step = "failed", !.outcome = "interrupted"] /\ bytes' = bytes
  <2>1. /\ work' \in Works /\ work'.step = "failed" /\ work'.owned = work.owned
        /\ work'.folder = work.folder /\ work'.before = work.before
        /\ work'.outcome = "interrupted"
    BY <1>0, <1>4 DEF Works, Ended
  <2>2. Scrubbing' /\ FailedScrubbed'
    BY <2>1 DEF Scrubbing, FailedScrubbed
  <2> QED
    BY <1>1, <1>b, <1>4, <2>1, <2>2 DEF Ended
<1>5. CASE work' = [work EXCEPT !.step = "killed"] /\ bytes' = bytes
  <2>1. /\ work' \in Works /\ work'.step = "killed" /\ work'.owned = work.owned
        /\ work'.folder = work.folder /\ work'.before = work.before
    BY <1>0, <1>5 DEF Works, Ended
  <2>2. Scrubbing' /\ FailedScrubbed'
    BY <2>1 DEF Scrubbing, FailedScrubbed
  <2> QED
    BY <1>1, <1>b, <1>5, <2>1, <2>2 DEF Ended
<1> QED
  BY <1>2, <1>3, <1>4, <1>5 DEF CallRaises, Interrupt, KillCompiler, Goes, Observed, tree

LEMMA PackageInvariance == PackageSpec => []PackageInv
<1>1. PackageInit => PackageInv
  <2> SUFFICES ASSUME PackageInit PROVE PackageInv
    OBVIOUS
  <2>1. /\ work = [step |-> "parent", before |-> 0, parent |-> 0, folder |-> Absent,
                   owned |-> <<>>, todo |-> Artifacts, noted |-> 0, next |-> "",
                   published |-> FALSE, outcome |-> "none"]
    BY DEF PackageInit
  <2>a. /\ work.step = "parent" /\ work.before = 0 /\ work.folder = 0 /\ work.owned = <<>>
        /\ work.todo = Artifacts
    BY <2>1 DEF Absent
  <2>2. work.owned \in Owned /\ DOMAIN work.owned = {}
    <3>1. <<>> \in [1..0 -> Nat \ {0}] /\ 1..0 = {}
      OBVIOUS
    <3>2. DOMAIN <<>> = {}
      BY <3>1
    <3> QED
      BY <2>a, <3>1, <3>2, OwnedIs
  <2>3. work \in Works
    <3> DEFINE owned == work.owned
    <3>1. work = [step |-> "parent", before |-> 0, parent |-> 0, folder |-> 0,
                  owned |-> owned, todo |-> Artifacts, noted |-> 0, next |-> "",
                  published |-> FALSE, outcome |-> "none"]
      BY <2>1, <2>a DEF Absent
    <3>2. owned \in Owned /\ "parent" \in Opening /\ 0 \in 0..2 /\ Artifacts \in Seq(Names)
      BY <2>2, ArtifactsTyped DEF Opening
    <3> HIDE DEF owned
    <3> QED
      BY <3>1, <3>2 DEF Works
  <2>4. PackageTyped
    <3>1. /\ place = 1 /\ holds = [q \in 1..2 |-> [n \in DirectoryNames |-> 0]]
          /\ folders = <<>> /\ bytes = <<>> /\ meddled = 0 /\ theirs = {} /\ offered = {}
      BY DEF PackageInit, Absent
    <3>2. holds \in [1..2 -> [DirectoryNames -> Nat]]
      BY <3>1
    <3> QED
      BY <2>3, <3>1, <3>2 DEF PackageTyped
  <2>5. NamedOnce /\ TargetTheirs
    <3>1. \A q \in 1..2, n \in DirectoryNames : holds[q][n] = 0
      BY DEF PackageInit, Absent
    <3>2. Len(folders) = 0 /\ theirs = {}
      BY DEF PackageInit
    <3> QED
      BY <2>2, <3>1, <3>2 DEF NamedOnce, TargetTheirs, Absent
  <2>6. CommandKnown /\ FolderKnown
    <3>1. place = 1
      BY DEF PackageInit
    <3> QED
      BY <2>a, <2>2, <3>1 DEF CommandKnown, KnownOf, FolderKnown, Opening, Filling, Readings,
         Renaming, Proving, Ended, Absent
  <2>7. Scrubbing /\ FailedScrubbed /\ ShownOffered /\ ReadShown /\ PlacedShown
    BY <2>1 DEF Scrubbing, FailedScrubbed, ShownOffered, ReadShown, PlacedShown, Renamed,
       FirstReadback, LastReadback, Readings, Proving
  <2> QED
    BY <2>4, <2>5, <2>6, <2>7 DEF PackageInv, WorkKnown
<1>2. PackageInv /\ [PackageNext]_packageVars => PackageInv'
  <2> SUFFICES ASSUME PackageInv, [PackageNext]_packageVars PROVE PackageInv'
    OBVIOUS
  <2>1. CASE Meddlers
    BY <2>1, MeddleStep
  <2>2. CASE SnapshotParent \/ OpenParent \/ MakeStaging \/ OpenStaging \/ CheckStaging
    BY <2>2, OpeningStep
  <2>3. CASE TargetMustBeAbsent
    <3>1. work.step = "absent" \/ work.step = "absentAgain"
      BY <2>3 DEF TargetMustBeAbsent, Working
    <3> QED
      BY <2>3, <3>1, OpeningStep, PublishStep
  <2>4. CASE CreateArtifact \/ WriteArtifact
    BY <2>4, FillingStep
  <2>5. CASE CheckNames \/ StatArtifact \/ DigestArtifact \/ StatArtifactAgain
    BY <2>5, ReadingStep
  <2>6. CASE CheckParent \/ CheckStagingAgain \/ CheckTarget \/ SyncParent \/ CheckTargetFinal
    BY <2>6, PublishStep
  <2>7. CASE RenameNoreplace
    BY <2>7, RenameStep
  <2>8. CASE ScrubArtifact \/ CallRaises \/ Interrupt \/ KillCompiler
    BY <2>8, EndingStep
  <2>9. CASE UNCHANGED packageVars
    <3>0. /\ UNCHANGED <<place, holds, folders, bytes, work, meddled, theirs, offered>>
          /\ PackageInv
      BY <2>9 DEF packageVars
    <3>1. PackageTyped' /\ NamedOnce' /\ TargetTheirs'
      BY <3>0 DEF PackageInv, PackageTyped, NamedOnce, TargetTheirs
    <3>2. CommandKnown'
      <4>1. work' = work /\ CommandKnown
        BY <3>0 DEF PackageInv, WorkKnown
      <4> QED
        BY <4>1, KnownStays
    <3>3. FolderKnown'
      BY <3>0 DEF PackageInv, WorkKnown, FolderKnown, Filling, Readings, Renaming, Proving
    <3>4. Scrubbing' /\ FailedScrubbed' /\ ShownOffered'
      BY <3>0 DEF PackageInv, Scrubbing, FailedScrubbed, ShownOffered, Renamed, Showing,
         Complete, Readings, Proving
    <3>5. ReadShown'
      BY <3>0 DEF PackageInv, ReadShown, FirstReadback, FirstLeft, Home, OwnedLinked, Readings,
         Names
    <3>6. PlacedShown'
      BY <3>0 DEF PackageInv, PlacedShown, LastReadback, LastLeft, OwnedLinked, Readings, Names
    <3> QED
      BY <3>1, <3>2, <3>3, <3>4, <3>5, <3>6 DEF PackageInv, WorkKnown
  <2> QED
    BY <2>1, <2>2, <2>3, <2>4, <2>5, <2>6, <2>7, <2>8, <2>9 DEF PackageNext
<1> QED
  BY <1>1, <1>2, PTL DEF PackageSpec

(* For any artifacts and any number of changes by others: a success means  *)
(* that each artifact could be read at the target, what others put there   *)
(* stays, and a failure leaves nothing written                             *)
(* (compile_representation_package, _cleanup_bound_directory).             *)
THEOREM PackagesAreHonest == PackageSpec => []PackageHonest
<1>1. PackageInv => PackageHonest
  <2> SUFFICES ASSUME PackageInv PROVE PackageHonest
    OBVIOUS
  <2>1. PackageShown
    <3> SUFFICES ASSUME work.step = "done" PROVE offered = Names
      BY DEF PackageShown, Names
    <3>1. LastReadback /\ LastLeft = {}
      BY DEF LastReadback, LastLeft
    <3> QED
      BY <3>1 DEF PackageInv, PackageTyped, PlacedShown
  <2> QED
    BY <2>1 DEF PackageHonest, PackageInv
<1> QED
  BY <1>1, PackageInvariance, PTL

-----------------------------------------------------------------------------
(* The Fundus.  There is no lock: decisions and previews that are whole    *)
(* stay, and a packaging command has seen of the decisions what it relies  *)
(* on, however many others are made meanwhile.                             *)

Decisions == [build : Builds, decision : {"accepted", "rejected", "inherited"}, parent : Nat,
            state : {"part", "whole"}]
PackagesMade == [record : Nat, state : {"part", "whole"}, rejected : SUBSET Nat]
CommandSteps == {"idle", "recipe", "building", "rendering", "deciding", "siblings", "gate",
                 "packaging"}
FundusCommands == [step : CommandSteps, build : Builds, writes : Nat, rejected : SUBSET Nat]

FundusTypeOK ==
  /\ registry \in Builds
  /\ built \in [Builds -> {"none", "part", "whole"}]
  /\ preview \in [Builds -> {"none", "part", "whole"}]
  /\ record \in Seq(Decisions)
  /\ package \in Seq(PackagesMade)
  /\ command \in [Commands -> FundusCommands]
  /\ reworked \in Nat

(* A decision stands on what it was made of.                               *)
Grounded(r) ==
  /\ record[r].decision = "accepted" => preview[record[r].build] = "whole"
  /\ record[r].decision = "inherited" =>
       LET p == record[r].parent
       IN  /\ p \in DOMAIN record
           /\ record[p].decision = "accepted" /\ record[p].state = "whole"
           /\ Identical(record[r].build, record[p].build)

Admitted(r) ==
  /\ r \in DOMAIN record
  /\ record[r].state = "whole" /\ record[r].decision # "rejected"

(* What a packaging command has seen of the decisions.                     *)
Checked(c) ==
  /\ command[c].step \in {"siblings", "gate"} =>
       /\ Admitted(command[c].writes)
       /\ command[c].build = record[command[c].writes].build
  /\ command[c].step = "siblings" =>
       \A r \in command[c].rejected :
         r \in Of(command[c].build) /\ record[r].decision = "rejected"
  /\ command[c].step = "gate" => command[c].rejected = {}

DecisionInv ==
  /\ FundusTypeOK
  /\ \A r \in DOMAIN record : Grounded(r)
  /\ \A c \in Commands : Checked(c)
  /\ \A i \in DOMAIN package : Admitted(package[i].record) /\ package[i].rejected = {}

(* Decisions and previews that are whole stay.                             *)
NothingLost ==
  /\ \A b \in Builds : preview[b] = "whole" => preview'[b] = "whole"
  /\ \A r \in DOMAIN record :
       /\ r \in DOMAIN record'
       /\ record'[r].build = record[r].build
       /\ record'[r].decision = record[r].decision
       /\ record'[r].parent = record[r].parent
       /\ record[r].state = "whole" => record'[r].state = "whole"

(* At first nothing is decided.                                            *)
LEMMA InitialDecisions == FundusInit => DecisionInv
PROOF
  BY FundusAssumption, EmptySeq DEF FundusInit, DecisionInv, FundusTypeOK, Idle, CommandSteps, FundusCommands, Checked,
     Builds, Decisions, PackagesMade

(* A process that has nothing to do is one.                                *)
LEMMA IdleTyped == Idle \in FundusCommands
PROOF
  BY FundusAssumption DEF Idle, FundusCommands, CommandSteps

(* A command that begins a step has its type, and the others stay.         *)
LEMMA BeginTyped ==
  ASSUME FundusTypeOK, NEW c \in Commands, NEW step \in CommandSteps, NEW b \in Builds,
         Advance(c, step, b)
  PROVE  /\ command' \in [Commands -> FundusCommands]
         /\ command'[c].step = step
         /\ \A d \in Commands \ {c} : command'[d] = command[d]
PROOF
  <1>1. PICK p \in FundusCommands : p = Idle
    BY IdleTyped
  <1>2. command' = [command EXCEPT ![c] = [p EXCEPT !.step = step, !.build = b]]
    BY <1>1 DEF Advance
  <1>3. /\ [p EXCEPT !.step = step, !.build = b] \in FundusCommands
        /\ [p EXCEPT !.step = step, !.build = b].step = step
    BY DEF FundusCommands
  <1> QED
    BY <1>2, <1>3 DEF FundusTypeOK

(* So it is when a command ends.                                           *)
LEMMA EndTyped ==
  ASSUME FundusTypeOK, NEW c \in Commands, EndCommand(c)
  PROVE  /\ command' \in [Commands -> FundusCommands]
         /\ command'[c] = Idle
         /\ \A d \in Commands \ {c} : command'[d] = command[d]
PROOF
  BY IdleTyped DEF FundusTypeOK, EndCommand

(* A decision is added behind the others, and its command goes on to write *)
(* it.                                                                     *)
LEMMA DecideTyped ==
  ASSUME FundusTypeOK, NEW c \in Commands, NEW b \in Builds,
         NEW decision \in {"accepted", "rejected", "inherited"}, NEW p \in Nat,
         Decide(c, b, decision, p)
  PROVE  /\ command' \in [Commands -> FundusCommands]
         /\ command'[c].step = "deciding"
         /\ \A d \in Commands \ {c} : command'[d] = command[d]
         /\ record' \in Seq(Decisions)
         /\ DOMAIN record' = DOMAIN record \cup {Len(record) + 1}
         /\ \A r \in DOMAIN record : record'[r] = record[r]
         /\ record'[Len(record) + 1] = [build |-> b, decision |-> decision, parent |-> p, state |-> "part"]
PROOF
  <1> DEFINE new == [build |-> b, decision |-> decision, parent |-> p, state |-> "part"]
  <1>1. new \in Decisions
    BY DEF Decisions
  <1>2. record' = Append(record, new)
    BY DEF Decide
  <1>3. record \in Seq(Decisions) /\ Len(record) \in Nat /\ DOMAIN record = 1..Len(record)
    BY LenProperties DEF FundusTypeOK
  <1> HIDE DEF new
  <1>4. /\ record' \in Seq(Decisions)
        /\ DOMAIN record' = DOMAIN record \cup {Len(record) + 1}
        /\ \A r \in DOMAIN record : record'[r] = record[r]
        /\ record'[Len(record) + 1] = new
    <2>1. Append(record, new) \in Seq(Decisions) /\ Len(Append(record, new)) = Len(record) + 1
          /\ \A i \in 1..Len(record) : Append(record, new)[i] = record[i]
          /\ Append(record, new)[Len(record) + 1] = new
      BY <1>1, <1>3, AppendProperties
    <2>2. DOMAIN Append(record, new) = 1..(Len(record) + 1)
      BY <2>1, LenProperties
    <2> QED
      BY <1>2, <1>3, <2>1, <2>2
  <1>5. /\ command' \in [Commands -> FundusCommands]
        /\ command'[c].step = "deciding"
        /\ \A d \in Commands \ {c} : command'[d] = command[d]
    <2>0. PICK q \in FundusCommands : q = Idle
      BY IdleTyped
    <2> DEFINE mine == [q EXCEPT !.step = "deciding", !.build = b, !.writes = Len(record) + 1]
    <2>1. command' = [command EXCEPT ![c] = mine]
      BY <2>0 DEF Decide
    <2>2. mine \in FundusCommands /\ mine.step = "deciding"
      <3>1. "deciding" \in CommandSteps /\ Len(record) + 1 \in Nat
        BY <1>3 DEF CommandSteps
      <3> QED
        BY <3>1 DEF FundusCommands
    <2> HIDE DEF mine
    <2> QED
      BY <2>1, <2>2 DEF FundusTypeOK
  <1>6. record'[Len(record) + 1] = [build |-> b, decision |-> decision, parent |-> p, state |-> "part"]
    BY <1>4 DEF new
  <1> QED
    BY <1>4, <1>5, <1>6
(* What was known of the decisions stays known, of all but the processes   *)
(* that move.                                                              *)
LEMMA KeptInv ==
  ASSUME DecisionInv, FundusTypeOK', NothingLost
  PROVE  /\ \A r \in DOMAIN record : Grounded(r)'
         /\ \A n : Admitted(n) => /\ n \in DOMAIN record'
                                 /\ record'[n].state = "whole" /\ record'[n].decision # "rejected"
         /\ \A c \in Commands : command'[c] = command[c] => Checked(c)'
PROOF
  <1>1. \A r \in DOMAIN record : record[r] \in Decisions
    BY ElementOfSeq DEF DecisionInv, FundusTypeOK
  <1>2. ASSUME NEW r \in DOMAIN record
        PROVE  Grounded(r)'
    <2>1. Grounded(r) /\ record[r].build \in Builds
      BY <1>1, <1>2 DEF DecisionInv, Decisions
    <2> QED
      BY <2>1 DEF NothingLost, Grounded, Identical
  <1>3. ASSUME NEW n, Admitted(n)
        PROVE  /\ n \in DOMAIN record'
               /\ record'[n].state = "whole" /\ record'[n].decision # "rejected"
    BY <1>3 DEF NothingLost, Admitted
  <1>4. ASSUME NEW c \in Commands, command'[c] = command[c]
        PROVE  Checked(c)'
    <2>1. Checked(c)
      BY DEF DecisionInv
    <2>2. command[c].step \in {"siblings", "gate"} =>
            /\ command[c].writes \in DOMAIN record'
            /\ record'[command[c].writes].state = "whole"
            /\ record'[command[c].writes].decision # "rejected"
            /\ command[c].build = record'[command[c].writes].build
      BY <1>3, <2>1 DEF Checked, Admitted, NothingLost
    <2>3. command[c].step = "siblings" =>
            \A r \in command[c].rejected :
              r \in DOMAIN record' /\ record'[r].build = command[c].build /\ record'[r].decision = "rejected"
      BY <2>1 DEF Checked, Of, NothingLost
    <2> QED
      BY <1>4, <2>1, <2>2, <2>3 DEF Checked, Of, Admitted
  <1> QED
    BY <1>2, <1>3, <1>4


(* Every step preserves the invariant.                                     *)
LEMMA DecisionsStep ==
  DecisionInv /\ [FundusNext]_fundusVars => DecisionInv'
PROOF
  <1> SUFFICES ASSUME DecisionInv, [FundusNext]_fundusVars
               PROVE  DecisionInv'
    OBVIOUS
  <1> USE DEF DecisionInv
  <1>0. \A r \in DOMAIN record : record[r] \in Decisions
    BY ElementOfSeq DEF FundusTypeOK
  <1>u. ASSUME FundusTypeOK', NothingLost, UNCHANGED record, UNCHANGED package,
               \A c \in Commands : Checked(c)'
        PROVE  DecisionInv'
    <2>1. \A r \in DOMAIN record' : Grounded(r)'
      BY <1>u, KeptInv
    <2>2. \A i \in DOMAIN package' : (Admitted(package[i].record) /\ package[i].rejected = {})'
      BY <1>u DEF Admitted
    <2> QED
      BY <1>u, <2>1, <2>2
  \* Only one process changes, and it has nothing to do with packages.
  <1>o. ASSUME FundusTypeOK', NothingLost, UNCHANGED record, UNCHANGED package,
               NEW c \in Commands,
               command'[c].step \notin {"siblings", "gate"},
               \A d \in Commands \ {c} : command'[d] = command[d]
        PROVE  DecisionInv'
    <2>1. ASSUME NEW d \in Commands PROVE Checked(d)'
      <3>1. CASE d = c
        BY <1>o, <3>1 DEF Checked
      <3>2. CASE d # c
        BY <1>o, <3>2, KeptInv
      <3> QED
        BY <3>1, <3>2
    <2> QED
      BY <1>o, <1>u, <2>1
  \* A decision is added.
  <1>d. ASSUME NEW c \in Commands, NEW b \in Builds,
               NEW decision \in {"accepted", "rejected", "inherited"}, NEW p \in Nat,
               Decide(c, b, decision, p), UNCHANGED <<registry, built, preview, package, reworked>>,
               decision = "accepted" => preview[b] = "whole",
               decision = "inherited" =>
                 /\ p \in DOMAIN record
                 /\ record[p].decision = "accepted" /\ record[p].state = "whole"
                 /\ Identical(b, record[p].build)
        PROVE  DecisionInv'
    <2>1. /\ command' \in [Commands -> FundusCommands]
          /\ command'[c].step = "deciding"
          /\ \A d \in Commands \ {c} : command'[d] = command[d]
          /\ record' \in Seq(Decisions)
          /\ DOMAIN record' = DOMAIN record \cup {Len(record) + 1}
          /\ \A r \in DOMAIN record : record'[r] = record[r]
          /\ record'[Len(record) + 1] = [build |-> b, decision |-> decision, parent |-> p, state |-> "part"]
      BY <1>d, DecideTyped
    <2>2. FundusTypeOK'
      BY <1>d, <2>1 DEF FundusTypeOK
    <2>3. NothingLost
      BY <1>d, <2>1 DEF NothingLost
    <2>4. ASSUME NEW r \in DOMAIN record' PROVE Grounded(r)'
      <3>1. CASE r \in DOMAIN record
        BY <2>2, <2>3, <3>1, KeptInv
      <3>2. CASE r = Len(record) + 1
        BY <1>d, <2>1, <3>2 DEF Grounded, Identical
      <3> QED
        BY <2>1, <3>1, <3>2
    <2>5. ASSUME NEW d \in Commands PROVE Checked(d)'
      <3>1. CASE d = c
        BY <2>1, <3>1 DEF Checked
      <3>2. CASE d # c
        BY <2>1, <2>2, <2>3, <3>2, KeptInv
      <3> QED
        BY <3>1, <3>2
    <2>6. ASSUME NEW i \in DOMAIN package' PROVE (Admitted(package[i].record) /\ package[i].rejected = {})'
      BY <1>d, <2>3 DEF Admitted, NothingLost
    <2> QED
      BY <2>2, <2>4, <2>5, <2>6
  <1>1. CASE EditRegistry
    <2>1. FundusTypeOK' /\ NothingLost /\ UNCHANGED <<record, package, command>>
      BY <1>1 DEF EditRegistry, artifacts, FundusTypeOK, NothingLost
    <2> QED
      BY <1>u, <2>1, KeptInv
  <1>2. ASSUME NEW c \in Commands, Build(c) PROVE DecisionInv'
    <2>1. UNCHANGED <<registry, preview, record, package, reworked>>
      BY <1>2 DEF Build
    <2>2. NothingLost
      BY <2>1 DEF NothingLost
    <2>3. CASE Advance(c, "recipe", registry) /\ UNCHANGED built
      <3>1. "recipe" \in CommandSteps /\ registry \in Builds
        BY DEF CommandSteps, FundusTypeOK
      <3>2. command' \in [Commands -> FundusCommands] /\ command'[c].step = "recipe"
            /\ \A d \in Commands \ {c} : command'[d] = command[d]
        BY <2>3, <3>1, BeginTyped
      <3>3. FundusTypeOK'
        BY <2>1, <2>3, <3>2 DEF FundusTypeOK
      <3> QED
        BY <1>o, <2>1, <2>2, <3>2, <3>3
    <2>4. CASE LET b == [command[c].build EXCEPT !.recipe = registry.recipe]
               IN  built' = [built EXCEPT ![b] = "part"] /\ Advance(c, "building", b)
      <3> DEFINE b == [command[c].build EXCEPT !.recipe = registry.recipe]
      <3>1. "building" \in CommandSteps /\ b \in Builds
        BY DEF CommandSteps, FundusTypeOK, FundusCommands, Builds
      <3> HIDE DEF b
      <3>2. built' = [built EXCEPT ![b] = "part"] /\ Advance(c, "building", b)
        BY <2>4 DEF b
      <3>3. command' \in [Commands -> FundusCommands] /\ command'[c].step = "building"
            /\ \A d \in Commands \ {c} : command'[d] = command[d]
        BY <3>1, <3>2, BeginTyped
      <3>4. FundusTypeOK'
        BY <2>1, <3>1, <3>2, <3>3 DEF FundusTypeOK
      <3> QED
        BY <1>o, <2>1, <2>2, <3>3, <3>4
    <2>5. CASE EndCommand(c) /\ built' \in {built, [built EXCEPT ![command[c].build] = "whole"]}
      <3>1. command' \in [Commands -> FundusCommands] /\ command'[c].step = "idle"
            /\ \A d \in Commands \ {c} : command'[d] = command[d]
        BY <2>5, EndTyped DEF Idle
      <3>2. FundusTypeOK'
        BY <2>1, <2>5, <3>1 DEF FundusTypeOK
      <3> QED
        BY <1>o, <2>1, <2>2, <3>1, <3>2
    <2> QED
      BY <1>2, <2>3, <2>4, <2>5 DEF Build
  <1>3. ASSUME NEW c \in Commands, Preview(c) PROVE DecisionInv'
    <2>1. UNCHANGED <<registry, built, record, package, reworked>>
      BY <1>3 DEF Preview
    <2>2. ASSUME NEW b \in Builds, preview[b] # "whole", preview' = [preview EXCEPT ![b] = "part"],
                 Advance(c, "rendering", b)
          PROVE  DecisionInv'
      <3>1. "rendering" \in CommandSteps
        BY DEF CommandSteps
      <3>2. command' \in [Commands -> FundusCommands] /\ command'[c].step = "rendering"
            /\ \A d \in Commands \ {c} : command'[d] = command[d]
        BY <2>2, <3>1, BeginTyped
      <3>3. FundusTypeOK' /\ NothingLost
        BY <2>1, <2>2, <3>2 DEF FundusTypeOK, NothingLost
      <3> QED
        BY <1>o, <2>1, <3>2, <3>3
    <2>3. CASE preview' = [preview EXCEPT ![command[c].build] = "whole"] /\ EndCommand(c)
      <3>1. command' \in [Commands -> FundusCommands] /\ command'[c].step = "idle"
            /\ \A d \in Commands \ {c} : command'[d] = command[d]
        BY <2>3, EndTyped DEF Idle
      <3>2. FundusTypeOK' /\ NothingLost
        BY <2>1, <2>3, <3>1 DEF FundusTypeOK, NothingLost
      <3> QED
        BY <1>o, <2>1, <3>1, <3>2
    <2> QED
      BY <1>3, <2>2, <2>3 DEF Preview
  <1>4. ASSUME NEW c \in Commands, Accept(c) PROVE DecisionInv'
    <2>1. PICK b \in Builds :
            \/ preview[b] = "whole" /\ Decide(c, b, "accepted", 0)
            \/ Decide(c, b, "rejected", 0)
      BY <1>4 DEF Accept
    <2>2. UNCHANGED <<registry, built, preview, package, reworked>>
      BY <1>4 DEF Accept
    <2> QED
      BY <1>d, <2>1, <2>2
  <1>5. ASSUME NEW c \in Commands, InheritAcceptance(c) PROVE DecisionInv'
    <2>1. PICK b \in Builds, p \in DOMAIN record :
            /\ record[p].state = "whole" /\ record[p].decision = "accepted"
            /\ Identical(b, record[p].build)
            /\ Decide(c, b, "inherited", p)
      BY <1>5 DEF InheritAcceptance
    <2>2. UNCHANGED <<registry, built, preview, package, reworked>>
      BY <1>5 DEF InheritAcceptance
    <2>3. p \in Nat
      BY LenProperties DEF FundusTypeOK
    <2> QED
      BY <1>d, <2>1, <2>2, <2>3
  <1>6. ASSUME NEW c \in Commands, EndDecision(c) PROVE DecisionInv'
    <2> DEFINE n == command[c].writes
    <2>1. record' = [record EXCEPT ![n].state = "whole"] /\ EndCommand(c)
          /\ UNCHANGED <<registry, built, preview, package, reworked>>
      BY <1>6 DEF EndDecision
    <2>2. command' \in [Commands -> FundusCommands] /\ command'[c].step = "idle"
          /\ \A d \in Commands \ {c} : command'[d] = command[d]
      BY <2>1, EndTyped DEF Idle
    <2>3. record \in Seq(Decisions) /\ Len(record) \in Nat /\ DOMAIN record = 1..Len(record)
      BY LenProperties DEF FundusTypeOK
    <2> HIDE DEF n
    <2>4. DOMAIN record' = DOMAIN record
          /\ \A r \in DOMAIN record :
               record'[r] = IF r = n THEN [record[r] EXCEPT !.state = "whole"] ELSE record[r]
      BY <2>1, <2>3
    <2>5. \A r \in DOMAIN record : [record[r] EXCEPT !.state = "whole"] \in Decisions
      BY <1>0 DEF Decisions
    <2>6. record' \in Seq(Decisions)
      <3>1. record' \in [1..Len(record) -> Decisions]
        BY <1>0, <2>1, <2>3, <2>4, <2>5
      <3> QED
        BY <2>3, <3>1, SeqDef
    <2>7. FundusTypeOK'
      BY <2>1, <2>2, <2>6 DEF FundusTypeOK
    <2>8. \A r \in DOMAIN record :
            /\ record'[r].build = record[r].build /\ record'[r].decision = record[r].decision
            /\ record'[r].parent = record[r].parent
            /\ record[r].state = "whole" => record'[r].state = "whole"
      BY <1>0, <2>4 DEF Decisions
    <2>9. NothingLost
      BY <2>1, <2>4, <2>8 DEF NothingLost
    <2>10. ASSUME NEW d \in Commands PROVE Checked(d)'
      <3>1. CASE d = c
        BY <2>2, <3>1 DEF Checked
      <3>2. CASE d # c
        BY <2>2, <2>7, <2>9, <3>2, KeptInv
      <3> QED
        BY <3>1, <3>2
    <2>11. \A i \in DOMAIN package' : (Admitted(package[i].record) /\ package[i].rejected = {})'
      BY <2>1, <2>9 DEF Admitted, NothingLost
    <2>12. \A r \in DOMAIN record' : Grounded(r)'
      BY <2>4, <2>7, <2>9, KeptInv
    <2> QED
      BY <2>7, <2>10, <2>11, <2>12
  <1>8. ASSUME NEW c \in Commands, KillCommand(c) PROVE DecisionInv'
    <2>1. command' \in [Commands -> FundusCommands] /\ command'[c].step = "idle"
          /\ \A d \in Commands \ {c} : command'[d] = command[d]
      BY <1>8, EndTyped DEF Idle, KillCommand
    <2>2. FundusTypeOK' /\ NothingLost /\ UNCHANGED <<record, package>>
      BY <1>8, <2>1 DEF KillCommand, artifacts, FundusTypeOK, NothingLost
    <2> QED
      BY <1>o, <2>1, <2>2
  <1>9. CASE UNCHANGED fundusVars
    <2>1. FundusTypeOK' /\ NothingLost /\ UNCHANGED <<record, package, command>>
      BY <1>9 DEF fundusVars, FundusTypeOK, NothingLost
    <2> QED
      BY <1>u, <2>1, KeptInv
  <1>7. ASSUME NEW c \in Commands, Package(c) PROVE DecisionInv'
    <2> DEFINE b == command[c].build
               n == command[c].writes
    <2>1. UNCHANGED <<registry, built, preview, record, reworked>> /\ NothingLost
      BY <1>7 DEF Package, NothingLost
    <2>2. command[c] \in FundusCommands
      BY DEF FundusTypeOK
    <2>3. package \in Seq(PackagesMade) /\ Len(package) \in Nat /\ DOMAIN package = 1..Len(package)
      BY LenProperties DEF FundusTypeOK
    \* Nothing is written; the process goes on with what it has seen.
    <2>s. ASSUME NEW new \in FundusCommands, command' = [command EXCEPT ![c] = new], UNCHANGED package,
                 Checked(c)'
          PROVE  DecisionInv'
      <3>1. FundusTypeOK' /\ \A d \in Commands \ {c} : command'[d] = command[d]
        BY <2>1, <2>s DEF FundusTypeOK
      <3>2. ASSUME NEW d \in Commands PROVE Checked(d)'
        <4>1. CASE d = c
          BY <2>s, <4>1
        <4>2. CASE d # c
          BY <2>1, <3>1, <4>2, KeptInv
        <4> QED
          BY <4>1, <4>2
      <3> QED
        BY <1>u, <2>1, <2>s, <3>1, <3>2
    <2>4. ASSUME NEW r \in DOMAIN record, Loads(r), record[r].decision # "rejected",
                 command' = [command EXCEPT ![c] = [step |-> "siblings", build |-> record[r].build,
                                                    writes |-> r, rejected |-> Rejected(record[r].build)]],
                 UNCHANGED package
          PROVE  DecisionInv'
      <3> DEFINE new == [step |-> "siblings", build |-> record[r].build, writes |-> r,
                         rejected |-> Rejected(record[r].build)]
      <3>1. new \in FundusCommands
        <4>1. r \in Nat /\ record[r].build \in Builds
          BY <1>0, LenProperties DEF FundusTypeOK, Decisions
        <4>2. Rejected(record[r].build) \subseteq Nat
          BY LenProperties DEF FundusTypeOK, Rejected, Of
        <4> QED
          BY <4>1, <4>2 DEF FundusCommands, CommandSteps
      <3>2. command'[c] = new
        BY <2>4 DEF FundusTypeOK
      <3>3. Admitted(r) /\ \A q \in Rejected(record[r].build) :
              q \in Of(record[r].build) /\ record[q].decision = "rejected"
        BY <2>4 DEF Admitted, Loads, Rejected
      <3>4. Checked(c)'
        BY <2>1, <3>2, <3>3 DEF Checked, Admitted, Of
      <3> QED
        BY <2>4, <2>s, <3>1, <3>4
    <2>5. CASE /\ Doing(c, "siblings") /\ NoneRejects(b) /\ UNCHANGED package
               /\ command' = [command EXCEPT ![c].step = "gate"]
      <3> DEFINE new == [command[c] EXCEPT !.step = "gate"]
      <3>1. new \in FundusCommands /\ new.step = "gate" /\ new.writes = n /\ new.build = b
            /\ new.rejected = command[c].rejected
        BY <2>2 DEF FundusCommands, CommandSteps
      <3>2. command' = [command EXCEPT ![c] = new] /\ command'[c] = new
        BY <2>5 DEF FundusTypeOK
      <3>3. Checked(c)
        OBVIOUS
      <3>4. Admitted(n) /\ b = record[n].build /\ command[c].rejected = {}
        BY <2>5, <3>3 DEF Checked, Doing, NoneRejects
      <3> HIDE DEF new
      <3>5. Checked(c)'
        BY <2>1, <3>1, <3>2, <3>4 DEF Checked, Admitted
      <3> QED
        BY <2>5, <2>s, <3>1, <3>2, <3>5
    <2>6. CASE EndCommand(c) /\ UNCHANGED package
      <3>1. Checked(c)'
        BY <2>6 DEF EndCommand, Checked, Idle, FundusTypeOK
      <3> QED
        BY <2>6, <2>s, <3>1, IdleTyped DEF EndCommand
    <2>7. CASE /\ Doing(c, "gate")
               /\ package' = Append(package, [record |-> n, state |-> "part",
                                              rejected |-> command[c].rejected])
               /\ command' = [command EXCEPT ![c].step = "packaging",
                                             ![c].writes = Len(package) + 1]
      <3> DEFINE new == [record |-> n, state |-> "part", rejected |-> command[c].rejected]
      <3>1. new \in PackagesMade
        BY <2>2 DEF FundusCommands, PackagesMade
      <3>2. Checked(c)
        OBVIOUS
      <3>3. Admitted(n) /\ command[c].rejected = {}
        BY <2>7, <3>2 DEF Checked, Doing
      <3>4. new.record = n /\ new.rejected = {}
        BY <3>3
      <3>5. package' = Append(package, new)
        BY <2>7
      <3> HIDE DEF new
      <3>6. /\ package' \in Seq(PackagesMade)
            /\ DOMAIN package' = DOMAIN package \cup {Len(package) + 1}
            /\ \A i \in DOMAIN package : package'[i] = package[i]
            /\ package'[Len(package) + 1] = new
        <4>1. /\ Append(package, new) \in Seq(PackagesMade) /\ Len(Append(package, new)) = Len(package) + 1
              /\ \A i \in 1..Len(package) : Append(package, new)[i] = package[i]
              /\ Append(package, new)[Len(package) + 1] = new
          BY <2>3, <3>1, AppendProperties
        <4>2. DOMAIN Append(package, new) = 1..(Len(package) + 1)
          BY <4>1, LenProperties
        <4> QED
          BY <2>3, <3>5, <4>1, <4>2
      <3>7. /\ command' \in [Commands -> FundusCommands]
            /\ command'[c].step = "packaging"
            /\ \A d \in Commands \ {c} : command'[d] = command[d]
        <4>1. "packaging" \in CommandSteps /\ Len(package) + 1 \in Nat
          BY <2>3 DEF CommandSteps
        <4> DEFINE one == [command[c] EXCEPT !.step = "packaging"]
                   two == [one EXCEPT !.writes = Len(package) + 1]
        <4>2. one \in FundusCommands
          BY <2>2, <4>1 DEF FundusCommands
        <4>3. two \in FundusCommands /\ two.step = one.step
          BY <4>1, <4>2 DEF FundusCommands
        <4>4. one.step = "packaging"
          BY <2>2 DEF FundusCommands
        <4>5. command' = [[command EXCEPT ![c] = one] EXCEPT ![c] = two]
          BY <2>7 DEF FundusTypeOK
        <4> HIDE DEF one, two
        <4> QED
          BY <4>2, <4>3, <4>4, <4>5 DEF FundusTypeOK
      <3>9. FundusTypeOK'
        BY <2>1, <3>6, <3>7 DEF FundusTypeOK
      <3>10. ASSUME NEW d \in Commands PROVE Checked(d)'
        <4>1. CASE d = c
          BY <3>7, <4>1 DEF Checked
        <4>2. CASE d # c
          BY <2>1, <3>7, <3>9, <4>2, KeptInv
        <4> QED
          BY <4>1, <4>2
      <3>11. \A i \in DOMAIN package' : (Admitted(package[i].record) /\ package[i].rejected = {})'
        BY <2>1, <3>3, <3>4, <3>6 DEF Admitted
      <3>12. \A r \in DOMAIN record' : Grounded(r)'
        BY <2>1, <3>9, KeptInv
      <3> QED
        BY <3>9, <3>10, <3>11, <3>12
    <2>8. CASE package' = [package EXCEPT ![n].state = "whole"] /\ EndCommand(c)
      <3>1. command' \in [Commands -> FundusCommands] /\ command'[c].step = "idle"
            /\ \A d \in Commands \ {c} : command'[d] = command[d]
        BY <2>8, EndTyped DEF Idle
      <3>2. \A i \in DOMAIN package : package[i] \in PackagesMade
        BY ElementOfSeq DEF FundusTypeOK
      <3> HIDE DEF n
      <3>3. DOMAIN package' = DOMAIN package
            /\ \A i \in DOMAIN package :
                 package'[i] = IF i = n THEN [package[i] EXCEPT !.state = "whole"] ELSE package[i]
        BY <2>3, <2>8
      <3>4. \A i \in DOMAIN package :
              LET whole == [package[i] EXCEPT !.state = "whole"]
              IN  whole \in PackagesMade /\ whole.record = package[i].record
                  /\ whole.rejected = package[i].rejected
        BY <3>2 DEF PackagesMade
      <3>5. package' \in Seq(PackagesMade)
        <4>1. package' \in [1..Len(package) -> PackagesMade]
          BY <2>3, <2>8, <3>2, <3>3, <3>4
        <4> QED
          BY <2>3, <4>1, SeqDef
      <3>6. FundusTypeOK'
        BY <2>1, <3>1, <3>5 DEF FundusTypeOK
      <3>7. ASSUME NEW d \in Commands PROVE Checked(d)'
        <4>1. CASE d = c
          BY <3>1, <4>1 DEF Checked
        <4>2. CASE d # c
          BY <2>1, <3>1, <3>6, <4>2, KeptInv
        <4> QED
          BY <4>1, <4>2
      <3>8. \A i \in DOMAIN package' : (Admitted(package[i].record) /\ package[i].rejected = {})'
        <4>1. \A i \in DOMAIN package :
                package'[i].record = package[i].record /\ package'[i].rejected = package[i].rejected
          BY <3>3, <3>4
        <4> QED
          BY <2>1, <3>3, <4>1 DEF Admitted
      <3>9. \A r \in DOMAIN record' : Grounded(r)'
        BY <2>1, <3>6, KeptInv
      <3> QED
        BY <3>6, <3>7, <3>8, <3>9
    <2> QED
      BY <1>7, <2>4, <2>5, <2>6, <2>7, <2>8 DEF Package
  <1> QED
    BY <1>1, <1>2, <1>3, <1>4, <1>5, <1>6, <1>7, <1>8, <1>9 DEF FundusNext

(* The invariant holds always, however commands overlap or are killed and  *)
(* the registry is edited.                                                 *)
THEOREM FundusInvariance == FundusSpec => []DecisionInv
PROOF
  BY InitialDecisions, DecisionsStep, PTL DEF FundusSpec

(* For any manifests, recipes, commands and edits: a package goes back to  *)
(* a direct acceptance of a build with the same sources and outputs, whose *)
(* preview was whole, and its build had not been rejected when its command *)
(* began (package, _load_acceptance and inherit_acceptance in              *)
(* fundus/core.py).                                                        *)
THEOREM PackagesAreReviewed == FundusSpec => []PackagedReviewed
PROOF
  <1>1. DecisionInv => PackagedReviewed
    <2> SUFFICES ASSUME DecisionInv, NEW i \in DOMAIN package
                 PROVE  LET r == package[i].record
                            direct == IF record[r].decision = "inherited" THEN record[r].parent ELSE r
                        IN  /\ record[direct].decision = "accepted" /\ record[direct].state = "whole"
                            /\ preview[record[direct].build] = "whole"
                            /\ Identical(record[r].build, record[direct].build)
                            /\ package[i].rejected = {}
      BY DEF PackagedReviewed
    <2> DEFINE r == package[i].record
    <2>1. Admitted(r) /\ package[i].rejected = {} /\ Grounded(r)
      BY DEF DecisionInv, Admitted
    <2>2. record[r].decision \in {"accepted", "rejected", "inherited"}
      <3>1. \A q \in DOMAIN record : record[q] \in Decisions
        BY ElementOfSeq DEF DecisionInv, FundusTypeOK
      <3> QED
        BY <2>1, <3>1 DEF Admitted, Decisions
    <2>3. record[r].decision = "inherited" => Grounded(record[r].parent)
      BY <2>1 DEF DecisionInv, Grounded
    <2> QED
      BY <2>1, <2>2, <2>3 DEF Admitted, Grounded, Identical
  <1> QED
    BY <1>1, FundusInvariance, PTL

-----------------------------------------------------------------------------
(* Receipts. *)

(* What is known of the receipt held, by its kind.                         *)
StartProven(r) ==
  /\ r.snapshot \in Shots
  /\ r.ok => Cleared(r.region, r.snapshot)

DeclaredProven(r) ==
  /\ StartProven(r)
  /\ OperationsFor(r.region, r.operations)

SimulationProven(r) ==
  /\ r.before \in Shots
  /\ r.ok => /\ Cleared(r.region, r.before)
             /\ Carried(r.region, r.contract, r.after)
             /\ r.after.of = r.contract

DeclaredBy(post) == IF post.simulated THEN post.source.contract ELSE post.source

PostflightProven(r) ==
  /\ r.before \in Shots
  /\ r.simulated \in BOOLEAN
  /\ r.ok => Cleared(r.region, r.before) /\ Carried(r.region, DeclaredBy(r), r.after)
  /\ r.simulated =>
       /\ r.before = r.source.before
       /\ r.after = r.source.after
       /\ r.ok => r.source.after.of = r.source.contract

RestoreProven(r) ==
  /\ PostflightProven(r.postflight)
  /\ r.region = r.postflight.region
  /\ r.before = r.postflight.before
  /\ r.simulated = r.postflight.simulated
  /\ r.simulated => r.simulation = r.postflight.source
  /\ r.restored \in Shots
  /\ r.ok => /\ r.postflight.ok
             /\ r.restored.digest = r.before.digest
             /\ r.restored.alias = r.before.alias

ReceiptInv ==
  /\ Holding("preflight") \/ Holding("scaffold") => StartProven(held)
  /\ Holding("apply") \/ Holding("contract") => DeclaredProven(held)
  /\ Holding("simulation") => SimulationProven(held)
  /\ Holding("postflight") => PostflightProven(held)
  /\ Holding("restore") => RestoreProven(held)
  /\ ReceiptsProven

(* A gate is proven if its scaffold is: packets are what the commands write.*)
LEMMA GateIsProven ==
  ASSUME NEW s, StartProven(s), NEW packet \in Packets, NEW ack \in BOOLEAN,
         Gate(s, packet, ack).ok
  PROVE  /\ Cleared(s.region, s.snapshot)
         /\ LET evaluation == packet.review.status.evaluation
                claim == evaluation.claim
            IN  /\ evaluation.current
                /\ claim.requested /\ claim.verified /\ claim.listed
                /\ (claim.cleaned /\ claim.attempted) \/ claim.boundary = "accepted"
<1>1. s.ok /\ packet.ok
  BY DEF Gate, ScaffoldUsable
<1>2. PICK c \in Claims, current \in BOOLEAN :
        packet = EvidencePacket(ReviewPacket(Status(Evaluation(c, current))))
  BY DEF Packets
<1>3. ClaimValid(c) /\ current
  BY <1>1, <1>2 DEF EvidencePacket, ReviewPacket, Status, Evaluation
<1>4. packet.review.status.evaluation = Evaluation(c, current)
  BY <1>2 DEF EvidencePacket, ReviewPacket, Status
<1> QED
  BY <1>1, <1>3, <1>4 DEF StartProven, ClaimValid, Evaluation

THEOREM ReceiptStep == ReceiptInv /\ [ReceiptsNext]_receiptVars => ReceiptInv'
<1> SUFFICES ASSUME ReceiptInv, [ReceiptsNext]_receiptVars PROVE ReceiptInv'
  OBVIOUS
<1>1. CASE UNCHANGED receiptVars
  <2>1. held' = held /\ origin' = origin
    BY <1>1 DEF receiptVars
  <2>2. \A d, shot : Cleared(d, shot)' <=> Cleared(d, shot)
    BY <2>1 DEF Cleared
  <2>3. /\ StartProven(held)' <=> StartProven(held)
        /\ DeclaredProven(held)' <=> DeclaredProven(held)
        /\ SimulationProven(held)' <=> SimulationProven(held)
        /\ PostflightProven(held)' <=> PostflightProven(held)
        /\ RestoreProven(held)' <=> RestoreProven(held)
    BY <2>1, <2>2 DEF StartProven, DeclaredProven, SimulationProven, PostflightProven,
       RestoreProven
  <2>4. CloseoutsProven' /\ GatesProven'
    BY <2>1, <2>2 DEF ReceiptInv, ReceiptsProven, CloseoutsProven, GatesProven, Holding
  <2> QED
    BY <2>1, <2>3, <2>4 DEF ReceiptInv, Holding, ReceiptsProven
<1>2. CASE RunPreflight
  <2>1. PICK declaration \in Declarations, shot \in Shots, aliases \in Allowlists,
             operation \in RegionOperations :
          /\ held' = Preflight(declaration, shot, declaration.alias \in aliases, operation)
          /\ origin' = [region |-> declaration, snapshot |-> shot,
                        listed |-> declaration.alias \in aliases]
    BY <1>2 DEF RunPreflight
  <2>2. held'.kind = "preflight" /\ StartProven(held)'
    BY <2>1 DEF Preflight, StartProven, Cleared, AsDeclared, Sound
  <2> QED
    BY <2>2 DEF ReceiptInv, Holding, ReceiptsProven, CloseoutsProven, GatesProven
<1>3. CASE RunScaffold
  <2>1. held'.kind = "scaffold" /\ StartProven(held)'
    BY <1>3 DEF RunScaffold, Write, Scaffold, Holding, ReceiptInv, StartProven, Cleared
  <2> QED
    BY <2>1 DEF ReceiptInv, Holding, ReceiptsProven, CloseoutsProven, GatesProven
<1>4. CASE RunApplyReceipt \/ RunContract
  <2>1. PICK operations \in OperationLists, kind \in {"apply", "contract"} :
          /\ Holding("scaffold")
          /\ OperationsFor(held.region, operations)
          /\ Write(DeclaredReceipt(kind, held, operations))
    BY <1>4 DEF RunApplyReceipt, RunContract
  <2>2. held'.kind = kind /\ DeclaredProven(held)'
    BY <2>1 DEF Write, DeclaredReceipt, Holding, ReceiptInv, StartProven, DeclaredProven,
       Cleared, ScaffoldUsable, OperationsFor
  <2> QED
    BY <2>2 DEF ReceiptInv, Holding, ReceiptsProven, CloseoutsProven, GatesProven
<1>5. CASE RunSimulation
  <2>1. PICK after \in AfterFiles(held) : Write(Simulation(held, after))
    BY <1>5 DEF RunSimulation
  <2>2. held'.kind = "simulation" /\ SimulationProven(held)'
    BY <1>5, <2>1 DEF RunSimulation, Write, Simulation, Holding, ReceiptInv, StartProven,
       DeclaredProven, SimulationProven, Cleared, Carried, AfterObserved, OperationsFor
  <2> QED
    BY <2>2 DEF ReceiptInv, Holding, ReceiptsProven, CloseoutsProven, GatesProven
<1>6. CASE RunPostflight
  <2>1. PICK after \in AfterFiles(held) : Write(Postflight(held, after))
    BY <1>6 DEF RunPostflight
  <2>2. held'.kind = "postflight" /\ PostflightProven(held)'
    BY <1>6, <2>1 DEF RunPostflight, Write, Postflight, Holding, ReceiptInv, StartProven,
       DeclaredProven, PostflightProven, DeclaredBy, Cleared, Carried, AfterObserved,
       OperationsFor
  <2> QED
    BY <2>2 DEF ReceiptInv, Holding, ReceiptsProven, CloseoutsProven, GatesProven
<1>7. CASE RunSimulationPostflight
  <2>1. held'.kind = "postflight" /\ PostflightProven(held)'
    BY <1>7 DEF RunSimulationPostflight, Write, SimulationPostflight, Holding, ReceiptInv,
       SimulationProven, PostflightProven, DeclaredBy, Cleared, Carried, OperationsFor
  <2> QED
    BY <2>1 DEF ReceiptInv, Holding, ReceiptsProven, CloseoutsProven, GatesProven
<1>8. CASE RunRestore
  <2>1. PICK shot \in Shots : Write(Restored(held, shot))
    BY <1>8 DEF RunRestore
  <2>2. held'.kind = "restore" /\ RestoreProven(held)'
    BY <1>8, <2>1 DEF RunRestore, Write, Restored, Holding, ReceiptInv,
       PostflightProven, RestoreProven, DeclaredBy, Cleared, Carried, OperationsFor
  <2> QED
    BY <2>2 DEF ReceiptInv, Holding, ReceiptsProven, CloseoutsProven, GatesProven
<1>9. CASE RunSimulationCloseout
  <2>1. /\ held'.kind = "simulation closeout"
        /\ RestoreProven(held)
        /\ held' = SimulationCloseout(held)
        /\ UNCHANGED origin
    BY <1>9 DEF RunSimulationCloseout, Write, SimulationCloseout, Holding, ReceiptInv
  <2>2. ASSUME held'.ok
        PROVE  (LET run == held.simulation
                IN  /\ Cleared(held.region, run.before)
                    /\ Carried(held.region, run.contract, run.after)
                    /\ run.after.of = run.contract
                    /\ held.restore.restored = run.before)'
    <3>1. /\ held.ok /\ held.simulated /\ Sound(held.restored)
          /\ held.restored.count = held.before.count
          /\ held'.simulation = held.simulation
          /\ held'.region = held.region
          /\ held'.restore = held
      BY <2>1, <2>2 DEF SimulationCloseout
    <3>2. /\ held.simulation = held.postflight.source
          /\ held.before = held.simulation.before
          /\ held.postflight.after = held.simulation.after
          /\ held.simulation.after.of = held.simulation.contract
          /\ DeclaredBy(held.postflight) = held.simulation.contract
          /\ Cleared(held.region, held.before)
          /\ Carried(held.region, held.simulation.contract, held.simulation.after)
      BY <2>1, <3>1 DEF RestoreProven, PostflightProven, DeclaredBy
    <3>3. held.restored = held.before
      BY <2>1, <3>1, <3>2, ReceiptAssumption DEF RestoreProven, PostflightProven, Cleared, Sound
    <3> QED
      BY <2>1, <3>1, <3>2, <3>3 DEF Cleared, Carried
  <2> QED
    BY <2>1, <2>2 DEF ReceiptInv, Holding, ReceiptsProven, CloseoutsProven, GatesProven
<1>10. CASE RunProofCloseout
  <2>1. PICK e \in ProofFiles : Write(ProofCloseout(held, e))
    BY <1>10 DEF RunProofCloseout
  <2>2. held'.kind = "proof closeout" /\ RestoreProven(held)
    BY <1>10, <2>1 DEF RunProofCloseout, Write, ProofCloseout, Holding, ReceiptInv
  <2>3. ASSUME held'.ok
        PROVE  (LET post == held.restore.postflight
                IN  /\ Cleared(held.region, post.before)
                    /\ Carried(held.region, DeclaredBy(post), post.after)
                    /\ held.restore.restored.digest = post.before.digest
                    /\ held.restore.restored.alias = held.region.alias
                    /\ held.complete # held.boundary)'
    <3>1. /\ held.ok /\ ProofComplete(held, e)
          /\ held'.restore = held /\ held'.region = held.region
          /\ UNCHANGED origin
      BY <2>1, <2>3 DEF Write, ProofCloseout
    <3>2. /\ e.mode \in {"restored-snapshot", "explicit-boundary"} /\ e.done
          /\ held'.complete = (e.mode = "restored-snapshot" /\ e.done)
          /\ held'.boundary = (e.mode = "explicit-boundary" /\ held.ok /\ ProofComplete(held, e))
      BY <2>1, <3>1 DEF Write, ProofCloseout, ProofComplete
    <3>3. held'.complete # held'.boundary
      BY <3>1, <3>2
    <3>4. /\ Cleared(held.region, held.postflight.before)
          /\ Carried(held.region, DeclaredBy(held.postflight), held.postflight.after)
          /\ held.restored.digest = held.postflight.before.digest
          /\ held.restored.alias = held.region.alias
      BY <2>2, <3>1 DEF RestoreProven, PostflightProven, Cleared
    <3> QED
      BY <3>1, <3>3, <3>4 DEF Cleared, Carried
  <2> QED
    BY <2>2, <2>3 DEF ReceiptInv, Holding, ReceiptsProven, CloseoutsProven, GatesProven,
       DeclaredBy
<1>11. CASE RunEvaluation \/ RunStatus \/ RunReviewPacket \/ RunEvidencePacket
  <2>1. held'.kind \in {"evaluation", "status", "review", "packet"}
    BY <1>11 DEF RunEvaluation, RunStatus, RunReviewPacket, RunEvidencePacket, Write,
       Evaluation, Status, ReviewPacket, EvidencePacket
  <2> QED
    BY <2>1 DEF ReceiptInv, Holding, ReceiptsProven, CloseoutsProven, GatesProven
<1>12. CASE RunGate \/ RunCandidateCheck
  <2>1. PICK packet \in Packets, ack \in BOOLEAN :
          /\ Holding("scaffold")
          /\ UNCHANGED origin
          /\ held'.kind \in {"gate", "candidate"}
          /\ held'.region = held.region /\ held'.snapshot = held.snapshot
          /\ held'.packet = packet
          /\ held'.ok => Gate(held, packet, ack).ok
    <3>1. CASE RunGate
      BY <3>1 DEF RunGate, Write, Gate
    <3>2. CASE RunCandidateCheck
      BY <3>2 DEF RunCandidateCheck, Write, Gate
    <3> QED
      BY <1>12, <3>1, <3>2
  <2>2. StartProven(held)
    BY <2>1 DEF ReceiptInv
  <2>3. ASSUME held'.ok
        PROVE  LET evaluation == packet.review.status.evaluation
                   claim == evaluation.claim
               IN  /\ Cleared(held.region, held.snapshot)'
                   /\ evaluation.current
                   /\ claim.requested /\ claim.verified /\ claim.listed
                   /\ (claim.cleaned /\ claim.attempted) \/ claim.boundary = "accepted"
    BY <2>1, <2>2, <2>3, GateIsProven DEF Cleared
  <2> QED
    BY <2>1, <2>3 DEF ReceiptInv, Holding, ReceiptsProven, CloseoutsProven, GatesProven
<1> QED
  BY <1>1, <1>2, <1>3, <1>4, <1>5, <1>6, <1>7, <1>8, <1>9, <1>10, <1>11, <1>12 DEF ReceiptsNext

(* Whichever files of several runs are put between the commands, a ready   *)
(* closeout stands at the end of one run, cleared, carried out and         *)
(* restored, and a ready gate goes back to a cleared preflight and a       *)
(* complete claim (receipts.py, sw003_closeout.py).                        *)
THEOREM ReceiptsAreProven == ReceiptsSpec => []ReceiptsProven
<1>1. ReceiptsInit => ReceiptInv
  BY DEF ReceiptsInit, ReceiptInv, Holding, ReceiptsProven, CloseoutsProven, GatesProven
<1>2. ReceiptInv => ReceiptsProven
  BY DEF ReceiptInv
<1> QED
  BY <1>1, <1>2, ReceiptStep, PTL DEF ReceiptsSpec

-----------------------------------------------------------------------------
(* Orders. *)

(* The gate in place stands on a ready packet and a sound snapshot, the    *)
(* bundle is valid; an operation that was begun is as it must be.          *)
OrderInv ==
  /\ gate # NoReceiptHeld => gate.packet.ok /\ Sound(gate.snapshot)
  /\ bundle # NoReceiptHeld => bundle \in EditedDrafts /\ BundleValid(bundle)
  /\ OrdersBound

(* Each text of a valid bundle contains the marker of its region.          *)
LEMMA TextsAreMarked ==
  ASSUME NEW b \in EditedDrafts, BundleValid(b), NEW i \in DOMAIN TextsOf(b.operations)
  PROVE  b.region \in TextsOf(b.operations)[i]
<1>1. Len(b.operations) \in Nat /\ DOMAIN b.operations = 1..Len(b.operations)
  <2>1. CASE b \in Drafts
    BY <2>1, OrderAssumption
  <2>2. CASE \E d \in Declarations : b = TemplateOf(d)
    BY <2>2 DEF TemplateOf
  <2> QED
    BY <2>1, <2>2 DEF EditedDrafts
<1>2. i \in 1..2 * Len(b.operations)
  BY DEF TextsOf
<1>3. CASE i % 2 = 1
  <2>1. (i + 1) \div 2 \in 1..Len(b.operations)
    BY <1>1, <1>2, <1>3
  <2> QED
    BY <1>1, <1>2, <1>3, <2>1 DEF TextsOf, BundleValid
<1>4. CASE i % 2 # 1
  <2>1. i \div 2 \in 1..Len(b.operations)
    BY <1>1, <1>2, <1>4
  <2> QED
    BY <1>1, <1>2, <1>4, <2>1 DEF TextsOf, BundleValid
<1> QED
  BY <1>3, <1>4

THEOREM OrderStep == OrderInv /\ [OrdersNext]_orderVars => OrderInv'
<1> SUFFICES ASSUME OrderInv, [OrdersNext]_orderVars PROVE OrderInv'
  OBVIOUS
<1>1. CASE UNCHANGED orderVars
  BY <1>1 DEF OrderInv, orderVars, OrdersBound, Open
<1>2. CASE PlaceGate
  <2>1. PICK s, packet : gate' = Gate(s, packet, TRUE)
    BY <1>2 DEF PlaceGate
  <2>2. gate'.packet.ok /\ Sound(gate'.snapshot)
    BY <1>2, <2>1 DEF PlaceGate, Gate
  <2> QED
    BY <1>2, <2>2 DEF PlaceGate, OrderInv, OrdersBound, Open
<1>3. CASE CompileBundle
  BY <1>3 DEF CompileBundle, OrderInv, OrdersBound, Open
<1>4. CASE Authorize \/ WritePlan \/ LetTimePass
  BY <1>4 DEF Authorize, WritePlan, LetTimePass, OrderInv, OrdersBound, Open
<1>5. CASE BeginOperation
  <2>1. /\ GateValid /\ gate.packet.ok /\ Sound(gate.snapshot)
        /\ bundle \in EditedDrafts /\ BundleValid(bundle)
        /\ InForce /\ Bound(bundle)
        /\ authorization.gate = gate /\ authorization.bundle = bundle
        /\ gate.operation = "render-update"
    BY <1>5 DEF BeginOperation, PlanCompiles, GateValid, OrderInv
  <2>2. /\ order'.plan = [gate |-> gate, bundle |-> bundle, authorization |-> authorization]
        /\ order'.reviewed = order'.plan
        /\ order'.at = hour
        /\ UNCHANGED <<gate, bundle>>
    BY <1>5 DEF BeginOperation, CompiledPlan
  <2>3. /\ gate.snapshot.alias = bundle.alias
        /\ gate.snapshot.digest = bundle.expected
        /\ gate.region.region = bundle.region
    BY <2>1 DEF GateValid, Bound, AsDeclared
  <2>4. /\ \A i \in DOMAIN TextsOf(bundle.operations) :
             gate.region.region \in TextsOf(bundle.operations)[i]
        /\ NoOverlap(TextsOf(bundle.operations))
    BY <2>1, <2>3, TextsAreMarked DEF BundleValid
  <2>5. OrdersBound'
    BY <2>1, <2>2, <2>3, <2>4 DEF OrdersBound, InForce
  <2> QED
    BY <2>1, <2>2, <2>5 DEF OrderInv
<1> QED
  BY <1>1, <1>2, <1>3, <1>4, <1>5 DEF OrdersNext

(* Whichever documents are written again in between, for any declarations, *)
(* drafts and validities: an operation begins only with the plan that was  *)
(* reviewed, under an authorization in force for this gate and bundle, and *)
(* with texts that can be told apart (handle_region_sw009_live_apply).     *)
THEOREM OrdersAreBound == OrdersSpec => []OrdersBound
<1>1. OrdersInit => OrderInv
  BY DEF OrdersInit, OrderInv, OrdersBound, Open
<1>2. OrderInv => OrdersBound
  BY DEF OrderInv
<1> QED
  BY <1>1, <1>2, OrderStep, PTL DEF OrdersSpec

-----------------------------------------------------------------------------
(* Transactions. *)

PromiseInv ==
  /\ phase \in [Transactions -> Phases]
  /\ region \in [Transactions -> Regions]
  /\ AllOrNothing

(* Whatever implements ManagedTransaction is all-or-nothing: wherever a    *)
(* journal (execute_live_apply, restore_live_apply) says that nothing was  *)
(* begun, or that it was aborted or restored, the region shows the texts   *)
(* from before, and wherever it says committed, the texts from after.      *)
THEOREM PromiseIsAllOrNothing == Spec => []AllOrNothing
<1> USE DEF Phases, Regions
<1>1. Init => PromiseInv
  BY DEF Init, PromiseInv, AllOrNothing
<1>2. PromiseInv /\ [Next]_<<phase, region>> => PromiseInv'
  <2> SUFFICES ASSUME PromiseInv, [Next]_<<phase, region>> PROVE PromiseInv'
    OBVIOUS
  <2>1. CASE UNCHANGED <<phase, region>>
    BY <2>1 DEF PromiseInv, AllOrNothing
  <2>2. ASSUME NEW t \in Transactions,
               \/ Begin(t) \/ Abort(t) \/ Commit(t) \/ GiveUp(t)
               \/ BeginRestore(t) \/ Recover(t) \/ Restore(t)
        PROVE  PromiseInv'
    BY <2>2 DEF PromiseInv, AllOrNothing, Begin, Abort, Commit, GiveUp,
                BeginRestore, Recover, Restore, Move
  <2>3. ASSUME NEW t \in Transactions, Mutate(t)
        PROVE  PromiseInv'
    BY <2>3 DEF PromiseInv, AllOrNothing, Mutate
  <2> QED
    BY <2>1, <2>2, <2>3 DEF Next
<1>3. PromiseInv => AllOrNothing
  BY DEF PromiseInv
<1> QED
  BY <1>1, <1>2, <1>3, PTL DEF Spec
=============================================================================
