------------------------------ MODULE LiveTests ------------------------------
(***************************************************************************)
(* Live tests on fresh Miro boards (handle_visual_v2_live_test and         *)
(* handle_learn_live_test in src/schauwerk/cli_handlers.py), the allowlist *)
(* that leads from an alias to a board (surfaces/miro/board_registry.py)   *)
(* and the index of tests with its pruning                                 *)
(* (surfaces/miro/live_test_index.py).                                     *)
(*                                                                         *)
(* A test creates a board under an alias, or goes on with the board of an  *)
(* alias, puts a layout on it and collects snapshots and a receipt in a    *)
(* directory.  Pruning moves the directories of old tests away and forgets *)
(* their aliases and records; the boards themselves stay.                  *)
(*                                                                         *)
(* Simplifications:                                                        *)
(* - one command runs at a time, and no test is as old as another;         *)
(* - a layout is one item of each type; nobody else changes a test board;  *)
(* - every prune keeps the same number of tests, and an alias is removed   *)
(*   by hand only if no record has it (docs/operations/                    *)
(*   miro-live-recovery.md:177);                                           *)
(* - a snapshot is what the board shows: Snapshot is about its pages.      *)
(***************************************************************************)
EXTENDS Naturals, Sequences, FiniteSets

CONSTANTS
  Aliases,    \* names for boards
  Places,     \* output directories
  ItemTypes,  \* the types of items of the layout
  KeepTests,  \* --keep of live-prune
  MaxTests    \* bound on the number of commands

ASSUME TestAssumption == KeepTests \in Nat /\ MaxTests \in Nat

VARIABLES
  boards,   \* the boards in Miro, oldest first: how many items of each type
  listed,   \* the allowlist: the board of each alias, 0 if it has none
  outputs,  \* what is in each output directory
  retired,  \* the directories that a prune has moved away
  tests,    \* the records of the index
  test,     \* the command under way
  begun     \* the number of commands so far

testVars == <<boards, listed, outputs, retired, tests, test, begun>>

NoItems == [t \in ItemTypes |-> 0]
NoShot == [board |-> 0, items |-> NoItems]
NoReceipt == [board |-> 0, before |-> NoShot, after |-> NoShot]
NoFolder ==
  [made |-> FALSE, before |-> NoShot, after |-> NoShot, receipt |-> NoReceipt]
NoTest == [step |-> "idle"]

TestInit ==
  /\ boards = <<>>
  /\ listed = [a \in Aliases |-> 0]
  /\ outputs = [d \in Places |-> NoFolder]
  /\ retired = {}
  /\ tests = {}
  /\ test = NoTest
  /\ begun = 0

(* A record of the index; shared says whether another record had the same  *)
(* directory when it was made.                                             *)
Record ==
  [alias |-> test.alias, place |-> test.place, when |-> begun,
   shared |-> \E r \in tests : r.place = test.place]

NewerThan(r) == {s \in tests : s.when > r.when}
KeptRecords == {r \in tests : Cardinality(NewerThan(r)) < KeepTests}
PrunedRecords == tests \ KeptRecords
AliasesOf(records) == {r.alias : r \in records}

(* Seeded fault: an alias that a kept record has too is forgotten.         *)
AliasesToPruneAll == AliasesOf(PrunedRecords)
AliasesToPrune == AliasesOf(PrunedRecords) \ AliasesOf(KeptRecords)

-----------------------------------------------------------------------------
(* A test.                                                                 *)

Modes == {"learn", "learn replace", "fresh", "replace", "reuse", "resume"}
Learning(mode) == mode \in {"learn", "learn replace"}
Replacing(mode) == mode \in {"learn replace", "replace"}
Reusing(mode) == mode \in {"reuse", "resume"}

TestAt(step) == test' = [test EXCEPT !.step = step]

BeginCommand ==
  /\ test = NoTest
  /\ begun < MaxTests
  /\ begun' = begun + 1

(* The output directory is made; going on with a board needs its alias.    *)
StartTest(alias, place, mode) ==
  /\ BeginCommand
  /\ outputs' = [outputs EXCEPT ![place].made = TRUE]
  /\ test' = IF Reusing(mode) /\ listed[alias] = 0 THEN NoTest
             ELSE [step |-> IF Reusing(mode) THEN "bind" ELSE "create", board |-> 0,
                   alias |-> alias, place |-> place, mode |-> mode]
  /\ UNCHANGED <<boards, listed, retired, tests>>

(* Miro creates the board before the alias is looked at: if this leads     *)
(* elsewhere and is not to be replaced, or the answer is lost, the new     *)
(* board is left without an alias.                                         *)
CreateBoard ==
  /\ test.step = "create"
  /\ boards' = Append(boards, NoItems)
  /\ \/ /\ listed[test.alias] = 0 \/ Replacing(test.mode)
        /\ listed' = [listed EXCEPT ![test.alias] = Len(boards) + 1]
        /\ TestAt("bind")
     \/ /\ test' = NoTest
        /\ UNCHANGED listed
  /\ UNCHANGED <<outputs, retired, tests, begun>>

(* The test notes its board; resumed after its layout, it takes the before *)
(* snapshot for the one it finds in the directory.                         *)
BindBoard ==
  /\ test.step = "bind"
  /\ LET found == outputs[test.place].before # NoShot
     IN  test' = IF test.mode # "resume"
                 THEN [test EXCEPT !.board = listed[test.alias], !.step = "before"]
                 ELSE IF found
                 THEN [test EXCEPT !.board = listed[test.alias], !.step = "after"]
                 ELSE NoTest
  /\ UNCHANGED <<boards, listed, outputs, retired, tests, begun>>

(* Each call resolves the alias again.                                     *)
Shot == [board |-> listed[test.alias], items |-> boards[listed[test.alias]]]

SnapshotBefore ==
  /\ test.step = "before"
  /\ outputs' = [outputs EXCEPT ![test.place].before = Shot]
  /\ TestAt("layout")
  /\ UNCHANGED <<boards, listed, retired, tests, begun>>

(* Some of the layout's items are created; the test goes on if Miro says   *)
(* that none has failed.                                                   *)
CreateLayout ==
  /\ test.step = "layout"
  /\ \E created \in SUBSET ItemTypes :
       /\ boards' = [boards EXCEPT ![listed[test.alias]] =
                       [t \in ItemTypes |-> @[t] + (IF t \in created THEN 1 ELSE 0)]]
       /\ \/ created = ItemTypes /\ TestAt("after")
          \/ test' = NoTest
  /\ UNCHANGED <<listed, outputs, retired, tests, begun>>

SnapshotAfter ==
  /\ test.step = "after"
  /\ outputs' = [outputs EXCEPT ![test.place].after = Shot]
  /\ TestAt("readback")
  /\ UNCHANGED <<boards, listed, retired, tests, begun>>

(* Remote conformance: at least as many items of each type as planned.     *)
Conforms(items) == \A t \in ItemTypes : items[t] >= 1

(* Seeded fault: what the board shows is not compared with the plan.       *)
ReadBackUnchecked ==
  /\ test.step = "readback"
  /\ tests' = tests \cup {Record}
  /\ IF Learning(test.mode) THEN test' = NoTest ELSE TestAt("receipt")
  /\ UNCHANGED <<boards, listed, outputs, retired, begun>>

(* A learning test is recorded whatever its quality; a visual one only if  *)
(* the board conforms, and before its receipt is written.                  *)
ReadBack ==
  /\ test.step = "readback"
  /\ IF Learning(test.mode)
     THEN tests' = tests \cup {Record} /\ test' = NoTest
     ELSE IF Conforms(outputs[test.place].after.items)
     THEN tests' = tests \cup {Record} /\ TestAt("receipt")
     ELSE test' = NoTest /\ UNCHANGED tests
  /\ UNCHANGED <<boards, listed, outputs, retired, begun>>

WriteTestReceipt ==
  /\ test.step = "receipt"
  /\ LET here == outputs[test.place]
         receipt == [board |-> test.board, before |-> here.before, after |-> here.after]
     IN  outputs' = [outputs EXCEPT ![test.place].receipt = receipt]
  /\ test' = NoTest
  /\ UNCHANGED <<boards, listed, retired, tests, begun>>

(* A call or a write fails, or the command is killed: nothing is undone.   *)
AbandonCommand ==
  /\ test # NoTest
  /\ test' = NoTest
  /\ UNCHANGED <<boards, listed, outputs, retired, tests, begun>>

-----------------------------------------------------------------------------
(* Pruning: directories, then aliases, then the index.                     *)

StartPrune ==
  /\ BeginCommand
  /\ test' = [step |-> "retire", todo |-> PrunedRecords]
  /\ UNCHANGED <<boards, listed, outputs, retired, tests>>

Retire ==
  /\ test.step = "retire"
  /\ \E r \in test.todo :
       /\ \A s \in test.todo : s.when >= r.when
       /\ test' = [test EXCEPT !.todo = @ \ {r}]
       /\ \/ /\ outputs[r.place].made
             /\ retired' = retired \cup {outputs[r.place]}
             /\ outputs' = [outputs EXCEPT ![r.place] = NoFolder]
          \/ UNCHANGED <<outputs, retired>>  \* missing, or the move failed
  /\ UNCHANGED <<boards, listed, tests, begun>>

RetireDone ==
  /\ test.step = "retire"
  /\ test.todo = {}
  /\ test' = [step |-> "forget", todo |-> AliasesToPrune]
  /\ UNCHANGED <<boards, listed, outputs, retired, tests, begun>>

Forget ==
  /\ test.step = "forget"
  /\ \E alias \in test.todo :
       /\ listed' = [listed EXCEPT ![alias] = 0]
       /\ test' = [test EXCEPT !.todo = @ \ {alias}]
  /\ UNCHANGED <<boards, outputs, retired, tests, begun>>

RewriteIndex ==
  /\ test.step = "forget"
  /\ test.todo = {}
  /\ tests' = KeptRecords
  /\ test' = NoTest
  /\ UNCHANGED <<boards, listed, outputs, retired, begun>>

-----------------------------------------------------------------------------
(* The allowlist by hand.                                                  *)

AddBoard(alias, board) ==
  /\ BeginCommand
  /\ listed' = [listed EXCEPT ![alias] = board]
  /\ UNCHANGED <<boards, outputs, retired, tests, test>>

RemoveBoard(alias) ==
  /\ BeginCommand
  /\ alias \notin AliasesOf(tests)
  /\ listed' = [listed EXCEPT ![alias] = 0]
  /\ UNCHANGED <<boards, outputs, retired, tests, test>>

TestNext ==
  \/ \E alias \in Aliases, place \in Places, mode \in Modes : StartTest(alias, place, mode)
  \/ CreateBoard \/ BindBoard \/ SnapshotBefore \/ CreateLayout \/ SnapshotAfter
  \/ ReadBack \/ WriteTestReceipt \/ AbandonCommand
  \/ StartPrune \/ Retire \/ RetireDone \/ Forget \/ RewriteIndex
  \/ \E alias \in Aliases : RemoveBoard(alias) \/ \E board \in DOMAIN boards : AddBoard(alias, board)

TestSpec == TestInit /\ [][TestNext]_testVars

-----------------------------------------------------------------------------
(* Properties.                                                             *)

(* A receipt vouches for a board that shows the whole layout, whichever    *)
(* runs failed before, with which alias and in which directory, and also   *)
(* if it is that of a resumed run that has put nothing on the board        *)
(* (remote_conformance).                                                   *)
ReceiptBacked ==
  \A folder \in {outputs[d] : d \in Places} \cup retired :
    folder.receipt.board # 0 => Conforms(boards[folder.receipt.board])

(* A prune, complete or cut short, leaves the tests it keeps usable: their *)
(* aliases lead to a board, and their snapshots are in place unless they   *)
(* share a directory with another test.                                    *)
KeptUsable ==
  \A r \in KeptRecords :
    /\ listed[r.alias] # 0
    /\ ~r.shared => outputs[r.place].after # NoShot

(* An accepted board was empty before and shows exactly the layout (docs/  *)
(* operators/visual-system-v2-live.md:44 and 47).                          *)
AcceptedFresh ==
  \A d \in Places :
    LET receipt == outputs[d].receipt
    IN  receipt.board # 0 =>
          /\ receipt.before.items = NoItems
          /\ \A t \in ItemTypes : receipt.after.items[t] = 1
=============================================================================
