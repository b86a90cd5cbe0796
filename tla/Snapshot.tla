------------------------------ MODULE Snapshot ------------------------------
(***************************************************************************)
(* A verified snapshot of a board (surfaces/miro/snapshot.py and           *)
(* snapshot_runtime.py): the items are read page by page behind a cursor,  *)
(* the comments page by page behind an offset, and all of it twice; the    *)
(* two reads must agree.  People add, change and delete items and comments *)
(* between any two calls, and Miro may answer a call with a page it has    *)
(* already given.                                                          *)
(*                                                                         *)
(* What is abstracted.  A record is an identity and a version, which grows *)
(* with every edit: nobody restores what was there before.  Items are      *)
(* listed in the order of their creation and a cursor stands for the last  *)
(* record of a page; comments are listed newest first.                     *)
(***************************************************************************)
EXTENDS Naturals, SequencesExt

CONSTANTS
  SnapItems,     \* items on the board at first
  SnapComments,  \* comments on the board at first
  PageLimit,     \* records on a page
  MaxPages,      \* pages of a listing before it is given up
  SnapEdits      \* bound: edits by people

ASSUME SnapAssumption ==
  /\ SnapItems \in Nat /\ SnapComments \in Nat /\ SnapEdits \in Nat
  /\ PageLimit \in Nat \ {0} /\ MaxPages \in Nat \ {0}

VARIABLES
  pinned,    \* the items of the board, oldest first
  remarks,   \* its comments, newest first
  reader,    \* the run
  midway,    \* history: the records on the board when the second read began
  kept,      \* history: the records that have not changed since the run began
  revised    \* edits so far

snapVars == <<pinned, remarks, reader, midway, kept, revised>>

Record(id, version) == [id |-> id, version |-> version]
Shown(items, comments) == Range(items) \cup Range(comments)
Ids(records) == {record.id : record \in records}

FreshRead == [items |-> <<>>, comments |-> <<>>, itemPages |-> 0, commentPages |-> 0]
NoCursor == 0

SnapInit ==
  /\ pinned = [i \in 1..SnapItems |-> Record(i, 1)]
  /\ remarks = [i \in 1..SnapComments |-> Record(SnapItems + SnapComments + 1 - i, 1)]
  /\ reader = [step |-> "items", first |-> FreshRead, now |-> FreshRead, second |-> FALSE,
               cursor |-> NoCursor, cursors |-> {}, pages |-> {}]
  /\ midway = {}
  /\ kept = Shown(pinned, remarks)
  /\ revised = 0

-----------------------------------------------------------------------------
(* The board. *)

\* A page of a list, behind its first n records.
PageFrom(list, n) ==
  SubSeq(list, n + 1, IF n + PageLimit < Len(list) THEN n + PageLimit ELSE Len(list))

\* Miro's page of items behind a cursor, which are the last ones of the list.
ItemPage(cursor) ==
  PageFrom(pinned, Cardinality({i \in DOMAIN pinned : pinned[i].id <= cursor}))
MoreItems(page) == \E r \in Range(pinned) : page # <<>> /\ r.id > Last(page).id

\* Miro's page of comments at an offset.
CommentPage(offset) == PageFrom(remarks, offset)
MoreComments(offset) == Len(remarks) > offset + PageLimit

Edited(items, comments) ==
  /\ reader.step \in {"items", "comments"}
  /\ revised < SnapEdits
  /\ pinned' = items
  /\ remarks' = comments
  /\ kept' = kept \cap Shown(items, comments)
  /\ revised' = revised + 1
  /\ UNCHANGED <<reader, midway>>

\* A new record takes an identity the board has not used.
Add ==
  LET new == Record(SnapItems + SnapComments + 1 + revised, 1)
  IN  \/ Edited(Append(pinned, new), remarks)
      \/ Edited(pinned, <<new>> \o remarks)

Change ==
  \/ \E i \in DOMAIN pinned : Edited([pinned EXCEPT ![i].version = @ + 1], remarks)
  \/ \E i \in DOMAIN remarks : Edited(pinned, [remarks EXCEPT ![i].version = @ + 1])

Erase ==
  \/ \E i \in DOMAIN pinned : Edited(RemoveAt(pinned, i), remarks)
  \/ \E i \in DOMAIN remarks : Edited(pinned, RemoveAt(remarks, i))

-----------------------------------------------------------------------------
(* The run. *)

Distinct(records) == Cardinality(Ids(Range(records))) = Len(records)
Fail == reader' = [reader EXCEPT !.step = "failed"]
onBoard ==<<pinned, remarks, kept, revised>>

\* The items have been read: two of one identity are an error.
EndItems(read) ==
  /\ IF Distinct(read.items)
     THEN reader' = [reader EXCEPT !.now = read, !.step = "comments",
                                   !.cursor = NoCursor, !.cursors = {}, !.pages = {}]
     ELSE Fail

\* One call for items; Miro may give the page of an earlier cursor once more.
ReadItems ==
  /\ reader.step = "items"
  /\ \E answered \in {reader.cursor} \cup (reader.cursors \cup {NoCursor}) :
       LET page == ItemPage(answered)
           more == MoreItems(page)
           read == [reader.now EXCEPT !.items = @ \o page, !.itemPages = @ + 1]
       IN  IF page \in reader.pages THEN Fail
           ELSE IF ~more THEN EndItems(read)
           ELSE IF Last(page).id \in reader.cursors \/ read.itemPages = MaxPages THEN Fail
           ELSE reader' = [reader EXCEPT !.now = read, !.cursor = Last(page).id,
                                         !.cursors = @ \cup {Last(page).id},
                                         !.pages = @ \cup {page}]
  /\ UNCHANGED <<onBoard, midway>>

\* Mutant: the number of records is compared, not the records.
SamePages(first, second) ==
  /\ Len(first.items) = Len(second.items)
  /\ Len(first.comments) = Len(second.comments)
  /\ first.itemPages = second.itemPages
  /\ first.commentPages = second.commentPages

\* The two reads agree in what they hold, in any order, and in their pages.
VerifySnapshotPair(first, second) ==
  /\ Range(first.items) = Range(second.items)
  /\ Range(first.comments) = Range(second.comments)
  /\ first.itemPages = second.itemPages
  /\ first.commentPages = second.commentPages

\* The comments have been read too: the second read begins, or the two are compared.
EndComments(read) ==
  IF ~Distinct(read.comments) THEN Fail /\ UNCHANGED midway
  ELSE IF ~reader.second
  THEN /\ reader' = [reader EXCEPT !.first = read, !.now = FreshRead, !.second = TRUE,
                                   !.step = "items"]
       /\ midway' = Shown(pinned, remarks)
  ELSE /\ IF VerifySnapshotPair(reader.first, read)
          THEN reader' = [reader EXCEPT !.now = read, !.step = "verified"]
          ELSE Fail
       /\ UNCHANGED midway

\* One call for comments, at the offset the pages so far have reached.
ReadComments ==
  /\ reader.step = "comments"
  /\ LET offset == Len(reader.now.comments)
         page == CommentPage(offset)
         read == [reader.now EXCEPT !.comments = @ \o page, !.commentPages = @ + 1]
     IN  IF ~MoreComments(offset) THEN EndComments(read)
         ELSE IF read.commentPages = MaxPages THEN Fail /\ UNCHANGED midway
         ELSE reader' = [reader EXCEPT !.now = read] /\ UNCHANGED midway
  /\ UNCHANGED onBoard

\* A call that fails ends the run, without a snapshot.
CallFails ==
  /\ reader.step \in {"items", "comments"}
  /\ Fail
  /\ UNCHANGED <<onBoard, midway>>

SnapNext == Add \/ Change \/ Erase \/ ReadItems \/ ReadComments \/ CallFails

SnapSpec == SnapInit /\ [][SnapNext]_snapVars

-----------------------------------------------------------------------------

\* What a verified snapshot shows was on the board together, at the moment between
\* the two reads, and whatever stayed as it was from the first call to the last is
\* in it: no page boundary that shifted under an edit has hidden or invented a
\* record (verify_snapshot_pair, over two reads that are not atomic themselves).
SnapshotExact ==
  reader.step = "verified" =>
    LET shown == Shown(reader.now.items, reader.now.comments)
    IN  kept \subseteq shown /\ shown \subseteq midway
=============================================================================
