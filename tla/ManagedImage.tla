---------------------------- MODULE ManagedImage ----------------------------
(***************************************************************************)
(* Replacing and deleting the images that Schauwerk manages on a Miro      *)
(* board (surfaces/miro/managed_image_service.py and                       *)
(* managed_image_runtime.py, with the REST deletion of rest_client.py).    *)
(* A run reads an identity file, takes the board's locks, and works on the *)
(* board through calls that may fail before or after they took effect,     *)
(* while people edit the board; it leaves a receipt, and after a           *)
(* replacement a new identity file.  A run may be cancelled, lose its      *)
(* session with the board, or be killed at any step.                       *)
(*                                                                         *)
(* What is abstracted.  One board.  An image is on the board at its        *)
(* managed place ("placed"), elsewhere ("moved"), or not on it; an         *)
(* inventory of several pages is read at once.  The asset and receipt      *)
(* locks are only ever taken under the board lock, which stands for them.  *)
(***************************************************************************)
EXTENDS Naturals, FiniteSets

CONSTANTS
  Replacing,   \* runs of managed-image replace
  Deleting,    \* runs of managed-image delete
  Files,       \* identity files
  First,       \* the file that names image 1 in the beginning
  Output,      \* the file each replacing run publishes its identity to
  Source,      \* the bytes each replacing run uploads
  OldSource,   \* the bytes of image 1
  MaxItems,    \* bound: images on the board over a behaviour
  MaxEdits     \* bound: edits by people

Runs == Replacing \cup Deleting
Items == 1..MaxItems

ASSUME ImageAssumption ==
  /\ Replacing \cap Deleting = {}
  /\ First \in Files
  /\ Output \in [Replacing -> Files \ {First}]
  /\ MaxItems \in Nat \ {0} /\ MaxEdits \in Nat

VARIABLES
  board,     \* the place of each image
  last,      \* the newest image
  file,      \* the identity in each file, item = 0 for no file
  receipt,   \* the status in each run's receipt file
  run,       \* the runs
  holder,    \* the run that holds the board's locks, if any
  touched,   \* history: images people have moved or deleted since they were read back
  edits      \* edits so far

imageVars == <<board, last, file, receipt, run, holder, touched, edits>>
people == <<touched, edits>>

NoFile == [item |-> 0, src |-> OldSource]
Waiting == [step |-> "start", old |-> 0, new |-> 0, before |-> 0]

\* "broken" is the receipt of a run that was broken off: its status is "failed" as well,
\* and a reader cannot always tell.
Statuses == {"none", "verified", "failed", "broken", "manual"}
Failed == {"failed", "broken"}
Steps == {"start", "lock", "inventory", "create", "stage", "compensate", "recheck", "delete",
          "confirm", "verify", "identity", "receipt", "done"}

-----------------------------------------------------------------------------

Present == {i \in Items : board[i] # "none"}
At(r, step) == run[r].step = step
Goto(r, step) == run' = [run EXCEPT ![r].step = step]
Working == {"inventory", "create", "stage", "compensate", "recheck", "delete", "confirm", "verify"}

\* The run ends with a receipt of this status, which may not be publishable either.
End(r, status) ==
  /\ run' = [run EXCEPT ![r].step = "done"]
  /\ receipt' \in {[receipt EXCEPT ![r] = s] : s \in {status, "none"}}
  /\ holder' = {}

\* The local checks, before any lock: the outputs are new, the image's bytes too.
Start(r) ==
  /\ At(r, "start")
  /\ receipt[r] = "none"
  /\ r \in Replacing => file[Output[r]].item = 0
  /\ \E f \in Files :
       /\ file[f].item # 0
       /\ r \in Replacing => Source[r] # file[f].src
       /\ run' = [run EXCEPT ![r].step = "lock", ![r].old = file[f].item]
  /\ UNCHANGED <<board, last, file, receipt, holder, people>>

\* MUTANT of Lock: the board lock is not taken.
LockNone(r) ==
  /\ At(r, "lock")
  /\ Goto(r, "inventory")
  /\ UNCHANGED <<board, last, file, receipt, holder, people>>

\* The locks are not waited for: a run that finds them taken ends without a receipt.
Lock(r) ==
  /\ At(r, "lock")
  /\ \/ holder = {} /\ holder' = {r} /\ Goto(r, "inventory")
     \/ holder # {} /\ Goto(r, "done") /\ UNCHANGED holder
  /\ UNCHANGED <<board, last, file, receipt, people>>

\* The inventory before: the image the identity names is there, at its place.
Inventory(r) ==
  /\ At(r, "inventory")
  /\ \/ /\ board[run[r].old] = "placed"
        /\ run' = [run EXCEPT ![r].step = IF r \in Replacing THEN "create" ELSE "delete",
                              ![r].before = Cardinality(Present)]
        /\ UNCHANGED <<receipt, holder>>
     \/ End(r, "failed")
  /\ UNCHANGED <<board, last, file, people>>

\* Upload and image_create: not done; done, at this place or not; or done and unknown.
Create(r) ==
  /\ At(r, "create")
  /\ \/ End(r, "failed") /\ UNCHANGED <<board, last>>
     \/ End(r, "manual") /\ UNCHANGED <<board, last>>
     \/ /\ last < MaxItems
        /\ last' = last + 1
        /\ \E p \in {"placed", "moved"} : board' = [board EXCEPT ![last'] = p]
        /\ \/ End(r, "manual")
           \/ /\ run' = [run EXCEPT ![r].step = "stage", ![r].new = last']
              /\ UNCHANGED <<receipt, holder>>
  /\ UNCHANGED <<file, people>>

\* MUTANT of Staged: the images are counted, their places not compared.
StagedCounted(r) == Cardinality(Present) = run[r].before + 1

\* The inventory after the creation; when it fails or shows anything else, the new image
\* is taken back.
Staged(r) ==
  /\ board[run[r].new] = "placed" /\ board[run[r].old] = "placed"
  /\ Cardinality(Present) = run[r].before + 1

Stage(r) ==
  /\ At(r, "stage")
  /\ \/ Staged(r) /\ Goto(r, "delete")
     \/ Goto(r, "compensate")
  /\ UNCHANGED <<board, last, file, receipt, holder, people>>

\* REST DELETE with its reads: whether it took effect is known or not.
Removed(i) == [board EXCEPT ![i] = "none"]

Compensate(r) ==
  /\ At(r, "compensate")
  /\ \/ board' = Removed(run[r].new) /\ Goto(r, "recheck") /\ UNCHANGED <<receipt, holder>>
     \/ board' \in {board, Removed(run[r].new)} /\ End(r, "manual")
  /\ UNCHANGED <<last, file, people>>

Recheck(r) ==
  /\ At(r, "recheck")
  /\ \/ /\ board[run[r].old] = "placed" /\ run[r].new \notin Present
        /\ Cardinality(Present) = run[r].before
        /\ End(r, "failed")
     \/ End(r, "manual")
  /\ UNCHANGED <<board, last, file, people>>

\* The old image: GET and DELETE, which may fail with or without effect, then GET again.
Delete(r) ==
  /\ At(r, "delete")
  /\ \/ /\ run[r].old \in Present
        /\ board' \in {board, Removed(run[r].old)}
        /\ Goto(r, "confirm")
        /\ UNCHANGED <<receipt, holder>>
     \/ End(r, "manual") /\ UNCHANGED board
  /\ UNCHANGED <<last, file, people>>

Confirm(r) ==
  /\ At(r, "confirm")
  /\ \/ run[r].old \notin Present /\ Goto(r, "verify") /\ UNCHANGED <<receipt, holder>>
     \/ End(r, "manual")
  /\ UNCHANGED <<board, last, file, people>>

\* MUTANT of Done: the place of the new image is not read.
DoneCounted(r) == run[r].old \notin Present

\* The inventory after.  An error of this read is not among those that are reported as
\* needing manual reconciliation: the receipt says "failed".
Done(r) ==
  /\ run[r].old \notin Present
  /\ IF r \in Replacing
     THEN board[run[r].new] = "placed" /\ Cardinality(Present) = run[r].before
     ELSE Cardinality(Present) + 1 = run[r].before

ReadBack(r) ==
  /\ Done(r)
  /\ Goto(r, IF r \in Replacing THEN "identity" ELSE "receipt")
  /\ touched' = touched \ {run[r].new}
  /\ UNCHANGED <<receipt, holder>>

Verify(r) ==
  /\ At(r, "verify")
  /\ \/ ReadBack(r)
     \/ ~Done(r) /\ End(r, "manual") /\ UNCHANGED touched
     \/ End(r, "failed") /\ UNCHANGED touched
  /\ UNCHANGED <<board, last, file, edits>>

\* _write_new_private_json never replaces a file: the identity first, then the receipt.
PublishIdentity(r) ==
  /\ At(r, "identity")
  /\ \/ /\ file[Output[r]].item = 0
        /\ file' = [file EXCEPT ![Output[r]] = [item |-> run[r].new, src |-> Source[r]]]
        /\ Goto(r, "receipt")
        /\ UNCHANGED <<receipt, holder>>
     \/ End(r, "manual") /\ UNCHANGED file
  /\ UNCHANGED <<board, last, people>>

PublishReceipt(r) ==
  /\ At(r, "receipt")
  /\ End(r, "verified")
  /\ UNCHANGED <<board, last, file, people>>

\* Cancelled at an await, which is recorded as in need of reconciliation.  But a
\* compensation that follows a failed reading runs while that error is handled, so that
\* it is the context of the cancellation; when it is a MiroError, _live_mcp finds it there
\* (find_nested_miro_error) and raises it instead.
Cancel(r) ==
  /\ run[r].step \in Working
  /\ \/ End(r, "manual")
     \/ run[r].step \in {"compensate", "recheck"} /\ End(r, "broken")
  /\ UNCHANGED <<board, last, file, people>>

\* The session with the board ends, which cancels what is running in it: to _live_mcp a
\* MiroConnectionError, whatever the run was doing.
LoseSession(r) ==
  /\ run[r].step \in Working
  /\ End(r, "broken")
  /\ UNCHANGED <<board, last, file, people>>

\* Killed, which is not recorded.
Kill(r) ==
  /\ run[r].step \in Steps \ {"start", "done"}
  /\ Goto(r, "done")
  /\ holder' = holder \ {r}
  /\ UNCHANGED <<board, last, file, receipt, people>>

\* Someone edits the board.
Edit ==
  /\ edits < MaxEdits
  /\ edits' = edits + 1
  /\ \/ /\ last < MaxItems
        /\ last' = last + 1
        /\ board' = [board EXCEPT ![last'] = "placed"]
        /\ UNCHANGED touched
     \/ \E i \in Present, p \in {"moved", "none"} :
          /\ board' = [board EXCEPT ![i] = p]
          /\ touched' = touched \cup {i}
          /\ UNCHANGED last
  /\ UNCHANGED <<file, receipt, run, holder>>

-----------------------------------------------------------------------------

ImageInit ==
  /\ board = [i \in Items |-> IF i = 1 THEN "placed" ELSE "none"]
  /\ last = 1
  /\ file = [f \in Files |-> IF f = First THEN [item |-> 1, src |-> OldSource] ELSE NoFile]
  /\ receipt = [r \in Runs |-> "none"]
  /\ run = [r \in Runs |-> Waiting]
  /\ holder = {} /\ touched = {} /\ edits = 0

Step(r) ==
  \/ Start(r) \/ Lock(r) \/ Inventory(r) \/ Delete(r) \/ Confirm(r) \/ Verify(r) \/ PublishReceipt(r)
  \/ r \in Replacing /\ (Create(r) \/ Stage(r) \/ Compensate(r) \/ Recheck(r) \/ PublishIdentity(r))

ImageNext ==
  \/ \E r \in Runs : Step(r) \/ Cancel(r) \/ LoseSession(r) \/ Kill(r)
  \/ Edit

ImageSpec == ImageInit /\ [][ImageNext]_imageVars

-----------------------------------------------------------------------------
(* Properties.                                                             *)

\* Everything the runs created, and the first image.
Lineage == {1} \cup ({run[r].new : r \in Replacing} \ {0})

\* The asset is never without an image at its place, unless people have touched one of its
\* images or a delete has been let through: the old image goes only after the new one was
\* read back, and a compensation takes back the new one only.
AssetKept ==
  \/ \E i \in Lineage : board[i] = "placed" \/ i \in touched
  \/ \E r \in Deleting : run[r].before # 0

\* Receipts are true.  Of a success the old image is gone, the new one was published and
\* is in place unless somebody has touched it since, or a later run has worked on it; and
\* a receipt that says "failed" never hides two images of the asset, unless the run was
\* broken off.
Later(i, r) == \E s \in Runs \ {r} : run[s].old = i /\ run[s].step \notin {"start", "lock", "inventory"}
ReceiptsTrue ==
  \A r \in Runs :
    /\ receipt[r] = "verified" =>
         /\ run[r].old \notin Present
         /\ r \in Replacing =>
              /\ file[Output[r]].item = run[r].new
              /\ board[run[r].new] = "placed" \/ run[r].new \in touched \/ Later(run[r].new, r)
    /\ receipt[r] = "failed" /\ r \in Replacing =>
         run[r].new \notin Present \/ run[r].old \notin Present

\* Each image is verified gone by one run only, however many read its identity.
ConsumedOnce ==
  \A r, s \in Runs : receipt[r] = "verified" /\ receipt[s] = "verified" /\ run[r].old = run[s].old => r = s

\* What the asset promises, whatever fails and however many runs work on it: it stays on
\* the board, it is where the receipts say, and each of its images is replaced once.
ImagesKept == AssetKept /\ ReceiptsTrue /\ ConsumedOnce

\* What docs/operators/miro-managed-image-lifecycle-v1.md:61 says of every run: a create
\* or a compensation with an unknown outcome is reported as in need of reconciliation,
\* so that a plain "failed" never leaves two images of the asset on the board.
FailedLeavesOne ==
  \A r \in Replacing : receipt[r] \in Failed =>
    run[r].new \notin Present \/ run[r].old \notin Present
=============================================================================
