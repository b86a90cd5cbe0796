--------------------------- MODULE PackageOutput ---------------------------
(***************************************************************************)
(* The output of a representation package (visual/representation.py,       *)
(* compile_representation_package): a private staging directory, artifacts *)
(* that are created exclusively and stay open, a readback, the renaming to *)
(* the target that replaces nothing, and the readbacks after it; whatever  *)
(* fails, the command empties the files it has created, through the        *)
(* descriptors it has kept, and deletes no name.  Others, of the same      *)
(* user, change names, files and the parent directory meanwhile.           *)
(*                                                                         *)
(* What is abstracted.  A file holds nothing, part of its artifact or all  *)
(* of it, as the command wrote it, the same from the hand of others, or    *)
(* something else.  A step is one call; an fstat of a kept descriptor and  *)
(* the stat of its name, one after the other, are one: what others do      *)
(* between the two is noticed by the comparison that follows, or might as  *)
(* well come before or after both.  A directory that is gone from its name *)
(* does not come back; the content of a file may.                          *)
(***************************************************************************)
EXTENDS Naturals, Sequences, Functions

CONSTANTS
  Artifacts,  \* the artifacts, in the order in which they are written
  Meddling    \* bound: changes by others

ASSUME PackageAssumption ==
  /\ Artifacts \in Seq(STRING) /\ Artifacts # <<>>
  /\ Meddling \in Nat

VARIABLES
  place,    \* the parent directory that its path leads to, 1 or 2
  holds,    \* holds[q][name]: the directory of this name in the parent q
  folders,  \* folders[d][name]: the file of this name in the directory d
  bytes,    \* bytes[i]: what the file i holds, and its time stamp
  work,     \* the command
  meddled,  \* changes by others so far
  theirs,   \* history: the directories others have put at the target, and left there
  offered     \* history: the artifacts the target's path has shown, since the renaming

packageVars == <<place, holds, folders, bytes, work, meddled, theirs, offered>>
tree == <<place, holds, folders, bytes>>

Absent == 0
DirectoryNames == {"target", "staging"}
FileNames == Range(Artifacts) \cup {"other"}
EmptyFolder == [n \in FileNames |-> Absent]

PackageInit ==
  /\ place = 1
  /\ holds = [q \in 1..2 |-> [n \in DirectoryNames |-> Absent]]
  /\ folders = <<>>
  /\ bytes = <<>>
  /\ work = [step |-> "parent", before |-> 0, parent |-> 0, folder |-> Absent, owned |-> <<>>,
             todo |-> Artifacts, noted |-> 0, next |-> "", published |-> FALSE, outcome |-> "none"]
  /\ meddled = 0
  /\ theirs = {}
  /\ offered = {}

-----------------------------------------------------------------------------
(* What others do. *)

Stamped(content) == [content |-> content, stamp |-> meddled + 1]

Complete(i) == bytes[i].content \in {"own", "same"}

\* An artifact is shown when the path of the target leads to the command's file and this
\* holds it.
Showing ==
  LET d == holds[place]["target"]
  IN  {a \in DOMAIN work.owned :
         d # Absent /\ folders[d][a] = work.owned[a] /\ Complete(work.owned[a])}

Meddle ==
  /\ work.step \notin {"done", "failed", "killed"}
  /\ meddled < Meddling
  /\ meddled' = meddled + 1
  /\ UNCHANGED work
  /\ offered' = IF work.published \/ work.step = "renamed" THEN offered \cup Showing' ELSE offered

\* A directory with a file of its own gets the name of the target or of the staging.
PutDirectory ==
  \E q \in 1..2, name \in DirectoryNames :
    /\ holds[q][name] = Absent
    /\ holds' = [holds EXCEPT ![q][name] = Len(folders) + 1]
    /\ folders' = Append(folders, [EmptyFolder EXCEPT !["other"] = Len(bytes) + 1])
    /\ bytes' = Append(bytes, Stamped("foreign"))
    /\ theirs' = IF name = "target" THEN theirs \cup {<<q, Len(folders) + 1>>} ELSE theirs
    /\ UNCHANGED place
    /\ Meddle

TakeDirectory ==
  \E q \in 1..2, name \in DirectoryNames :
    /\ holds[q][name] # Absent
    /\ holds' = [holds EXCEPT ![q][name] = Absent]
    /\ theirs' = theirs \ {<<q, holds[q][name]>>}
    /\ UNCHANGED <<place, folders, bytes>>
    /\ Meddle

ReplaceParent ==
  /\ place = 1
  /\ place' = 2
  /\ UNCHANGED <<holds, folders, bytes, theirs>>
  /\ Meddle

PutFile ==
  \E d \in DOMAIN folders, name \in FileNames :
    /\ folders' = [folders EXCEPT ![d][name] = Len(bytes) + 1]
    /\ bytes' = Append(bytes, Stamped("foreign"))
    /\ UNCHANGED <<place, holds, theirs>>
    /\ Meddle

TakeFile ==
  \E d \in DOMAIN folders, name \in FileNames :
    /\ folders[d][name] # Absent
    /\ folders' = [folders EXCEPT ![d][name] = Absent]
    /\ UNCHANGED <<place, holds, bytes, theirs>>
    /\ Meddle

\* A file of the command is written over, or brought back to what it held.
WriteOver ==
  \E a \in DOMAIN work.owned, content \in {"foreign", "same"} :
    /\ bytes[work.owned[a]].content # content
    /\ bytes' = [bytes EXCEPT ![work.owned[a]] = Stamped(content)]
    /\ UNCHANGED <<place, holds, folders, theirs>>
    /\ Meddle

Meddlers == PutDirectory \/ TakeDirectory \/ ReplaceParent \/ PutFile \/ TakeFile \/ WriteOver

-----------------------------------------------------------------------------
(* The command, up to the renaming. *)

Working(step) == work.step = step /\ UNCHANGED <<meddled, theirs>>
Observed == UNCHANGED <<tree, offered>>
Goes(step) == work' = [work EXCEPT !.step = step]

\* What fails is cleaned up through the kept descriptors, once the staging is known.
Refuse ==
  work' = IF work.folder = Absent THEN [work EXCEPT !.step = "failed"]
          ELSE [work EXCEPT !.step = "scrub",
                            !.todo = Artifacts, !.outcome = "scrubbed"]

Unless(wrong, step) == IF wrong THEN Refuse ELSE Goes(step)

SnapshotParent ==
  /\ Working("parent")
  /\ work' = [work EXCEPT !.step = "openParent", !.before = place]
  /\ Observed

OpenParent ==
  /\ Working("openParent")
  /\ IF place # work.before THEN Refuse
     ELSE work' = [work EXCEPT !.step = "absent", !.parent = place]
  /\ Observed

\* _target_must_be_absent, before the staging and right before the renaming.
TargetMustBeAbsent ==
  \E step \in {"absent", "absentAgain"} :
    /\ Working(step)
    /\ Unless(holds[work.parent]["target"] # Absent,
              IF step = "absent" THEN "mkdir" ELSE "rename")
    /\ Observed

\* _create_private_staging: mkdir under a fresh name, then an open and a stat of it.
MakeStaging ==
  /\ Working("mkdir")
  /\ IF holds[work.parent]["staging"] # Absent
     THEN Goes("failed") /\ UNCHANGED tree
     ELSE /\ holds' = [holds EXCEPT ![work.parent]["staging"] = Len(folders) + 1]
          /\ folders' = Append(folders, EmptyFolder)
          /\ Goes("openStaging")
          /\ UNCHANGED <<place, bytes>>
  /\ UNCHANGED offered

OpenStaging ==
  /\ Working("openStaging")
  /\ LET d == holds[work.parent]["staging"]
     IN  IF d = Absent THEN Refuse
         ELSE work' = [work EXCEPT !.step = "linkedStaging", !.noted = d]
  /\ Observed

CheckStaging ==
  /\ Working("linkedStaging")
  /\ IF holds[work.parent]["staging"] # work.noted THEN Refuse
     ELSE work' = [work EXCEPT !.step = "create", !.folder = work.noted]
  /\ Observed

\* _write_payload_at: the file is created exclusively and noted before it is written.
CreateArtifact ==
  /\ Working("create")
  /\ LET a == Head(work.todo)
     IN  IF folders[work.folder][a] # Absent THEN Refuse /\ UNCHANGED tree
         ELSE /\ folders' = [folders EXCEPT ![work.folder][a] = Len(bytes) + 1]
              /\ bytes' = Append(bytes, [content |-> "none", stamp |-> 0])
              /\ work' = [work EXCEPT !.step = "write",
                            !.owned = [b \in DOMAIN @ \cup {a} |->
                                         IF b = a THEN Len(bytes) + 1 ELSE @[b]]]
              /\ UNCHANGED <<place, holds>>
  /\ UNCHANGED offered

\* All of it, or the part before the write that fails.
WriteArtifact ==
  /\ Working("write")
  /\ \E content \in {"own", "part"} :
       /\ bytes' = [bytes EXCEPT ![work.owned[Head(work.todo)]] = [@ EXCEPT !.content = content]]
       /\ IF content = "part" THEN Refuse
          ELSE IF Len(work.todo) > 1
          THEN work' = [work EXCEPT !.step = "create", !.todo = Tail(@)]
          ELSE work' = [work EXCEPT !.step = "names", !.todo = Artifacts, !.next = "parentAgain"]
  /\ UNCHANGED <<place, holds, folders, offered>>

-----------------------------------------------------------------------------
(* _verify_bound_artifacts, of which work.next follows: the names, each    *)
(* artifact between two looks at its inode, and the names again.           *)

NamesExpected == {n \in FileNames : folders[work.folder][n] # Absent} = DOMAIN work.owned
OwnedLinked(a) == folders[work.folder][a] = work.owned[a]
Reading == Head(work.todo)

CheckNames ==
  \E step \in {"names", "namesAgain"} :
    /\ Working(step)
    /\ IF ~NamesExpected THEN Refuse
       ELSE IF step = "names" THEN Goes("before")
       ELSE work' = [work EXCEPT !.step = work.next]
    /\ Observed

StatArtifact ==
  /\ Working("before")
  /\ IF ~OwnedLinked(Reading) THEN Refuse
     ELSE work' = [work EXCEPT !.step = "digest", !.noted = bytes[work.owned[Reading]].stamp]
  /\ Observed

\* Mutant: the name and its inode are checked, but not what the file holds.
DigestNothing ==
  /\ Working("digest")
  /\ Goes("after")
  /\ Observed

DigestArtifact ==
  /\ Working("digest")
  /\ Unless(~Complete(work.owned[Reading]), "after")
  /\ Observed

StatArtifactAgain ==
  /\ Working("after")
  /\ IF ~OwnedLinked(Reading) \/ bytes[work.owned[Reading]].stamp # work.noted THEN Refuse
     ELSE IF Len(work.todo) > 1 THEN work' = [work EXCEPT !.step = "before", !.todo = Tail(@)]
     ELSE Goes("namesAgain")
  /\ Observed

-----------------------------------------------------------------------------
(* The publication. *)

\* The parent's path leads to the parent: before the renaming, after it and at the end.
CheckParent ==
  \E step \in {"parentAgain", "parentAfter", "parentFinal"} :
    /\ Working(step)
    /\ Unless(place # work.before,
              CASE step = "parentAgain" -> "stagingAgain"
                [] step = "parentAfter" -> "sync"
                [] step = "parentFinal" -> "targetPath")
    /\ Observed

CheckStagingAgain ==
  /\ Working("stagingAgain")
  /\ Unless(holds[work.parent]["staging"] # work.folder, "absentAgain")
  /\ Observed

\* Mutant: a plain rename, which replaces what is at the target.
RenameReplacing ==
  /\ Working("rename")
  /\ UNCHANGED <<place, folders, bytes>>
  /\ IF holds[work.parent]["staging"] = Absent
     THEN Refuse /\ UNCHANGED <<holds, offered>>
     ELSE /\ holds' = [holds EXCEPT ![work.parent] =
                         [target |-> @["staging"], staging |-> Absent]]
          /\ Goes("renamed")
          /\ offered' = Showing'

\* What is at the name of the staging gets the name of the target, which must be free.
RenameNoreplace ==
  /\ Working("rename")
  /\ UNCHANGED <<place, folders, bytes>>
  /\ IF \/ holds[work.parent]["target"] # Absent
        \/ holds[work.parent]["staging"] = Absent
     THEN Refuse /\ UNCHANGED <<holds, offered>>
     ELSE /\ holds' = [holds EXCEPT ![work.parent] =
                         [target |-> @["staging"], staging |-> Absent]]
          /\ Goes("renamed")
          /\ offered' = Showing'

\* The command notes that it has published, and reads back what is at the target.
CheckTarget ==
  /\ Working("renamed")
  /\ work' = IF holds[work.parent]["target"] # work.folder
             THEN [work EXCEPT !.step = "scrub", !.todo = Artifacts, !.outcome = "scrubbed",
                               !.published = TRUE]
             ELSE [work EXCEPT !.step = "names", !.todo = Artifacts, !.next = "parentAfter",
                               !.published = TRUE]
  /\ Observed

SyncParent ==
  /\ Working("sync")
  /\ Goes("parentFinal")
  /\ Observed

\* The last readback: the target by its path and in the parent, and the artifacts.
CheckTargetFinal ==
  \E step \in {"targetPath", "targetBound"} :
    /\ Working(step)
    /\ LET q == IF step = "targetPath" THEN place ELSE work.parent
       IN  IF holds[q]["target"] # work.folder THEN Refuse
           ELSE IF step = "targetPath" THEN Goes("targetBound")
           ELSE work' = [work EXCEPT !.step = "names", !.todo = Artifacts, !.next = "done"]
    /\ Observed

-----------------------------------------------------------------------------
(* What fails. *)

\* _cleanup_bound_directory: each file the command has created is cut to nothing; for the
\* others there is nothing to do.
ScrubArtifact ==
  /\ Working("scrub")
  /\ \/ /\ work.todo = <<>>
        /\ Goes("failed")
        /\ UNCHANGED bytes
     \/ /\ work.todo # <<>>
        /\ Head(work.todo) \notin DOMAIN work.owned
        /\ work' = [work EXCEPT !.todo = Tail(@)]
        /\ UNCHANGED bytes
     \/ /\ work.todo # <<>>
        /\ Head(work.todo) \in DOMAIN work.owned
        /\ work' = [work EXCEPT !.todo = Tail(@)]
        /\ bytes' = [bytes EXCEPT ![work.owned[Head(work.todo)]] = [@ EXCEPT !.content = "none"]]
     \/ /\ work.todo # <<>>
        /\ Head(work.todo) \in DOMAIN work.owned
        /\ work' = [work EXCEPT !.todo = Tail(@), !.outcome = "incomplete"]
        /\ UNCHANGED bytes
  /\ UNCHANGED <<place, holds, folders, offered>>

\* A call of the command fails.
CallRaises ==
  /\ work.step \notin {"scrub", "done", "failed", "killed"}
  /\ Refuse
  /\ UNCHANGED <<meddled, theirs>> /\ Observed

\* An interrupt (Ctrl-C) is not an Exception.  Before the command has noted that it has
\* published, the files are scrubbed; afterwards, and while it scrubs, it just ends.
Interrupt ==
  /\ work.step \notin {"done", "failed", "killed"}
  /\ IF work.published \/ work.step = "scrub"
     THEN work' = [work EXCEPT !.step = "failed", !.outcome = "interrupted"]
     ELSE Refuse
  /\ UNCHANGED <<meddled, theirs>> /\ Observed

KillCompiler ==
  /\ work.step \notin {"done", "failed", "killed"}
  /\ Goes("killed")
  /\ UNCHANGED <<meddled, theirs>> /\ Observed

PackageNext ==
  \/ Meddlers
  \/ SnapshotParent \/ OpenParent \/ TargetMustBeAbsent
  \/ MakeStaging \/ OpenStaging \/ CheckStaging \/ CreateArtifact \/ WriteArtifact
  \/ CheckNames \/ StatArtifact \/ DigestArtifact \/ StatArtifactAgain
  \/ CheckParent \/ CheckStagingAgain \/ RenameNoreplace \/ CheckTarget \/ SyncParent
  \/ CheckTargetFinal \/ ScrubArtifact \/ CallRaises \/ Interrupt \/ KillCompiler

PackageSpec == PackageInit /\ [][PackageNext]_packageVars

-----------------------------------------------------------------------------

\* Of a command that succeeds each artifact has been at the target's path, in the file
\* the command wrote, some time after the renaming: none is another's, or was lost or
\* altered before readers could have it (the router plan, line 64: observations of each
\* artifact, not a state of them all).
PackageShown == work.step = "done" => offered = Range(Artifacts)

\* What others put at the target stays there until they take it away.
TargetTheirs == \A held \in theirs : holds[held[1]]["target"] = held[2]

\* A command that fails leaves none of what it has written in any of its files, under
\* whatever name and in whatever directory they are by then, unless cutting one of them
\* failed or it was interrupted too late (the router plan, line 88).
FailedScrubbed ==
  work.step = "failed" /\ work.outcome \in {"none", "scrubbed"} =>
    \A a \in DOMAIN work.owned : bytes[work.owned[a]].content \notin {"own", "part"}

\* The output of a package is honest, whatever others do meanwhile.
PackageHonest == PackageShown /\ TargetTheirs /\ FailedScrubbed
=============================================================================
