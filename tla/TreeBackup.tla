----------------------------- MODULE TreeBackup -----------------------------
(***************************************************************************)
(* A backup manifest of declared files, or the verification of a staged    *)
(* restore (durable/operations.py, compile_backup_manifest and             *)
(* verify_staged_restore): each file is opened from the root's descriptor, *)
(* hashed between two fstats, and the directories and the name are looked  *)
(* at once more.  A step is one call, but that an open and the fstat that  *)
(* follows it are one: what others do in between has the same effect       *)
(* before or after the two.  A digest stands for what was read.            *)
(***************************************************************************)
EXTENDS DirectoryTree

VARIABLE hashing  \* the command

backupVars == <<treeVars, hashing>>

Declared == Front(RootNames) \o FolderNames

NoEntry == [folder |-> Nothing, file |-> Nothing, before |-> 0, chunks |-> <<>>]

BackupInit ==
  \E missingOk \in BOOLEAN :
    hashing = [step |-> "root", missingOk |-> missingOk, root |-> Nothing, of |-> NoEntry,
               todo |-> Declared, entries |-> <<>>]

Hashing(step) == hashing.step = step /\ UNCHANGED treeVars
Name == Head(hashing.todo)
InFolder == Name \in Range(FolderNames)
Parent == IF InFolder THEN hashing.of.folder ELSE hashing.root

To(step) == hashing' = [hashing EXCEPT !.step = step]
Abort == To("failed")

\* The step a file begins with, when those in todo are left.
Begin(todo) ==
  IF todo = <<>> THEN "last" ELSE IF Head(todo) \in Range(FolderNames) THEN "descend" ELSE "open"

Entry(content) ==
  hashing' = [hashing EXCEPT !.step = Begin(Tail(hashing.todo)), !.of = NoEntry,
                             !.todo = Tail(@), !.entries = With(@, Name, content)]

\* No such file: for the verification of a restore this is an entry.
Missing == IF hashing.missingOk THEN Entry(NoFile) ELSE Abort

-----------------------------------------------------------------------------

\* _open_safe_root opens the directories of the root's path ...
OpenRoot ==
  /\ Hashing("root")
  /\ hashing' = [hashing EXCEPT !.step = "rootPath", !.root = top]

\* ... and looks whether the path still leads to them (_verify_directory_chain), at first,
\* after each file and at the end.
CheckRoot ==
  \E step \in {"rootPath", "rootAgain", "last"} :
    /\ Hashing(step)
    /\ IF top # hashing.root THEN Abort
       ELSE To(CASE step = "rootPath" -> Begin(hashing.todo)
                 [] step = "rootAgain" -> IF InFolder THEN "folderAgain" ELSE "current"
                 [] step = "last" -> "done")

OpenFolder ==
  /\ Hashing("descend")
  /\ LET folder == Lookup(hashing.root, Folder)
     IN  IF folder = Nothing THEN Missing
         ELSE IF ~IsDirectory(folder) THEN Abort
         ELSE hashing' = [hashing EXCEPT !.step = "open", !.of.folder = folder]

OpenFile ==
  /\ Hashing("open")
  /\ LET file == Lookup(Parent, Name)
     IN  IF file = Nothing THEN Missing
         ELSE IF ~IsFile(file) THEN Abort
         ELSE hashing' = [hashing EXCEPT !.step = "read", !.of.file = file,
                                         !.of.before = node[file].stamp]

ReadChunk ==
  /\ Hashing("read")
  /\ LET content == node[hashing.of.file].content
         next == Len(hashing.of.chunks) + 1
     IN  IF next > Len(content) THEN To("after")
         ELSE hashing' = [hashing EXCEPT !.of.chunks = Append(@, content[next])]

\* Mutant: the time of the file is not compared, only its size.
CheckSize ==
  /\ Hashing("after")
  /\ IF Len(hashing.of.chunks) = Len(node[hashing.of.file].content)
     THEN To("rootAgain") ELSE Abort

\* Nothing has been written since the first fstat.
CheckUnchanged ==
  /\ Hashing("after")
  /\ IF /\ node[hashing.of.file].stamp = hashing.of.before
        /\ Len(hashing.of.chunks) = Len(node[hashing.of.file].content)
     THEN To("rootAgain") ELSE Abort

CheckFolder ==
  /\ Hashing("folderAgain")
  /\ IF Lookup(hashing.root, Folder) = hashing.of.folder THEN To("current") ELSE Abort

\* The name still leads to the file that was read.
CheckName ==
  /\ Hashing("current")
  /\ IF Lookup(Parent, Name) = hashing.of.file THEN Entry(hashing.of.chunks) ELSE Abort

BackupNext ==
  \/ OpenRoot \/ CheckRoot \/ OpenFolder \/ OpenFile \/ ReadChunk \/ CheckUnchanged
  \/ CheckFolder \/ CheckName
  \/ hashing.step \notin {"done", "failed"} /\ Others /\ UNCHANGED hashing

-----------------------------------------------------------------------------

\* A manifest, or a verification of a restore, names each declared file, and every content
\* it reports is one that the file's path has led to while the command ran: not one put
\* together from two, not that of a file or directory that had been replaced by then.
EntriesShown ==
  hashing.step = "done" =>
    /\ DOMAIN hashing.entries = Range(Declared)
    /\ \A n \in Range(Declared) :
         IF hashing.entries[n] = NoFile THEN hashing.missingOk ELSE hashing.entries[n] \in seen[n]
=============================================================================
