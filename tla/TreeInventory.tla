--------------------------- MODULE TreeInventory ---------------------------
(***************************************************************************)
(* The inventory of the Fundus data root and its durability status         *)
(* (fundus/durability.py, fundus_inventory and durability_status, with     *)
(* fundus/pathio.py): the tree is walked and read twice, with the identity *)
(* of each entry, and both must agree; the status takes an inventory, reads *)
(* the evidence of a verified restore and takes the inventory once more.   *)
(* A step is one call, but that an open and the fstat that follows it are  *)
(* one, as in TreeBackup.  The evidence is read by the same function as a  *)
(* file of the tree and enters by whether it is of the inventory.          *)
(***************************************************************************)
EXTENDS DirectoryTree

VARIABLES
  survey,  \* the command
  moment   \* history: the files of the tree when its second walk began

inventoryVars == <<treeVars, survey, moment>>

Pending == [name |-> "", size |-> 0, linked |-> <<>>, file |-> Nothing, chunks |-> <<>>]
Blank == [files |-> <<>>, identities |-> <<>>]

InventoryInit ==
  /\ survey = [step |-> "root", again |-> FALSE, inventory |-> <<>>, current |-> FALSE,
               root |-> Nothing, folder |-> Nothing, second |-> FALSE, first |-> Blank,
               scan |-> Blank, names |-> {}, of |-> Pending]
  /\ moment = <<>>

Surveying(step) == survey.step = step /\ UNCHANGED treeVars
Walked == IF survey.folder = Nothing THEN survey.root ELSE survey.folder
SurveyTo(step) == survey' = [survey EXCEPT !.step = step]

\* An inventory that cannot be taken is an error; the second one of a status only makes
\* it a status that is not current.
GiveUp ==
  survey' = [survey EXCEPT !.step = IF survey.again THEN "status" ELSE "failed",
                           !.current = FALSE]

\* The names of a directory are come to in their order.
AllNames == RootNames \o FolderNames
FirstOf(names) ==
  CHOOSE n \in names : \A m \in names : Position(AllNames, n) <= Position(AllNames, m)
Identity(i) == <<i, node[i].stamp>>

-----------------------------------------------------------------------------
(* One inventory. *)

\* _safe_root opens the root and looks whether its path leads to it.
OpenDataRoot ==
  /\ Surveying("root")
  /\ survey' = [survey EXCEPT !.step = "rootPath", !.root = top]
  /\ UNCHANGED moment

CheckDataRoot ==
  /\ Surveying("rootPath")
  /\ IF top = survey.root THEN SurveyTo("list") ELSE GiveUp
  /\ UNCHANGED moment

\* The walk goes on with a name or has ended: the folder is the last name of the root.
Walk(state) ==
  survey' =
    IF state.names = {}
    THEN [state EXCEPT !.step = "walked", !.folder = Nothing, !.of = Pending]
    ELSE [state EXCEPT !.step = "stat", !.names = @ \ {FirstOf(@)},
                       !.of = [Pending EXCEPT !.name = FirstOf(state.names)]]

ListRoot ==
  /\ Surveying("list")
  /\ Walk([survey EXCEPT !.names = DOMAIN node[survey.root].names])
  /\ moment' = IF survey.second THEN Whole ELSE moment

StatEntry ==
  /\ Surveying("stat")
  /\ LET i == Lookup(Walked, survey.of.name)
     IN  IF IsDirectory(i) THEN SurveyTo("child")
         ELSE IF IsFile(i)
         THEN survey' = [survey EXCEPT !.step = "linked", !.of.size = Len(node[i].content)]
         ELSE GiveUp
  /\ UNCHANGED moment

\* _open_child_directory, which compares what it has opened with the name.
OpenChild ==
  /\ Surveying("child")
  /\ LET i == Lookup(Walked, survey.of.name)
     IN  IF IsDirectory(i)
         THEN survey' = [survey EXCEPT !.step = "childPath", !.of.file = i]
         ELSE GiveUp
  /\ UNCHANGED moment

CheckChild ==
  /\ Surveying("childPath")
  /\ IF Lookup(Walked, survey.of.name) = survey.of.file THEN SurveyTo("childStat") ELSE GiveUp
  /\ UNCHANGED moment

StatChild ==
  /\ Surveying("childStat")
  /\ survey' = [survey EXCEPT !.step = "childList",
                  !.scan.identities = With(@, survey.of.name, Identity(survey.of.file))]
  /\ UNCHANGED moment

ListChild ==
  /\ Surveying("childList")
  /\ Walk([survey EXCEPT !.folder = survey.of.file,
                          !.names = DOMAIN node[survey.of.file].names])
  /\ UNCHANGED moment

\* _read_regular_at: a stat of the name, the open, the chunks up to the size the walk
\* has seen, and an fstat.
StatFile ==
  /\ Surveying("linked")
  /\ LET i == Lookup(Walked, survey.of.name)
     IN  IF IsFile(i) /\ Len(node[i].content) <= survey.of.size
         THEN survey' = [survey EXCEPT !.step = "open", !.of.linked = Identity(i)]
         ELSE GiveUp
  /\ UNCHANGED moment

OpenRegular ==
  /\ Surveying("open")
  /\ LET i == Lookup(Walked, survey.of.name)
     IN  IF IsFile(i) /\ Identity(i) = survey.of.linked
         THEN survey' = [survey EXCEPT !.step = "read", !.of.file = i]
         ELSE GiveUp
  /\ UNCHANGED moment

ReadPayload ==
  /\ Surveying("read")
  /\ LET content == node[survey.of.file].content
         next == Len(survey.of.chunks) + 1
     IN  IF next > Len(content) THEN SurveyTo("after")
         ELSE IF next > survey.of.size THEN GiveUp
         ELSE survey' = [survey EXCEPT !.of.chunks = Append(@, content[next])]
  /\ UNCHANGED moment

CheckRead ==
  /\ Surveying("after")
  /\ IF Identity(survey.of.file) = survey.of.linked THEN SurveyTo("named") ELSE GiveUp
  /\ UNCHANGED moment

\* Mutant: the walk notes no identities, and the two agree if what they have read agrees.
NoteContent ==
  /\ Surveying("named")
  /\ IF Lookup(Walked, survey.of.name) = Nothing THEN GiveUp
     ELSE Walk([survey EXCEPT !.scan.files = With(@, survey.of.name, survey.of.chunks)])
  /\ UNCHANGED moment

\* The walk notes what the name leads to now, with what was read.
NoteFile ==
  /\ Surveying("named")
  /\ LET i == Lookup(Walked, survey.of.name)
     IN  IF i = Nothing THEN GiveUp
         ELSE Walk([survey EXCEPT !.scan =
                      [files |-> With(@.files, survey.of.name, survey.of.chunks),
                       identities |-> With(@.identities, survey.of.name, Identity(i))]])
  /\ UNCHANGED moment

\* The second walk begins, or the two are compared.
EndWalk ==
  /\ Surveying("walked")
  /\ IF ~survey.second
     THEN survey' = [survey EXCEPT !.step = "list", !.second = TRUE, !.first = survey.scan,
                                   !.scan = Blank]
     ELSE IF survey.scan = survey.first THEN SurveyTo("rootAgain")
     ELSE GiveUp
  /\ UNCHANGED moment

-----------------------------------------------------------------------------
(* The status. *)

\* The root's path still leads to the root: the inventory is taken.  After the first one
\* the evidence is read, after the second the status is decided.
EndInventory ==
  /\ Surveying("rootAgain")
  /\ IF top # survey.root THEN GiveUp
     ELSE survey' = [survey EXCEPT
            !.step = IF survey.again THEN "status" ELSE "evidence",
            !.inventory = survey.scan.files,
            !.current = @ /\ survey.scan.files = survey.inventory,
            !.second = FALSE, !.first = Blank, !.scan = Blank]
  /\ UNCHANGED moment

\* There is no evidence, or it is not valid, or of another tree, or of this one.
ReadEvidence ==
  /\ Surveying("evidence")
  /\ \/ SurveyTo("status")
     \/ \E same \in BOOLEAN :
          survey' = [survey EXCEPT !.step = "root", !.again = TRUE, !.current = same]
  /\ UNCHANGED moment

InventoryNext ==
  \/ OpenDataRoot \/ CheckDataRoot \/ ListRoot \/ StatEntry \/ OpenChild \/ CheckChild
  \/ StatChild \/ ListChild \/ StatFile \/ OpenRegular \/ ReadPayload \/ CheckRead
  \/ NoteFile \/ EndWalk \/ EndInventory \/ ReadEvidence
  \/ survey.step \notin {"status", "failed"} /\ Others /\ UNCHANGED <<survey, moment>>

-----------------------------------------------------------------------------

\* An inventory is the whole tree as it was at one moment, when its second walk listed
\* the root, with no file missing or left over: none of it is from before or after.  A
\* status that calls the evidence current therefore means this tree.
InventoryExact ==
  /\ survey.step = "evidence" => survey.inventory = moment
  /\ survey.step = "status" /\ survey.current => survey.inventory = moment
=============================================================================
