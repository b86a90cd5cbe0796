--------------------------- MODULE DirectoryTree ---------------------------
(***************************************************************************)
(* A directory tree that others change while a command reads it: the state *)
(* root of durable/operations.py and the Fundus data root of               *)
(* fundus/durability.py.  TreeBackup and TreeInventory are the two readers.*)
(*                                                                         *)
(* What is abstracted.  The root holds files and one folder, which holds   *)
(* files; the directories above the root do not change.  A content is a    *)
(* sequence of the chunks that one read returns.  Others write a file in   *)
(* place, put a fresh file or a symbolic link under a name, remove a name, *)
(* and put a fresh folder or root in the place of the old, which stays     *)
(* open for whoever has it open and may change further.  A change leaves a *)
(* time stamp of its own, and nothing that was taken out of the tree is    *)
(* put back into it: that the readers would not notice.                    *)
(***************************************************************************)
EXTENDS Naturals, SequencesExt

CONSTANTS
  RootNames,     \* the names in the root, in their order, the folder last
  FolderNames,   \* the names in the folder, in their order
  Contents,      \* the contents files may have
  FirstContent,  \* the one they have at first
  TreeChanges    \* bound: changes by others

ASSUME TreeAssumption ==
  /\ RootNames \in Seq(STRING) /\ FolderNames \in Seq(STRING) /\ RootNames # <<>>
  /\ IsInjective(RootNames) /\ IsInjective(FolderNames)
  /\ Range(RootNames) \cap Range(FolderNames) = {}
  /\ Contents \subseteq Seq(Nat) \ {<<>>} /\ FirstContent \in Contents
  /\ TreeChanges \in Nat

VARIABLES
  node,     \* node[i]: the file, link or directory with inode i
  top,      \* the inode at the path of the root
  changes,  \* changes so far
  seen      \* history: the contents each name has shown since the start

treeVars == <<node, top, changes, seen>>

Folder == Last(RootNames)
Names == Range(RootNames) \cup Range(FolderNames)

Nothing == 0     \* no inode
NoFile == <<>>   \* no content

File(content, stamp) == [kind |-> "file", content |-> content, stamp |-> stamp]
SymbolicLink(stamp) == [kind |-> "link", stamp |-> stamp]
Directory(kind, names, stamp) == [kind |-> kind, names |-> names, stamp |-> stamp]

With(f, name, value) == [n \in DOMAIN f \cup {name} |-> IF n = name THEN value ELSE f[n]]
Position(names, name) == CHOOSE k \in DOMAIN names : names[k] = name

\* Fresh nodes, the first of which gets the inode first: a folder, and a whole tree.
FolderNodes(first, content, stamp) ==
  <<Directory("folder", [n \in Range(FolderNames) |-> first + Position(FolderNames, n)], stamp)>>
    \o [k \in 1..Len(FolderNames) |-> File(content, stamp)]

TreeNodes(first, content, stamp) ==
  <<Directory("root", [n \in Range(RootNames) |-> first + Position(RootNames, n)], stamp)>>
    \o [k \in 1..(Len(RootNames) - 1) |-> File(content, stamp)]
    \o FolderNodes(first + Len(RootNames), content, stamp)

-----------------------------------------------------------------------------
(* What a command sees of the tree. *)

IsDirectory(i) == i # Nothing /\ node[i].kind \in {"root", "folder"}
IsFile(i) == i # Nothing /\ node[i].kind = "file"

Lookup(directory, name) ==
  IF name \in DOMAIN node[directory].names THEN node[directory].names[name] ELSE Nothing

Home(name) == IF name \in Range(FolderNames) THEN Lookup(top, Folder) ELSE top

\* The content that the path of a name leads to.
Visible(name) ==
  IF IsDirectory(Home(name)) /\ IsFile(Lookup(Home(name), name))
  THEN node[Lookup(Home(name), name)].content
  ELSE NoFile

\* All files of the tree, one in the place of the folder included.
Whole == [n \in {n \in Names : Visible(n) # NoFile} |-> Visible(n)]

TreeInit ==
  /\ node = TreeNodes(1, FirstContent, 0)
  /\ top = 1
  /\ changes = 0
  /\ seen = [n \in Names |-> {Visible(n)}]

-----------------------------------------------------------------------------
(* What others do. *)

NamesOf(i) == Range(IF node[i].kind = "root" THEN RootNames ELSE FolderNames)
Stamp == changes + 1
Fresh == Len(node) + 1

Becomes(nodes, root) ==
  /\ changes < TreeChanges
  /\ node' = nodes
  /\ top' = root
  /\ changes' = changes + 1
  /\ seen' = [n \in Names |-> seen[n] \cup {Visible(n)'}]

\* The nodes with other names in one directory.
Named(directory, names) ==
  [node EXCEPT ![directory] = Directory(@.kind, names, Stamp)]

Rewrite ==
  \E i \in DOMAIN node, content \in Contents :
    /\ IsFile(i) /\ node[i].content # content
    /\ Becomes([node EXCEPT ![i] = File(content, Stamp)], top)

Put ==
  \E d \in DOMAIN node : IsDirectory(d) /\
    \E name \in NamesOf(d), new \in {SymbolicLink(Stamp)} \cup {File(c, Stamp) : c \in Contents} :
      Becomes(Append(Named(d, With(node[d].names, name, Fresh)), new), top)

Unlink ==
  \E d \in DOMAIN node : IsDirectory(d) /\
    \E name \in DOMAIN node[d].names :
      Becomes(Named(d, [n \in DOMAIN node[d].names \ {name} |-> node[d].names[n]]), top)

ReplaceFolder ==
  \E d \in DOMAIN node, content \in Contents :
    /\ IsDirectory(d) /\ node[d].kind = "root"
    /\ Becomes(Named(d, With(node[d].names, Folder, Fresh))
                 \o FolderNodes(Fresh, content, Stamp), top)

ReplaceRoot ==
  \E content \in Contents : Becomes(node \o TreeNodes(Fresh, content, Stamp), Fresh)

Others == Rewrite \/ Put \/ Unlink \/ ReplaceFolder \/ ReplaceRoot
=============================================================================
