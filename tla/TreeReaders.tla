---------------------------- MODULE TreeReaders ----------------------------
(***************************************************************************)
(* A backup or a verification of a staged restore, and a status of the     *)
(* Fundus data root, over one tree that others change meanwhile.  Neither  *)
(* reader writes, so each sees the other's time as others' time.           *)
(***************************************************************************)
EXTENDS TreeBackup, TreeInventory

readersVars == <<treeVars, hashing, survey, moment>>

ReadersInit == TreeInit /\ BackupInit /\ InventoryInit

ReadersNext ==
  \/ BackupNext /\ UNCHANGED <<survey, moment>>
  \/ InventoryNext /\ UNCHANGED hashing

ReadersSpec == ReadersInit /\ [][ReadersNext]_readersVars

-----------------------------------------------------------------------------

\* What is reported of a tree that others change meanwhile was there: in a
\* manifest or a verified restore each file's bytes, in an inventory that
\* is called consistent the whole tree at one moment.
TreesReadTrue == EntriesShown /\ InventoryExact
=============================================================================
