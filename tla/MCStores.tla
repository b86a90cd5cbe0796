------------------------------ MODULE MCStores ------------------------------
(***************************************************************************)
(* One run for seven components that share no state, most on files: a      *)
(* behaviour is of one of them, and the others stay as they are.  The two  *)
(* readers of a directory tree share its variables.                        *)
(***************************************************************************)
EXTENDS MCPublicationStore, TreeReaders, PackageOutput,
        LiveTests, LiveOrders

VARIABLE shelf  \* the component the behaviour is of

Folders == <<"a", "d">>
FolderFiles == <<"b">>
TwoChunks == <<0, 0>>
FileContents == {TwoChunks, <<1>>}
TwoArtifacts == <<"a", "b">>

(* Two managed regions with snapshots that look alike, and one that is not *)
(* managed.                                                                *)
Declaration(region, mode, alias) ==
  [view |-> "v", region |-> region, mode |-> mode, alias |-> alias, expected |-> "d1"]

SomeDeclarations ==
  {Declaration("r1", "managed", "a1"), Declaration("r2", "managed", "a2"),
   Declaration("r1", "manual", "a1")}

TakenShot(alias, digest, count) ==
  [alias |-> alias, digest |-> digest, count |-> count,
   repeatable |-> TRUE, sanitized |-> TRUE]

SomeShots ==
  {TakenShot("a1", "d1", 2), TakenShot("a1", "d2", 2), TakenShot("a2", "d1", 2),
   TakenShot("a1", "d1", 3), [TakenShot("a1", "d1", 2) EXCEPT !.repeatable = FALSE]}

SomeAllowlists == {{"a1", "a2"}, {"a2"}}

Declaring(i, region) == [id |-> i, region |-> region]

SomeOperations ==
  {<<Declaring(1, "r1")>>, <<Declaring(2, "r1")>>, <<Declaring(1, "r2")>>,
   <<Declaring(1, "r1"), Declaring(1, "r1")>>}

(* Evidence that is right, or wrong in one respect.                        *)
RightProof(mode) ==
  [own |-> TRUE, marked |-> TRUE, verified |-> TRUE, done |-> TRUE,
   cleaned |-> TRUE, claim |-> FALSE, mode |-> mode, region |-> "r1", alias |-> "a1"]

SomeProofs ==
  UNION {{e, [e EXCEPT !.region = "r2"], [e EXCEPT !.alias = "a2"], [e EXCEPT !.claim = TRUE]} \cup
         {[e EXCEPT ![f] = FALSE] : f \in {"own", "marked", "verified", "done", "cleaned"}} :
           e \in {RightProof(m) : m \in {"restored-snapshot", "explicit-boundary", "none"}}}

RightClaim ==
  [requested |-> TRUE, verified |-> TRUE, listed |-> TRUE, attempted |-> TRUE,
   cleaned |-> TRUE, boundary |-> "none"]

SomeClaims ==
  {RightClaim, [RightClaim EXCEPT !.boundary = "other"],
   [RightClaim EXCEPT !.cleaned = FALSE, !.boundary = "accepted"]} \cup
  {[RightClaim EXCEPT ![f] = FALSE] :
     f \in {"requested", "verified", "listed", "attempted", "cleaned"}}

OnePacket == {EvidencePacket(ReviewPacket(Status(Evaluation(RightClaim, TRUE))))}

(* One draft that is right; one whose texts contain each other, one that   *)
(* loses the marker, one for another snapshot.                             *)
Rewriting(i, old, new) ==
  [id |-> i, region |-> "r1", old |-> {"r1"} \cup old, new |-> new]

Draft(expected, operations) ==
  [alias |-> "a1", region |-> "r1", expected |-> expected, operations |-> operations]

SomeDrafts ==
  {Draft("d1", <<Rewriting(1, {"x"}, {"r1", "y"}), Rewriting(2, {"u"}, {"r1", "v"})>>),
   Draft("d1", <<Rewriting(1, {"x"}, {"r1", "y"}), Rewriting(2, {"x", "z"}, {"r1", "v"})>>),
   Draft("d1", <<Rewriting(1, {"x"}, {"y"})>>),
   Draft("d2", <<Rewriting(1, {"x"}, {"r1", "y"})>>)}

StoresInit ==
  /\ shelf \in {"publications", "backup", "inventory", "package", "live tests",
               "receipts", "live orders"}
  /\ StoreInit /\ TreeInit /\ BackupInit /\ InventoryInit /\ PackageInit
  /\ TestInit /\ ReceiptsInit /\ OrdersInit
  /\ shelf # "backup" => ~hashing.missingOk

OnlyPublications ==
  /\ shelf = "publications"
  /\ UNCHANGED <<shelf, backupVars, survey, moment, packageVars, testVars, receiptVars, orderVars>>

OnlyBackup ==
  /\ shelf = "backup"
  /\ UNCHANGED <<shelf, publicationVars, survey, moment, packageVars, testVars, receiptVars,
                 orderVars>>

OnlyInventory ==
  /\ shelf = "inventory"
  /\ UNCHANGED <<shelf, publicationVars, hashing, packageVars, testVars, receiptVars, orderVars>>

OnlyPackage ==
  /\ shelf = "package"
  /\ UNCHANGED <<shelf, publicationVars, backupVars, survey, moment, testVars, receiptVars,
                 orderVars>>

OnlyTests ==
  /\ shelf = "live tests"
  /\ UNCHANGED <<shelf, publicationVars, backupVars, survey, moment, packageVars, receiptVars,
                 orderVars>>

OnlyReceipts ==
  /\ shelf = "receipts"
  /\ UNCHANGED <<shelf, publicationVars, backupVars, survey, moment, packageVars, testVars,
                 orderVars>>

OnlyOrders ==
  /\ shelf = "live orders"
  /\ UNCHANGED <<shelf, publicationVars, backupVars, survey, moment, packageVars, testVars,
                 receiptVars>>

StoresNext ==
  \/ OnlyPublications /\ StoreNext
  \/ OnlyBackup /\ BackupNext
  \/ OnlyInventory /\ InventoryNext
  \/ OnlyPackage /\ PackageNext
  \/ OnlyTests /\ TestNext
  \/ OnlyReceipts /\ ReceiptsNext
  \/ OnlyOrders /\ OrdersNext

StoresSpec ==
  StoresInit /\
  [][StoresNext]_<<shelf, publicationVars, backupVars, survey, moment, packageVars, testVars,
                   receiptVars, orderVars>>

=============================================================================
