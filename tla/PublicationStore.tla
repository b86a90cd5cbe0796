--------------------------- MODULE PublicationStore ---------------------------
(***************************************************************************)
(* The local publication store (src/schauwerk/publication/store.py):       *)
(* immutable version objects, and a stable link to one of them that        *)
(* releases replace and withdrawals mark, under the store's file lock.     *)
(*                                                                         *)
(* Simplifications:                                                        *)
(* - one publication with one stable slug; a preview stands for its        *)
(*   version, its files and its times, and two previews may claim the same *)
(*   version;                                                              *)
(* - only Schauwerk's processes write to the store and they keep to the    *)
(*   lock, so that the link a command exchanges is the one it has checked; *)
(* - status and delivery read link and object under the shared lock, which *)
(*   is one look at the store while no writer holds the lock;              *)
(* - a receipt torn by a crash is no receipt, and writing one may always   *)
(*   fail.                                                                 *)
(***************************************************************************)
EXTENDS Naturals

CONSTANTS
  Publishers,   \* processes that release or withdraw
  Previews,     \* reviewed previews
  Version,      \* the version each preview claims
  Expected,     \* the link each preview was reviewed against
  Published,    \* when each preview is published
  CrashAt,      \* the steps at which a process may be killed
  RaiseAt,      \* the steps before which an exception may arise
  MaxCommands,  \* bound on the number of commands
  NoLink,       \* no process, no preview, no link
  Marker,       \* the empty file that takes the place of a link
  Damaged       \* an object with files missing

StoreSteps == {"idle", "check", "object", "exchange", "note", "verify", "receipt",
               "confirm", "return", "rollback", "unlink", "cleanup"}
Versions == {Version[r] : r \in Previews}
Active(r) == [preview |-> r, state |-> "active"]
Withdrawn(r) == [preview |-> r, state |-> "withdrawn"]
Links == [preview : Previews, state : {"active", "withdrawn"}]

ASSUME PreviewAssumption ==
  /\ DOMAIN Version = Previews
  /\ Expected \in [Previews -> Links \cup {NoLink}]
  /\ Published \in [Previews -> Nat]
ASSUME StoreAssumption ==
  /\ CrashAt \subseteq StoreSteps
  /\ RaiseAt \subseteq {"note", "return"}
  /\ MaxCommands \in Nat
  /\ NoLink \notin Publishers \cup Previews \cup Links
  /\ Marker \notin Links \cup {NoLink}
  /\ Damaged \notin Previews \cup {NoLink}

VARIABLES
  object,    \* object[v]: the preview whose object version v is
  link,      \* the stable link
  confirmed, \* the links that release and withdrawal receipts confirm
  holder,    \* the process that holds the store's lock exclusively
  atStep,    \* atStep[p]: the next step of the command of p
  target,    \* target[p]: the link that the command of p is to put in place
  created,   \* created[p]: it has created the object (object_created)
  committed, \* committed[p]: it has noted the exchange (link_committed)
  replaced,  \* replaced[p]: the link it has exchanged (previous_link)
  commands,  \* number of commands so far
  visible,   \* history: the link when the lock was last free
  shown      \* history: all links there were when the lock was free

store == <<object, link, confirmed>>
local == <<target, created, committed, replaced>>
readerView == <<visible, shown>>
publicationVars == <<store, holder, atStep, local, commands, readerView>>

StoreInit ==
  /\ object = [v \in Versions |-> NoLink]
  /\ link = NoLink
  /\ confirmed = {}
  /\ holder = NoLink
  /\ atStep = [p \in Publishers |-> "idle"]
  /\ target \in [Publishers -> {NoLink}]
  /\ created = [p \in Publishers |-> FALSE]
  /\ committed = [p \in Publishers |-> FALSE]
  /\ replaced = [p \in Publishers |-> NoLink]
  /\ commands = 0
  /\ visible = NoLink
  /\ shown = {}

GoOn(p, step) == atStep' = [atStep EXCEPT ![p] = step] /\ UNCHANGED <<holder, readerView>>

(* The command ends and its process lets go of the lock.                   *)
Leave(p) ==
  /\ atStep' = [atStep EXCEPT ![p] = "idle"]
  /\ holder' = NoLink
  /\ visible' = link'
  /\ shown' = shown \cup ({link'} \cap Links)

-----------------------------------------------------------------------------
(* Releases and withdrawals.                                               *)

StartCommand(p) ==
  /\ atStep[p] = "idle"
  /\ holder = NoLink
  /\ commands < MaxCommands
  /\ commands' = commands + 1
  /\ holder' = p
  /\ atStep' = [atStep EXCEPT ![p] = "check"]
  /\ \E l \in Links : target' = [target EXCEPT ![p] = l]
  /\ created' = [created EXCEPT ![p] = FALSE]
  /\ committed' = [committed EXCEPT ![p] = FALSE]
  /\ replaced' = [replaced EXCEPT ![p] = NoLink]
  /\ UNCHANGED <<store, readerView>>

Releasing(p) == target[p].state = "active"
PreviewOf(p) == target[p].preview
VersionOf(p) == Version[PreviewOf(p)]

(* A link is read only if it is one; a release whose version the link has  *)
(* already is a retry, in order if link and object are its own.            *)
LinkWhole == link \in Links \cup {NoLink}
IsRetry(p) == link \in Links /\ Version[link.preview] = VersionOf(p)
RetryInOrder(p) == link = target[p] /\ object[VersionOf(p)] = PreviewOf(p)

(* Seeded fault: any link may be replaced.                                 *)
ReplacesAny(p) == TRUE

(* The review named the link to replace, and its publication is earlier.   *)
Replaces(p) ==
  /\ Expected[PreviewOf(p)] = link
  /\ link # NoLink => Published[PreviewOf(p)] > Published[link.preview]

Confirms(p) == Releasing(p) /\ IsRetry(p) /\ RetryInOrder(p)
Publishes(p) == Releasing(p) /\ LinkWhole /\ ~IsRetry(p) /\ Replaces(p)
Withdraws(p) == ~Releasing(p) /\ link = Active(PreviewOf(p))

Check(p) ==
  /\ atStep[p] = "check"
  /\ UNCHANGED <<store, local, commands>>
  /\ \/ Confirms(p) /\ GoOn(p, "confirm")
     \/ Publishes(p) /\ GoOn(p, "object")
     \/ Withdraws(p) /\ GoOn(p, "exchange")
     \/ ~(Confirms(p) \/ Publishes(p) \/ Withdraws(p)) /\ Leave(p)

(* The object is written aside and renamed into place, unless there is one.*)
(* A failed write and an object that is not the preview's end the command. *)
PublishObject(p) ==
  LET v == VersionOf(p)  r == PreviewOf(p) IN
  /\ atStep[p] = "object"
  /\ UNCHANGED <<link, confirmed, target, committed, replaced, commands>>
  /\ \/ /\ object[v] = NoLink
        /\ object' = [object EXCEPT ![v] = r]
        /\ created' = [created EXCEPT ![p] = TRUE]
        /\ GoOn(p, "exchange")
     \/ /\ object[v] = r
        /\ GoOn(p, "exchange")
        /\ UNCHANGED <<object, created>>
     \/ /\ object[v] # r
        /\ Leave(p)
        /\ UNCHANGED <<object, created>>

Exchange(p) ==
  /\ atStep[p] = "exchange"
  /\ \/ /\ link' = target[p]
        /\ replaced' = [replaced EXCEPT ![p] = link]
        /\ GoOn(p, "note")
     \/ GoOn(p, "rollback") /\ UNCHANGED <<link, replaced>>
  /\ UNCHANGED <<object, confirmed, target, created, committed, commands>>

NoteCommit(p) ==
  /\ atStep[p] = "note"
  /\ committed' = [committed EXCEPT ![p] = TRUE]
  /\ GoOn(p, "verify")
  /\ UNCHANGED <<store, target, created, replaced, commands>>

(* Seeded fault: the receipt is written before the object is verified.     *)
VerifyObjectLate(p) ==
  /\ atStep[p] = "verify"
  /\ confirmed' = confirmed \cup {target[p]}
  /\ GoOn(p, "return") \/ GoOn(p, "rollback")
  /\ UNCHANGED <<object, link, local, commands>>

(* The object is read back, which may fail.                                *)
VerifyObject(p) ==
  /\ atStep[p] = "verify"
  /\ \/ object[VersionOf(p)] = PreviewOf(p) /\ GoOn(p, "receipt")
     \/ GoOn(p, "rollback")
  /\ UNCHANGED <<store, local, commands>>

(* Seeded fault: the receipt names the link that was replaced.             *)
WriteReceiptOfReplaced(p) ==
  /\ atStep[p] \in {"receipt", "confirm"}
  /\ confirmed' = confirmed \cup {replaced[p]}
  /\ GoOn(p, "return")
  /\ UNCHANGED <<object, link, local, commands>>

(* The receipt of a command, and that of a retry, which rolls back nothing.*)
WriteReceipt(p) ==
  /\ atStep[p] \in {"receipt", "confirm"}
  /\ \/ confirmed' = confirmed \cup {target[p]} /\ GoOn(p, "return")
     \/ atStep[p] = "receipt" /\ GoOn(p, "rollback") /\ UNCHANGED confirmed
     \/ atStep[p] = "confirm" /\ GoOn(p, "return") /\ UNCHANGED confirmed
  /\ UNCHANGED <<object, link, local, commands>>

Return(p) ==
  /\ atStep[p] = "return"
  /\ UNCHANGED <<store, local, commands>>
  /\ Leave(p)

-----------------------------------------------------------------------------
(* Rolling back.                                                           *)

(* Seeded fault: the object is removed though the link could not be put    *)
(* back.                                                                   *)
PutLinkBackOrNot(p) ==
  /\ atStep[p] = "rollback"
  /\ IF committed[p] THEN link' \in {link, replaced[p]} ELSE link' = link
  /\ GoOn(p, "cleanup")
  /\ UNCHANGED <<object, confirmed, local, commands>>

(* A noted exchange is undone: by exchanging the replaced link back, or, if*)
(* there was none, by exchanging the link for an empty file that is removed*)
(* next. If this fails the command ends and the object is kept.            *)
PutLinkBack(p) ==
  /\ atStep[p] = "rollback"
  /\ \/ ~committed[p] /\ link' = link /\ GoOn(p, "cleanup")
     \/ committed[p] /\ replaced[p] # NoLink /\ link' = replaced[p] /\ GoOn(p, "cleanup")
     \/ committed[p] /\ replaced[p] = NoLink /\ link' = Marker /\ GoOn(p, "unlink")
     \/ committed[p] /\ link' \in {link, replaced[p]} \ {NoLink} /\ Leave(p)
  /\ UNCHANGED <<object, confirmed, local, commands>>

(* Seeded fault: an empty file that cannot be removed stays.               *)
UnlinkMarkerOnce(p) ==
  /\ atStep[p] = "unlink"
  /\ \/ link' = NoLink /\ GoOn(p, "cleanup")
     \/ link' = Marker /\ Leave(p)
  /\ UNCHANGED <<object, confirmed, local, commands>>

UnlinkMarker(p) ==
  /\ atStep[p] = "unlink"
  /\ \/ link' = NoLink /\ GoOn(p, "cleanup")
     \/ link' = target[p] /\ Leave(p)
  /\ UNCHANGED <<object, confirmed, local, commands>>

(* Seeded fault: the object is removed whoever created it.                 *)
RemoveObjectAlways(p) ==
  /\ atStep[p] = "cleanup"
  /\ object' = [object EXCEPT ![VersionOf(p)] = NoLink]
  /\ UNCHANGED <<link, confirmed, local, commands>>
  /\ Leave(p)

(* An object of this command's making is removed, if it still is as made;  *)
(* files that cannot be removed stay.                                      *)
RemoveObject(p) ==
  /\ atStep[p] = "cleanup"
  /\ object' \in IF created[p]
                   THEN {[object EXCEPT ![VersionOf(p)] = o] :
                           o \in {NoLink, Damaged, object[VersionOf(p)]}}
                   ELSE {object}
  /\ UNCHANGED <<link, confirmed, local, commands>>
  /\ Leave(p)

-----------------------------------------------------------------------------
(* An exception after the exchange but before it is noted, or after the    *)
(* receipt is written.                                                     *)
Raise(p) ==
  /\ atStep[p] \in RaiseAt
  /\ GoOn(p, "rollback")
  /\ UNCHANGED <<store, local, commands>>

KillPublisher(p) ==
  /\ atStep[p] \in CrashAt \ {"idle"}
  /\ UNCHANGED <<store, local, commands>>
  /\ Leave(p)

Step(p) ==
  \/ Check(p) \/ PublishObject(p) \/ Exchange(p) \/ NoteCommit(p)
  \/ VerifyObject(p) \/ WriteReceipt(p) \/ Return(p)
  \/ PutLinkBack(p) \/ UnlinkMarker(p) \/ RemoveObject(p)

StoreNext == \E p \in Publishers : StartCommand(p) \/ Step(p) \/ Raise(p) \/ KillPublisher(p)

StoreSpec == StoreInit /\ [][StoreNext]_publicationVars

-----------------------------------------------------------------------------
(* Properties.                                                             *)

(* Every variable has its type.                                            *)
StoreTypeOK ==
  /\ object \in [Versions -> Previews \cup {NoLink, Damaged}]
  /\ link \in Links \cup {NoLink, Marker}
  /\ confirmed \subseteq Links
  /\ holder \in Publishers \cup {NoLink}
  /\ atStep \in [Publishers -> StoreSteps]
  /\ target \in [Publishers -> Links \cup {NoLink}]
  /\ created \in [Publishers -> BOOLEAN]
  /\ committed \in [Publishers -> BOOLEAN]
  /\ replaced \in [Publishers -> Links \cup {NoLink}]
  /\ commands \in 0..MaxCommands
  /\ visible \in Links \cup {NoLink, Marker}
  /\ shown \subseteq Links

Backed(l) == l \in Links => object[Version[l.preview]] = l.preview

(* The stable link never names an object that is missing, damaged or       *)
(* another preview's: not between the steps of a release, nor after a      *)
(* failure, a rollback or a crash at any of them (release_publication).    *)
LinkBacked == Backed(link)

(* An object that readers were once shown is kept as it was, whatever      *)
(* later releases, withdrawals, retries and rollbacks do.                  *)
ObjectsKept == \A l \in shown : Backed(l)

(* A receipt confirms a link that readers are shown, or were: no command   *)
(* that was rolled back leaves a receipt.                                  *)
ReceiptsShown == holder = NoLink => confirmed \subseteq shown

(* Whenever the lock is free, the link can be read: a failed first release *)
(* leaves no empty file in its place (_remove_link_compare_and_swap).      *)
LinkReadable == holder = NoLink => LinkWhole

(* To its readers the store is a stable link that reviewed releases        *)
(* replace; failed and killed commands take effect wholly or not at all.   *)
Stable == INSTANCE StableLink WITH shown <- visible, None <- NoLink
ImplementsStableLink == Stable!Spec

-----------------------------------------------------------------------------
(* The inductive invariant.                                                *)

(* The link that a command is to put in place may follow the visible one.  *)
Legal(p) ==
  IF Releasing(p)
    THEN /\ visible = Expected[PreviewOf(p)]
         /\ visible # NoLink => Published[PreviewOf(p)] > Published[visible.preview]
    ELSE visible = Active(PreviewOf(p))

(* An object that a command has created is one that nobody has seen.       *)
Own(p) == created[p] => \A l \in shown : Version[l.preview] # VersionOf(p)

Exchanged(p) ==
  /\ link = target[p]
  /\ object[VersionOf(p)] = PreviewOf(p)
  /\ replaced[p] = visible
  /\ Backed(visible)
  /\ created[p] /\ visible \in Links => Version[visible.preview] # VersionOf(p)

InCommand(p) ==
  /\ holder = p /\ target[p] \in Links /\ Own(p)
  /\ atStep[p] \notin {"check", "confirm", "return"} => Legal(p)
  /\ atStep[p] \in {"check", "object", "exchange", "confirm"} => link = visible
  /\ atStep[p] \in {"check", "object", "exchange"} => ~committed[p]
  /\ atStep[p] \in {"verify", "receipt"} => committed[p]
  /\ atStep[p] \in {"check", "object"} => ~created[p]
  /\ atStep[p] \in {"object", "exchange"} => LinkWhole
  /\ atStep[p] = "object" => ~IsRetry(p)
  /\ atStep[p] = "exchange" =>
       /\ object[VersionOf(p)] = PreviewOf(p)
       /\ created[p] => ~IsRetry(p)
  /\ atStep[p] \in {"note", "verify", "receipt"} => Exchanged(p)
  /\ atStep[p] \in {"confirm", "return"} => link = target[p]
  /\ atStep[p] = "return" => Legal(p) \/ link = visible
  /\ atStep[p] = "rollback" =>
       \/ committed[p] /\ Exchanged(p)
       \/ ~committed[p] /\ link = visible /\ (created[p] => ~IsRetry(p))
  /\ atStep[p] = "unlink" => object[VersionOf(p)] = PreviewOf(p) /\ visible = NoLink
  /\ atStep[p] = "cleanup" => link = visible /\ (created[p] => ~IsRetry(p))

(* The types, the properties above, and where a command stands: only the   *)
(* one that holds the lock is under way, it has replaced the visible link  *)
(* or not yet, and what it created nobody else has seen.                   *)
StoreInv ==
  /\ StoreTypeOK /\ LinkBacked /\ ObjectsKept
  /\ \A p \in Publishers : atStep[p] # "idle" => InCommand(p)
  /\ \A l \in confirmed : l \in shown \/ \E p \in Publishers : atStep[p] = "return" /\ l = link
  /\ holder = NoLink => link = visible
  /\ visible \in Links => visible \in shown
=============================================================================
