----------------------------- MODULE StoreProofs -----------------------------
(***************************************************************************)
(* Theorems about PublicationStore for any number of processes, previews   *)
(* and commands, with failures and kills at any step. They assume that no  *)
(* exception arises in the window after an exchange that is not yet noted  *)
(* nor after a receipt is written: the runs show that it does harm there.  *)
(* Then one about TreeReaders, the backups and inventories that read a     *)
(* tree while others change it, for any names, contents and changes.       *)
(***************************************************************************)
EXTENDS PublicationStore, TreeReaders, SequenceTheorems, FiniteSetTheorems,
        WellFoundedInduction, TLAPS

-----------------------------------------------------------------------------
(* Previews, links and versions.                                           *)

(* A version and one of two states make a link.                            *)
LEMMA ConstantFacts ==
  /\ \A r \in Previews : Version[r] \in Versions
  /\ \A l \in Links : /\ l.preview \in Previews /\ l.state \in {"active", "withdrawn"}
                      /\ l = IF l.state = "active" THEN Active(l.preview)
                             ELSE Withdrawn(l.preview)
  /\ \A r \in Previews : /\ Active(r) \in Links /\ Withdrawn(r) \in Links
                         /\ Active(r).preview = r /\ Withdrawn(r).preview = r
  /\ NoLink \notin Publishers /\ NoLink \notin Previews /\ NoLink \notin Links
  /\ Marker \notin Links /\ Marker # NoLink
  <1>1. \A r \in Previews : Version[r] \in Versions
    BY DEF Versions
  <1>2. \A l \in Links : /\ l.preview \in Previews /\ l.state \in {"active", "withdrawn"}
                         /\ l = IF l.state = "active" THEN Active(l.preview)
                                ELSE Withdrawn(l.preview)
    BY DEF Links, Active, Withdrawn
  <1>3. \A r \in Previews : /\ Active(r) \in Links /\ Withdrawn(r) \in Links
                            /\ Active(r).preview = r /\ Withdrawn(r).preview = r
    BY DEF Links, Active, Withdrawn
  <1> QED
    BY <1>1, <1>2, <1>3, StoreAssumption

-----------------------------------------------------------------------------
(* How steps move a command.                                               *)

(* A step that keeps the lock keeps what it does not touch.                *)
LEMMA GoesOn ==
  ASSUME StoreInv, NEW p \in Publishers, atStep[p] # "idle", NEW step \in StoreSteps \ {"idle"},
         GoOn(p, step)
  PROVE  /\ atStep' \in [Publishers -> StoreSteps] /\ atStep'[p] = step
         /\ \A q \in Publishers : q # p => atStep'[q] = "idle"
         /\ holder' = p /\ holder = p /\ p # NoLink
         /\ visible' = visible /\ shown' = shown
  <1>1. holder = p /\ atStep \in [Publishers -> StoreSteps]
    BY DEF StoreInv, StoreTypeOK, InCommand
  <1>2. \A q \in Publishers : q # p => atStep[q] = "idle"
    BY <1>1 DEF StoreInv, InCommand
  <1> QED
    BY <1>1, <1>2, ConstantFacts DEF GoOn, readerView

(* The invariant after a step of a command that goes on.                   *)
LEMMA GoesOnInvariant ==
  ASSUME StoreInv, NEW p \in Publishers, atStep[p] # "idle", NEW step \in StoreSteps \ {"idle"},
         GoOn(p, step), StoreTypeOK', LinkBacked', ObjectsKept',
         InCommand(p)',
         \A l \in confirmed' : l \in shown \/ (atStep'[p] = "return" /\ l = link')
  PROVE  StoreInv'
  <1>1. \A q \in Publishers : atStep'[q] # "idle" => InCommand(q)'
    BY GoesOn
  <1>2. /\ \A l \in confirmed' :
             l \in shown' \/ \E q \in Publishers : atStep'[q] = "return" /\ l = link'
        /\ holder' = NoLink => link' = visible'
        /\ visible' \in Links => visible' \in shown'
    BY GoesOn DEF StoreInv
  <1> QED
    BY <1>1, <1>2 DEF StoreInv

(* The invariant after the last step of a command.                         *)
LEMMA LeavesInvariant ==
  ASSUME StoreInv, NEW p \in Publishers, atStep[p] # "idle", Leave(p),
         link' \in Links \cup {NoLink, Marker}, UNCHANGED <<confirmed, local, commands>>,
         object' \in [Versions -> Previews \cup {NoLink, Damaged}],
         LinkBacked', \A l \in shown : Backed(l)',
         atStep[p] = "return" => link' = link
  PROVE  StoreInv'
  <1>1. /\ holder = p /\ atStep \in [Publishers -> StoreSteps]
        /\ \A q \in Publishers : q # p => atStep[q] = "idle"
    BY DEF StoreInv, StoreTypeOK, InCommand
  <1>2. \A q \in Publishers : atStep'[q] = "idle"
    BY <1>1 DEF Leave
  <1>3. atStep' \in [Publishers -> StoreSteps]
    BY <1>1 DEF Leave, StoreSteps
  <1>4. shown' \subseteq Links /\ visible' = link' /\ holder' = NoLink
    BY DEF Leave, StoreInv, StoreTypeOK
  <1>5. StoreTypeOK'
    BY <1>3, <1>4 DEF StoreInv, StoreTypeOK, local
  <1>6. ObjectsKept'
    BY DEF Leave, ObjectsKept, LinkBacked
  <1>7. \A l \in confirmed' : l \in shown'
    <2> SUFFICES ASSUME NEW l \in confirmed PROVE l \in shown'
      OBVIOUS
    <2>1. l \in shown \/ (atStep[p] = "return" /\ l = link)
      BY <1>1 DEF StoreInv
    <2>2. l \in Links
      BY DEF StoreInv, StoreTypeOK
    <2> QED
      BY <2>1, <2>2 DEF Leave
  <1>8. visible' \in Links => visible' \in shown'
    BY DEF Leave
  <1> QED
    BY <1>2, <1>4, <1>5, <1>6, <1>7, <1>8 DEF StoreInv
-----------------------------------------------------------------------------
(* Each step keeps the invariant.                                          *)

(* The empty store is in order.                                            *)
LEMMA InitInvariant == StoreInit => StoreInv
  <1> SUFFICES ASSUME StoreInit PROVE StoreInv
    OBVIOUS
  <1>1. StoreTypeOK
    BY ConstantFacts, StoreAssumption DEF StoreInit, StoreTypeOK, StoreSteps
  <1>2. LinkBacked /\ ObjectsKept
    BY ConstantFacts DEF StoreInit, LinkBacked, ObjectsKept, Backed
  <1> QED
    BY <1>1, <1>2, ConstantFacts DEF StoreInit, StoreInv

(* A command starts with nothing created, noted or replaced.               *)
LEMMA StartInvariant ==
  ASSUME StoreInv, NEW p \in Publishers, StartCommand(p)
  PROVE  StoreInv'
  <1>1. PICK l \in Links : target' = [target EXCEPT ![p] = l]
    BY DEF StartCommand
  <1>2. \A q \in Publishers : atStep[q] = "idle"
    BY ConstantFacts DEF StartCommand, StoreInv, InCommand
  <1>3. StoreTypeOK'
    BY <1>1, StoreAssumption DEF StartCommand, StoreInv, StoreTypeOK, store, readerView, StoreSteps
  <1>4. LinkBacked' /\ ObjectsKept'
    BY DEF StartCommand, StoreInv, LinkBacked, ObjectsKept, Backed, store, readerView
  <1>5. ASSUME NEW q \in Publishers, atStep'[q] # "idle" PROVE InCommand(q)'
    <2>1. q = p /\ atStep'[p] = "check" /\ target'[p] \in Links /\ holder' = p
      BY <1>1, <1>2, <1>5 DEF StartCommand, StoreInv, StoreTypeOK
    <2>2. ~created'[p] /\ ~committed'[p]
      BY DEF StartCommand, StoreInv, StoreTypeOK
    <2>3. link' = visible'
      BY DEF StartCommand, StoreInv, store, readerView
    <2> QED
      BY <2>1, <2>2, <2>3 DEF InCommand, Own
  <1>6. /\ \A l1 \in confirmed' :
             l1 \in shown' \/ \E q \in Publishers : atStep'[q] = "return" /\ l1 = link'
        /\ holder' = NoLink => link' = visible'
        /\ visible' \in Links => visible' \in shown'
    BY <1>2, ConstantFacts DEF StartCommand, StoreInv, store, readerView
  <1> QED
    BY <1>3, <1>4, <1>5, <1>6 DEF StoreInv

(* A command that ends with nothing changed keeps the invariant.           *)
LEMMA EndInvariant ==
  ASSUME StoreInv, NEW p \in Publishers, atStep[p] # "idle", Leave(p),
         UNCHANGED <<store, local, commands>>
  PROVE  StoreInv'
  <1>1. /\ link' \in Links \cup {NoLink, Marker}
        /\ object' \in [Versions -> Previews \cup {NoLink, Damaged}]
    BY DEF StoreInv, StoreTypeOK, store
  <1>2. LinkBacked' /\ \A l \in shown : Backed(l)'
    BY DEF StoreInv, LinkBacked, ObjectsKept, Backed, store
  <1> QED
    BY <1>1, <1>2, LeavesInvariant DEF store

(* A step that keeps the store and goes on keeps the types and the backing.*)
LEMMA StoreKept ==
  ASSUME StoreInv, NEW p \in Publishers, atStep[p] # "idle", NEW step \in StoreSteps \ {"idle"},
         GoOn(p, step), UNCHANGED <<store, local, commands>>
  PROVE  StoreTypeOK' /\ LinkBacked' /\ ObjectsKept'
  <1>1. StoreTypeOK'
    BY GoesOn DEF StoreInv, StoreTypeOK, store, local
  <1> QED
    BY <1>1, GoesOn DEF StoreInv, LinkBacked, ObjectsKept, Backed, store

(* A command that is let through may replace the visible link.             *)
LEMMA CheckInvariant ==
  ASSUME StoreInv, NEW p \in Publishers, Check(p)
  PROVE  StoreInv'
  <1>1. atStep[p] = "check" /\ InCommand(p) /\ UNCHANGED <<store, local, commands>>
    BY DEF Check, StoreInv
  <1>2. CASE \E step \in {"confirm", "object", "exchange"} : GoOn(p, step)
    <2>1. PICK step \in {"confirm", "object", "exchange"} :
            /\ GoOn(p, step)
            /\ step = "confirm" => Confirms(p)
            /\ step = "object" => Publishes(p)
            /\ step = "exchange" => Withdraws(p)
      BY <1>1, <1>2 DEF Check, GoOn, Leave, StoreInv, StoreTypeOK
    <2>2. step \in StoreSteps \ {"idle"}
      BY DEF StoreSteps
    <2>3. StoreTypeOK' /\ LinkBacked' /\ ObjectsKept'
      BY <1>1, <2>1, <2>2, StoreKept
    <2>4. /\ atStep'[p] = step /\ holder' = p /\ visible' = visible /\ shown' = shown
          /\ Own(p)' /\ target'[p] \in Links /\ link' = visible'
      BY <1>1, <2>1, <2>2, GoesOn DEF InCommand, Own, VersionOf, PreviewOf, store, local
    <2>5. ~created'[p] /\ ~committed'[p]
      BY <1>1 DEF InCommand, local
    <2>6. InCommand(p)'
      <3>1. CASE step = "confirm"
        BY <1>1, <2>1, <2>4, <3>1 DEF InCommand, Confirms, RetryInOrder, store, local
      <3>2. CASE step = "object"
        BY <1>1, <2>1, <2>4, <2>5, <3>2
           DEF InCommand, Publishes, Replaces, Legal, Releasing, IsRetry, LinkWhole,
               VersionOf, PreviewOf, store, local
      <3>3. CASE step = "exchange"
        <4>1. PreviewOf(p) \in Previews /\ link = Active(PreviewOf(p))
          BY <1>1, <2>1, <3>3, ConstantFacts DEF InCommand, Withdraws, PreviewOf
        <4>2. link \in Links /\ link.preview = PreviewOf(p)
          BY <4>1, ConstantFacts
        <4>3. object[VersionOf(p)] = PreviewOf(p)
          BY <4>2 DEF StoreInv, LinkBacked, Backed, VersionOf
        <4> QED
          BY <1>1, <2>1, <2>4, <2>5, <3>3, <4>1, <4>2, <4>3
             DEF InCommand, Withdraws, Legal, Releasing, LinkWhole,
                 VersionOf, PreviewOf, store, local
      <3> QED
        BY <3>1, <3>2, <3>3
    <2>7. \A l \in confirmed' : l \in shown \/ (atStep'[p] = "return" /\ l = link')
      BY <1>1, GoesOn DEF StoreInv, store, InCommand
    <2> QED
      BY <1>1, <2>1, <2>2, <2>3, <2>6, <2>7, GoesOnInvariant
  <1>3. CASE Leave(p)
    BY <1>1, <1>3, EndInvariant
  <1> QED
    BY <1>2, <1>3 DEF Check

(* The object is new, and then nobody has seen one of its version, or it is*)
(* the preview's own.                                                      *)
LEMMA PublishObjectInvariant ==
  ASSUME StoreInv, NEW p \in Publishers, PublishObject(p)
  PROVE  StoreInv'
  <1>1. /\ atStep[p] = "object" /\ InCommand(p)
        /\ UNCHANGED <<link, confirmed, target, committed, replaced, commands>>
    BY DEF PublishObject, StoreInv
  <1>2. /\ PreviewOf(p) \in Previews /\ VersionOf(p) \in Versions
        /\ PreviewOf(p)' = PreviewOf(p) /\ VersionOf(p)' = VersionOf(p)
    BY <1>1, ConstantFacts DEF InCommand, PreviewOf, VersionOf
  <1>3. ASSUME object[VersionOf(p)] = NoLink, GoOn(p, "exchange"),
               object' = [object EXCEPT ![VersionOf(p)] = PreviewOf(p)],
               created' = [created EXCEPT ![p] = TRUE]
        PROVE  StoreInv'
    <2>1. "exchange" \in StoreSteps \ {"idle"}
      BY DEF StoreSteps
    <2>2. /\ atStep'[p] = "exchange" /\ holder' = p /\ visible' = visible /\ shown' = shown
          /\ atStep' \in [Publishers -> StoreSteps]
      BY <1>1, <1>3, <2>1, GoesOn
    <2>3. StoreTypeOK'
      BY <1>1, <1>2, <1>3, <2>2 DEF StoreInv, StoreTypeOK
    <2>4. ASSUME NEW l \in Links, Backed(l)
          PROVE  Version[l.preview] # VersionOf(p) /\ Backed(l)'
      <3>1. Version[l.preview] # VersionOf(p)
        BY <1>3, <2>4, ConstantFacts DEF Backed
      <3> QED
        BY <1>3, <2>4, <3>1, ConstantFacts DEF Backed, StoreInv, StoreTypeOK
    <2>5. LinkBacked'
      BY <1>1, <2>4 DEF LinkBacked, Backed, StoreInv
    <2>6. ObjectsKept' /\ \A l \in shown : Version[l.preview] # VersionOf(p)
      BY <2>2, <2>4 DEF ObjectsKept, StoreInv, StoreTypeOK
    <2>7. object'[VersionOf(p)] = PreviewOf(p)
      BY <1>2, <1>3 DEF StoreInv, StoreTypeOK
    <2>8. InCommand(p)'
      BY <1>1, <1>2, <2>2, <2>6, <2>7
         DEF InCommand, Own, Legal, LinkWhole, IsRetry, Releasing, PreviewOf, VersionOf
    <2>9. \A l \in confirmed' : l \in shown \/ (atStep'[p] = "return" /\ l = link')
      BY <1>1, <2>1, <1>3, GoesOn DEF StoreInv, InCommand
    <2> QED
      BY <1>1, <1>3, <2>1, <2>3, <2>5, <2>6, <2>8, <2>9, GoesOnInvariant
  <1>4. ASSUME object[VersionOf(p)] = PreviewOf(p), GoOn(p, "exchange"),
               UNCHANGED <<object, created>>
        PROVE  StoreInv'
    <2>1. "exchange" \in StoreSteps \ {"idle"} /\ UNCHANGED <<store, local, commands>>
      BY <1>1, <1>4 DEF StoreSteps, store, local
    <2>2. StoreTypeOK' /\ LinkBacked' /\ ObjectsKept'
      BY <1>1, <1>4, <2>1, StoreKept
    <2>3. atStep'[p] = "exchange" /\ holder' = p /\ visible' = visible /\ shown' = shown
      BY <1>1, <1>4, <2>1, GoesOn
    <2>4. InCommand(p)'
      BY <1>1, <1>2, <1>4, <2>3
         DEF InCommand, Own, Legal, LinkWhole, IsRetry, Releasing, PreviewOf, VersionOf
    <2>5. \A l \in confirmed' : l \in shown \/ (atStep'[p] = "return" /\ l = link')
      BY <1>1, <2>1, <1>4, GoesOn DEF StoreInv, InCommand
    <2> QED
      BY <1>1, <1>4, <2>1, <2>2, <2>4, <2>5, GoesOnInvariant
  <1>5. ASSUME Leave(p), UNCHANGED <<object, created>> PROVE StoreInv'
    BY <1>1, <1>5, EndInvariant DEF store, local
  <1> QED
    BY <1>3, <1>4, <1>5 DEF PublishObject

(* The link put in place names an object that is there.                    *)
LEMMA ExchangeInvariant ==
  ASSUME StoreInv, NEW p \in Publishers, Exchange(p)
  PROVE  StoreInv'
  <1>1. /\ atStep[p] = "exchange" /\ InCommand(p)
        /\ UNCHANGED <<object, confirmed, target, created, committed, commands>>
    BY DEF Exchange, StoreInv
  <1>2. /\ PreviewOf(p) \in Previews /\ VersionOf(p) \in Versions
        /\ PreviewOf(p)' = PreviewOf(p) /\ VersionOf(p)' = VersionOf(p)
    BY <1>1, ConstantFacts DEF InCommand, PreviewOf, VersionOf
  <1>3. ASSUME link' = target[p], replaced' = [replaced EXCEPT ![p] = link],
               GoOn(p, "note")
        PROVE  StoreInv'
    <2>1. "note" \in StoreSteps \ {"idle"}
      BY DEF StoreSteps
    <2>2. /\ atStep'[p] = "note" /\ holder' = p /\ visible' = visible /\ shown' = shown
          /\ atStep' \in [Publishers -> StoreSteps]
      BY <1>1, <1>3, <2>1, GoesOn
    <2>3. StoreTypeOK'
      BY <1>1, <1>3, <2>2 DEF StoreInv, StoreTypeOK, InCommand, LinkWhole
    <2>4. LinkBacked' /\ ObjectsKept'
      BY <1>1, <1>3, <2>2
         DEF LinkBacked, ObjectsKept, Backed, StoreInv, InCommand, PreviewOf, VersionOf
    <2>5. replaced'[p] = visible
      BY <1>1, <1>3 DEF StoreInv, StoreTypeOK, InCommand
    <2>6. Exchanged(p)'
      BY <1>1, <1>2, <1>3, <2>2, <2>5
         DEF Exchanged, Backed, StoreInv, LinkBacked, InCommand, IsRetry, VersionOf, PreviewOf
    <2>7. InCommand(p)'
      BY <1>1, <1>2, <2>2, <2>6 DEF InCommand, Own, Legal, Releasing, PreviewOf
    <2>8. \A l \in confirmed' : l \in shown \/ (atStep'[p] = "return" /\ l = link')
      BY <1>1, <2>1, <1>3, GoesOn DEF StoreInv, InCommand
    <2> QED
      BY <1>1, <1>3, <2>1, <2>3, <2>4, <2>7, <2>8, GoesOnInvariant
  <1>4. ASSUME GoOn(p, "rollback"), UNCHANGED <<link, replaced>> PROVE StoreInv'
    <2>1. "rollback" \in StoreSteps \ {"idle"} /\ UNCHANGED <<store, local, commands>>
      BY <1>1, <1>4 DEF StoreSteps, store, local
    <2>2. StoreTypeOK' /\ LinkBacked' /\ ObjectsKept'
      BY <1>1, <1>4, <2>1, StoreKept
    <2>3. atStep'[p] = "rollback" /\ holder' = p /\ visible' = visible /\ shown' = shown
      BY <1>1, <1>4, <2>1, GoesOn
    <2>4. InCommand(p)'
      BY <1>1, <1>2, <1>4, <2>3
         DEF InCommand, Own, Legal, IsRetry, Releasing, PreviewOf, VersionOf
    <2>5. \A l \in confirmed' : l \in shown \/ (atStep'[p] = "return" /\ l = link')
      BY <1>1, <2>1, <1>4, GoesOn DEF StoreInv, InCommand
    <2> QED
      BY <1>1, <1>4, <2>1, <2>2, <2>4, <2>5, GoesOnInvariant
  <1> QED
    BY <1>3, <1>4 DEF Exchange

(* Noting the exchange changes nothing in the store.                       *)
LEMMA NoteCommitInvariant ==
  ASSUME StoreInv, NEW p \in Publishers, NoteCommit(p)
  PROVE  StoreInv'
  <1>1. /\ atStep[p] = "note" /\ InCommand(p) /\ GoOn(p, "verify")
        /\ committed' = [committed EXCEPT ![p] = TRUE]
        /\ UNCHANGED <<store, target, created, replaced, commands>>
    BY DEF NoteCommit, StoreInv
  <1>2. "verify" \in StoreSteps \ {"idle"}
    BY DEF StoreSteps
  <1>3. /\ atStep'[p] = "verify" /\ holder' = p /\ visible' = visible /\ shown' = shown
        /\ atStep' \in [Publishers -> StoreSteps]
    BY <1>1, <1>2, GoesOn
  <1>4. StoreTypeOK'
    BY <1>1, <1>3 DEF StoreInv, StoreTypeOK, store
  <1>5. LinkBacked' /\ ObjectsKept'
    BY <1>1, <1>3 DEF StoreInv, LinkBacked, ObjectsKept, Backed, store
  <1>6. InCommand(p)'
    <2>1. committed'[p]
      BY <1>1 DEF StoreInv, StoreTypeOK
    <2> QED
      BY <1>1, <1>3, <2>1
         DEF InCommand, Exchanged, Backed, Own, Legal, Releasing, PreviewOf, VersionOf, store
  <1>7. \A l \in confirmed' : l \in shown \/ (atStep'[p] = "return" /\ l = link')
    BY <1>1, <1>2, GoesOn DEF StoreInv, InCommand, store
  <1> QED
    BY <1>1, <1>2, <1>4, <1>5, <1>6, <1>7, GoesOnInvariant

(* A command whose exchange is noted goes on to its receipt or rolls back. *)
LEMMA NotedInvariant ==
  ASSUME StoreInv, NEW p \in Publishers, atStep[p] \in {"verify", "receipt"},
         NEW step \in {"receipt", "rollback"}, GoOn(p, step),
         UNCHANGED <<store, local, commands>>
  PROVE  StoreInv'
  <1>1. step \in StoreSteps \ {"idle"} /\ InCommand(p)
    BY DEF StoreSteps, StoreInv
  <1>2. atStep'[p] = step /\ holder' = p /\ visible' = visible /\ shown' = shown
    BY <1>1, GoesOn
  <1>3. StoreTypeOK' /\ LinkBacked' /\ ObjectsKept'
    BY <1>1, StoreKept
  <1>4. Exchanged(p)' /\ Legal(p)' /\ Own(p)' /\ target'[p] \in Links /\ committed'[p]
    BY <1>1, <1>2
       DEF InCommand, Exchanged, Backed, Own, Legal, Releasing, PreviewOf, VersionOf,
           store, local
  <1>5. InCommand(p)'
    BY <1>2, <1>4 DEF InCommand
  <1>6. \A l \in confirmed' : l \in shown \/ (atStep'[p] = "return" /\ l = link')
    BY <1>1, GoesOn DEF StoreInv, InCommand, store
  <1> QED
    BY <1>1, <1>3, <1>5, <1>6, GoesOnInvariant

(* Nor does reading the object back.                                       *)
LEMMA VerifyObjectInvariant ==
  ASSUME StoreInv, NEW p \in Publishers, VerifyObject(p)
  PROVE  StoreInv'
  BY NotedInvariant DEF VerifyObject

(* The receipt confirms the link there is, which is in place when the      *)
(* command returns.                                                        *)
LEMMA WriteReceiptInvariant ==
  ASSUME StoreInv, NEW p \in Publishers, WriteReceipt(p)
  PROVE  StoreInv'
  <1>1. /\ atStep[p] \in {"receipt", "confirm"} /\ InCommand(p)
        /\ UNCHANGED <<object, link, local, commands>>
    BY DEF WriteReceipt, StoreInv
  <1>2. ASSUME GoOn(p, "return"), confirmed' \in {confirmed, confirmed \cup {target[p]}}
        PROVE  StoreInv'
    <2>1. "return" \in StoreSteps \ {"idle"}
      BY DEF StoreSteps
    <2>2. /\ atStep'[p] = "return" /\ holder' = p /\ visible' = visible /\ shown' = shown
          /\ atStep' \in [Publishers -> StoreSteps]
      BY <1>1, <1>2, <2>1, GoesOn
    <2>3. link = target[p] /\ target[p] \in Links
      BY <1>1 DEF InCommand, Exchanged
    <2>4. StoreTypeOK'
      BY <1>1, <1>2, <2>2, <2>3 DEF StoreInv, StoreTypeOK, local
    <2>5. LinkBacked' /\ ObjectsKept'
      BY <1>1, <2>2 DEF StoreInv, LinkBacked, ObjectsKept, Backed
    <2>6. InCommand(p)'
      BY <1>1, <2>2, <2>3
         DEF InCommand, Own, Legal, Releasing, PreviewOf, VersionOf, local
    <2>7. \A l \in confirmed' : l \in shown \/ (atStep'[p] = "return" /\ l = link')
      BY <1>1, <1>2, <2>1, <2>3, GoesOn DEF StoreInv, InCommand
    <2> QED
      BY <1>1, <1>2, <2>1, <2>4, <2>5, <2>6, <2>7, GoesOnInvariant
  <1>3. CASE atStep[p] = "receipt" /\ GoOn(p, "rollback") /\ UNCHANGED confirmed
    BY <1>1, <1>3, NotedInvariant DEF store
  <1> QED
    BY <1>2, <1>3 DEF WriteReceipt

(* The link put back is the visible one, whose object is there.            *)
LEMMA PutLinkBackInvariant ==
  ASSUME StoreInv, NEW p \in Publishers, PutLinkBack(p)
  PROVE  StoreInv'
  <1>1. /\ atStep[p] = "rollback" /\ InCommand(p)
        /\ UNCHANGED <<object, confirmed, local, commands>>
    BY DEF PutLinkBack, StoreInv
  <1>2. committed[p] => Exchanged(p)
    BY <1>1 DEF InCommand
  <1>3. replaced[p] \in Links \cup {NoLink}
    BY DEF StoreInv, StoreTypeOK
  <1>4. ASSUME NEW l \in {link, replaced[p], NoLink, Marker},
               ~committed[p] => l = link, link' = l
        PROVE  /\ l \in Links \cup {NoLink, Marker}
               /\ object' \in [Versions -> Previews \cup {NoLink, Damaged}]
               /\ LinkBacked' /\ \A k \in shown : Backed(k)'
    BY <1>1, <1>2, <1>3, <1>4, ConstantFacts
       DEF StoreInv, StoreTypeOK, LinkBacked, ObjectsKept, Backed, Exchanged
  <1>5. ASSUME NEW step \in {"cleanup", "unlink"}, GoOn(p, step),
               link' \in {link, replaced[p], NoLink, Marker}, ~committed[p] => link' = link,
               step = "cleanup" => link' = visible /\ (created[p] => ~IsRetry(p)'),
               step = "unlink" => object[VersionOf(p)] = PreviewOf(p) /\ visible = NoLink
        PROVE  StoreInv'
    <2>1. step \in StoreSteps \ {"idle"}
      BY DEF StoreSteps
    <2>2. /\ atStep'[p] = step /\ holder' = p /\ visible' = visible /\ shown' = shown
          /\ atStep' \in [Publishers -> StoreSteps]
      BY <1>1, <1>5, <2>1, GoesOn
    <2>3. StoreTypeOK'
      BY <1>1, <1>4, <1>5, <2>2 DEF StoreInv, StoreTypeOK, local
    <2>4. LinkBacked' /\ ObjectsKept'
      BY <1>4, <1>5, <2>2 DEF ObjectsKept
    <2>5. InCommand(p)'
      BY <1>1, <1>5, <2>2
         DEF InCommand, Own, Legal, Releasing, PreviewOf, VersionOf, local
    <2>6. \A l \in confirmed' : l \in shown \/ (atStep'[p] = "return" /\ l = link')
      BY <1>1, <1>5, <2>1, GoesOn DEF StoreInv, InCommand
    <2> QED
      BY <1>1, <1>5, <2>1, <2>3, <2>4, <2>5, <2>6, GoesOnInvariant
  <1>6. CASE ~committed[p] /\ link' = link /\ GoOn(p, "cleanup")
    <2>1. link = visible /\ (created[p] => ~IsRetry(p)')
      BY <1>1, <1>6 DEF InCommand, IsRetry, VersionOf, PreviewOf, local
    <2> QED
      BY <1>5, <1>6, <2>1
  <1>7. CASE committed[p] /\ replaced[p] # NoLink /\ link' = replaced[p] /\ GoOn(p, "cleanup")
    <2>1. link' = visible /\ (created[p] => ~IsRetry(p)')
      BY <1>1, <1>2, <1>7 DEF Exchanged, IsRetry, VersionOf, PreviewOf, local
    <2> QED
      BY <1>5, <1>7, <2>1
  <1>8. CASE committed[p] /\ replaced[p] = NoLink /\ link' = Marker /\ GoOn(p, "unlink")
    BY <1>2, <1>5, <1>8 DEF Exchanged
  <1>9. CASE committed[p] /\ link' \in {link, replaced[p]} \ {NoLink} /\ Leave(p)
    BY <1>1, <1>4, <1>9, LeavesInvariant
  <1> QED
    BY <1>6, <1>7, <1>8, <1>9 DEF PutLinkBack

(* The link taken back was the first, so nothing is visible.               *)
LEMMA UnlinkMarkerInvariant ==
  ASSUME StoreInv, NEW p \in Publishers, UnlinkMarker(p)
  PROVE  StoreInv'
  <1>1. /\ atStep[p] = "unlink" /\ InCommand(p)
        /\ UNCHANGED <<object, confirmed, local, commands>>
    BY DEF UnlinkMarker, StoreInv
  <1>2. ASSUME link' = NoLink, GoOn(p, "cleanup") PROVE StoreInv'
    <2>1. "cleanup" \in StoreSteps \ {"idle"}
      BY DEF StoreSteps
    <2>2. /\ atStep'[p] = "cleanup" /\ holder' = p /\ visible' = visible /\ shown' = shown
          /\ atStep' \in [Publishers -> StoreSteps]
      BY <1>1, <1>2, <2>1, GoesOn
    <2>3. StoreTypeOK'
      BY <1>1, <1>2, <2>2 DEF StoreInv, StoreTypeOK, local
    <2>4. LinkBacked' /\ ObjectsKept'
      BY <1>1, <1>2, <2>2, ConstantFacts DEF StoreInv, LinkBacked, ObjectsKept, Backed
    <2>5. InCommand(p)'
      BY <1>1, <1>2, <2>2, ConstantFacts
         DEF InCommand, Own, Legal, Releasing, IsRetry, PreviewOf, VersionOf, local
    <2>6. \A l \in confirmed' : l \in shown \/ (atStep'[p] = "return" /\ l = link')
      BY <1>1, <1>2, <2>1, GoesOn DEF StoreInv, InCommand
    <2> QED
      BY <1>1, <1>2, <2>1, <2>3, <2>4, <2>5, <2>6, GoesOnInvariant
  <1>3. ASSUME link' = target[p], Leave(p) PROVE StoreInv'
    <2>1. link' \in Links /\ object' \in [Versions -> Previews \cup {NoLink, Damaged}]
      BY <1>1, <1>3 DEF InCommand, StoreInv, StoreTypeOK
    <2>2. LinkBacked' /\ \A l \in shown : Backed(l)'
      BY <1>1, <1>3
         DEF InCommand, StoreInv, LinkBacked, ObjectsKept, Backed, VersionOf, PreviewOf
    <2> QED
      BY <1>1, <1>3, <2>1, <2>2, LeavesInvariant
  <1> QED
    BY <1>2, <1>3 DEF UnlinkMarker

(* Neither the link nor a link that was shown names the removed object.    *)
LEMMA RemoveObjectInvariant ==
  ASSUME StoreInv, NEW p \in Publishers, RemoveObject(p)
  PROVE  StoreInv'
  <1>1. /\ atStep[p] = "cleanup" /\ InCommand(p) /\ Leave(p)
        /\ UNCHANGED <<link, confirmed, local, commands>>
    BY DEF RemoveObject, StoreInv
  <1>2. /\ VersionOf(p) \in Versions
        /\ object \in [Versions -> Previews \cup {NoLink, Damaged}]
    BY <1>1, ConstantFacts DEF InCommand, PreviewOf, VersionOf, StoreInv, StoreTypeOK
  <1>3. CASE created[p]
    <2>1. PICK o \in {NoLink, Damaged, object[VersionOf(p)]} :
            object' = [object EXCEPT ![VersionOf(p)] = o]
      BY <1>3 DEF RemoveObject
    <2>2. object' \in [Versions -> Previews \cup {NoLink, Damaged}]
      BY <1>2, <2>1
    <2>3. ASSUME NEW l \in Links, Version[l.preview] # VersionOf(p), Backed(l)
          PROVE  Backed(l)'
      BY <1>2, <2>1, <2>3, ConstantFacts DEF Backed
    <2>4. LinkBacked'
      BY <1>1, <1>3, <2>3 DEF InCommand, IsRetry, StoreInv, LinkBacked, Backed
    <2>5. \A l \in shown : Backed(l)'
      BY <1>1, <1>3, <2>3 DEF InCommand, Own, StoreInv, StoreTypeOK, ObjectsKept
    <2> QED
      BY <1>1, <2>2, <2>4, <2>5, LeavesInvariant DEF StoreInv, StoreTypeOK
  <1>4. CASE ~created[p]
    BY <1>1, <1>4, EndInvariant DEF RemoveObject, store
  <1> QED
    BY <1>3, <1>4

(* Together: no step of any command, not even its kill, breaks it.         *)
LEMMA NextInvariant ==
  ASSUME RaiseAt = {}, StoreInv, [StoreNext]_publicationVars
  PROVE  StoreInv'
  <1>1. ASSUME NEW p \in Publishers, StartCommand(p) \/ Step(p) \/ Raise(p) \/ KillPublisher(p) PROVE StoreInv'
    <2>1. ASSUME Return(p) \/ KillPublisher(p) PROVE StoreInv'
      BY <2>1, EndInvariant DEF Return, KillPublisher
    <2> QED
      BY <1>1, <2>1, StartInvariant, CheckInvariant, PublishObjectInvariant,
         ExchangeInvariant, NoteCommitInvariant, VerifyObjectInvariant,
         WriteReceiptInvariant, PutLinkBackInvariant, UnlinkMarkerInvariant,
         RemoveObjectInvariant DEF Step, Raise
  <1>2. ASSUME UNCHANGED publicationVars PROVE StoreInv'
    BY <1>2 DEF StoreInv, StoreTypeOK, LinkBacked, ObjectsKept, Backed, InCommand, Own, Legal,
                Exchanged, LinkWhole, IsRetry, Releasing, VersionOf, PreviewOf,
                publicationVars, store, local, readerView
  <1> QED
    BY <1>1, <1>2 DEF StoreNext

(* The inductive invariant holds of every behaviour without exceptions in  *)
(* the two windows.                                                        *)
THEOREM StoreInvariance ==
  ASSUME RaiseAt = {}
  PROVE  StoreSpec => []StoreInv
  <1>1. StoreInit => StoreInv
    BY InitInvariant
  <1>2. StoreInv /\ [StoreNext]_publicationVars => StoreInv'
    BY NextInvariant
  <1> QED
    BY <1>1, <1>2, PTL DEF StoreSpec

(* Every variable keeps its type (store.py's link and object validators).  *)
THEOREM StoreTypeCorrect ==
  ASSUME RaiseAt = {}
  PROVE  StoreSpec => []StoreTypeOK
  <1>1. StoreInv => StoreTypeOK
    BY DEF StoreInv
  <1> QED
    BY <1>1, StoreInvariance, PTL

(* The stable link always names an intact object of its own preview,       *)
(* between the steps of a release and after failures, rollbacks and kills  *)
(* at any of them (release_publication, withdraw_publication).             *)
THEOREM LinksAreBacked ==
  ASSUME RaiseAt = {}
  PROVE  StoreSpec => []LinkBacked
  <1>1. StoreInv => LinkBacked
    BY DEF StoreInv
  <1> QED
    BY <1>1, StoreInvariance, PTL

(* No rollback removes an object that readers were shown                   *)
(* (_remove_verified_owned_object).                                        *)
THEOREM ShownObjectsStay ==
  ASSUME RaiseAt = {}
  PROVE  StoreSpec => []ObjectsKept
  <1>1. StoreInv => ObjectsKept
    BY DEF StoreInv
  <1> QED
    BY <1>1, StoreInvariance, PTL

(* A receipt confirms a link that readers are shown or were shown          *)
(* (_release_receipt, withdraw_publication).                               *)
THEOREM ReceiptsAreTrue ==
  ASSUME RaiseAt = {}
  PROVE  StoreSpec => []ReceiptsShown
  <1>1. StoreInv => ReceiptsShown
    BY ConstantFacts DEF StoreInv, ReceiptsShown, InCommand
  <1> QED
    BY <1>1, StoreInvariance, PTL

-----------------------------------------------------------------------------
(* Readers see a stable link.                                              *)
(*                                                                         *)
(* This does not rest on the objects, and so not on the two windows of an  *)
(* exception either: the link is the visible one until the exchange, then  *)
(* the one the command is to put in place, and it is an empty file only    *)
(* between the two renames that take a first link back.                    *)

Moved(p) == link = target[p] /\ replaced[p] = visible /\ Legal(p)

LinkTypes ==
  /\ atStep \in [Publishers -> StoreSteps]
  /\ target \in [Publishers -> Links \cup {NoLink}]
  /\ replaced \in [Publishers -> Links \cup {NoLink}]
  /\ committed \in [Publishers -> BOOLEAN]
  /\ link \in Links \cup {NoLink, Marker}
  /\ visible \in Links \cup {NoLink}

Linking(p) ==
  /\ holder = p /\ target[p] \in Links
  /\ atStep[p] # "unlink" => link # Marker
  /\ atStep[p] \in {"check", "object", "exchange", "confirm"} => link = visible /\ ~committed[p]
  /\ atStep[p] \in {"object", "exchange"} => Legal(p)
  /\ atStep[p] \in {"note", "verify", "receipt"} => Moved(p)
  /\ atStep[p] \in {"return", "rollback"} => Moved(p) \/ (link = visible /\ ~committed[p])
  /\ atStep[p] = "cleanup" => Moved(p) \/ link = visible
  /\ atStep[p] = "unlink" => Legal(p) /\ visible = NoLink

LinkInv ==
  /\ LinkTypes
  /\ \A p \in Publishers : atStep[p] # "idle" => Linking(p)
  /\ holder = NoLink => link = visible

(* A command that goes on.                                                 *)
LEMMA LinkGoesOn ==
  ASSUME LinkInv, NEW p \in Publishers, atStep[p] # "idle", NEW step \in StoreSteps \ {"idle"}, GoOn(p, step),
         UNCHANGED target, LinkTypes', Linking(p)'
  PROVE  LinkInv'
  <1>1. atStep'[p] = step /\ holder' = p /\ p # NoLink
    BY ConstantFacts DEF GoOn, LinkInv, LinkTypes, Linking
  <1>2. \A q \in Publishers \ {p} : atStep'[q] = "idle"
    BY DEF GoOn, LinkInv, LinkTypes, Linking
  <1> QED
    BY <1>1, <1>2 DEF LinkInv

(* A command that ends, with the visible link or its own.                  *)
LEMMA LinkLeaves ==
  ASSUME LinkInv, NEW p \in Publishers, atStep[p] # "idle", Leave(p), UNCHANGED <<target, replaced, committed>>,
         link' = visible \/ (link' = target[p] /\ Legal(p))
  PROVE  LinkInv' /\ (Stable!Next \/ UNCHANGED visible)
  <1>1. /\ visible' = link' /\ link' \in Links \cup {NoLink}
        /\ \A q \in Publishers : atStep'[q] = "idle"
        /\ atStep' \in [Publishers -> StoreSteps]
    BY DEF Leave, LinkInv, LinkTypes, Linking, StoreSteps
  <1>2. LinkInv'
    BY <1>1 DEF LinkInv, LinkTypes
  <1>3. CASE link' = target[p] /\ Legal(p)
    <2> DEFINE r == PreviewOf(p)
    <2>1. r \in Previews /\ target[p] = IF Releasing(p) THEN Active(r) ELSE Withdrawn(r)
      BY ConstantFacts DEF LinkInv, Linking, PreviewOf, Releasing
    <2>2. Stable!Release(r) \/ Stable!Withdraw(r)
      BY <1>1, <1>3, <2>1
         DEF Legal, Stable!Release, Stable!Withdraw, Stable!Active, Stable!Withdrawn,
             Active, Withdrawn
    <2> QED
      BY <1>2, <2>1, <2>2 DEF Stable!Next
  <1> QED
    BY <1>1, <1>2, <1>3

(* Every step keeps the link where it should be, and a reader sees a       *)
(* command as one step of the stable link or not at all.                   *)
LEMMA LinkStep ==
  ASSUME "unlink" \notin CrashAt, LinkInv, [StoreNext]_publicationVars
  PROVE  LinkInv' /\ [Stable!Next]_visible
  <1>1. ASSUME NEW p \in Publishers, StartCommand(p) \/ Step(p) \/ Raise(p) \/ KillPublisher(p)
        PROVE  LinkInv' /\ (Stable!Next \/ UNCHANGED visible)
    <2>0. {"check", "object", "exchange", "note", "verify", "receipt", "confirm", "return",
           "rollback", "unlink", "cleanup"} = StoreSteps \ {"idle"}
      BY DEF StoreSteps
    <2>a. atStep[p] \notin {"idle", "unlink"} => link = visible \/ (link = target[p] /\ Legal(p))
      BY <2>0 DEF LinkInv, LinkTypes, Linking, Moved
    <2>1. CASE StartCommand(p)
      <3>1. \A q \in Publishers : atStep[q] = "idle" /\ link = visible
        BY <2>1, ConstantFacts DEF StartCommand, LinkInv, Linking
      <3>2. atStep'[p] = "check" /\ holder' = p /\ target'[p] \in Links /\ ~committed'[p]
            /\ \A q \in Publishers \ {p} : atStep'[q] = "idle"
        BY <2>1, <3>1 DEF StartCommand, LinkInv, LinkTypes
      <3>3. UNCHANGED <<link, visible>> /\ p # NoLink
        BY <2>1, ConstantFacts DEF StartCommand, store, readerView
      <3>4. LinkTypes'
        BY <2>1, <3>3 DEF StartCommand, LinkInv, LinkTypes, StoreSteps
      <3>5. link # Marker
        BY <3>1, StoreAssumption DEF LinkInv, LinkTypes
      <3> QED
        BY <3>1, <3>2, <3>3, <3>4, <3>5 DEF LinkInv, Linking
    <2>b. SUFFICES ASSUME ~StartCommand(p) PROVE LinkInv' /\ (Stable!Next \/ UNCHANGED visible)
      BY <2>1
    <2>d. atStep[p] # "idle"
      BY <1>1, <2>b, StoreAssumption
         DEF Step, Check, PublishObject, Exchange, NoteCommit, VerifyObject, WriteReceipt, Return,
             PutLinkBack, UnlinkMarker, RemoveObject, Raise, KillPublisher
    <2>c. atStep[p] # "idle" /\ Linking(p) /\ LinkTypes
      BY <2>d DEF LinkInv
    <2>g. ASSUME NEW step \in StoreSteps \ {"idle"}, GoOn(p, step)
          PROVE  /\ atStep'[p] = step /\ holder' = holder /\ UNCHANGED visible
                 /\ atStep' \in [Publishers -> StoreSteps]
      BY <2>c, <2>g DEF GoOn, LinkTypes, readerView
    <2>k. ASSUME NEW step \in StoreSteps \ {"idle"}, GoOn(p, step), UNCHANGED target, LinkTypes', Linking(p)'
          PROVE  LinkInv' /\ (Stable!Next \/ UNCHANGED visible)
      BY <2>d, <2>g, <2>k, LinkGoesOn
    <2>2. CASE Check(p)
      <3>0. UNCHANGED <<link, target, replaced, committed>> /\ atStep[p] = "check"
        BY <2>2 DEF Check, store, local
      <3>1. CASE Leave(p)
        BY <2>a, <2>c, <3>0, <3>1, LinkLeaves
      <3>2. CASE Confirms(p) /\ GoOn(p, "confirm")
        <4>1. LinkTypes' /\ Linking(p)'
          BY <2>0, <2>c, <2>g, <3>0, <3>2 DEF LinkTypes, Linking
        <4> QED
          BY <2>0, <2>k, <3>0, <3>2, <4>1
      <3>3. CASE Publishes(p) /\ GoOn(p, "object")
        <4>1. Legal(p)
          BY <2>c, <3>0, <3>3 DEF Publishes, Replaces, Legal, Linking
        <4>2. Legal(p)'
          BY <2>0, <2>g, <3>0, <3>3, <4>1 DEF Legal, Releasing, PreviewOf
        <4>3. LinkTypes' /\ Linking(p)'
          BY <2>0, <2>c, <2>g, <3>0, <3>3, <4>2 DEF LinkTypes, Linking
        <4> QED
          BY <2>0, <2>k, <3>0, <3>3, <4>3
      <3>4. CASE Withdraws(p) /\ GoOn(p, "exchange")
        <4>1. Legal(p)
          BY <2>c, <3>0, <3>4 DEF Withdraws, Legal, Linking
        <4>2. Legal(p)'
          BY <2>0, <2>g, <3>0, <3>4, <4>1 DEF Legal, Releasing, PreviewOf
        <4>3. LinkTypes' /\ Linking(p)'
          BY <2>0, <2>c, <2>g, <3>0, <3>4, <4>2 DEF LinkTypes, Linking
        <4> QED
          BY <2>0, <2>k, <3>0, <3>4, <4>3
      <3> QED
        BY <2>2, <3>1, <3>2, <3>3, <3>4 DEF Check
    <2>l. ASSUME UNCHANGED <<link, target, replaced, committed>>, Leave(p), atStep[p] # "unlink"
          PROVE  LinkInv' /\ (Stable!Next \/ UNCHANGED visible)
      BY <2>a, <2>c, <2>l, LinkLeaves
    <2>h. ASSUME NEW step \in {"exchange", "rollback", "receipt", "return", "cleanup"}, GoOn(p, step),
                 UNCHANGED <<link, target, replaced, committed>>,
                 \/ atStep[p] = "object" /\ step = "exchange"
                 \/ atStep[p] = "exchange" /\ step = "rollback"
                 \/ atStep[p] \in {"note", "return"} /\ step = "rollback"
                 \/ atStep[p] = "verify" /\ step \in {"receipt", "rollback"}
                 \/ atStep[p] = "receipt" /\ step \in {"return", "rollback"}
                 \/ atStep[p] = "confirm" /\ step = "return"
                 \/ atStep[p] = "rollback" /\ step = "cleanup"
          PROVE  LinkInv' /\ (Stable!Next \/ UNCHANGED visible)
      <3>1. atStep'[p] = step /\ holder' = holder /\ UNCHANGED visible /\ atStep' \in [Publishers -> StoreSteps]
        BY <2>0, <2>g, <2>h
      <3>2. (Legal(p) => Legal(p)') /\ (Moved(p) => Moved(p)')
        BY <2>h, <3>1 DEF Legal, Moved, Releasing, PreviewOf
      <3>3. LinkTypes'
        BY <2>c, <2>h, <3>1 DEF LinkTypes
      <3>4. Linking(p)'
        BY <2>c, <2>h, <3>1, <3>2 DEF Linking
      <3> QED
        BY <2>0, <2>k, <2>h, <3>3, <3>4
    <2>3. CASE PublishObject(p)
      BY <2>h, <2>l, <2>3 DEF PublishObject
    <2>4. CASE Exchange(p)
      <3>1. CASE link' = target[p] /\ replaced' = [replaced EXCEPT ![p] = link] /\ GoOn(p, "note")
        <4>1. UNCHANGED <<target, committed>> /\ atStep[p] = "exchange"
          BY <2>4 DEF Exchange
        <4>2. atStep'[p] = "note" /\ holder' = holder /\ UNCHANGED visible /\ atStep' \in [Publishers -> StoreSteps]
          BY <2>0, <2>g, <3>1
        <4>3. link = visible /\ target[p] \in Links /\ Legal(p) /\ holder = p /\ link # Marker
          BY <2>c, <4>1 DEF Linking
        <4>4. LinkTypes'
          BY <2>c, <3>1, <4>1, <4>2, <4>3 DEF LinkTypes
        <4>5. replaced'[p] = visible
          BY <2>c, <3>1, <4>3 DEF LinkTypes
        <4>6. Moved(p)'
          BY <3>1, <4>1, <4>2, <4>3, <4>5 DEF Moved, Legal, Releasing, PreviewOf
        <4>7. Linking(p)'
          BY <3>1, <4>1, <4>2, <4>3, <4>6, StoreAssumption DEF Linking
        <4> QED
          BY <2>0, <2>k, <3>1, <4>1, <4>2, <4>4, <4>7
      <3> QED
        BY <2>h, <2>4, <3>1 DEF Exchange
    <2>5. CASE NoteCommit(p)
      <3>1. UNCHANGED <<link, target, replaced>> /\ atStep[p] = "note" /\ GoOn(p, "verify")
            /\ committed' \in [Publishers -> BOOLEAN]
        BY <2>5, <2>c DEF NoteCommit, store, LinkTypes
      <3>2. atStep'[p] = "verify" /\ holder' = holder /\ UNCHANGED visible /\ atStep' \in [Publishers -> StoreSteps]
        BY <2>0, <2>g, <3>1
      <3>3. Moved(p)'
        BY <2>c, <3>1, <3>2 DEF Linking, Moved, Legal, Releasing, PreviewOf
      <3>4. LinkTypes' /\ Linking(p)'
        BY <2>c, <3>1, <3>2, <3>3 DEF LinkTypes, Linking
      <3> QED
        BY <2>0, <2>k, <3>1, <3>2, <3>4
    <2>6. CASE VerifyObject(p)
      BY <2>h, <2>6 DEF VerifyObject, store, local
    <2>7. CASE WriteReceipt(p)
      BY <2>h, <2>7 DEF WriteReceipt, local
    <2>8. CASE Return(p)
      BY <2>l, <2>8 DEF Return, store, local
    <2>9. CASE PutLinkBack(p)
      <3>0. UNCHANGED <<target, replaced, committed>> /\ atStep[p] = "rollback"
        BY <2>9 DEF PutLinkBack, local
      <3>1. CASE ~committed[p] /\ link' = link /\ GoOn(p, "cleanup")
        BY <2>h, <3>0, <3>1
      <3>m. ASSUME committed[p] PROVE Moved(p)
        BY <2>c, <3>0, <3>m DEF Linking
      <3>2. CASE committed[p] /\ replaced[p] # NoLink /\ link' = replaced[p] /\ GoOn(p, "cleanup")
        <4>1. atStep'[p] = "cleanup" /\ holder' = holder /\ UNCHANGED visible /\ atStep' \in [Publishers -> StoreSteps]
          BY <2>0, <2>g, <3>2
        <4>2. link' = visible /\ link' \in Links
          BY <2>c, <3>2, <3>m DEF Moved, LinkTypes
        <4>3. LinkTypes' /\ Linking(p)'
          BY <2>c, <3>0, <4>1, <4>2, StoreAssumption DEF LinkTypes, Linking
        <4> QED
          BY <2>0, <2>k, <3>0, <3>2, <4>3
      <3>3. CASE committed[p] /\ replaced[p] = NoLink /\ link' = Marker /\ GoOn(p, "unlink")
        <4>1. atStep'[p] = "unlink" /\ holder' = holder /\ UNCHANGED visible /\ atStep' \in [Publishers -> StoreSteps]
          BY <2>0, <2>g, <3>3
        <4>2. visible = NoLink /\ Legal(p)
          BY <3>3, <3>m DEF Moved
        <4>3. Legal(p)'
          BY <3>0, <4>1, <4>2 DEF Legal, Releasing, PreviewOf
        <4>4. LinkTypes' /\ Linking(p)'
          BY <2>c, <3>0, <3>3, <4>1, <4>2, <4>3 DEF LinkTypes, Linking
        <4> QED
          BY <2>0, <2>k, <3>0, <3>3, <4>4
      <3>4. CASE committed[p] /\ link' \in {link, replaced[p]} \ {NoLink} /\ Leave(p)
        BY <2>c, <3>0, <3>4, <3>m, LinkLeaves DEF Moved
      <3> QED
        BY <2>9, <3>1, <3>2, <3>3, <3>4 DEF PutLinkBack
    <2>10. CASE UnlinkMarker(p)
      <3>0. UNCHANGED <<target, replaced, committed>> /\ atStep[p] = "unlink"
        BY <2>10 DEF UnlinkMarker, local
      <3>1. CASE link' = NoLink /\ GoOn(p, "cleanup")
        <4>1. atStep'[p] = "cleanup" /\ holder' = holder /\ UNCHANGED visible /\ atStep' \in [Publishers -> StoreSteps]
          BY <2>0, <2>g, <3>1
        <4>2. LinkTypes' /\ Linking(p)'
          BY <2>c, <3>0, <3>1, <4>1, StoreAssumption DEF LinkTypes, Linking
        <4> QED
          BY <2>0, <2>k, <3>0, <3>1, <4>2
      <3>2. CASE link' = target[p] /\ Leave(p)
        BY <2>c, <3>0, <3>2, LinkLeaves DEF Linking
      <3> QED
        BY <2>10, <3>1, <3>2 DEF UnlinkMarker
    <2>11. CASE RemoveObject(p)
      BY <2>l, <2>11 DEF RemoveObject, local
    <2>12. CASE Raise(p)
      BY <2>h, <2>12, StoreAssumption DEF Raise, store, local
    <2>13. CASE KillPublisher(p)
      BY <2>l, <2>13 DEF KillPublisher, store, local
    <2> QED
      BY <1>1, <2>b, <2>2, <2>3, <2>4, <2>5, <2>6, <2>7, <2>8, <2>9, <2>10, <2>11, <2>12, <2>13 DEF Step
  <1>2. CASE UNCHANGED publicationVars
    BY <1>2 DEF publicationVars, store, local, readerView, LinkInv, LinkTypes, Linking, Moved, Legal, Releasing, PreviewOf
  <1> QED
    BY <1>1, <1>2 DEF StoreNext

THEOREM LinkInvariance ==
  ASSUME "unlink" \notin CrashAt
  PROVE  StoreSpec => []LinkInv
  <1>1. StoreInit => LinkInv
    BY StoreAssumption DEF StoreInit, LinkInv, LinkTypes, StoreSteps
  <1>2. LinkInv /\ [StoreNext]_publicationVars => LinkInv'
    BY LinkStep
  <1> QED
    BY <1>1, <1>2, PTL DEF StoreSpec

(* Whenever the lock is free, the link can be read, whatever fails, unless *)
(* a process is killed between the two renames that take a first link back *)
(* (_remove_link_compare_and_swap).                                        *)
THEOREM LinksAreReadable ==
  ASSUME "unlink" \notin CrashAt
  PROVE  StoreSpec => []LinkReadable
  <1>1. LinkInv => LinkReadable
    BY DEF LinkInv, LinkTypes, LinkReadable, LinkWhole
  <1> QED
    BY <1>1, LinkInvariance, PTL

(* To its readers the store implements StableLink, with any number of      *)
(* commands failing or killed anywhere but between the two renames that    *)
(* take a first link back (release_publication, withdraw_publication).     *)
THEOREM StoreImplementsStableLink ==
  ASSUME "unlink" \notin CrashAt
  PROVE  StoreSpec => ImplementsStableLink
  <1>1. StoreInit => Stable!Init
    BY DEF StoreInit, Stable!Init
  <1>2. LinkInv /\ [StoreNext]_publicationVars => [Stable!Next]_visible
    BY LinkStep
  <1> QED
    BY <1>1, <1>2, LinkInvariance, PTL DEF StoreSpec, ImplementsStableLink, Stable!Spec

-----------------------------------------------------------------------------
(* Trees.  Inodes are numbers, given once and not used again, and each     *)
(* change of a node leaves a new stamp: what is linked under a name, and   *)
(* was there before, has been there all the time.                          *)

NameMaps == UNION {[D -> Nat] : D \in SUBSET Names}
NameContents == UNION {[D -> Seq(Nat)] : D \in SUBSET Names}
Nodes ==
  [kind : {"file"}, content : Contents, stamp : Nat] \cup [kind : {"link"}, stamp : Nat] \cup
  [kind : {"root", "folder"}, names : NameMaps, stamp : Nat]

Inode(i) == i \in 1..Len(node)

(* What the names of a directory may be, and lead to.                      *)
DirectoryNames(kind) == Range(IF kind = "root" THEN RootNames ELSE FolderNames)
Linkable(n) == {"file", "link"} \cup (IF n = Folder THEN {"folder"} ELSE {})

Linked(nodes) ==
  \A i \in 1..Len(nodes) : nodes[i].kind \in {"root", "folder"} =>
    \A n \in DOMAIN nodes[i].names :
      /\ n \in DirectoryNames(nodes[i].kind) /\ nodes[i].names[n] \in 1..Len(nodes)
      /\ nodes[nodes[i].names[n]].kind \in Linkable(n)

TreeOK ==
  /\ node \in Seq(Nodes) /\ changes \in Nat
  /\ Inode(top) /\ node[top].kind = "root"
  /\ \A i \in 1..Len(node) : node[i].stamp <= changes
  /\ Linked(node)
  /\ \A n \in Names : Visible(n) \in seen[n]

-----------------------------------------------------------------------------
(* The backup.                                                             *)

AtFile == {"descend", "open", "read", "after", "rootAgain", "folderAgain", "current"}
Opened == {"read", "after", "rootAgain", "folderAgain", "current"}
HashingSteps == {"root", "rootPath", "last", "done", "failed"} \cup AtFile

Hashings ==
  [step : HashingSteps, missingOk : BOOLEAN, root : Nat,
   of : [folder : Nat, file : Nat, before : Nat, chunks : Seq(Nat)],
   todo : Seq(Names), entries : NameContents]

(* What has been read so far is the beginning of this content, or all.     *)
Begins(chunks, content) ==
  Len(chunks) <= Len(content) /\ \A k \in 1..Len(chunks) : chunks[k] = content[k]

EntryRead == hashing.of.chunks \in seen[Name] /\ hashing.of.chunks # NoFile
StillNamed == Lookup(Parent, Name) = hashing.of.file
StillLinked == InFolder => Lookup(hashing.root, Folder) = hashing.of.folder

EntriesTrue ==
  /\ Range(hashing.todo) \cup DOMAIN hashing.entries = Range(Declared)
  /\ \A n \in DOMAIN hashing.entries :
       IF hashing.entries[n] = NoFile THEN hashing.missingOk ELSE hashing.entries[n] \in seen[n]

(* What is known of the file that is being read, at a step.                *)
ReadTrue(s) ==
  /\ s \in {"read", "after"} /\ node[hashing.of.file].stamp = hashing.of.before =>
       Begins(hashing.of.chunks, node[hashing.of.file].content)
  /\ s = "rootAgain" /\ top = hashing.root /\ StillLinked /\ StillNamed => EntryRead
  /\ s = "folderAgain" /\ StillLinked /\ StillNamed => EntryRead
  /\ s = "current" /\ StillNamed => EntryRead

FileTrue ==
  /\ hashing.step \in AtFile \ {"descend"} /\ InFolder =>
       Inode(hashing.of.folder) /\ node[hashing.of.folder].kind = "folder"
  /\ hashing.step \in Opened =>
       /\ Inode(hashing.of.file) /\ node[hashing.of.file].kind = "file"
       /\ hashing.of.before <= node[hashing.of.file].stamp
  /\ ReadTrue(hashing.step)

BackupInv ==
  /\ hashing \in Hashings
  /\ hashing.step # "root" => Inode(hashing.root) /\ node[hashing.root].kind = "root"
  /\ hashing.step \in AtFile => hashing.todo # <<>>
  /\ hashing.step \in {"last", "done"} => hashing.todo = <<>>
  /\ hashing.step \in {"root", "rootPath", "descend", "open"} => hashing.of.chunks = <<>>
  /\ EntriesTrue
  /\ FileTrue

-----------------------------------------------------------------------------
(* The inventory.                                                          *)

Descending == {"child", "childPath", "childStat", "childList"}
Reading == {"open", "read", "after", "named"}
Walking == {"stat", "linked"} \cup Descending \cup Reading
SurveySteps ==
  {"root", "rootPath", "list", "walked", "rootAgain", "evidence", "status", "failed"} \cup Walking

Identities == UNION {[D -> Nat \X Nat] : D \in SUBSET Names}
Scans == [files : NameContents, identities : Identities]

Surveys ==
  [step : SurveySteps, again : BOOLEAN, inventory : NameContents, current : BOOLEAN,
   root : Nat, folder : Nat, second : BOOLEAN, first : Scans, scan : Scans,
   names : SUBSET Names,
   of : [name : Names \cup {""}, size : Nat, linked : {<<>>} \cup (Nat \X Nat), file : Nat,
         chunks : Seq(Nat)]]

(* A walk has met a directory under the folder's name.                     *)
DirNoted(s) == Folder \in DOMAIN s.identities \ DOMAIN s.files
DirOf(s) == s.identities[Folder][1]
Unwritten(n, s) == node[s.identities[n][1]].stamp = s.identities[n][2]

(* What a walk has noted was there.                                        *)
Noted(s) ==
  /\ DOMAIN s.files \subseteq DOMAIN s.identities
  /\ \A n \in DOMAIN s.identities :
       /\ Inode(s.identities[n][1])
       /\ s.identities[n][2] <= node[s.identities[n][1]].stamp
       /\ n # Folder => n \in DOMAIN s.files
  /\ DirNoted(s) => node[DirOf(s)].kind = "folder"
  /\ DOMAIN s.identities \cap Range(FolderNames) # {} => DirNoted(s)

(* The names of the directory that are still to be come to.                *)
Ahead == IF survey.step \in Walking THEN survey.names \cup {survey.of.name} ELSE {}

(* Where the walk is.                                                      *)
WalkTrue ==
  /\ survey.step # "root" => Inode(survey.root) /\ node[survey.root].kind = "root"
  /\ survey.step \in {"root", "rootPath", "evidence"} => ~survey.second
  /\ survey.step \in {"root", "rootPath", "list", "evidence"} =>
       survey.scan = Blank /\ survey.folder = Nothing
  /\ survey.step \in {"walked", "rootAgain"} => survey.folder = Nothing
  /\ survey.step \in Walking =>
       /\ survey.names \cup {survey.of.name}
            \subseteq (IF survey.folder = Nothing THEN Range(RootNames) ELSE Range(FolderNames))
       /\ survey.folder = Nothing /\ survey.of.name = Folder => survey.names = {}
       /\ survey.folder # Nothing => DirNoted(survey.scan) /\ survey.folder = DirOf(survey.scan)
       /\ survey.folder = Nothing => DOMAIN survey.scan.identities \subseteq Range(RootNames)
       /\ survey.folder = Nothing /\ survey.step # "childList" =>
            Folder \notin DOMAIN survey.scan.identities
  /\ survey.step \in Descending => survey.folder = Nothing /\ survey.of.name = Folder
  /\ survey.step \in Descending \ {"child"} =>
       Inode(survey.of.file) /\ node[survey.of.file].kind = "folder"
  /\ survey.step = "childList" =>
       DirNoted(survey.scan) /\ DirOf(survey.scan) = survey.of.file

(* What is known of the file that is being read.                           *)
ReadingTrue ==
  /\ survey.step \in {"stat", "linked", "open"} => survey.of.chunks = <<>>
  /\ survey.step \in Reading =>
       /\ survey.of.linked \in Nat \X Nat
       /\ Inode(survey.of.linked[1]) /\ node[survey.of.linked[1]].kind = "file"
       /\ survey.of.linked[2] <= node[survey.of.linked[1]].stamp
       /\ survey.of.name \in DOMAIN survey.first.identities
            /\ survey.of.linked[1] = survey.first.identities[survey.of.name][1] =>
              survey.first.identities[survey.of.name][2] <= survey.of.linked[2]
  /\ survey.step \in Reading \ {"open"} =>
       /\ survey.of.file = survey.of.linked[1]
       /\ survey.of.name \in DOMAIN survey.first.identities
            /\ Lookup(Walked, survey.of.name) = survey.first.identities[survey.of.name][1] =>
              survey.of.file = survey.first.identities[survey.of.name][1]
       /\ node[survey.of.file].stamp = survey.of.linked[2] =>
            /\ Begins(survey.of.chunks, node[survey.of.file].content)
            /\ survey.step \in {"after", "named"} => survey.of.chunks = node[survey.of.file].content

(* While the folder is as the first walk has noted it, its names are those *)
(* that the walk has come to, or will.                                     *)
FolderListed ==
  /\ ~survey.second /\ survey.step \in (Walking \ {"childList"}) \cup {"walked"}
       /\ DirNoted(survey.scan) /\ Unwritten(Folder, survey.scan) =>
         DOMAIN node[DirOf(survey.scan)].names \subseteq DOMAIN survey.scan.files \cup Ahead
  /\ survey.second /\ DirNoted(survey.first) /\ Unwritten(Folder, survey.first) =>
       DOMAIN node[DirOf(survey.first)].names \subseteq DOMAIN survey.first.files

(* In the second walk: what is still as the first has noted it was so when *)
(* the second began, which is the moment.                                  *)
Second == survey.second /\ survey.step \in Walking \cup {"walked", "rootAgain"}

WasThere(n, d) ==
  LET i == survey.first.identities[n][1]
  IN  Lookup(d, n) = i /\ Unwritten(n, survey.first) /\ node[i].kind = "file" =>
        n \in DOMAIN moment /\ moment[n] = node[i].content

FolderWas ==
  top = survey.root =>
    /\ Folder \notin DOMAIN moment
    /\ DOMAIN moment \cap Range(FolderNames) \subseteq DOMAIN survey.first.files
    /\ \A n \in DOMAIN survey.first.identities \cap Range(FolderNames) :
         WasThere(n, DirOf(survey.first))

SameNoted(n) ==
  /\ n \in DOMAIN survey.first.identities /\ n \in DOMAIN survey.scan.identities
  /\ survey.first.identities[n] = survey.scan.identities[n]

RootWas ==
  /\ top = survey.root =>
       /\ \A n \in DOMAIN survey.first.identities \cap Range(RootNames) : WasThere(n, survey.root)
       /\ DOMAIN moment \cap Range(RootNames) \subseteq DOMAIN survey.scan.identities \cup Ahead
       /\ DOMAIN moment \cap Range(FolderNames) # {} =>
            Folder \in DOMAIN survey.scan.identities \cup Ahead
  /\ Folder \in DOMAIN moment => DOMAIN moment \cap Range(FolderNames) = {}

FolderFound ==
  DirNoted(survey.first) =>
    /\ Lookup(survey.root, Folder) = DirOf(survey.first) /\ Unwritten(Folder, survey.first) =>
         FolderWas
    /\ survey.step = "childStat" /\ survey.of.file = DirOf(survey.first)
         /\ Unwritten(Folder, survey.first) => FolderWas
    /\ DirNoted(survey.scan) /\ SameNoted(Folder) => FolderWas

FilesFound ==
  \A n \in DOMAIN survey.scan.files :
    /\ top = survey.root /\ SameNoted(n)
    /\ n \in Range(FolderNames) => SameNoted(Folder) /\ DirNoted(survey.first)
    => n \in DOMAIN moment /\ moment[n] = survey.scan.files[n]

InventoryInv ==
  /\ survey \in Surveys /\ moment \in NameContents
  /\ Noted(survey.first) /\ Noted(survey.scan)
  /\ ~survey.second => survey.first = Blank
  /\ WalkTrue /\ ReadingTrue /\ FolderListed
  /\ Second => RootWas /\ FolderFound /\ FilesFound
  /\ survey.step = "rootAgain" => survey.second /\ survey.scan = survey.first
  /\ InventoryExact

-----------------------------------------------------------------------------
(* What others do to a tree.                                               *)

(* The elements of a list.                                                 *)
LEMMA Elements ==
  ASSUME NEW S, NEW s \in Seq(S)
  PROVE  /\ Len(s) \in Nat /\ DOMAIN s = 1..Len(s)
         /\ \A i \in 1..Len(s) : s[i] \in S /\ s[i] \in Range(s)
         /\ \A x \in Range(s) : x \in S /\ \E i \in 1..Len(s) : x = s[i]
  <1>1. Range(s) = {s[i] : i \in 1..Len(s)}
    BY RangeEquality
  <1>2. Len(s) \in Nat /\ DOMAIN s = 1..Len(s) /\ \A i \in 1..Len(s) : s[i] \in S
    BY LenProperties, ElementOfSeq
  <1> QED
    BY <1>1, <1>2

(* The names of the directories.                                           *)
LEMMA NamesAre ==
  /\ RootNames \in Seq(STRING) /\ Len(RootNames) \in Nat /\ Len(RootNames) >= 1
  /\ FolderNames \in Seq(STRING) /\ Len(FolderNames) \in Nat
  /\ Names = Range(RootNames) \cup Range(FolderNames)
  /\ Folder = RootNames[Len(RootNames)] /\ Folder \in Range(RootNames)
  /\ Range(RootNames) \cap Range(FolderNames) = {}
  /\ \A i \in 1..Len(RootNames) : RootNames[i] \in Range(RootNames)
  /\ \A i \in 1..Len(FolderNames) : FolderNames[i] \in Range(FolderNames)
  <1>1. RootNames \in Seq(STRING) /\ FolderNames \in Seq(STRING) /\ RootNames # <<>>
    BY TreeAssumption
  <1>2. Len(RootNames) \in Nat /\ Len(FolderNames) \in Nat
    BY <1>1, LenProperties
  <1>3. Len(RootNames) >= 1
    BY <1>1, <1>2, EmptySeq
  <1>4. /\ \A i \in 1..Len(RootNames) : RootNames[i] \in Range(RootNames)
        /\ \A i \in 1..Len(FolderNames) : FolderNames[i] \in Range(FolderNames)
    BY <1>1, Elements
  <1>5. Folder = RootNames[Len(RootNames)]
    BY DEF Folder, Last
  <1>6. Folder \in Range(RootNames)
    BY <1>2, <1>3, <1>4, <1>5
  <1> QED
    BY <1>1, <1>2, <1>3, <1>4, <1>5, <1>6, TreeAssumption DEF Names

(* Where a name is in a list without repetitions.                          *)
LEMMA PositionIs ==
  ASSUME NEW s \in Seq(STRING), IsInjective(s), NEW n \in Range(s)
  PROVE  /\ Position(s, n) \in 1..Len(s) /\ s[Position(s, n)] = n
         /\ \A i \in 1..Len(s) : s[i] = n => i = Position(s, n)
  <1>1. DOMAIN s = 1..Len(s) /\ \E k \in DOMAIN s : s[k] = n
    BY Elements
  <1>2. Position(s, n) \in DOMAIN s /\ s[Position(s, n)] = n
    BY <1>1 DEF Position
  <1> QED
    BY <1>1, <1>2 DEF IsInjective

(* A map with one more entry.                                              *)
LEMMA WithIs ==
  ASSUME NEW f, NEW name, NEW value
  PROVE  /\ DOMAIN With(f, name, value) = DOMAIN f \cup {name}
         /\ With(f, name, value)[name] = value
         /\ \A n \in DOMAIN f : n # name => With(f, name, value)[n] = f[n]
  BY DEF With

(* The maps of names.                                                      *)
LEMMA MapsAre ==
  ASSUME NEW R
  PROVE  /\ \A f \in UNION {[D -> R] : D \in SUBSET Names} :
              DOMAIN f \subseteq Names /\ f \in [DOMAIN f -> R] /\ \A n \in DOMAIN f : f[n] \in R
         /\ \A D \in SUBSET Names : \A f \in [D -> R] : f \in UNION {[E -> R] : E \in SUBSET Names}
  OBVIOUS

(* In particular those of directories.                                     *)
LEMMA NameMapsAre ==
  /\ \A f \in NameMaps : DOMAIN f \subseteq Names /\ f \in [DOMAIN f -> Nat]
       /\ \A n \in DOMAIN f : f[n] \in Nat
  /\ \A D \in SUBSET Names : \A f \in [D -> Nat] : f \in NameMaps
  BY MapsAre DEF NameMaps

(* The kinds of nodes.                                                     *)
LEMMA NodesAre ==
  ASSUME NEW x \in Nodes
  PROVE  /\ x.stamp \in Nat /\ x.kind \in {"file", "link", "root", "folder"}
         /\ x.kind = "file" => x.content \in Contents /\ x.content \in Seq(Nat) /\ x.content # <<>>
         /\ x.kind \in {"root", "folder"} => x.names \in NameMaps
  <1>1. CASE x \in [kind : {"file"}, content : Contents, stamp : Nat]
    BY <1>1, TreeAssumption
  <1>2. CASE x \in [kind : {"link"}, stamp : Nat]
    BY <1>2
  <1>3. CASE x \in [kind : {"root", "folder"}, names : NameMaps, stamp : Nat]
    BY <1>3
  <1> QED
    BY <1>1, <1>2, <1>3 DEF Nodes

(* The nodes that are made.                                                *)
LEMMA NodesMade ==
  ASSUME NEW stamp \in Nat
  PROVE  /\ \A c \in Contents : File(c, stamp) \in Nodes /\ File(c, stamp).kind = "file"
              /\ File(c, stamp).stamp = stamp /\ File(c, stamp).content = c
         /\ SymbolicLink(stamp) \in Nodes /\ SymbolicLink(stamp).kind = "link"
         /\ SymbolicLink(stamp).stamp = stamp
         /\ \A k \in {"root", "folder"} : \A names \in NameMaps :
              /\ Directory(k, names, stamp) \in Nodes /\ Directory(k, names, stamp).kind = k
              /\ Directory(k, names, stamp).names = names
              /\ Directory(k, names, stamp).stamp = stamp
  BY DEF File, SymbolicLink, Directory, Nodes

(* One list behind the other.                                              *)
LEMMA NodesJoin ==
  ASSUME NEW s \in Seq(Nodes), NEW t \in Seq(Nodes)
  PROVE  /\ s \o t \in Seq(Nodes) /\ Len(s \o t) = Len(s) + Len(t)
         /\ Len(s) \in Nat /\ Len(t) \in Nat
         /\ \A i \in 1..Len(s) : (s \o t)[i] = s[i]
         /\ \A i \in 1..Len(t) : (s \o t)[Len(s) + i] = t[i]
  BY ConcatProperties, LenProperties

(* Fresh nodes, the first of which gets the inode first, lead to each      *)
(* other.                                                                  *)
WellMade(t, first, stamp) ==
  /\ t \in Seq(Nodes)
  /\ \A i \in 1..Len(t) : t[i].stamp = stamp
  /\ \A i \in 1..Len(t) : t[i].kind \in {"root", "folder"} => \A n \in DOMAIN t[i].names :
       /\ n \in DirectoryNames(t[i].kind)
       /\ \E j \in 1..Len(t) : t[i].names[n] = first - 1 + j /\ t[j].kind \in Linkable(n)

(* A fresh folder.                                                         *)
LEMMA FolderMade ==
  ASSUME NEW first \in Nat \ {0}, NEW c \in Contents, NEW stamp \in Nat,
         NEW t, t = FolderNodes(first, c, stamp)
  PROVE  /\ WellMade(t, first, stamp) /\ t[1].kind = "folder"
         /\ Len(t) = 1 + Len(FolderNames) /\ Len(t) >= 1
  <1> DEFINE names == [n \in Range(FolderNames) |-> first + Position(FolderNames, n)]
             d == Directory("folder", names, stamp)
             files == [k \in 1..Len(FolderNames) |-> File(c, stamp)]
             one == <<d>>
  <1>1. \A n \in Range(FolderNames) :
          Position(FolderNames, n) \in 1..Len(FolderNames) /\ n \in Names
    BY NamesAre, PositionIs, TreeAssumption
  <1>2. names \in NameMaps
    <2>1. Range(FolderNames) \in SUBSET Names /\ names \in [Range(FolderNames) -> Nat]
      BY <1>1, NamesAre
    <2> HIDE DEF names
    <2> QED
      BY <2>1, NameMapsAre
  <1>3. \A n \in DOMAIN names : n \in Range(FolderNames)
                               /\ names[n] = first + Position(FolderNames, n)
    OBVIOUS
  <1> HIDE DEF names
  <1>4. d \in Nodes /\ d.kind = "folder" /\ d.stamp = stamp /\ d.names = names
    BY <1>2, NodesMade
  <1>5. File(c, stamp) \in Nodes /\ File(c, stamp).kind = "file" /\ File(c, stamp).stamp = stamp
    BY NodesMade
  <1>6. files \in Seq(Nodes) /\ Len(files) = Len(FolderNames)
        /\ \A k \in 1..Len(FolderNames) : files[k] = File(c, stamp)
    BY <1>5, NamesAre
  <1> HIDE DEF d, files
  <1>7. one \in Seq(Nodes) /\ Len(one) = 1 /\ one[1] = d
    BY <1>4
  <1> HIDE DEF one
  <1>8. t = one \o files
    BY DEF FolderNodes, one, d, names, files
  <1>9. /\ t \in Seq(Nodes) /\ Len(t) = 1 + Len(FolderNames)
        /\ t[1] = d /\ \A k \in 1..Len(FolderNames) : t[1 + k] = File(c, stamp)
    <2>1. /\ one \o files \in Seq(Nodes) /\ Len(one \o files) = Len(one) + Len(files)
          /\ \A i \in 1..Len(one) : (one \o files)[i] = one[i]
          /\ \A i \in 1..Len(files) : (one \o files)[Len(one) + i] = files[i]
      <3>1. one \in Seq(Nodes)
        BY <1>7
      <3>2. files \in Seq(Nodes)
        BY <1>6
      <3> QED
        BY <3>1, <3>2, NodesJoin
    <2>2. 1 \in 1..Len(one)
      BY <1>7
    <2> QED
      BY <1>6, <1>7, <1>8, <2>1, <2>2
  <1>10. \A i \in 1..Len(t) : t[i] = d \/ t[i] = File(c, stamp)
    <2> TAKE i \in 1..Len(t)
    <2>1. CASE i = 1
      BY <1>9, <2>1
    <2>2. CASE i # 1
      <3>1. PICK k \in 1..Len(FolderNames) : i = 1 + k
        <4>1. i - 1 \in 1..Len(FolderNames) /\ i = 1 + (i - 1)
          BY <1>9, <2>2, NamesAre
        <4> QED
          BY <4>1
      <3> QED
        BY <1>9, <3>1
    <2> QED
      BY <2>1, <2>2
  <1>11. ASSUME NEW i \in 1..Len(t), t[i].kind \in {"root", "folder"}, NEW n \in DOMAIN t[i].names
         PROVE  /\ n \in DirectoryNames(t[i].kind)
                /\ \E j \in 1..Len(t) : t[i].names[n] = first - 1 + j /\ t[j].kind \in Linkable(n)
    <2>1. t[i] = d
      BY <1>5, <1>10, <1>11
    <2>2. n \in Range(FolderNames) /\ t[i].names[n] = first + Position(FolderNames, n)
      BY <1>3, <1>4, <1>11, <2>1
    <2>3. n \in DirectoryNames(t[i].kind)
      BY <1>4, <2>1, <2>2 DEF DirectoryNames
    <2>4. PICK p \in 1..Len(FolderNames) : p = Position(FolderNames, n)
      BY <1>1, <2>2
    <2>5. 1 + p \in 1..Len(t) /\ t[1 + p].kind \in Linkable(n)
      BY <1>5, <1>9, NamesAre DEF Linkable
    <2>6. t[i].names[n] = first - 1 + (1 + p)
      BY <2>2, <2>4
    <2> QED
      BY <2>3, <2>5, <2>6
  <1>12. Len(t) >= 1 /\ \A i \in 1..Len(t) : t[i].stamp = stamp
    <2>1. Len(t) >= 1
      BY <1>9, NamesAre
    <2>2. \A i \in 1..Len(t) : t[i].stamp = stamp
      BY <1>4, <1>5, <1>10
    <2> QED
      BY <2>1, <2>2
  <1> QED
    BY <1>4, <1>9, <1>11, <1>12 DEF WellMade

(* A fresh tree.                                                           *)
LEMMA TreeMade ==
  ASSUME NEW first \in Nat \ {0}, NEW c \in Contents, NEW stamp \in Nat,
         NEW t, t = TreeNodes(first, c, stamp)
  PROVE  WellMade(t, first, stamp) /\ t[1].kind = "root" /\ Len(t) >= 1
  <1> DEFINE names == [n \in Range(RootNames) |-> first + Position(RootNames, n)]
             d == Directory("root", names, stamp)
             files == [k \in 1..(Len(RootNames) - 1) |-> File(c, stamp)]
             one == <<d>>
             most == one \o files
             folder == FolderNodes(first + Len(RootNames), c, stamp)
  <1>1. \A n \in Range(RootNames) :
          Position(RootNames, n) \in 1..Len(RootNames) /\ n \in Names
          /\ RootNames[Position(RootNames, n)] = n
    BY NamesAre, PositionIs, TreeAssumption
  <1>2. names \in NameMaps
    <2>1. Range(RootNames) \in SUBSET Names /\ names \in [Range(RootNames) -> Nat]
      BY <1>1, NamesAre
    <2> HIDE DEF names
    <2> QED
      BY <2>1, NameMapsAre
  <1>3. \A n \in DOMAIN names : n \in Range(RootNames)
                               /\ names[n] = first + Position(RootNames, n)
    OBVIOUS
  <1> HIDE DEF names
  <1>4. d \in Nodes /\ d.kind = "root" /\ d.stamp = stamp /\ d.names = names
    BY <1>2, NodesMade
  <1>5. File(c, stamp) \in Nodes /\ File(c, stamp).kind = "file" /\ File(c, stamp).stamp = stamp
    BY NodesMade
  <1>6. files \in Seq(Nodes) /\ Len(files) = Len(RootNames) - 1
        /\ \A k \in 1..(Len(RootNames) - 1) : files[k] = File(c, stamp)
    BY <1>5, NamesAre
  <1> HIDE DEF d, files
  <1>7. one \in Seq(Nodes) /\ Len(one) = 1 /\ one[1] = d
    BY <1>4
  <1> HIDE DEF one
  <1>8. /\ most \in Seq(Nodes) /\ Len(most) = Len(RootNames)
        /\ most[1] = d /\ \A k \in 1..(Len(RootNames) - 1) : most[1 + k] = File(c, stamp)
    <2>1. /\ one \o files \in Seq(Nodes) /\ Len(one \o files) = Len(one) + Len(files)
          /\ \A i \in 1..Len(one) : (one \o files)[i] = one[i]
          /\ \A i \in 1..Len(files) : (one \o files)[Len(one) + i] = files[i]
      <3>1. one \in Seq(Nodes)
        BY <1>7
      <3>2. files \in Seq(Nodes)
        BY <1>6
      <3> QED
        BY <3>1, <3>2, NodesJoin
    <2>2. 1 \in 1..Len(one)
      BY <1>7
    <2> QED
      BY <1>6, <1>7, <2>1, <2>2, NamesAre
  <1>9. t = most \o folder
    BY DEF TreeNodes, one, d, names, files
  <1> HIDE DEF most
  <1>10. /\ WellMade(folder, first + Len(RootNames), stamp) /\ folder[1].kind = "folder"
         /\ Len(folder) = 1 + Len(FolderNames)
    <2>1. first + Len(RootNames) \in Nat \ {0}
      BY NamesAre
    <2> HIDE DEF folder
    <2>2. PICK f : f = first + Len(RootNames)
      OBVIOUS
    <2>3. f \in Nat \ {0} /\ folder = FolderNodes(f, c, stamp)
      BY <2>1, <2>2 DEF folder
    <2> QED
      BY <2>2, <2>3, FolderMade
  <1> HIDE DEF folder
  <1>11. folder \in Seq(Nodes) /\ Len(folder) \in Nat /\ Len(folder) >= 1
         /\ \A i \in 1..Len(folder) : folder[i].stamp = stamp
    BY <1>10, NamesAre DEF WellMade
  <1>12. /\ t \in Seq(Nodes) /\ Len(t) = Len(RootNames) + Len(folder)
         /\ \A i \in 1..Len(RootNames) : t[i] = most[i]
         /\ \A i \in 1..Len(folder) : t[Len(RootNames) + i] = folder[i]
    <2>1. most \in Seq(Nodes)
      BY <1>8
    <2>2. folder \in Seq(Nodes)
      BY <1>11
    <2>3. /\ most \o folder \in Seq(Nodes) /\ Len(most \o folder) = Len(most) + Len(folder)
          /\ \A i \in 1..Len(most) : (most \o folder)[i] = most[i]
          /\ \A i \in 1..Len(folder) : (most \o folder)[Len(most) + i] = folder[i]
      BY <2>1, <2>2, NodesJoin
    <2>4. Len(most) = Len(RootNames)
      BY <1>8
    <2> QED
      BY <1>9, <2>3, <2>4
  <1>13. t[1] = d /\ \A k \in 1..(Len(RootNames) - 1) : t[1 + k] = File(c, stamp)
    <2>1. 1 \in 1..Len(RootNames) /\ \A k \in 1..(Len(RootNames) - 1) : 1 + k \in 1..Len(RootNames)
      BY NamesAre
    <2> QED
      BY <1>8, <1>12, <2>1
  <1>14. \A i \in 1..Len(t) :
           \/ t[i] = d \/ t[i] = File(c, stamp)
           \/ \E k \in 1..Len(folder) : i = Len(RootNames) + k /\ t[i] = folder[k]
    <2> TAKE i \in 1..Len(t)
    <2>1. CASE i = 1
      BY <1>13, <2>1
    <2>2. CASE i # 1 /\ i <= Len(RootNames)
      <3>1. PICK k \in 1..(Len(RootNames) - 1) : i = 1 + k
        <4>1. i - 1 \in 1..(Len(RootNames) - 1) /\ i = 1 + (i - 1)
          BY <1>12, <2>2, NamesAre
        <4> QED
          BY <4>1
      <3> QED
        BY <1>13, <3>1
    <2>3. CASE i > Len(RootNames)
      <3>1. PICK k \in 1..Len(folder) : i = Len(RootNames) + k
        <4>1. i - Len(RootNames) \in 1..Len(folder) /\ i = Len(RootNames) + (i - Len(RootNames))
          BY <1>11, <1>12, <2>3, NamesAre
        <4> QED
          BY <4>1
      <3> QED
        BY <1>12, <3>1
    <2>4. i = 1 \/ (i # 1 /\ i <= Len(RootNames)) \/ i > Len(RootNames)
      BY <1>11, <1>12, NamesAre
    <2> QED
      BY <2>1, <2>2, <2>3, <2>4
  <1>15. Len(t) \in Nat /\ Len(t) >= 1 /\ \A i \in 1..Len(t) : t[i].stamp = stamp
    <2>1. Len(t) \in Nat /\ Len(t) >= 1
      BY <1>11, <1>12, NamesAre
    <2>2. \A i \in 1..Len(t) : t[i].stamp = stamp
      BY <1>4, <1>5, <1>11, <1>14
    <2> QED
      BY <2>1, <2>2
  <1>16. ASSUME NEW i \in 1..Len(t), t[i].kind \in {"root", "folder"}, NEW n \in DOMAIN t[i].names
         PROVE  /\ n \in DirectoryNames(t[i].kind)
                /\ \E j \in 1..Len(t) : t[i].names[n] = first - 1 + j /\ t[j].kind \in Linkable(n)
    <2>1. t[i] = d \/ \E k \in 1..Len(folder) : i = Len(RootNames) + k /\ t[i] = folder[k]
      BY <1>5, <1>14, <1>16
    <2>2. CASE t[i] = d
      <3>1. n \in Range(RootNames) /\ t[i].names[n] = first + Position(RootNames, n)
        BY <1>3, <1>4, <1>16, <2>2
      <3>2. n \in DirectoryNames(t[i].kind)
        BY <1>4, <2>2, <3>1 DEF DirectoryNames
      <3>3. PICK p \in 1..Len(RootNames) : p = Position(RootNames, n) /\ RootNames[p] = n
        BY <1>1, <3>1
      <3>4. 1 + p \in 1..Len(t)
        BY <1>11, <1>12, NamesAre
      <3>5. t[1 + p].kind \in Linkable(n)
        <4>1. CASE p = Len(RootNames)
          <5>1. n = Folder
            BY <3>3, <4>1, NamesAre
          <5>2. 1 \in 1..Len(folder) /\ 1 + p = Len(RootNames) + 1
            BY <1>11, <4>1, NamesAre
          <5>3. t[1 + p] = folder[1]
            BY <1>12, <5>2
          <5> QED
            BY <1>10, <5>1, <5>3 DEF Linkable
        <4>2. CASE p # Len(RootNames)
          <5>1. p \in 1..(Len(RootNames) - 1)
            BY <4>2, NamesAre
          <5> QED
            BY <1>5, <1>13, <5>1 DEF Linkable
        <4> QED
          BY <4>1, <4>2
      <3>6. t[i].names[n] = first - 1 + (1 + p)
        BY <3>1, <3>3
      <3> QED
        BY <3>2, <3>4, <3>5, <3>6
    <2>3. CASE \E k \in 1..Len(folder) : i = Len(RootNames) + k /\ t[i] = folder[k]
      <3>1. PICK k \in 1..Len(folder) : i = Len(RootNames) + k /\ t[i] = folder[k]
        BY <2>3
      <3>2. folder[k].kind \in {"root", "folder"} /\ n \in DOMAIN folder[k].names
        BY <1>16, <3>1
      <3>3. /\ n \in DirectoryNames(folder[k].kind)
            /\ \E j \in 1..Len(folder) : /\ folder[k].names[n] = first + Len(RootNames) - 1 + j
                                         /\ folder[j].kind \in Linkable(n)
        BY <1>10, <3>2 DEF WellMade
      <3>4. PICK j \in 1..Len(folder) : /\ folder[k].names[n] = first + Len(RootNames) - 1 + j
                                        /\ folder[j].kind \in Linkable(n)
        BY <3>3
      <3>5. Len(RootNames) + j \in 1..Len(t) /\ t[Len(RootNames) + j].kind \in Linkable(n)
        <4>1. Len(RootNames) + j \in 1..Len(t)
          BY <1>11, <1>12, NamesAre
        <4>2. t[Len(RootNames) + j] = folder[j]
          BY <1>12
        <4> QED
          BY <3>4, <4>1, <4>2
      <3>6. t[i].names[n] = first - 1 + (Len(RootNames) + j)
        BY <3>1, <3>4, NamesAre
      <3> QED
        BY <3>1, <3>3, <3>5, <3>6
    <2> QED
      BY <2>1, <2>2, <2>3
  <1> QED
    BY <1>4, <1>12, <1>13, <1>15, <1>16 DEF WellMade

-----------------------------------------------------------------------------
(* What a change does to a tree: nothing loses its kind or its stamp's     *)
(* order, what is changed is stamped, and what is linked was linked or is  *)
(* new.                                                                    *)
Made(nodes, root) ==
  /\ nodes \in Seq(Nodes) /\ Len(nodes) >= Len(node) /\ Linked(nodes)
  /\ root \in 1..Len(nodes) /\ nodes[root].kind = "root" /\ (root = top \/ root > Len(node))
  /\ \A i \in 1..Len(node) :
       nodes[i].kind = node[i].kind /\ (nodes[i] = node[i] \/ nodes[i].stamp = Stamp)
  /\ \A i \in 1..Len(nodes) : i > Len(node) => nodes[i].stamp = Stamp
  /\ \A i \in 1..Len(node) : node[i].kind \in {"root", "folder"} =>
       \A n \in DOMAIN nodes[i].names :
         \/ nodes[i].names[n] > Len(node)
         \/ n \in DOMAIN node[i].names /\ nodes[i].names[n] = node[i].names[n]

TreeMoved == Made(node', top') /\ changes' = Stamp /\ \A n \in Names : seen[n] \subseteq seen'[n]

(* A change keeps the tree whole.                                          *)
LEMMA TreeChanged ==
  ASSUME TreeOK, NEW nodes, NEW root, Made(nodes, root), Becomes(nodes, root)
  PROVE  TreeOK' /\ TreeMoved
  <1>1. /\ node' = nodes /\ top' = root /\ changes' = changes + 1
        /\ seen' = [n \in Names |-> seen[n] \cup {Visible(n)'}]
    BY DEF Becomes
  <1>2. TreeMoved
    <2>1. \A n \in Names : seen[n] \subseteq seen'[n]
      BY <1>1
    <2>2. Made(node', top')
      BY <1>1
    <2> QED
      BY <1>1, <2>1, <2>2 DEF TreeMoved, Stamp
  <1>3. \A n \in Names : Visible(n)' \in seen'[n]
    BY <1>1
  <1>4. changes \in Nat /\ Len(node) \in Nat /\ Len(nodes) \in Nat
    BY LenProperties DEF TreeOK, Made
  <1>5. \A i \in 1..Len(nodes) : nodes[i].stamp <= changes + 1
    <2> TAKE i \in 1..Len(nodes)
    <2>1. CASE i > Len(node)
      BY <1>4, <2>1 DEF Made, Stamp
    <2>2. CASE i <= Len(node)
      <3>1. i \in 1..Len(node)
        BY <1>4, <2>2
      <3>2. CASE nodes[i] = node[i]
        <4>1. node[i].stamp \in Nat /\ node[i].stamp <= changes
          BY <3>1, NodesAre, ElementOfSeq DEF TreeOK
        <4> QED
          BY <1>4, <3>2, <4>1
      <3>3. CASE nodes[i].stamp = Stamp
        BY <1>4, <3>3 DEF Stamp
      <3> QED
        BY <3>1, <3>2, <3>3 DEF Made
    <2> QED
      BY <1>4, <2>1, <2>2
  <1>6. Linked(node)'
    BY <1>1 DEF Made, Linked
  <1>7. node' \in Seq(Nodes) /\ changes' \in Nat /\ Inode(top)' /\ node'[top'].kind = "root"
    BY <1>1, <1>4 DEF Made, Inode
  <1>8. \A i \in 1..Len(node') : node'[i].stamp <= changes'
    BY <1>1, <1>5
  <1> QED
    BY <1>2, <1>3, <1>6, <1>7, <1>8 DEF TreeOK

(* What stamp a node that existed has after a change.                      *)
LEMMA Unstamped ==
  ASSUME TreeOK, TreeMoved, NEW i \in 1..Len(node)
  PROVE  /\ i \in 1..Len(node') /\ node'[i].kind = node[i].kind
         /\ node[i].stamp \in Nat /\ node'[i].stamp \in Nat /\ node[i].stamp <= node'[i].stamp
         /\ node'[i] # node[i] => node[i].stamp < node'[i].stamp /\ changes < node'[i].stamp
  <1>1. changes \in Nat /\ Len(node) \in Nat /\ Len(node') \in Nat /\ Len(node) <= Len(node')
    BY LenProperties DEF TreeOK, TreeMoved, Made
  <1>2. i \in 1..Len(node')
    BY <1>1
  <1>3. node[i].stamp \in Nat /\ node[i].stamp <= changes
    BY NodesAre, ElementOfSeq DEF TreeOK
  <1>4. node'[i].kind = node[i].kind /\ (node'[i] = node[i] \/ node'[i].stamp = changes + 1)
    BY DEF TreeMoved, Made, Stamp
  <1> QED
    BY <1>1, <1>2, <1>3, <1>4

(* What a directory leads to after a change it has led to before, or it is *)
(* new.                                                                    *)
LEMMA LinkedBefore ==
  ASSUME TreeOK, TreeMoved, NEW d \in 1..Len(node), node[d].kind \in {"root", "folder"},
         NEW n, NEW i \in 1..Len(node), Lookup(d, n)' = i
  PROVE  Lookup(d, n) = i
  <1>1. Len(node) \in Nat
    BY LenProperties DEF TreeOK
  <1>2. i # Nothing /\ ~(i > Len(node))
    BY <1>1 DEF Nothing
  <1>3. Lookup(d, n)' = IF n \in DOMAIN node'[d].names THEN node'[d].names[n] ELSE Nothing
    BY DEF Lookup
  <1>4. n \in DOMAIN node'[d].names /\ node'[d].names[n] = i
    BY <1>2, <1>3
  <1>5. n \in DOMAIN node[d].names /\ node'[d].names[n] = node[d].names[n]
    BY <1>2, <1>4 DEF TreeMoved, Made
  <1> QED
    BY <1>4, <1>5 DEF Lookup

(* The root of before is the root, or a new one is.                        *)
LEMMA RootBefore ==
  ASSUME TreeOK, TreeMoved, NEW i \in 1..Len(node), top' = i
  PROVE  top = i
  <1>1. Len(node) \in Nat
    BY LenProperties DEF TreeOK
  <1> QED
    BY <1>1 DEF TreeMoved, Made

(* The nodes that a change leaves: those of before in s, new ones in t.    *)
Grows(s, t) ==
  /\ s \in Seq(Nodes) /\ Len(s) = Len(node) /\ WellMade(t, Fresh, Stamp)
  /\ \A i \in 1..Len(node) :
       s[i].kind = node[i].kind /\ (s[i] = node[i] \/ s[i].stamp = Stamp)
  /\ \A i \in 1..Len(node) : s[i].kind \in {"root", "folder"} => \A n \in DOMAIN s[i].names :
       \/ n \in DOMAIN node[i].names /\ s[i].names[n] = node[i].names[n]
       \/ /\ n \in DirectoryNames(s[i].kind) /\ s[i].names[n] = Fresh
          /\ Len(t) >= 1 /\ t[1].kind \in Linkable(n)

GrownRoot(t, root) == root = top \/ (root = Fresh /\ Len(t) >= 1 /\ t[1].kind = "root")

(* The tree with such nodes is well made.                                  *)
LEMMA Grown ==
  ASSUME TreeOK, NEW s, NEW t, NEW root, Grows(s, t), GrownRoot(t, root)
  PROVE  Made(s \o t, root)
  <1> DEFINE nodes == s \o t
  <1>1. s \in Seq(Nodes) /\ t \in Seq(Nodes) /\ Len(s) = Len(node)
    BY DEF Grows, WellMade
  <1>2. /\ nodes \in Seq(Nodes) /\ Len(nodes) = Len(node) + Len(t)
        /\ Len(node) \in Nat /\ Len(t) \in Nat
        /\ \A i \in 1..Len(node) : nodes[i] = s[i]
        /\ \A i \in 1..Len(t) : nodes[Len(node) + i] = t[i]
    <2>1. /\ s \o t \in Seq(Nodes) /\ Len(s \o t) = Len(s) + Len(t)
          /\ Len(s) \in Nat /\ Len(t) \in Nat
          /\ \A i \in 1..Len(s) : (s \o t)[i] = s[i]
          /\ \A i \in 1..Len(t) : (s \o t)[Len(s) + i] = t[i]
      BY <1>1, NodesJoin
    <2> QED
      BY <1>1, <2>1
  <1> HIDE DEF nodes
  <1>3. Fresh = Len(node) + 1
    BY DEF Fresh
  <1>4. Len(t) >= 1 => Fresh \in 1..Len(nodes) /\ nodes[Fresh] = t[1] /\ Fresh > Len(node)
    <2> SUFFICES ASSUME Len(t) >= 1
                 PROVE  Fresh \in 1..Len(nodes) /\ nodes[Fresh] = t[1] /\ Fresh > Len(node)
      OBVIOUS
    <2>1. 1 \in 1..Len(t)
      BY <1>2
    <2>2. nodes[Len(node) + 1] = t[1]
      BY <1>2, <2>1
    <2> QED
      BY <1>2, <1>3, <2>2
  <1>5. \A i \in 1..Len(nodes) :
          i \in 1..Len(node) \/ \E k \in 1..Len(t) : i = Len(node) + k /\ nodes[i] = t[k]
    <2> TAKE i \in 1..Len(nodes)
    <2>1. CASE i > Len(node)
      <3>1. i - Len(node) \in 1..Len(t) /\ i = Len(node) + (i - Len(node))
        BY <1>2, <2>1
      <3>2. PICK k \in 1..Len(t) : i = Len(node) + k
        BY <3>1
      <3>3. nodes[i] = t[k]
        BY <1>2, <3>2
      <3> QED
        BY <3>2, <3>3
    <2> QED
      BY <1>2, <2>1
  <1>6. \A i \in 1..Len(node) : nodes[i].kind = node[i].kind
                                /\ (nodes[i] = node[i] \/ nodes[i].stamp = Stamp)
    BY <1>2 DEF Grows
  <1>7. \A i \in 1..Len(nodes) : i > Len(node) => nodes[i].stamp = Stamp
    <2> TAKE i \in 1..Len(nodes)
    <2> HAVE i > Len(node)
    <2>1. PICK k \in 1..Len(t) : nodes[i] = t[k]
      BY <1>2, <1>5
    <2> QED
      BY <2>1 DEF Grows, WellMade
  <1>8. ASSUME NEW i \in 1..Len(node), node[i].kind \in {"root", "folder"},
               NEW n \in DOMAIN nodes[i].names
        PROVE  /\ \/ nodes[i].names[n] > Len(node)
                  \/ n \in DOMAIN node[i].names /\ nodes[i].names[n] = node[i].names[n]
               /\ n \in DirectoryNames(nodes[i].kind) /\ nodes[i].names[n] \in 1..Len(nodes)
               /\ nodes[nodes[i].names[n]].kind \in Linkable(n)
    <2>1. nodes[i] = s[i] /\ nodes[i].kind = node[i].kind
      BY <1>2, <1>6
    <2>2. \/ n \in DOMAIN node[i].names /\ s[i].names[n] = node[i].names[n]
          \/ /\ n \in DirectoryNames(s[i].kind) /\ s[i].names[n] = Fresh
             /\ Len(t) >= 1 /\ t[1].kind \in Linkable(n)
      BY <1>8, <2>1 DEF Grows
    <2>3. CASE n \in DOMAIN node[i].names /\ s[i].names[n] = node[i].names[n]
      <3>1. /\ n \in DirectoryNames(node[i].kind) /\ node[i].names[n] \in 1..Len(node)
            /\ node[node[i].names[n]].kind \in Linkable(n)
        BY <1>8, <2>3 DEF TreeOK, Linked
      <3>2. PICK j \in 1..Len(node) : j = node[i].names[n]
        BY <3>1
      <3>3. nodes[j].kind = node[j].kind /\ j \in 1..Len(nodes)
        BY <1>2, <1>6
      <3> QED
        BY <2>1, <2>3, <3>1, <3>2, <3>3
    <2>4. CASE /\ n \in DirectoryNames(s[i].kind) /\ s[i].names[n] = Fresh
               /\ Len(t) >= 1 /\ t[1].kind \in Linkable(n)
      BY <1>4, <2>1, <2>4
    <2> QED
      BY <2>2, <2>3, <2>4
  <1>9. ASSUME NEW i \in 1..Len(nodes), nodes[i].kind \in {"root", "folder"},
               NEW n \in DOMAIN nodes[i].names
        PROVE  /\ n \in DirectoryNames(nodes[i].kind) /\ nodes[i].names[n] \in 1..Len(nodes)
               /\ nodes[nodes[i].names[n]].kind \in Linkable(n)
    <2>1. CASE i \in 1..Len(node)
      BY <1>6, <1>8, <1>9, <2>1
    <2>2. CASE \E k \in 1..Len(t) : i = Len(node) + k /\ nodes[i] = t[k]
      <3>1. PICK k \in 1..Len(t) : nodes[i] = t[k]
        BY <2>2
      <3>2. /\ n \in DirectoryNames(t[k].kind)
            /\ \E j \in 1..Len(t) : t[k].names[n] = Fresh - 1 + j /\ t[j].kind \in Linkable(n)
        BY <1>9, <3>1 DEF Grows, WellMade
      <3>3. PICK j \in 1..Len(t) : t[k].names[n] = Fresh - 1 + j /\ t[j].kind \in Linkable(n)
        BY <3>2
      <3>4. nodes[i].names[n] = Len(node) + j
        BY <1>2, <1>3, <3>1, <3>3
      <3>5. Len(node) + j \in 1..Len(nodes) /\ nodes[Len(node) + j] = t[j]
        BY <1>2
      <3> QED
        BY <3>1, <3>2, <3>3, <3>4, <3>5
    <2> QED
      BY <1>5, <2>1, <2>2
  <1>10. root \in 1..Len(nodes) /\ nodes[root].kind = "root" /\ (root = top \/ root > Len(node))
    <2>1. CASE root = top
      <3>1. PICK i \in 1..Len(node) : i = top /\ node[i].kind = "root"
        BY DEF TreeOK, Inode
      <3> QED
        BY <1>2, <1>6, <2>1, <3>1
    <2>2. CASE root = Fresh /\ Len(t) >= 1 /\ t[1].kind = "root"
      BY <1>4, <2>2
    <2> QED
      BY <2>1, <2>2 DEF GrownRoot
  <1>11. Linked(nodes)
    BY <1>9 DEF Linked
  <1>12. nodes \in Seq(Nodes) /\ Len(nodes) >= Len(node)
    BY <1>2
  <1>13. \A i \in 1..Len(node) : node[i].kind \in {"root", "folder"} =>
           \A n \in DOMAIN nodes[i].names :
             \/ nodes[i].names[n] > Len(node)
             \/ n \in DOMAIN node[i].names /\ nodes[i].names[n] = node[i].names[n]
    BY <1>8
  <1>14. Made(nodes, root)
    BY <1>6, <1>7, <1>10, <1>11, <1>12, <1>13 DEF Made
  <1> QED
    BY <1>14 DEF nodes

(* A change of one directory, with new nodes.                              *)
LEMMA Renamed ==
  ASSUME TreeOK, NEW d \in 1..Len(node), node[d].kind \in {"root", "folder"},
         NEW names \in NameMaps, NEW t, WellMade(t, Fresh, Stamp),
         \A n \in DOMAIN names :
           \/ n \in DOMAIN node[d].names /\ names[n] = node[d].names[n]
           \/ /\ n \in DirectoryNames(node[d].kind) /\ names[n] = Fresh
              /\ Len(t) >= 1 /\ t[1].kind \in Linkable(n)
  PROVE  Made(Named(d, names) \o t, top)
  <1> DEFINE s == Named(d, names)
             new == Directory(node[d].kind, names, Stamp)
  <1>1. Stamp \in Nat
    BY DEF TreeOK, Stamp
  <1>2. new \in Nodes /\ new.kind = node[d].kind /\ new.names = names /\ new.stamp = Stamp
    BY <1>1, NodesMade
  <1>3. s = [node EXCEPT ![d] = new]
    BY DEF Named
  <1> HIDE DEF new
  <1>4. node \in Seq(Nodes)
    BY DEF TreeOK
  <1>5. s \in Seq(Nodes) /\ Len(s) = Len(node)
        /\ s[d] = new /\ \A i \in 1..Len(node) : i # d => s[i] = node[i]
    BY <1>2, <1>3, <1>4
  <1> HIDE DEF s
  <1>6. \A i \in 1..Len(node) :
          s[i].kind = node[i].kind /\ (s[i] = node[i] \/ s[i].stamp = Stamp)
    BY <1>2, <1>5
  <1>7. \A i \in 1..Len(node) : s[i].kind \in {"root", "folder"} => \A n \in DOMAIN s[i].names :
          \/ n \in DOMAIN node[i].names /\ s[i].names[n] = node[i].names[n]
          \/ /\ n \in DirectoryNames(s[i].kind) /\ s[i].names[n] = Fresh
             /\ Len(t) >= 1 /\ t[1].kind \in Linkable(n)
    BY <1>2, <1>5
  <1>8. Grows(s, t)
    BY <1>5, <1>6, <1>7 DEF Grows
  <1>9. GrownRoot(t, top)
    BY DEF GrownRoot
  <1>10. Made(s \o t, top)
    BY <1>8, <1>9, Grown
  <1> QED
    BY <1>10 DEF s

(* A change of one node.                                                   *)
LEMMA NothingMore ==
  /\ TreeOK => WellMade(<<>>, Fresh, Stamp)
  /\ \A s \in Seq(Nodes) : s \o <<>> = s
  <1>1. <<>> \in Seq(Nodes) /\ Len(<<>>) = 0
    OBVIOUS
  <1>2. WellMade(<<>>, Fresh, Stamp)
    BY <1>1 DEF WellMade
  <1>3. \A s \in Seq(Nodes) : s \o <<>> = s
    BY ConcatEmptySeq
  <1> QED
    BY <1>2, <1>3

(* A file is written in place.                                             *)
LEMMA RewriteMoves ==
  ASSUME TreeOK, Rewrite
  PROVE  TreeOK' /\ TreeMoved
  <1>1. PICK i \in DOMAIN node, content \in Contents :
          /\ IsFile(i)
          /\ Becomes([node EXCEPT ![i] = File(content, Stamp)], top)
    BY DEF Rewrite
  <1> DEFINE new == File(content, Stamp)
             s == [node EXCEPT ![i] = new]
  <1>2. node \in Seq(Nodes) /\ i \in 1..Len(node) /\ node[i].kind = "file" /\ Stamp \in Nat
    BY <1>1, Elements DEF TreeOK, IsFile, Stamp
  <1>3. new \in Nodes /\ new.kind = "file" /\ new.stamp = Stamp
    <2>1. PICK stamp \in Nat : stamp = Stamp
      BY <1>2
    <2>2. /\ File(content, stamp) \in Nodes /\ File(content, stamp).kind = "file"
          /\ File(content, stamp).stamp = stamp
      BY NodesMade
    <2> QED
      BY <2>1, <2>2
  <1>4. Becomes(s, top)
    BY <1>1
  <1> HIDE DEF new
  <1>5. s \in Seq(Nodes) /\ Len(s) = Len(node)
        /\ s[i] = new /\ \A j \in 1..Len(node) : j # i => s[j] = node[j]
    BY <1>2, <1>3
  <1> HIDE DEF s
  <1>6. \A j \in 1..Len(node) :
          s[j].kind = node[j].kind /\ (s[j] = node[j] \/ s[j].stamp = Stamp)
    BY <1>2, <1>3, <1>5
  <1>7. \A j \in 1..Len(node) : s[j].kind \in {"root", "folder"} => s[j] = node[j]
    BY <1>3, <1>5
  <1>8. Grows(s, <<>>) /\ GrownRoot(<<>>, top)
    BY <1>5, <1>6, <1>7, NothingMore DEF Grows, GrownRoot
  <1>9. Made(s \o <<>>, top)
    BY <1>8, Grown
  <1>10. Made(s, top)
    BY <1>5, <1>9, NothingMore
  <1> QED
    BY <1>4, <1>10, TreeChanged

(* A file or a link is put under a name.                                   *)
LEMMA PutMoves ==
  ASSUME TreeOK, Put
  PROVE  TreeOK' /\ TreeMoved
  <1>1. PICK d \in DOMAIN node : IsDirectory(d) /\
          \E name \in NamesOf(d), new \in {SymbolicLink(Stamp)} \cup {File(c, Stamp) : c \in Contents} :
            Becomes(Append(Named(d, With(node[d].names, name, Fresh)), new), top)
    BY DEF Put
  <1>2. PICK name \in NamesOf(d), new \in {SymbolicLink(Stamp)} \cup {File(c, Stamp) : c \in Contents} :
            Becomes(Append(Named(d, With(node[d].names, name, Fresh)), new), top)
    BY <1>1
  <1>3. node \in Seq(Nodes) /\ d \in 1..Len(node) /\ node[d].kind \in {"root", "folder"}
        /\ Stamp \in Nat /\ Fresh \in Nat
    BY <1>1, Elements DEF TreeOK, IsDirectory, Stamp, Fresh
  <1>4. new \in Nodes /\ new.kind \in {"file", "link"} /\ new.stamp = Stamp
    BY <1>3, NodesMade
  <1> DEFINE names == With(node[d].names, name, Fresh)
             t == <<new>>
  <1>5. node[d] \in Nodes
    BY <1>3, ElementOfSeq
  <1>6. node[d].names \in NameMaps
    BY <1>3, <1>5, NodesAre
  <1>7. name \in DirectoryNames(node[d].kind) /\ name \in Names
    BY <1>2, NamesAre DEF NamesOf, DirectoryNames
  <1>8. names \in NameMaps
    <2>1. DOMAIN node[d].names \cup {name} \in SUBSET Names
          /\ names \in [DOMAIN node[d].names \cup {name} -> Nat]
      BY <1>3, <1>6, <1>7, NameMapsAre DEF With
    <2> HIDE DEF names
    <2> QED
      BY <2>1, NameMapsAre
  <1>9. \A n \in DOMAIN names :
          \/ n \in DOMAIN node[d].names /\ names[n] = node[d].names[n]
          \/ n = name /\ names[n] = Fresh
    BY DEF With
  <1>10. t \in Seq(Nodes) /\ Len(t) = 1 /\ t[1] = new /\ \A i \in 1..Len(t) : t[i] = new
    BY <1>4
  <1>11. Becomes(Append(Named(d, names), new), top)
    BY <1>2
  <1> HIDE DEF names, t
  <1>12. WellMade(t, Fresh, Stamp)
    BY <1>4, <1>10 DEF WellMade
  <1>13. \A n \in DOMAIN names :
           \/ n \in DOMAIN node[d].names /\ names[n] = node[d].names[n]
           \/ /\ n \in DirectoryNames(node[d].kind) /\ names[n] = Fresh
              /\ Len(t) >= 1 /\ t[1].kind \in Linkable(n)
    BY <1>4, <1>7, <1>9, <1>10 DEF Linkable
  <1>14. Made(Named(d, names) \o t, top)
    BY <1>3, <1>8, <1>12, <1>13, Renamed
  <1>15. Named(d, names) \in Seq(Nodes)
    <2>1. Directory(node[d].kind, names, Stamp) \in Nodes
      BY <1>3, <1>8, NodesMade
    <2> QED
      BY <1>3, <2>1 DEF Named
  <1>16. Append(Named(d, names), new) = Named(d, names) \o t
    BY <1>4, <1>15, AppendIsConcat DEF t
  <1> QED
    BY <1>11, <1>14, <1>16, TreeChanged

(* A name is removed.                                                      *)
LEMMA UnlinkMoves ==
  ASSUME TreeOK, Unlink
  PROVE  TreeOK' /\ TreeMoved
  <1>1. PICK d \in DOMAIN node : IsDirectory(d) /\
          \E name \in DOMAIN node[d].names :
            Becomes(Named(d, [n \in DOMAIN node[d].names \ {name} |-> node[d].names[n]]), top)
    BY DEF Unlink
  <1>2. PICK name \in DOMAIN node[d].names :
            Becomes(Named(d, [n \in DOMAIN node[d].names \ {name} |-> node[d].names[n]]), top)
    BY <1>1
  <1>3. node \in Seq(Nodes) /\ d \in 1..Len(node) /\ node[d].kind \in {"root", "folder"}
        /\ Stamp \in Nat
    BY <1>1, Elements DEF TreeOK, IsDirectory, Stamp
  <1> DEFINE names == [n \in DOMAIN node[d].names \ {name} |-> node[d].names[n]]
  <1>4. node[d] \in Nodes
    BY <1>3, ElementOfSeq
  <1>5. node[d].names \in NameMaps
    BY <1>3, <1>4, NodesAre
  <1>6. names \in NameMaps
    <2>1. DOMAIN node[d].names \ {name} \in SUBSET Names
          /\ names \in [DOMAIN node[d].names \ {name} -> Nat]
      BY <1>5, NameMapsAre
    <2> HIDE DEF names
    <2> QED
      BY <2>1, NameMapsAre
  <1>7. \A n \in DOMAIN names : n \in DOMAIN node[d].names /\ names[n] = node[d].names[n]
    OBVIOUS
  <1>8. Becomes(Named(d, names), top)
    BY <1>2
  <1> HIDE DEF names
  <1>9. Made(Named(d, names) \o <<>>, top)
    BY <1>3, <1>6, <1>7, NothingMore, Renamed
  <1>10. Named(d, names) \in Seq(Nodes)
    <2>1. Directory(node[d].kind, names, Stamp) \in Nodes
      BY <1>3, <1>6, NodesMade
    <2> QED
      BY <1>3, <2>1 DEF Named
  <1>11. Made(Named(d, names), top)
    BY <1>9, <1>10, NothingMore
  <1> QED
    BY <1>8, <1>11, TreeChanged

(* A fresh folder takes the place of the old.                              *)
LEMMA ReplaceFolderMoves ==
  ASSUME TreeOK, ReplaceFolder
  PROVE  TreeOK' /\ TreeMoved
  <1>1. PICK d \in DOMAIN node, content \in Contents :
          /\ IsDirectory(d) /\ node[d].kind = "root"
          /\ Becomes(Named(d, With(node[d].names, Folder, Fresh))
                       \o FolderNodes(Fresh, content, Stamp), top)
    BY DEF ReplaceFolder
  <1>2. node \in Seq(Nodes) /\ d \in 1..Len(node) /\ node[d].kind = "root"
        /\ Stamp \in Nat /\ Fresh \in Nat \ {0}
    BY <1>1, Elements DEF TreeOK, IsDirectory, Stamp, Fresh
  <1> DEFINE names == With(node[d].names, Folder, Fresh)
             t == FolderNodes(Fresh, content, Stamp)
  <1>3. node[d] \in Nodes
    BY <1>2, ElementOfSeq
  <1>4. node[d].names \in NameMaps
    BY <1>2, <1>3, NodesAre
  <1>5. Folder \in DirectoryNames(node[d].kind) /\ Folder \in Names
    BY <1>2, NamesAre DEF DirectoryNames
  <1>6. names \in NameMaps
    <2>1. DOMAIN node[d].names \cup {Folder} \in SUBSET Names
          /\ names \in [DOMAIN node[d].names \cup {Folder} -> Nat]
      BY <1>2, <1>4, <1>5, NameMapsAre DEF With
    <2> HIDE DEF names
    <2> QED
      BY <2>1, NameMapsAre
  <1>7. \A n \in DOMAIN names :
          \/ n \in DOMAIN node[d].names /\ names[n] = node[d].names[n]
          \/ n = Folder /\ names[n] = Fresh
    BY DEF With
  <1>8. WellMade(t, Fresh, Stamp) /\ t[1].kind = "folder" /\ Len(t) >= 1
    <2>1. PICK first \in Nat \ {0}, stamp \in Nat : first = Fresh /\ stamp = Stamp
      BY <1>2
    <2>2. /\ WellMade(FolderNodes(first, content, stamp), first, stamp)
          /\ FolderNodes(first, content, stamp)[1].kind = "folder"
          /\ Len(FolderNodes(first, content, stamp)) >= 1
      BY FolderMade
    <2> QED
      BY <2>1, <2>2
  <1>9. Becomes(Named(d, names) \o t, top)
    BY <1>1
  <1> HIDE DEF names, t
  <1>10. \A n \in DOMAIN names :
           \/ n \in DOMAIN node[d].names /\ names[n] = node[d].names[n]
           \/ /\ n \in DirectoryNames(node[d].kind) /\ names[n] = Fresh
              /\ Len(t) >= 1 /\ t[1].kind \in Linkable(n)
    BY <1>5, <1>7, <1>8 DEF Linkable
  <1>11. Made(Named(d, names) \o t, top)
    BY <1>2, <1>6, <1>8, <1>10, Renamed
  <1> QED
    BY <1>9, <1>11, TreeChanged

(* A fresh root takes the place of the old.                                *)
LEMMA ReplaceRootMoves ==
  ASSUME TreeOK, ReplaceRoot
  PROVE  TreeOK' /\ TreeMoved
  <1>1. PICK content \in Contents : Becomes(node \o TreeNodes(Fresh, content, Stamp), Fresh)
    BY DEF ReplaceRoot
  <1>2. node \in Seq(Nodes) /\ Len(node) \in Nat /\ Stamp \in Nat /\ Fresh \in Nat \ {0}
    BY Elements DEF TreeOK, Stamp, Fresh
  <1> DEFINE t == TreeNodes(Fresh, content, Stamp)
  <1>3. WellMade(t, Fresh, Stamp) /\ t[1].kind = "root" /\ Len(t) >= 1
    <2>1. PICK first \in Nat \ {0}, stamp \in Nat : first = Fresh /\ stamp = Stamp
      BY <1>2
    <2>2. /\ WellMade(TreeNodes(first, content, stamp), first, stamp)
          /\ TreeNodes(first, content, stamp)[1].kind = "root"
          /\ Len(TreeNodes(first, content, stamp)) >= 1
      BY TreeMade
    <2> QED
      BY <2>1, <2>2
  <1> HIDE DEF t
  <1>4. Grows(node, t) /\ GrownRoot(t, Fresh)
    BY <1>2, <1>3 DEF Grows, GrownRoot
  <1>5. Made(node \o t, Fresh)
    BY <1>4, Grown
  <1>6. Becomes(node \o t, Fresh)
    BY <1>1 DEF t
  <1> QED
    BY <1>5, <1>6, TreeChanged

(* Whatever others do.                                                     *)
LEMMA OthersMove ==
  ASSUME TreeOK, Others
  PROVE  TreeOK' /\ TreeMoved
  BY RewriteMoves, PutMoves, UnlinkMoves, ReplaceFolderMoves, ReplaceRootMoves DEF Others

(* The tree at first.                                                      *)
LEMMA TreeAtFirst ==
  ASSUME TreeInit
  PROVE  TreeOK
  <1>1. /\ node = TreeNodes(1, FirstContent, 0) /\ top = 1 /\ changes = 0
        /\ seen = [n \in Names |-> {Visible(n)}]
    BY DEF TreeInit
  <1>2. WellMade(node, 1, 0) /\ node[1].kind = "root" /\ Len(node) >= 1
    <2>1. PICK first \in Nat \ {0}, stamp \in Nat : first = 1 /\ stamp = 0
      OBVIOUS
    <2>2. PICK t : t = TreeNodes(first, FirstContent, stamp)
      OBVIOUS
    <2>3. WellMade(t, first, stamp) /\ t[1].kind = "root" /\ Len(t) >= 1
      BY <2>2, TreeMade, TreeAssumption
    <2> QED
      BY <1>1, <2>1, <2>2, <2>3
  <1>3. node \in Seq(Nodes) /\ Len(node) \in Nat /\ \A i \in 1..Len(node) : node[i].stamp = 0
    BY <1>2, LenProperties DEF WellMade
  <1>4. Linked(node)
    <2> SUFFICES ASSUME NEW i \in 1..Len(node), node[i].kind \in {"root", "folder"},
                        NEW n \in DOMAIN node[i].names
                 PROVE  /\ n \in DirectoryNames(node[i].kind) /\ node[i].names[n] \in 1..Len(node)
                        /\ node[node[i].names[n]].kind \in Linkable(n)
      BY DEF Linked
    <2>1. PICK j \in 1..Len(node) : node[i].names[n] = 1 - 1 + j /\ node[j].kind \in Linkable(n)
      BY <1>2 DEF WellMade
    <2>2. node[i].names[n] = j
      BY <1>3, <2>1
    <2>3. n \in DirectoryNames(node[i].kind)
      BY <1>2 DEF WellMade
    <2> QED
      BY <2>1, <2>2, <2>3
  <1>5. Inode(top) /\ node[top].kind = "root"
    BY <1>1, <1>2, <1>3 DEF Inode
  <1>6. \A n \in Names : Visible(n) \in seen[n]
    BY <1>1
  <1> QED
    BY <1>1, <1>3, <1>4, <1>5, <1>6 DEF TreeOK

-----------------------------------------------------------------------------
(* What a reader sees of a tree.                                           *)
LEMMA LookupIs ==
  ASSUME TreeOK, NEW d \in 1..Len(node), node[d].kind \in {"root", "folder"},
         NEW n, Lookup(d, n) # Nothing
  PROVE  /\ n \in DOMAIN node[d].names /\ Lookup(d, n) = node[d].names[n]
         /\ Lookup(d, n) \in 1..Len(node) /\ Lookup(d, n) \in Nat
         /\ n \in DirectoryNames(node[d].kind) /\ n \in Names
         /\ node[Lookup(d, n)].kind \in Linkable(n)
  <1>1. n \in DOMAIN node[d].names /\ Lookup(d, n) = node[d].names[n]
    BY DEF Lookup
  <1>2. /\ n \in DirectoryNames(node[d].kind) /\ node[d].names[n] \in 1..Len(node)
        /\ node[node[d].names[n]].kind \in Linkable(n)
    BY <1>1 DEF TreeOK, Linked
  <1>3. n \in Names
    BY <1>2, NamesAre DEF DirectoryNames
  <1>4. \A i \in 1..Len(node) : i \in Nat
    BY LenProperties DEF TreeOK
  <1> QED
    BY <1>1, <1>2, <1>3, <1>4

(* A directory in the root is the folder.                                  *)
LEMMA OnlyFolder ==
  ASSUME TreeOK, NEW d \in 1..Len(node), node[d].kind \in {"root", "folder"},
         NEW n, IsDirectory(Lookup(d, n))
  PROVE  /\ n = Folder /\ Lookup(d, n) \in 1..Len(node) /\ Lookup(d, n) \in Nat
         /\ node[Lookup(d, n)].kind = "folder" /\ node[d].kind = "root"
  <1>1. Lookup(d, n) # Nothing /\ node[Lookup(d, n)].kind \in {"root", "folder"}
    BY DEF IsDirectory
  <1>2. /\ Lookup(d, n) \in 1..Len(node) /\ Lookup(d, n) \in Nat
        /\ node[Lookup(d, n)].kind \in Linkable(n) /\ n \in DirectoryNames(node[d].kind)
    BY <1>1, LookupIs
  <1>3. n = Folder /\ node[Lookup(d, n)].kind = "folder"
    BY <1>1, <1>2 DEF Linkable
  <1>4. node[d].kind = "root"
    <2> SUFFICES ASSUME node[d].kind = "folder" PROVE FALSE
      OBVIOUS
    <2>1. Folder \in Range(FolderNames)
      BY <1>2, <1>3 DEF DirectoryNames
    <2> QED
      BY <2>1, NamesAre
  <1> QED
    BY <1>2, <1>3, <1>4

(* What a file holds.                                                      *)
LEMMA FilesAre ==
  ASSUME TreeOK, NEW i \in 1..Len(node), node[i].kind = "file"
  PROVE  /\ node[i].content \in Contents /\ node[i].content \in Seq(Nat)
         /\ node[i].content # NoFile /\ node[i].stamp \in Nat /\ Len(node[i].content) \in Nat
         /\ IsFile(i)
  <1>1. node[i] \in Nodes
    BY ElementOfSeq DEF TreeOK
  <1>2. node[i].content \in Contents /\ node[i].content \in Seq(Nat)
        /\ node[i].content # NoFile /\ node[i].stamp \in Nat
    BY <1>1, NodesAre DEF NoFile
  <1>3. Len(node[i].content) \in Nat
    BY <1>2, LenProperties
  <1>4. i # 0
    BY LenProperties DEF TreeOK
  <1> QED
    BY <1>2, <1>3, <1>4 DEF IsFile, Nothing

(* What the path of a name leads to.                                       *)
LEMMA VisibleInRoot ==
  ASSUME TreeOK, NEW n, n \notin Range(FolderNames), NEW i \in 1..Len(node),
         node[i].kind = "file", Lookup(top, n) = i
  PROVE  Visible(n) = node[i].content
  <1>1. Home(n) = top
    BY DEF Home
  <1>2. IsDirectory(top)
    BY LenProperties DEF TreeOK, IsDirectory, Inode, Nothing
  <1>3. IsFile(i)
    BY FilesAre
  <1> QED
    BY <1>1, <1>2, <1>3 DEF Visible

(* ... and of a name in the folder.                                        *)
LEMMA VisibleInFolder ==
  ASSUME TreeOK, NEW n, n \in Range(FolderNames), NEW f \in 1..Len(node),
         node[f].kind = "folder", Lookup(top, Folder) = f,
         NEW i \in 1..Len(node), node[i].kind = "file", Lookup(f, n) = i
  PROVE  Visible(n) = node[i].content
  <1>1. Home(n) = f
    BY DEF Home
  <1>2. IsDirectory(f)
    BY LenProperties DEF TreeOK, IsDirectory, Nothing
  <1>3. IsFile(i)
    BY FilesAre
  <1> QED
    BY <1>1, <1>2, <1>3 DEF Visible

(* Contents under names.                                                   *)
LEMMA ContentsWith ==
  ASSUME NEW f \in NameContents, NEW n \in Names, NEW c \in Seq(Nat)
  PROVE  With(f, n, c) \in NameContents
  <1>1. DOMAIN f \subseteq Names /\ \A m \in DOMAIN f : f[m] \in Seq(Nat)
    BY MapsAre DEF NameContents
  <1>2. DOMAIN f \cup {n} \in SUBSET Names /\ With(f, n, c) \in [DOMAIN f \cup {n} -> Seq(Nat)]
    BY <1>1 DEF With
  <1> QED
    BY <1>2, MapsAre DEF NameContents

(* No name, no content.                                                    *)
LEMMA NoContents == <<>> \in NameContents /\ DOMAIN <<>> = {}
  <1>1. DOMAIN <<>> = {} /\ <<>> \in [{} -> Seq(Nat)] /\ {} \in SUBSET Names
    OBVIOUS
  <1> QED
    BY <1>1, MapsAre DEF NameContents

(* A list of names and its head.                                           *)
LEMMA HeadAndTail ==
  ASSUME NEW S, NEW s \in Seq(S), s # <<>>
  PROVE  /\ Head(s) \in S /\ Tail(s) \in Seq(S)
         /\ Range(s) = {Head(s)} \cup Range(Tail(s))
  <1>1. Head(s) = s[1] /\ Tail(s) \in Seq(S) /\ Len(s) \in Nat /\ Len(s) >= 1
        /\ Len(Tail(s)) = Len(s) - 1 /\ \A i \in 1..(Len(s) - 1) : Tail(s)[i] = s[i + 1]
    BY EmptySeq, LenProperties, HeadTailProperties
  <1>2. Range(s) = {s[i] : i \in 1..Len(s)} /\ Range(Tail(s)) = {Tail(s)[i] : i \in 1..(Len(s) - 1)}
    <2>1. Range(s) = {s[i] : i \in 1..Len(s)}
      BY RangeEquality
    <2>2. Range(Tail(s)) = {Tail(s)[i] : i \in 1..Len(Tail(s))}
      BY <1>1, RangeEquality
    <2> QED
      BY <1>1, <2>1, <2>2
  <1>3. ASSUME NEW x \in Range(s)
        PROVE  x \in {Head(s)} \cup Range(Tail(s))
    <2>1. PICK i \in 1..Len(s) : x = s[i]
      BY <1>2
    <2>2. CASE i = 1
      BY <1>1, <2>1, <2>2
    <2>3. CASE i # 1
      <3>1. i - 1 \in 1..(Len(s) - 1) /\ i = (i - 1) + 1
        BY <1>1, <2>3
      <3>2. PICK k \in 1..(Len(s) - 1) : i = k + 1
        BY <3>1
      <3>3. x = Tail(s)[k]
        BY <1>1, <2>1, <3>2
      <3> QED
        BY <1>2, <3>3
    <2> QED
      BY <2>2, <2>3
  <1>4. ASSUME NEW x \in Range(Tail(s))
        PROVE  x \in Range(s)
    <2>1. PICK k \in 1..(Len(s) - 1) : x = Tail(s)[k]
      BY <1>2
    <2>2. k + 1 \in 1..Len(s) /\ x = s[k + 1]
      BY <1>1, <2>1
    <2> QED
      BY <1>2, <2>2
  <1>5. Head(s) \in S /\ Head(s) \in Range(s)
    BY <1>1, Elements
  <1> QED
    BY <1>1, <1>3, <1>4, <1>5

-----------------------------------------------------------------------------
(* The backup.                                                             *)
LEMMA HashingIs ==
  ASSUME hashing \in Hashings
  PROVE  /\ hashing.step \in HashingSteps /\ hashing.missingOk \in BOOLEAN /\ hashing.root \in Nat
         /\ hashing.todo \in Seq(Names) /\ hashing.entries \in NameContents
         /\ hashing.of.folder \in Nat /\ hashing.of.file \in Nat /\ hashing.of.before \in Nat
         /\ hashing.of.chunks \in Seq(Nat)
  BY DEF Hashings

(* A step of the command that only goes on.                                *)
LEMMA ToIs ==
  ASSUME hashing \in Hashings, NEW s \in HashingSteps, To(s)
  PROVE  /\ hashing' \in Hashings /\ hashing'.step = s
         /\ hashing'.missingOk = hashing.missingOk /\ hashing'.root = hashing.root
         /\ hashing'.of = hashing.of /\ hashing'.todo = hashing.todo
         /\ hashing'.entries = hashing.entries
  BY DEF To, Hashings

(* What the state of the file is then.                                     *)
SameFile ==
  /\ Name' = Name /\ (InFolder' <=> InFolder) /\ Parent' = Parent
  /\ (EntryRead' <=> EntryRead) /\ (StillNamed' <=> StillNamed) /\ (StillLinked' <=> StillLinked)

(* The backup goes on, in the tree as it is.                               *)
LEMMA ToKeeps ==
  ASSUME hashing \in Hashings, NEW s \in HashingSteps, To(s), UNCHANGED treeVars
  PROVE  SameFile /\ (EntriesTrue <=> EntriesTrue')
  <1>1. /\ hashing'.missingOk = hashing.missingOk /\ hashing'.root = hashing.root
        /\ hashing'.of = hashing.of /\ hashing'.todo = hashing.todo
        /\ hashing'.entries = hashing.entries
    BY ToIs
  <1>2. node' = node /\ top' = top /\ seen' = seen
    BY DEF treeVars
  <1>3. \A d, n : Lookup(d, n)' = Lookup(d, n)
    BY <1>2 DEF Lookup
  <1>4. Name' = Name /\ (InFolder' <=> InFolder)
    BY <1>1 DEF Name, InFolder
  <1>5. Parent' = Parent
    BY <1>1, <1>4 DEF Parent
  <1>6. (EntryRead' <=> EntryRead) /\ (StillNamed' <=> StillNamed) /\ (StillLinked' <=> StillLinked)
    <2>1. EntryRead' <=> EntryRead
      BY <1>1, <1>2, <1>4 DEF EntryRead
    <2>2. PICK p, n : p = Parent /\ n = Name
      OBVIOUS
    <2>3. StillNamed' <=> Lookup(p, n)' = hashing'.of.file
      BY <1>4, <1>5, <2>2 DEF StillNamed, Lookup
    <2>4. StillNamed' <=> StillNamed
      BY <1>1, <1>3, <2>2, <2>3 DEF StillNamed
    <2>5. PICK r : r = hashing.root
      OBVIOUS
    <2>6. StillLinked' <=> (InFolder' => Lookup(r, Folder)' = hashing'.of.folder)
      BY <1>1, <2>5 DEF StillLinked, Lookup
    <2>7. StillLinked' <=> StillLinked
      BY <1>1, <1>3, <1>4, <2>5, <2>6 DEF StillLinked
    <2> QED
      BY <2>1, <2>4, <2>7
  <1>7. EntriesTrue <=> EntriesTrue'
    BY <1>1, <1>2 DEF EntriesTrue
  <1> QED
    BY <1>4, <1>5, <1>6, <1>7 DEF SameFile

(* The file that is at its turn.                                           *)
LEMMA NextName ==
  ASSUME BackupInv, hashing.todo # <<>>
  PROVE  /\ Name \in Names /\ Tail(hashing.todo) \in Seq(Names)
         /\ Range(hashing.todo) = {Name} \cup Range(Tail(hashing.todo))
  <1>1. hashing.todo \in Seq(Names)
    BY HashingIs DEF BackupInv
  <1> QED
    BY <1>1, HeadAndTail DEF Name

(* The directory of the file that is hashed.                               *)
LEMMA ParentIs ==
  ASSUME TreeOK, BackupInv, hashing.step \in AtFile \ {"descend"}
  PROVE  /\ Parent \in 1..Len(node) /\ node[Parent].kind \in {"root", "folder"}
         /\ InFolder => Parent = hashing.of.folder /\ node[Parent].kind = "folder"
         /\ ~InFolder => Parent = hashing.root
  <1>1. hashing.root \in 1..Len(node) /\ node[hashing.root].kind = "root"
    BY DEF BackupInv, AtFile, Inode
  <1>2. InFolder => hashing.of.folder \in 1..Len(node) /\ node[hashing.of.folder].kind = "folder"
    BY DEF BackupInv, FileTrue, Inode
  <1> QED
    BY <1>1, <1>2 DEF Parent

(* The command fails.                                                      *)
LEMMA AbortKeeps ==
  ASSUME TreeOK, BackupInv, Abort, UNCHANGED treeVars, hashing.step # "root"
  PROVE  BackupInv'
  <1>1. "failed" \in HashingSteps /\ To("failed") /\ hashing \in Hashings
    BY DEF HashingSteps, Abort, BackupInv
  <1>2. /\ hashing' \in Hashings /\ hashing'.step = "failed" /\ hashing'.root = hashing.root
        /\ hashing'.of = hashing.of /\ hashing'.todo = hashing.todo
    BY <1>1, ToIs
  <1>3. EntriesTrue'
    BY <1>1, ToKeeps DEF BackupInv
  <1>4. Inode(hashing.root)' /\ node'[hashing'.root].kind = "root"
    BY <1>2 DEF BackupInv, Inode, treeVars
  <1>5. FileTrue'
    BY <1>2 DEF FileTrue, ReadTrue, AtFile, Opened
  <1> QED
    BY <1>2, <1>3, <1>4, <1>5 DEF BackupInv, AtFile

(* A file becomes an entry.                                                *)
LEMMA EntryKeeps ==
  ASSUME TreeOK, BackupInv, UNCHANGED treeVars, hashing.step \in AtFile,
         NEW c \in Seq(Nat), Entry(c),
         IF c = NoFile THEN hashing.missingOk ELSE c \in seen[Name]
  PROVE  BackupInv'
  <1>1. hashing \in Hashings /\ hashing.todo # <<>>
    BY DEF BackupInv
  <1>2. /\ Name \in Names /\ Tail(hashing.todo) \in Seq(Names)
        /\ Range(hashing.todo) = {Name} \cup Range(Tail(hashing.todo))
    BY <1>1, NextName
  <1> DEFINE s == Begin(Tail(hashing.todo))
             es == With(hashing.entries, Name, c)
  <1>3. s \in {"last", "descend", "open"} /\ s \in HashingSteps
        /\ (s = "last" => Tail(hashing.todo) = <<>>) /\ (s # "last" => Tail(hashing.todo) # <<>>)
        /\ (s = "open" => Head(Tail(hashing.todo)) \notin Range(FolderNames))
    BY DEF Begin, HashingSteps, AtFile
  <1>4. /\ es \in NameContents /\ DOMAIN es = DOMAIN hashing.entries \cup {Name} /\ es[Name] = c
        /\ \A m \in DOMAIN hashing.entries : m # Name => es[m] = hashing.entries[m]
    <2>1. PICK f \in NameContents, n \in Names : f = hashing.entries /\ n = Name
      BY <1>1, <1>2, HashingIs
    <2>2. PICK g \in NameContents : g = With(f, n, c)
      BY <2>1, ContentsWith
    <2>3. /\ DOMAIN g = DOMAIN f \cup {n} /\ g[n] = c
          /\ \A m \in DOMAIN f : m # n => g[m] = f[m]
      BY <2>2 DEF With
    <2>4. es = g
      BY <2>1, <2>2
    <2> QED
      BY <2>1, <2>2, <2>3, <2>4
  <1>5. NoEntry \in [folder : Nat, file : Nat, before : Nat, chunks : Seq(Nat)]
        /\ NoEntry.chunks = <<>>
    BY DEF NoEntry, Nothing
  <1>6. hashing' = [hashing EXCEPT !.step = s, !.of = NoEntry, !.todo = Tail(hashing.todo),
                                   !.entries = es]
    BY DEF Entry
  <1> HIDE DEF s, es
  <1>7. /\ hashing' \in Hashings /\ hashing'.step = s /\ hashing'.of = NoEntry
        /\ hashing'.todo = Tail(hashing.todo) /\ hashing'.entries = es
        /\ hashing'.missingOk = hashing.missingOk /\ hashing'.root = hashing.root
    BY <1>1, <1>2, <1>3, <1>4, <1>5, <1>6 DEF Hashings
  <1>8. Inode(hashing.root)' /\ node'[hashing'.root].kind = "root"
    BY <1>7 DEF BackupInv, Inode, treeVars, AtFile
  <1>9. EntriesTrue'
    <2>1. Range(hashing'.todo) \cup DOMAIN hashing'.entries = Range(Declared)
      BY <1>2, <1>4, <1>7 DEF BackupInv, EntriesTrue
    <2>2. ASSUME NEW n \in DOMAIN hashing'.entries
          PROVE  IF hashing'.entries[n] = NoFile THEN hashing'.missingOk
                 ELSE hashing'.entries[n] \in seen'[n]
      <3>1. seen' = seen
        BY DEF treeVars
      <3>2. CASE n = Name
        BY <1>4, <1>7, <3>1, <3>2
      <3>3. CASE n # Name
        <4>1. n \in DOMAIN hashing.entries /\ hashing'.entries[n] = hashing.entries[n]
          BY <1>4, <1>7, <3>3
        <4> QED
          BY <1>7, <3>1, <4>1 DEF BackupInv, EntriesTrue
      <3> QED
        BY <3>2, <3>3
    <2> QED
      BY <2>1, <2>2 DEF EntriesTrue
  <1>10. FileTrue'
    <2>1. hashing'.step = "open" => ~InFolder'
      BY <1>3, <1>7 DEF InFolder, Name
    <2>2. hashing'.step \in {"last", "descend", "open"}
      BY <1>3, <1>7
    <2>3. FileTrue' <=> /\ hashing'.step \in AtFile \ {"descend"} /\ InFolder' =>
                             Inode(hashing.of.folder)' /\ node'[hashing'.of.folder].kind = "folder"
      BY <2>2 DEF FileTrue, ReadTrue, Opened
    <2> QED
      BY <2>1, <2>2, <2>3 DEF AtFile
  <1> QED
    BY <1>3, <1>5, <1>7, <1>8, <1>9, <1>10 DEF BackupInv, AtFile

(* The command opens the root and looks at its path.                       *)
LEMMA OpenRootKeeps ==
  ASSUME TreeOK, BackupInv, OpenRoot
  PROVE  BackupInv'
  <1>1. hashing.step = "root" /\ UNCHANGED treeVars /\ hashing \in Hashings
        /\ hashing' = [hashing EXCEPT !.step = "rootPath", !.root = top]
    BY DEF OpenRoot, Hashing, BackupInv
  <1>2. top \in 1..Len(node) /\ top \in Nat /\ node[top].kind = "root"
    BY LenProperties DEF TreeOK, Inode
  <1>3. "rootPath" \in HashingSteps
    BY DEF HashingSteps
  <1>4. /\ hashing' \in Hashings /\ hashing'.step = "rootPath" /\ hashing'.of = hashing.of
        /\ hashing'.todo = hashing.todo /\ hashing'.entries = hashing.entries
        /\ hashing'.missingOk = hashing.missingOk /\ hashing'.root = top
    BY <1>1, <1>2, <1>3 DEF Hashings
  <1>5. EntriesTrue'
    BY <1>1, <1>4 DEF BackupInv, EntriesTrue, treeVars
  <1>6. FileTrue'
    BY <1>4 DEF FileTrue, ReadTrue, AtFile, Opened
  <1>7. Inode(hashing.root)' /\ node'[hashing'.root].kind = "root"
    BY <1>1, <1>2, <1>4 DEF Inode, treeVars
  <1>8. hashing'.of.chunks = <<>>
    BY <1>1, <1>4 DEF BackupInv
  <1> QED
    BY <1>4, <1>5, <1>6, <1>7, <1>8 DEF BackupInv, AtFile

(* The command goes on with the file it has open.                          *)
LEMMA OpenedKeeps ==
  ASSUME TreeOK, BackupInv, UNCHANGED treeVars, hashing.step \in Opened,
         NEW s \in Opened, To(s), ReadTrue(s)
  PROVE  BackupInv'
  <1>1. hashing \in Hashings /\ s \in HashingSteps
    BY DEF BackupInv, Opened, HashingSteps, AtFile
  <1>2. /\ hashing' \in Hashings /\ hashing'.step = s /\ hashing'.root = hashing.root
        /\ hashing'.of = hashing.of /\ hashing'.todo = hashing.todo
    BY <1>1, ToIs
  <1>3. SameFile /\ EntriesTrue'
    BY <1>1, ToKeeps DEF BackupInv
  <1>4. node' = node /\ top' = top
    BY DEF treeVars
  <1>5. ReadTrue(s)'
    BY <1>2, <1>3, <1>4 DEF ReadTrue, SameFile
  <1>6. FileTrue'
    <2>1. hashing.step \in AtFile \ {"descend"} /\ s \in AtFile \ {"descend"}
      BY DEF Opened, AtFile
    <2>2. InFolder' => Inode(hashing.of.folder)' /\ node'[hashing'.of.folder].kind = "folder"
      BY <1>2, <1>3, <1>4, <2>1 DEF BackupInv, FileTrue, SameFile, Inode
    <2>3. /\ Inode(hashing.of.file)' /\ node'[hashing'.of.file].kind = "file"
          /\ hashing'.of.before <= node'[hashing'.of.file].stamp
      BY <1>2, <1>4 DEF BackupInv, FileTrue, Inode
    <2>4. ReadTrue(hashing.step)'
      BY <1>2, <1>5
    <2> QED
      BY <2>2, <2>3, <2>4 DEF FileTrue
  <1>7. Inode(hashing.root)' /\ node'[hashing'.root].kind = "root" /\ hashing'.todo # <<>>
    BY <1>2, <1>4 DEF BackupInv, Inode, Opened, AtFile
  <1>8. s \notin {"root", "last", "done", "rootPath", "descend", "open"}
    BY DEF Opened
  <1> QED
    BY <1>2, <1>3, <1>6, <1>7, <1>8 DEF BackupInv

(* The path of the root is looked at.                                      *)
LEMMA CheckRootKeeps ==
  ASSUME TreeOK, BackupInv, CheckRoot
  PROVE  BackupInv'
  <1>1. hashing.step \in {"rootPath", "rootAgain", "last"} /\ UNCHANGED treeVars
        /\ hashing \in Hashings
    BY DEF CheckRoot, Hashing, BackupInv
  <1>2. CASE top # hashing.root
    <2>1. Abort
      BY <1>1, <1>2 DEF CheckRoot, Hashing
    <2> QED
      BY <1>1, <2>1, AbortKeeps
  <1>3. CASE top = hashing.root /\ hashing.step = "rootPath"
    <2> DEFINE s == Begin(hashing.todo)
    <2>1. s \in {"last", "descend", "open"} /\ s \in HashingSteps
          /\ (s = "last" => hashing.todo = <<>>) /\ (s # "last" => hashing.todo # <<>>)
          /\ (s = "open" => Head(hashing.todo) \notin Range(FolderNames))
      BY DEF Begin, HashingSteps, AtFile
    <2>2. To(s)
      BY <1>3 DEF CheckRoot, Hashing
    <2> HIDE DEF s
    <2>3. /\ hashing' \in Hashings /\ hashing'.step = s /\ hashing'.root = hashing.root
          /\ hashing'.of = hashing.of /\ hashing'.todo = hashing.todo
      BY <1>1, <2>1, <2>2, ToIs
    <2>4. EntriesTrue'
      BY <1>1, <2>1, <2>2, ToKeeps DEF BackupInv
    <2>5. Inode(hashing.root)' /\ node'[hashing'.root].kind = "root" /\ hashing'.of.chunks = <<>>
      BY <1>1, <1>3, <2>3 DEF BackupInv, Inode, treeVars
    <2>6. s = "open" => ~InFolder'
      BY <2>1, <2>3 DEF InFolder, Name
    <2>7. FileTrue'
      BY <2>1, <2>3, <2>6 DEF FileTrue, ReadTrue, Opened, AtFile
    <2> QED
      BY <2>1, <2>3, <2>4, <2>5, <2>7 DEF BackupInv, AtFile
  <1>4. CASE top = hashing.root /\ hashing.step = "rootAgain"
    <2> DEFINE s == IF InFolder THEN "folderAgain" ELSE "current"
    <2>1. s \in Opened /\ hashing.step \in Opened
      BY <1>4 DEF Opened
    <2>2. To(s)
      BY <1>4 DEF CheckRoot, Hashing
    <2>3. ReadTrue(s)
      BY <1>4 DEF BackupInv, FileTrue, ReadTrue, StillLinked
    <2> QED
      BY <1>1, <2>1, <2>2, <2>3, OpenedKeeps
  <1>5. CASE top = hashing.root /\ hashing.step = "last"
    <2>1. To("done") /\ "done" \in HashingSteps
      BY <1>5 DEF CheckRoot, Hashing, HashingSteps
    <2>2. /\ hashing' \in Hashings /\ hashing'.step = "done" /\ hashing'.root = hashing.root
          /\ hashing'.of = hashing.of /\ hashing'.todo = hashing.todo
      BY <1>1, <2>1, ToIs
    <2>3. EntriesTrue'
      BY <1>1, <2>1, ToKeeps DEF BackupInv
    <2>4. Inode(hashing.root)' /\ node'[hashing'.root].kind = "root" /\ hashing'.todo = <<>>
      BY <1>1, <1>5, <2>2 DEF BackupInv, Inode, treeVars
    <2>5. FileTrue'
      BY <2>2 DEF FileTrue, ReadTrue, Opened, AtFile
    <2> QED
      BY <2>2, <2>3, <2>4, <2>5 DEF BackupInv, AtFile
  <1> QED
    BY <1>1, <1>2, <1>3, <1>4, <1>5

(* A file that is missing.                                                 *)
LEMMA MissingKeeps ==
  ASSUME TreeOK, BackupInv, UNCHANGED treeVars, hashing.step \in AtFile, Missing
  PROVE  BackupInv'
  <1>1. CASE hashing.missingOk
    <2>1. Entry(NoFile)
      BY <1>1 DEF Missing
    <2>2. NoFile \in Seq(Nat)
      BY DEF NoFile
    <2>3. IF NoFile = NoFile THEN hashing.missingOk ELSE NoFile \in seen[Name]
      BY <1>1
    <2> QED
      BY <2>1, <2>2, <2>3, EntryKeeps
  <1>2. CASE ~hashing.missingOk
    <2>1. Abort /\ hashing.step # "root"
      BY <1>2 DEF Missing, AtFile
    <2> QED
      BY <2>1, AbortKeeps
  <1> QED
    BY <1>1, <1>2

(* The folder is opened.                                                   *)
LEMMA OpenFolderKeeps ==
  ASSUME TreeOK, BackupInv, OpenFolder
  PROVE  BackupInv'
  <1> DEFINE folder == Lookup(hashing.root, Folder)
  <1>1. hashing.step = "descend" /\ UNCHANGED treeVars /\ hashing \in Hashings
        /\ hashing.step \in AtFile
    BY DEF OpenFolder, Hashing, BackupInv, AtFile
  <1>2. hashing.root \in 1..Len(node) /\ node[hashing.root].kind = "root"
    BY <1>1 DEF BackupInv, Inode
  <1>3. CASE folder = Nothing
    <2>1. Missing
      BY <1>3 DEF OpenFolder
    <2> QED
      BY <1>1, <2>1, MissingKeeps
  <1>4. CASE folder # Nothing /\ ~IsDirectory(folder)
    <2>1. Abort
      BY <1>4 DEF OpenFolder
    <2> QED
      BY <1>1, <2>1, AbortKeeps
  <1>5. CASE folder # Nothing /\ IsDirectory(folder)
    <2>1. hashing' = [hashing EXCEPT !.step = "open", !.of.folder = folder]
      BY <1>5 DEF OpenFolder
    <2>2. folder \in 1..Len(node) /\ folder \in Nat /\ node[folder].kind = "folder"
      <3>1. PICK r \in 1..Len(node) : r = hashing.root /\ node[r].kind \in {"root", "folder"}
        BY <1>2
      <3>2. IsDirectory(Lookup(r, Folder))
        BY <1>5, <3>1
      <3> QED
        BY <3>1, <3>2, OnlyFolder
    <2> HIDE DEF folder
    <2>3. "open" \in HashingSteps
      BY DEF HashingSteps, AtFile
    <2>4. /\ hashing' \in Hashings /\ hashing'.step = "open" /\ hashing'.root = hashing.root
          /\ hashing'.of.folder = folder /\ hashing'.of.chunks = hashing.of.chunks
          /\ hashing'.todo = hashing.todo /\ hashing'.entries = hashing.entries
          /\ hashing'.missingOk = hashing.missingOk
      BY <1>1, <2>1, <2>2, <2>3 DEF Hashings
    <2>5. EntriesTrue'
      BY <1>1, <2>4 DEF BackupInv, EntriesTrue, treeVars
    <2>6. Inode(hashing.root)' /\ node'[hashing'.root].kind = "root" /\ hashing'.of.chunks = <<>>
          /\ hashing'.todo # <<>>
      BY <1>1, <2>4 DEF BackupInv, Inode, treeVars
    <2>7. Inode(hashing.of.folder)' /\ node'[hashing'.of.folder].kind = "folder"
      BY <1>1, <2>2, <2>4 DEF Inode, treeVars
    <2>8. FileTrue'
      BY <2>4, <2>7 DEF FileTrue, ReadTrue, Opened
    <2> QED
      BY <2>4, <2>5, <2>6, <2>8 DEF BackupInv
  <1> QED
    BY <1>3, <1>4, <1>5

(* The file is opened, or is missing.                                      *)
LEMMA OpenFileKeeps ==
  ASSUME TreeOK, BackupInv, OpenFile
  PROVE  BackupInv'
  <1> DEFINE file == Lookup(Parent, Name)
  <1>1. hashing.step = "open" /\ UNCHANGED treeVars /\ hashing \in Hashings
        /\ hashing.step \in AtFile /\ hashing.step \in AtFile \ {"descend"}
    BY DEF OpenFile, Hashing, BackupInv, AtFile
  <1>2. CASE file = Nothing
    <2>1. Missing
      BY <1>2 DEF OpenFile
    <2> QED
      BY <1>1, <2>1, MissingKeeps
  <1>3. CASE file # Nothing /\ ~IsFile(file)
    <2>1. Abort
      BY <1>3 DEF OpenFile
    <2> QED
      BY <1>1, <2>1, AbortKeeps
  <1>4. CASE file # Nothing /\ IsFile(file)
    <2>1. hashing' = [hashing EXCEPT !.step = "read", !.of.file = file,
                                     !.of.before = node[file].stamp]
      BY <1>4 DEF OpenFile
    <2>2. file \in 1..Len(node) /\ file \in Nat /\ node[file].kind = "file"
          /\ node[file].stamp \in Nat /\ node[file].content \in Seq(Nat)
      <3>1. PICK p \in 1..Len(node) : p = Parent /\ node[p].kind \in {"root", "folder"}
        BY <1>1, ParentIs
      <3>2. PICK i \in 1..Len(node) : i = file /\ i \in Nat
        BY <1>4, <3>1, LookupIs
      <3>3. node[i].kind = "file"
        BY <1>4, <3>2 DEF IsFile
      <3> QED
        BY <3>2, <3>3, FilesAre
    <2> HIDE DEF file
    <2>3. "read" \in HashingSteps
      BY DEF HashingSteps, AtFile
    <2>4. PICK stamp \in Nat : stamp = node[file].stamp
      BY <2>2
    <2>5. hashing' = [hashing EXCEPT !.step = "read", !.of.file = file, !.of.before = stamp]
      BY <2>1, <2>4
    <2>6. /\ hashing' \in Hashings /\ hashing'.step = "read" /\ hashing'.root = hashing.root
          /\ hashing'.of.folder = hashing.of.folder /\ hashing'.of.chunks = hashing.of.chunks
          /\ hashing'.of.file = file /\ hashing'.of.before = stamp
          /\ hashing'.todo = hashing.todo /\ hashing'.entries = hashing.entries
          /\ hashing'.missingOk = hashing.missingOk
      BY <1>1, <2>2, <2>3, <2>5 DEF Hashings
    <2>7. EntriesTrue'
      BY <1>1, <2>6 DEF BackupInv, EntriesTrue, treeVars
    <2>8. Inode(hashing.root)' /\ node'[hashing'.root].kind = "root" /\ hashing'.of.chunks = <<>>
          /\ hashing'.todo # <<>>
      BY <1>1, <2>6 DEF BackupInv, Inode, treeVars
    <2>9. InFolder' => Inode(hashing.of.folder)' /\ node'[hashing'.of.folder].kind = "folder"
      BY <1>1, <2>6 DEF BackupInv, FileTrue, InFolder, Name, Inode, treeVars, AtFile
    <2>10. /\ Inode(hashing.of.file)' /\ node'[hashing'.of.file].kind = "file"
           /\ hashing'.of.before <= node'[hashing'.of.file].stamp
      BY <1>1, <2>2, <2>4, <2>6 DEF Inode, treeVars
    <2>11. Begins(hashing'.of.chunks, node'[hashing'.of.file].content)
      <3>1. Len(node[file].content) \in Nat /\ Len(<<>>) = 0
        BY <2>2, LenProperties
      <3> QED
        BY <1>1, <2>6, <2>8, <3>1 DEF Begins, treeVars
    <2>12. ReadTrue(hashing.step)'
      BY <2>6, <2>11 DEF ReadTrue, Begins
    <2>13. FileTrue'
      BY <2>9, <2>10, <2>12 DEF FileTrue
    <2> QED
      BY <2>6, <2>7, <2>8, <2>13 DEF BackupInv
  <1> QED
    BY <1>2, <1>3, <1>4

(* What has been read of a content.                                        *)
LEMMA BeginsMore ==
  ASSUME NEW chunks \in Seq(Nat), NEW content \in Seq(Nat), Begins(chunks, content)
  PROVE  /\ Len(chunks) + 1 <= Len(content) =>
              Begins(Append(chunks, content[Len(chunks) + 1]), content)
         /\ Len(chunks) = Len(content) => chunks = content
         /\ Len(chunks) + 1 > Len(content) => Len(chunks) = Len(content)
  <1>1. Len(chunks) \in Nat /\ Len(content) \in Nat
    BY LenProperties
  <1>2. ASSUME Len(chunks) + 1 <= Len(content)
        PROVE  Begins(Append(chunks, content[Len(chunks) + 1]), content)
    <2>1. PICK c : c = content[Len(chunks) + 1]
      OBVIOUS
    <2>2. c \in Nat
      BY <1>1, <1>2, <2>1, ElementOfSeq
    <2> DEFINE more == Append(chunks, c)
    <2>3. Len(more) = Len(chunks) + 1 /\ more[Len(chunks) + 1] = c
          /\ \A k \in 1..Len(chunks) : more[k] = chunks[k]
      BY <2>2
    <2> HIDE DEF more
    <2>4. \A k \in 1..Len(more) : more[k] = content[k]
      <3> TAKE k \in 1..Len(more)
      <3>1. CASE k = Len(chunks) + 1
        BY <2>1, <2>3, <3>1
      <3>2. CASE k # Len(chunks) + 1
        <4>1. k \in 1..Len(chunks)
          BY <1>1, <2>3, <3>2
        <4> QED
          BY <2>3, <4>1 DEF Begins
      <3> QED
        BY <3>1, <3>2
    <2>5. Begins(more, content)
      BY <1>1, <1>2, <2>3, <2>4 DEF Begins
    <2> QED
      BY <2>1, <2>5 DEF more
  <1>3. Len(chunks) = Len(content) => chunks = content
    <2> SUFFICES ASSUME Len(chunks) = Len(content) PROVE chunks = content
      OBVIOUS
    <2>1. \A k \in 1..Len(chunks) : chunks[k] = content[k]
      BY DEF Begins
    <2> QED
      BY <2>1, SeqEqual
  <1>4. Len(chunks) + 1 > Len(content) => Len(chunks) = Len(content)
    BY <1>1 DEF Begins
  <1> QED
    BY <1>2, <1>3, <1>4

(* The file that is open.                                                  *)
LEMMA OpenedIs ==
  ASSUME TreeOK, BackupInv, hashing.step \in Opened
  PROVE  /\ hashing.of.file \in 1..Len(node) /\ node[hashing.of.file].kind = "file"
         /\ node[hashing.of.file].content \in Seq(Nat) /\ node[hashing.of.file].content # NoFile
         /\ hashing.of.chunks \in Seq(Nat) /\ hashing \in Hashings
         /\ hashing.step \in AtFile \ {"descend"} /\ hashing.step # "root"
  <1>1. hashing.of.file \in 1..Len(node) /\ node[hashing.of.file].kind = "file"
    BY DEF BackupInv, FileTrue, Inode
  <1>2. node[hashing.of.file].content \in Seq(Nat) /\ node[hashing.of.file].content # NoFile
    BY <1>1, FilesAre
  <1>3. hashing \in Hashings /\ hashing.of.chunks \in Seq(Nat)
    BY HashingIs DEF BackupInv
  <1> QED
    BY <1>1, <1>2, <1>3 DEF Opened, AtFile

(* A chunk is read.                                                        *)
LEMMA ReadChunkKeeps ==
  ASSUME TreeOK, BackupInv, ReadChunk
  PROVE  BackupInv'
  <1>1. hashing.step = "read" /\ UNCHANGED treeVars /\ hashing.step \in Opened
    BY DEF ReadChunk, Hashing, Opened
  <1>2. PICK content \in Seq(Nat), chunks \in Seq(Nat) :
          content = node[hashing.of.file].content /\ chunks = hashing.of.chunks
    BY <1>1, OpenedIs
  <1>3. hashing \in Hashings /\ Len(chunks) \in Nat /\ Len(content) \in Nat
    BY <1>1, <1>2, OpenedIs, LenProperties
  <1>4. node[hashing.of.file].stamp = hashing.of.before => Begins(chunks, content)
    BY <1>1, <1>2 DEF BackupInv, FileTrue, ReadTrue
  <1>5. CASE Len(chunks) + 1 > Len(content)
    <2>1. To("after") /\ "after" \in Opened
      BY <1>2, <1>5 DEF ReadChunk, Opened
    <2>2. ReadTrue("after")
      BY <1>2, <1>4 DEF ReadTrue
    <2> QED
      BY <1>1, <2>1, <2>2, OpenedKeeps
  <1>6. CASE ~(Len(chunks) + 1 > Len(content))
    <2>1. PICK more : more = Append(chunks, content[Len(chunks) + 1])
      OBVIOUS
    <2>2. more \in Seq(Nat)
      <3>1. content[Len(chunks) + 1] \in Nat
        BY <1>3, <1>6, ElementOfSeq
      <3> QED
        BY <2>1, <3>1
    <2>3. hashing' = [hashing EXCEPT !.of.chunks = more]
      BY <1>2, <1>6, <2>1 DEF ReadChunk
    <2>4. node[hashing.of.file].stamp = hashing.of.before => Begins(more, content)
      BY <1>3, <1>4, <1>6, <2>1, BeginsMore
    <2>5. /\ hashing' \in Hashings /\ hashing'.step = "read" /\ hashing'.root = hashing.root
          /\ hashing'.of.folder = hashing.of.folder /\ hashing'.of.chunks = more
          /\ hashing'.of.file = hashing.of.file /\ hashing'.of.before = hashing.of.before
          /\ hashing'.todo = hashing.todo /\ hashing'.entries = hashing.entries
          /\ hashing'.missingOk = hashing.missingOk
      BY <1>1, <1>3, <2>2, <2>3 DEF Hashings
    <2>6. node' = node /\ seen' = seen
      BY <1>1 DEF treeVars
    <2>7. EntriesTrue'
      BY <2>5, <2>6 DEF BackupInv, EntriesTrue
    <2>8. Inode(hashing.root)' /\ node'[hashing'.root].kind = "root" /\ hashing'.todo # <<>>
      BY <1>1, <2>5, <2>6 DEF BackupInv, Inode, AtFile
    <2>9. InFolder' => Inode(hashing.of.folder)' /\ node'[hashing'.of.folder].kind = "folder"
      BY <1>1, <2>5, <2>6 DEF BackupInv, FileTrue, InFolder, Name, Inode, AtFile
    <2>10. /\ Inode(hashing.of.file)' /\ node'[hashing'.of.file].kind = "file"
           /\ hashing'.of.before <= node'[hashing'.of.file].stamp
      BY <1>1, <2>5, <2>6 DEF BackupInv, FileTrue, Inode, Opened
    <2>11. ReadTrue(hashing.step)'
      <3>1. node'[hashing'.of.file].stamp = hashing'.of.before =>
              Begins(hashing'.of.chunks, node'[hashing'.of.file].content)
        BY <1>2, <2>4, <2>5, <2>6
      <3> QED
        BY <2>5, <3>1 DEF ReadTrue, Begins
    <2>12. FileTrue'
      BY <2>9, <2>10, <2>11 DEF FileTrue
    <2> QED
      BY <2>5, <2>7, <2>8, <2>12 DEF BackupInv
  <1> QED
    BY <1>5, <1>6

(* The file is as it was when it was opened, or the command fails.         *)
LEMMA CheckUnchangedKeeps ==
  ASSUME TreeOK, BackupInv, CheckUnchanged
  PROVE  BackupInv'
  <1>1. hashing.step = "after" /\ UNCHANGED treeVars /\ hashing.step \in Opened
    BY DEF CheckUnchanged, Hashing, Opened
  <1>2. CASE ~ /\ node[hashing.of.file].stamp = hashing.of.before
               /\ Len(hashing.of.chunks) = Len(node[hashing.of.file].content)
    <2>1. Abort
      BY <1>2 DEF CheckUnchanged
    <2> QED
      BY <1>1, <2>1, AbortKeeps
  <1>3. CASE /\ node[hashing.of.file].stamp = hashing.of.before
             /\ Len(hashing.of.chunks) = Len(node[hashing.of.file].content)
    <2>1. To("rootAgain") /\ "rootAgain" \in Opened
      BY <1>3 DEF CheckUnchanged, Opened
    <2>2. PICK content \in Seq(Nat), chunks \in Seq(Nat), file \in 1..Len(node) :
            /\ content = node[file].content /\ chunks = hashing.of.chunks
            /\ file = hashing.of.file /\ node[file].kind = "file" /\ content # NoFile
      BY <1>1, OpenedIs
    <2>3. chunks = content
      <3>1. Begins(chunks, content) /\ Len(chunks) = Len(content)
        BY <1>1, <1>3, <2>2 DEF BackupInv, FileTrue, ReadTrue
      <3> QED
        BY <3>1, BeginsMore
    <2>4. ASSUME top = hashing.root, StillLinked, StillNamed
          PROVE  EntryRead
      <3>1. PICK n \in Names : n = Name
        BY <1>1, NextName DEF BackupInv, AtFile, Opened
      <3>2. hashing.step \in AtFile \ {"descend"}
        BY <1>1, OpenedIs
      <3>3. Visible(n) = content
        <4>1. CASE InFolder
          <5>1. PICK f \in 1..Len(node) : f = Parent /\ f = hashing.of.folder /\ node[f].kind = "folder"
            BY <3>2, <4>1, ParentIs
          <5>2. Lookup(top, Folder) = f /\ Lookup(f, n) = file
            BY <2>2, <2>4, <3>1, <4>1, <5>1 DEF StillLinked, StillNamed
          <5>3. n \in Range(FolderNames)
            BY <3>1, <4>1 DEF InFolder
          <5> QED
            BY <2>2, <5>1, <5>2, <5>3, VisibleInFolder
        <4>2. CASE ~InFolder
          <5>1. Parent = top
            BY <2>4, <3>2, <4>2, ParentIs
          <5>2. Lookup(top, n) = file /\ n \notin Range(FolderNames)
            BY <2>2, <2>4, <3>1, <4>2, <5>1 DEF StillNamed, InFolder
          <5> QED
            BY <2>2, <5>2, VisibleInRoot
        <4> QED
          BY <4>1, <4>2
      <3>4. Visible(n) \in seen[n]
        BY DEF TreeOK
      <3> QED
        BY <2>2, <2>3, <3>1, <3>3, <3>4 DEF EntryRead
    <2>5. ReadTrue("rootAgain")
      BY <2>4 DEF ReadTrue
    <2> QED
      BY <1>1, <2>1, <2>5, OpenedKeeps
  <1> QED
    BY <1>2, <1>3

(* The folder is where it was.                                             *)
LEMMA CheckFolderKeeps ==
  ASSUME TreeOK, BackupInv, CheckFolder
  PROVE  BackupInv'
  <1>1. hashing.step = "folderAgain" /\ UNCHANGED treeVars /\ hashing.step \in Opened
    BY DEF CheckFolder, Hashing, Opened
  <1>2. CASE Lookup(hashing.root, Folder) # hashing.of.folder
    <2>1. Abort
      BY <1>2 DEF CheckFolder
    <2> QED
      BY <1>1, <2>1, AbortKeeps
  <1>3. CASE Lookup(hashing.root, Folder) = hashing.of.folder
    <2>1. To("current") /\ "current" \in Opened
      BY <1>3 DEF CheckFolder, Opened
    <2>2. ReadTrue("current")
      BY <1>1, <1>3 DEF BackupInv, FileTrue, ReadTrue, StillLinked
    <2> QED
      BY <1>1, <2>1, <2>2, OpenedKeeps
  <1> QED
    BY <1>2, <1>3

(* The name leads to the file that was read.                               *)
LEMMA CheckNameKeeps ==
  ASSUME TreeOK, BackupInv, CheckName
  PROVE  BackupInv'
  <1>1. hashing.step = "current" /\ UNCHANGED treeVars /\ hashing.step \in Opened
        /\ hashing.step \in AtFile
    BY DEF CheckName, Hashing, Opened, AtFile
  <1>2. CASE ~StillNamed
    <2>1. Abort
      BY <1>2 DEF CheckName, StillNamed
    <2> QED
      BY <1>1, <2>1, AbortKeeps
  <1>3. CASE StillNamed
    <2>1. Entry(hashing.of.chunks)
      BY <1>3 DEF CheckName, StillNamed
    <2>2. hashing.of.chunks \in Seq(Nat)
      BY <1>1, OpenedIs
    <2>3. EntryRead
      BY <1>1, <1>3 DEF BackupInv, FileTrue, ReadTrue
    <2>4. IF hashing.of.chunks = NoFile THEN hashing.missingOk ELSE hashing.of.chunks \in seen[Name]
      BY <2>3 DEF EntryRead
    <2> QED
      BY <1>1, <2>1, <2>2, <2>4, EntryKeeps
  <1> QED
    BY <1>2, <1>3

(* What others do meanwhile.                                               *)
LEMMA HashingWhileMoved ==
  ASSUME TreeOK, BackupInv, TreeMoved, UNCHANGED hashing
  PROVE  BackupInv'
  <1>1. \A i \in 1..Len(node) : i \in 1..Len(node') /\ node'[i].kind = node[i].kind
    BY Unstamped
  <1>2. hashing.step # "root" => Inode(hashing.root)' /\ node'[hashing'.root].kind = "root"
    BY <1>1 DEF BackupInv, Inode
  <1>3. EntriesTrue'
    <2>1. \A n \in DOMAIN hashing.entries : n \in Names
      BY HashingIs, MapsAre DEF BackupInv, NameContents
    <2>2. \A n \in DOMAIN hashing.entries : seen[n] \subseteq seen'[n]
      BY <2>1 DEF TreeMoved
    <2> QED
      BY <2>2 DEF BackupInv, EntriesTrue
  <1>4. (Name' = Name) /\ (InFolder' <=> InFolder) /\ Parent' = Parent
    BY DEF Name, InFolder, Parent
  <1>5. hashing.step \in AtFile \ {"descend"} /\ InFolder' =>
          Inode(hashing.of.folder)' /\ node'[hashing'.of.folder].kind = "folder"
    BY <1>1, <1>4 DEF BackupInv, FileTrue, Inode
  <1>6. ASSUME hashing.step \in Opened
        PROVE  /\ Inode(hashing.of.file)' /\ node'[hashing'.of.file].kind = "file"
               /\ hashing'.of.before <= node'[hashing'.of.file].stamp
               /\ node'[hashing'.of.file].stamp = hashing'.of.before =>
                    node'[hashing'.of.file] = node[hashing.of.file]
                    /\ node[hashing.of.file].stamp = hashing.of.before
    <2>1. PICK f \in 1..Len(node) : f = hashing.of.file /\ node[f].kind = "file"
      BY <1>6, OpenedIs
    <2>2. PICK before \in Nat : before = hashing.of.before /\ before <= node[f].stamp
      BY <1>6, <2>1, HashingIs DEF BackupInv, FileTrue
    <2>3. /\ f \in 1..Len(node') /\ node'[f].kind = "file"
          /\ node[f].stamp \in Nat /\ node'[f].stamp \in Nat /\ node[f].stamp <= node'[f].stamp
          /\ node'[f] # node[f] => node[f].stamp < node'[f].stamp
      BY <2>1, Unstamped
    <2>4. before <= node'[f].stamp /\ (node'[f].stamp = before => node'[f] = node[f])
      BY <2>2, <2>3
    <2> QED
      BY <2>1, <2>2, <2>3, <2>4 DEF Inode
  <1>7. ASSUME hashing.step \in Opened, StillNamed'
        PROVE  StillNamed
    <2>1. PICK f \in 1..Len(node) : f = hashing.of.file
      BY <1>7, OpenedIs
    <2>2. PICK p \in 1..Len(node) : p = Parent /\ node[p].kind \in {"root", "folder"}
      BY <1>7, OpenedIs, ParentIs
    <2>3. PICK n : n = Name
      OBVIOUS
    <2>4. Lookup(p, n)' = f
      BY <1>4, <1>7, <2>1, <2>2, <2>3 DEF StillNamed, Lookup
    <2>5. Lookup(p, n) = f
      BY <2>2, <2>4, LinkedBefore
    <2> QED
      BY <2>1, <2>2, <2>3, <2>5 DEF StillNamed
  <1>8. ASSUME hashing.step \in Opened, StillLinked'
        PROVE  StillLinked
    <2> SUFFICES ASSUME InFolder
                 PROVE  Lookup(hashing.root, Folder) = hashing.of.folder
      BY DEF StillLinked
    <2>1. PICK f \in 1..Len(node) : f = hashing.of.folder
      BY <1>8, OpenedIs, ParentIs
    <2>2. PICK r \in 1..Len(node) : r = hashing.root /\ node[r].kind \in {"root", "folder"}
      BY <1>8, OpenedIs DEF BackupInv, Inode
    <2>3. Lookup(r, Folder)' = f
      BY <1>4, <1>8, <2>1, <2>2 DEF StillLinked, Lookup
    <2>4. Lookup(r, Folder) = f
      BY <2>2, <2>3, LinkedBefore
    <2> QED
      BY <2>1, <2>2, <2>4
  <1>9. ASSUME hashing.step \in Opened, top' = hashing'.root
        PROVE  top = hashing.root
    <2>1. hashing.root \in 1..Len(node)
      BY <1>9, OpenedIs DEF BackupInv, Inode
    <2> QED
      BY <1>9, <2>1, RootBefore
  <1>10. ASSUME EntryRead, hashing.step \in Opened
         PROVE  EntryRead'
    <2>1. Name \in Names
      BY <1>10, NextName, OpenedIs DEF BackupInv
    <2>2. seen[Name] \subseteq seen'[Name]
      BY <2>1 DEF TreeMoved
    <2> QED
      BY <1>4, <1>10, <2>2 DEF EntryRead
  <1>11. ReadTrue(hashing.step)'
    <2>1. CASE hashing.step \notin Opened
      BY <2>1 DEF ReadTrue, Opened
    <2>2. CASE hashing.step \in {"read", "after"}
      <3>1. node'[hashing'.of.file].stamp = hashing'.of.before =>
              Begins(hashing.of.chunks, node[hashing.of.file].content)
        BY <1>6, <2>2 DEF BackupInv, FileTrue, ReadTrue, Opened
      <3>2. hashing.step \in Opened
        BY <2>2 DEF Opened
      <3> QED
        BY <1>6, <2>2, <3>1, <3>2 DEF ReadTrue, Begins
    <2>3. CASE hashing.step \in {"rootAgain", "folderAgain", "current"}
      <3>1. hashing.step \in Opened
        BY <2>3 DEF Opened
      <3>2. ReadTrue(hashing.step)
        BY DEF BackupInv, FileTrue
      <3>3. (StillNamed' => StillNamed) /\ (StillLinked' => StillLinked)
            /\ (top' = hashing'.root => top = hashing.root) /\ (EntryRead => EntryRead')
        BY <1>7, <1>8, <1>9, <1>10, <3>1
      <3> QED
        BY <2>3, <3>2, <3>3 DEF ReadTrue
    <2> QED
      BY <2>1, <2>2, <2>3 DEF Opened
  <1>12. FileTrue'
    BY <1>5, <1>6, <1>11 DEF FileTrue
  <1>13. /\ hashing' \in Hashings
         /\ hashing'.step \in AtFile => hashing'.todo # <<>>
         /\ hashing'.step \in {"last", "done"} => hashing'.todo = <<>>
         /\ hashing'.step \in {"root", "rootPath", "descend", "open"} => hashing'.of.chunks = <<>>
    BY DEF BackupInv
  <1> QED
    BY <1>2, <1>3, <1>12, <1>13 DEF BackupInv

(* The command begins.                                                     *)
LEMMA DeclaredAre ==
  Declared \in Seq(Names)
  <1>1. /\ Len(RootNames) \in Nat /\ Len(FolderNames) \in Nat
        /\ \A i \in 1..Len(RootNames) : RootNames[i] \in Names
        /\ \A i \in 1..Len(FolderNames) : FolderNames[i] \in Names
    BY NamesAre
  <1>2. Front(RootNames) \in Seq(Names)
    <2>1. PICK k \in Int : k = Len(RootNames) - 1
      BY <1>1
    <2>2. 1 \in Int /\ \A i \in 1..k : RootNames[i] \in Names
      BY <1>1, <2>1
    <2>3. SubSeq(RootNames, 1, k) \in Seq(Names)
      BY <2>2, SubSeqProperties
    <2> QED
      BY <2>1, <2>3 DEF Front
  <1>3. FolderNames \in Seq(Names)
    <2>1. PICK k \in Int : k = Len(FolderNames)
      BY <1>1
    <2>2. 1 \in Int /\ \A i \in 1..k : FolderNames[i] \in Names
      BY <1>1, <2>1
    <2>3. SubSeq(FolderNames, 1, k) \in Seq(Names)
      BY <2>2, SubSeqProperties
    <2>4. SubSeq(FolderNames, 1, Len(FolderNames)) = FolderNames
      BY NamesAre, SubSeqFull
    <2> QED
      BY <2>1, <2>3, <2>4
  <1> QED
    BY <1>2, <1>3, ConcatProperties DEF Declared

(* The backup at first.                                                    *)
LEMMA BackupAtFirst ==
  ASSUME BackupInit
  PROVE  BackupInv
  <1>1. PICK ok \in BOOLEAN :
          hashing = [step |-> "root", missingOk |-> ok, root |-> Nothing, of |-> NoEntry,
                     todo |-> Declared, entries |-> <<>>]
    BY DEF BackupInit
  <1>2. NoEntry \in [folder : Nat, file : Nat, before : Nat, chunks : Seq(Nat)]
        /\ NoEntry.chunks = <<>>
    BY DEF NoEntry, Nothing
  <1>3. "root" \in HashingSteps /\ Nothing \in Nat
    BY DEF HashingSteps, Nothing
  <1>4. hashing \in Hashings
    BY <1>1, <1>2, <1>3, DeclaredAre, NoContents DEF Hashings
  <1>5. /\ hashing.step = "root" /\ hashing.todo = Declared /\ hashing.entries = <<>>
        /\ hashing.of = NoEntry
    BY <1>1
  <1>6. EntriesTrue
    BY <1>5, NoContents DEF EntriesTrue
  <1>7. FileTrue
    BY <1>5 DEF FileTrue, ReadTrue, AtFile, Opened
  <1> QED
    BY <1>2, <1>4, <1>5, <1>6, <1>7 DEF BackupInv, AtFile

(* Each step of the command, and of others.                                *)
LEMMA BackupKeeps ==
  ASSUME TreeOK, BackupInv, BackupNext
  PROVE  BackupInv'
  <1>1. CASE hashing.step \notin {"done", "failed"} /\ Others /\ UNCHANGED hashing
    BY <1>1, OthersMove, HashingWhileMoved
  <1> QED
    BY <1>1, OpenRootKeeps, CheckRootKeeps, OpenFolderKeeps, OpenFileKeeps, ReadChunkKeeps,
       CheckUnchangedKeeps, CheckFolderKeeps, CheckNameKeeps
       DEF BackupNext

(* What it ends with.                                                      *)
LEMMA BackupTrue ==
  ASSUME BackupInv
  PROVE  EntriesShown
  <1> SUFFICES ASSUME hashing.step = "done"
               PROVE  /\ DOMAIN hashing.entries = Range(Declared)
                      /\ \A n \in Range(Declared) :
                           IF hashing.entries[n] = NoFile THEN hashing.missingOk
                           ELSE hashing.entries[n] \in seen[n]
    BY DEF EntriesShown
  <1>1. hashing.todo = <<>>
    BY DEF BackupInv
  <1>2. Range(hashing.todo) = {}
    <2>1. PICK s \in Seq(Names) : s = <<>> /\ Len(s) = 0
      <3>1. <<>> \in Seq(Names) /\ Len(<<>>) = 0
        OBVIOUS
      <3> QED
        BY <3>1
    <2>2. \A x \in Range(s) : \E i \in 1..Len(s) : x = s[i]
      BY Elements
    <2> QED
      BY <1>1, <2>1, <2>2
  <1> QED
    BY <1>2 DEF BackupInv, EntriesTrue

-----------------------------------------------------------------------------
(* The inventory.                                                          *)

(* A set of numbers has a least one.                                       *)
LEMMA LeastNumber ==
  ASSUME NEW T \in SUBSET Nat, T # {}
  PROVE  \E x \in T : \A y \in T : x <= y
  <1> DEFINE R == OpToRel(<, Nat)
  <1>1. IsWellFoundedOn(R, Nat)
    BY NatLessThanWellFounded
  <1>2. \A x, y \in Nat : x < y => <<x, y>> \in R
    BY DEF OpToRel
  <1> HIDE DEF R
  <1>3. PICK x \in T : \A y \in T : ~(<<y, x>> \in R)
    BY <1>1, WFMin
  <1>4. \A y \in T : x <= y
    <2> TAKE y \in T
    <2>1. x \in Nat /\ y \in Nat /\ ~(y < x)
      BY <1>2, <1>3
    <2> QED
      BY <2>1
  <1> QED
    BY <1>4

(* The position of a name among all: those of the root come first, the     *)
(* folder last of them.                                                    *)
LEMMA PositionsAre ==
  /\ \A n \in Names : Position(AllNames, n) \in Nat
  /\ \A n \in Range(RootNames) : n # Folder => Position(AllNames, n) < Position(AllNames, Folder)
  <1> DEFINE r == Len(RootNames)
             f == Len(FolderNames)
  <1>1. r \in Nat /\ f \in Nat /\ r >= 1 /\ Folder = RootNames[r]
    BY NamesAre
  <1>2. /\ AllNames \in Seq(STRING) /\ Len(AllNames) = r + f
        /\ \A i \in 1..r : AllNames[i] = RootNames[i]
        /\ \A i \in 1..f : AllNames[r + i] = FolderNames[i]
    BY NamesAre, ConcatProperties DEF AllNames
  <1>3. DOMAIN AllNames = 1..(r + f)
    BY <1>1, <1>2, LenProperties
  <1>4. \A n : (\E i \in 1..r : n = RootNames[i]) \/ (\E i \in 1..f : n = FolderNames[i]) =>
          Position(AllNames, n) \in 1..(r + f) /\ AllNames[Position(AllNames, n)] = n
    <2> TAKE n
    <2> HAVE (\E i \in 1..r : n = RootNames[i]) \/ (\E i \in 1..f : n = FolderNames[i])
    <2>1. \E k \in DOMAIN AllNames : AllNames[k] = n
      <3>1. CASE \E i \in 1..r : n = RootNames[i]
        <4>1. PICK i \in 1..r : n = RootNames[i]
          BY <3>1
        <4>2. i \in 1..(r + f)
          BY <1>1
        <4> QED
          BY <1>2, <1>3, <4>1, <4>2
      <3>2. CASE \E i \in 1..f : n = FolderNames[i]
        <4>1. PICK i \in 1..f : n = FolderNames[i]
          BY <3>2
        <4>2. r + i \in 1..(r + f)
          BY <1>1
        <4> QED
          BY <1>2, <1>3, <4>1, <4>2
      <3> QED
        BY <3>1, <3>2
    <2> QED
      BY <1>3, <2>1 DEF Position
  <1>5. /\ \A n \in Range(RootNames) : \E i \in 1..r : n = RootNames[i]
        /\ \A n \in Range(FolderNames) : \E i \in 1..f : n = FolderNames[i]
    BY NamesAre, Elements
  <1>6. \A n \in Names : Position(AllNames, n) \in Nat
    <2> TAKE n \in Names
    <2>1. Position(AllNames, n) \in 1..(r + f)
      BY <1>4, <1>5, NamesAre
    <2> QED
      BY <1>1, <2>1
  <1>7. \A n \in Range(RootNames) :
          Position(AllNames, n) \in 1..r /\ RootNames[Position(AllNames, n)] = n
    <2> TAKE n \in Range(RootNames)
    <2>1. Position(AllNames, n) \in 1..(r + f) /\ AllNames[Position(AllNames, n)] = n
      BY <1>4, <1>5
    <2>2. PICK p \in 1..(r + f) : p = Position(AllNames, n)
      BY <2>1
    <2>3. CASE p <= r
      <3>1. p \in 1..r
        BY <1>1, <2>3
      <3> QED
        BY <1>2, <2>1, <2>2, <3>1
    <2>4. CASE p > r
      <3>1. p - r \in 1..f /\ p = r + (p - r)
        BY <1>1, <2>4
      <3>2. PICK i \in 1..f : p = r + i
        BY <3>1
      <3>3. n = FolderNames[i]
        BY <1>2, <2>1, <2>2, <3>2
      <3>4. FALSE
        BY <3>3, NamesAre
      <3> QED
        BY <3>4
    <2> QED
      BY <1>1, <2>3, <2>4
  <1>8. ASSUME NEW n \in Range(RootNames), n # Folder
        PROVE  Position(AllNames, n) < Position(AllNames, Folder)
    <2>1. PICK p \in 1..r : p = Position(AllNames, n) /\ RootNames[p] = n
      BY <1>7
    <2>2. PICK q \in 1..r : q = Position(AllNames, Folder) /\ RootNames[q] = Folder
      BY <1>7, NamesAre
    <2>3. q = r
      <3>1. r \in 1..r /\ DOMAIN RootNames = 1..r
        BY <1>1, NamesAre, LenProperties
      <3> QED
        BY <1>1, <2>2, <3>1, TreeAssumption DEF IsInjective
    <2>4. p # r
      BY <1>1, <1>8, <2>1
    <2> QED
      BY <1>1, <2>1, <2>2, <2>3, <2>4
  <1> QED
    BY <1>6, <1>8

(* The name that a walk comes to next.                                     *)
LEMMA FirstIs ==
  ASSUME NEW names \in SUBSET Names, names # {}
  PROVE  /\ FirstOf(names) \in names
         /\ names \subseteq Range(RootNames) /\ FirstOf(names) = Folder => names = {Folder}
  <1> DEFINE T == {Position(AllNames, n) : n \in names}
  <1>1. T \in SUBSET Nat /\ T # {}
    BY PositionsAre
  <1>2. PICK x \in T : \A y \in T : x <= y
    <2> HIDE DEF T
    <2> QED
      BY <1>1, LeastNumber
  <1>3. \E n \in names : \A m \in names : Position(AllNames, n) <= Position(AllNames, m)
    BY <1>2
  <1>4. FirstOf(names) \in names
        /\ \A m \in names : Position(AllNames, FirstOf(names)) <= Position(AllNames, m)
    BY <1>3 DEF FirstOf
  <1>5. ASSUME names \subseteq Range(RootNames), FirstOf(names) = Folder, NEW m \in names
        PROVE  m = Folder
    <2> SUFFICES ASSUME m # Folder PROVE FALSE
      OBVIOUS
    <2>1. Position(AllNames, m) < Position(AllNames, Folder)
      BY <1>5, PositionsAre
    <2>2. Position(AllNames, Folder) <= Position(AllNames, m)
      BY <1>4, <1>5
    <2>3. Position(AllNames, m) \in Nat /\ Position(AllNames, Folder) \in Nat
      BY PositionsAre, NamesAre
    <2> QED
      BY <2>1, <2>2, <2>3
  <1> QED
    BY <1>4, <1>5

(* The parts of the command's state.                                       *)
LEMMA SurveyIs ==
  ASSUME survey \in Surveys
  PROVE  /\ survey.step \in SurveySteps /\ survey.again \in BOOLEAN /\ survey.current \in BOOLEAN
         /\ survey.inventory \in NameContents /\ survey.root \in Nat /\ survey.folder \in Nat
         /\ survey.second \in BOOLEAN /\ survey.names \in SUBSET Names
         /\ survey.first \in Scans /\ survey.first.files \in NameContents
         /\ survey.first.identities \in Identities
         /\ survey.scan \in Scans /\ survey.scan.files \in NameContents
         /\ survey.scan.identities \in Identities
         /\ survey.of.name \in Names \cup {""} /\ survey.of.size \in Nat
         /\ survey.of.linked \in {<<>>} \cup (Nat \X Nat)
         /\ survey.of.file \in Nat /\ survey.of.chunks \in Seq(Nat)
  BY DEF Surveys, Scans

(* A walk that has noted nothing.                                          *)
LEMMA BlankIs ==
  Blank \in Scans /\ DOMAIN Blank.files = {} /\ DOMAIN Blank.identities = {}
  <1>1. <<>> \in NameContents /\ DOMAIN <<>> = {}
    BY NoContents
  <1>2. <<>> \in Identities
    <2>1. <<>> \in [{} -> Nat \X Nat] /\ {} \in SUBSET Names
      OBVIOUS
    <2> QED
      BY <2>1, MapsAre DEF Identities
  <1> QED
    BY <1>1, <1>2 DEF Blank, Scans

(* A name that has been come to.                                           *)
LEMMA PendingIs ==
  /\ Pending \in [name : Names \cup {""}, size : Nat, linked : {<<>>} \cup (Nat \X Nat),
                  file : Nat, chunks : Seq(Nat)]
  /\ Pending.chunks = <<>>
  /\ \A n \in Names :
       /\ [Pending EXCEPT !.name = n] \in
            [name : Names \cup {""}, size : Nat, linked : {<<>>} \cup (Nat \X Nat),
             file : Nat, chunks : Seq(Nat)]
       /\ [Pending EXCEPT !.name = n].name = n /\ [Pending EXCEPT !.name = n].chunks = <<>>
  <1>1. <<>> \in {<<>>} \cup (Nat \X Nat) /\ <<>> \in Seq(Nat) /\ Nothing \in Nat
    BY DEF Nothing
  <1>2. PICK p : p = Pending
    OBVIOUS
  <1>3. p = [name |-> "", size |-> 0, linked |-> <<>>, file |-> Nothing, chunks |-> <<>>]
    BY <1>2 DEF Pending
  <1>4. /\ p \in [name : Names \cup {""}, size : Nat, linked : {<<>>} \cup (Nat \X Nat),
                  file : Nat, chunks : Seq(Nat)]
        /\ p.chunks = <<>>
    BY <1>1, <1>3
  <1>5. ASSUME NEW n \in Names
        PROVE  /\ [p EXCEPT !.name = n] \in
                    [name : Names \cup {""}, size : Nat, linked : {<<>>} \cup (Nat \X Nat),
                     file : Nat, chunks : Seq(Nat)]
               /\ [p EXCEPT !.name = n].name = n /\ [p EXCEPT !.name = n].chunks = <<>>
    BY <1>4
  <1> QED
    BY <1>2, <1>4, <1>5

(* What is kept but for the step.                                          *)
LEMMA SurveyToIs ==
  ASSUME survey \in Surveys, NEW s \in SurveySteps, SurveyTo(s)
  PROVE  /\ survey' \in Surveys /\ survey'.step = s
         /\ survey'.again = survey.again /\ survey'.inventory = survey.inventory
         /\ survey'.current = survey.current /\ survey'.root = survey.root
         /\ survey'.folder = survey.folder /\ survey'.second = survey.second
         /\ survey'.first = survey.first /\ survey'.scan = survey.scan
         /\ survey'.names = survey.names /\ survey'.of = survey.of
  BY DEF SurveyTo, Surveys

(* What giving up leaves.                                                  *)
LEMMA GiveUpIs ==
  ASSUME survey \in Surveys, GiveUp
  PROVE  /\ survey' \in Surveys /\ survey'.step \in {"status", "failed"}
         /\ survey'.current = FALSE /\ survey'.root = survey.root
         /\ survey'.folder = survey.folder /\ survey'.second = survey.second
         /\ survey'.first = survey.first /\ survey'.scan = survey.scan
  <1>1. PICK s \in {"status", "failed"} : survey' = [survey EXCEPT !.step = s, !.current = FALSE]
    BY DEF GiveUp
  <1>2. s \in SurveySteps
    BY <1>1 DEF SurveySteps
  <1> QED
    BY <1>1, <1>2 DEF Surveys

(* A walk that goes on with these names, or has ended.                     *)
WalksOn(state) ==
  /\ survey' \in Surveys
  /\ survey'.again = state.again /\ survey'.inventory = state.inventory
  /\ survey'.current = state.current /\ survey'.root = state.root
  /\ survey'.second = state.second /\ survey'.first = state.first /\ survey'.scan = state.scan
  /\ \/ /\ state.names = {} /\ survey'.step = "walked" /\ survey'.folder = Nothing
     \/ /\ state.names # {} /\ survey'.step = "stat" /\ survey'.folder = state.folder
        /\ survey'.of.name \in state.names /\ survey'.of.chunks = <<>>
        /\ survey'.names = state.names \ {survey'.of.name}
        /\ state.names \subseteq Range(RootNames) /\ survey'.of.name = Folder =>
             survey'.names = {}

(* What a step of the walk leads to.                                       *)
LEMMA WalkIs ==
  ASSUME NEW state \in Surveys, Walk(state)
  PROVE  WalksOn(state) /\ Ahead' = state.names
  <1>1. state.names \in SUBSET Names
    BY DEF Surveys
  <1>2. CASE state.names = {}
    <2>1. survey' = [state EXCEPT !.step = "walked", !.folder = Nothing, !.of = Pending]
      BY <1>2 DEF Walk
    <2>2. "walked" \in SurveySteps /\ Nothing \in Nat
      BY DEF SurveySteps, Nothing
    <2>3. /\ survey' \in Surveys /\ survey'.step = "walked" /\ survey'.folder = Nothing
          /\ survey'.again = state.again /\ survey'.inventory = state.inventory
          /\ survey'.current = state.current /\ survey'.root = state.root
          /\ survey'.second = state.second /\ survey'.first = state.first
          /\ survey'.scan = state.scan
      BY <2>1, <2>2, PendingIs DEF Surveys
    <2>4. WalksOn(state)
      BY <1>2, <2>3 DEF WalksOn
    <2>5. Ahead' = {}
      BY <2>3 DEF Ahead, Walking, Descending, Reading
    <2> QED
      BY <1>2, <2>4, <2>5
  <1>3. CASE state.names # {}
    <2>1. PICK n \in Names : n = FirstOf(state.names)
      BY <1>1, <1>3, FirstIs
    <2>2. n \in state.names
          /\ (state.names \subseteq Range(RootNames) /\ n = Folder => state.names = {Folder})
      BY <1>1, <1>3, <2>1, FirstIs
    <2>3. PICK of : of = [Pending EXCEPT !.name = n]
      OBVIOUS
    <2>4. /\ of \in [name : Names \cup {""}, size : Nat, linked : {<<>>} \cup (Nat \X Nat),
                     file : Nat, chunks : Seq(Nat)]
          /\ of.name = n /\ of.chunks = <<>>
      BY <2>3, PendingIs
    <2>5. PICK rest \in SUBSET Names : rest = state.names \ {n}
      BY <1>1
    <2>6. survey' = [state EXCEPT !.step = "stat", !.names = rest, !.of = of]
      BY <1>3, <2>1, <2>3, <2>5 DEF Walk
    <2>7. "stat" \in SurveySteps
      BY DEF SurveySteps, Walking
    <2>8. /\ survey' \in Surveys /\ survey'.step = "stat" /\ survey'.folder = state.folder
          /\ survey'.again = state.again /\ survey'.inventory = state.inventory
          /\ survey'.current = state.current /\ survey'.root = state.root
          /\ survey'.second = state.second /\ survey'.first = state.first
          /\ survey'.scan = state.scan /\ survey'.names = rest /\ survey'.of = of
      BY <2>4, <2>6, <2>7 DEF Surveys
    <2>9. state.names \subseteq Range(RootNames) /\ n = Folder => rest = {}
      BY <2>2, <2>5
    <2>10. WalksOn(state)
      BY <1>3, <2>2, <2>4, <2>5, <2>8, <2>9 DEF WalksOn
    <2>11. Ahead' = rest \cup {n}
      BY <2>4, <2>8 DEF Ahead, Walking
    <2> QED
      BY <2>2, <2>5, <2>10, <2>11
  <1> QED
    BY <1>2, <1>3

(* What is known of a tree that stays as it is.                            *)
LEMMA TreeStays ==
  ASSUME UNCHANGED <<treeVars, moment>>, survey'.first = survey.first
  PROVE  /\ node' = node /\ top' = top /\ moment' = moment
         /\ \A d, n : Lookup(d, n)' = Lookup(d, n)
         /\ \A i : Inode(i)' <=> Inode(i)
         /\ \A n, s : Unwritten(n, s)' <=> Unwritten(n, s)
         /\ \A n, d : WasThere(n, d)' <=> WasThere(n, d)
  <1>1. node' = node /\ top' = top /\ moment' = moment
    BY DEF treeVars
  <1>2. \A d, n : Lookup(d, n)' = Lookup(d, n)
    BY <1>1 DEF Lookup
  <1>3. \A i : Inode(i)' <=> Inode(i)
    BY <1>1 DEF Inode
  <1>4. \A n, s : Unwritten(n, s)' <=> Unwritten(n, s)
    BY <1>1 DEF Unwritten
  <1>5. \A n, d : WasThere(n, d)' <=> WasThere(n, d)
    BY <1>1 DEF WasThere, Unwritten, Lookup
  <1> QED
    BY <1>1, <1>2, <1>3, <1>4, <1>5

(* What a walk has noted.                                                  *)
LEMMA NotedStays ==
  ASSUME UNCHANGED treeVars, NEW s, Noted(s)
  PROVE  Noted(s)'
  <1>1. node' = node
    BY DEF treeVars
  <1> QED
    BY <1>1 DEF Noted, Inode, DirNoted, DirOf

(* Nothing is noted of a directory either.                                 *)
LEMMA BlankNoted ==
  Noted(Blank) /\ ~DirNoted(Blank)
  BY BlankIs DEF Noted, DirNoted

(* The command is between its walks.                                       *)
Between == {"root", "rootPath", "list", "evidence", "status", "failed"}

(* A step that ends there.                                                 *)
LEMMA BetweenKeeps ==
  ASSUME TreeOK, InventoryInv, UNCHANGED <<treeVars, moment>>,
         survey' \in Surveys, survey'.step \in Between,
         survey'.step # "root" => survey'.root \in 1..Len(node) /\ node[survey'.root].kind = "root",
         survey'.step \in {"root", "rootPath", "evidence"} => ~survey'.second,
         survey'.step \in {"root", "rootPath", "list", "evidence"} =>
           survey'.scan = Blank /\ survey'.folder = Nothing,
         NEW first, first = survey'.first, Noted(first), ~survey'.second => first = Blank,
         NEW scan, scan = survey'.scan, Noted(scan),
         survey'.second /\ DirNoted(first) /\ Unwritten(Folder, first) =>
           DOMAIN node[DirOf(first)].names \subseteq DOMAIN first.files,
         InventoryExact'
  PROVE  InventoryInv'
  <1>1. node' = node /\ moment' = moment /\ UNCHANGED treeVars
    BY DEF treeVars
  <1>2. moment' \in NameContents
    BY <1>1 DEF InventoryInv
  <1>3. Noted(survey.first)' /\ Noted(survey.scan)'
    <2>1. Noted(first)' /\ Noted(scan)'
      BY <1>1, NotedStays
    <2> QED
      BY <2>1 DEF Noted, DirNoted, DirOf
  <1>4. /\ survey'.step \notin Walking \cup {"walked", "rootAgain"}
        /\ survey'.step \notin Walking /\ survey'.step \notin Descending
        /\ survey'.step \notin Reading
        /\ survey'.step \notin {"walked", "rootAgain", "stat", "linked", "open", "childList"}
    BY DEF Between, Walking, Descending, Reading
  <1>5. WalkTrue'
    <2>1. survey'.step # "root" => Inode(survey.root)' /\ node'[survey'.root].kind = "root"
      BY <1>1 DEF Inode
    <2> QED
      BY <1>4, <2>1 DEF WalkTrue
  <1>6. ReadingTrue'
    BY <1>4 DEF ReadingTrue
  <1>7. FolderListed'
    BY <1>1, <1>4 DEF FolderListed, DirNoted, DirOf, Unwritten
  <1>8. ~Second'
    BY <1>4 DEF Second
  <1>9. ~survey'.second => survey'.first = Blank
    OBVIOUS
  <1> QED
    BY <1>2, <1>3, <1>4, <1>5, <1>6, <1>7, <1>8, <1>9 DEF InventoryInv

(* The walks that have been noted.                                         *)
LEMMA BothNoted ==
  ASSUME InventoryInv
  PROVE  /\ survey \in Surveys /\ moment \in NameContents
         /\ Noted(survey.first) /\ Noted(survey.scan)
         /\ survey.second \in BOOLEAN /\ (~survey.second => survey.first = Blank)
         /\ survey.second /\ DirNoted(survey.first) /\ Unwritten(Folder, survey.first) =>
              DOMAIN node[DirOf(survey.first)].names \subseteq DOMAIN survey.first.files
         /\ survey.step # "root" =>
              survey.root \in 1..Len(node) /\ node[survey.root].kind = "root"
  BY SurveyIs DEF InventoryInv, FolderListed, WalkTrue, Inode

(* Giving up ends there too.                                               *)
LEMMA GiveUpKeeps ==
  ASSUME TreeOK, InventoryInv, GiveUp, UNCHANGED <<treeVars, moment>>, survey.step # "root"
  PROVE  InventoryInv'
  <1>1. /\ survey' \in Surveys /\ survey'.step \in {"status", "failed"}
        /\ survey'.current = FALSE /\ survey'.root = survey.root
        /\ survey'.second = survey.second
        /\ survey'.first = survey.first /\ survey'.scan = survey.scan
    BY GiveUpIs DEF InventoryInv
  <1>2. PICK first, scan : first = survey.first /\ scan = survey.scan
    OBVIOUS
  <1>3. Noted(first) /\ Noted(scan) /\ (~survey'.second => first = Blank)
        /\ first = survey'.first /\ scan = survey'.scan
    BY <1>1, <1>2, BothNoted
  <1>4. survey'.second /\ DirNoted(first) /\ Unwritten(Folder, first) =>
          DOMAIN node[DirOf(first)].names \subseteq DOMAIN first.files
    BY <1>1, <1>2, BothNoted
  <1>5. survey'.root \in 1..Len(node) /\ node[survey'.root].kind = "root"
    BY <1>1, BothNoted
  <1>6. InventoryExact'
    BY <1>1 DEF InventoryExact
  <1>7. survey'.step \in Between
        /\ survey'.step \notin {"root", "rootPath", "list", "evidence"}
    BY <1>1 DEF Between
  <1> QED
    BY <1>1, <1>3, <1>4, <1>5, <1>6, <1>7, BetweenKeeps

(* The root is opened.                                                     *)
LEMMA OpenDataRootKeeps ==
  ASSUME TreeOK, InventoryInv, OpenDataRoot
  PROVE  InventoryInv'
  <1>1. survey.step = "root" /\ UNCHANGED <<treeVars, moment>> /\ survey \in Surveys
        /\ survey' = [survey EXCEPT !.step = "rootPath", !.root = top]
    BY DEF OpenDataRoot, Surveying, InventoryInv
  <1>2. top \in 1..Len(node) /\ top \in Nat /\ node[top].kind = "root"
    BY LenProperties DEF TreeOK, Inode
  <1>3. "rootPath" \in SurveySteps
    BY DEF SurveySteps
  <1>4. /\ survey' \in Surveys /\ survey'.step = "rootPath" /\ survey'.root = top
        /\ survey'.second = survey.second /\ survey'.folder = survey.folder
        /\ survey'.first = survey.first /\ survey'.scan = survey.scan
    BY <1>1, <1>2, <1>3 DEF Surveys
  <1>5. PICK first, scan : first = survey.first /\ scan = survey.scan
    OBVIOUS
  <1>6. Noted(first) /\ Noted(scan) /\ (~survey'.second => first = Blank)
        /\ first = survey'.first /\ scan = survey'.scan
    BY <1>4, <1>5, BothNoted
  <1>7. ~survey'.second /\ survey'.scan = Blank /\ survey'.folder = Nothing
    BY <1>1, <1>4 DEF InventoryInv, WalkTrue
  <1>8. InventoryExact'
    BY <1>4 DEF InventoryExact
  <1>9. survey'.step \in Between
    BY <1>4 DEF Between
  <1> QED
    BY <1>1, <1>2, <1>4, <1>6, <1>7, <1>8, <1>9, BetweenKeeps

(* The path of the root is looked at.                                      *)
LEMMA CheckDataRootKeeps ==
  ASSUME TreeOK, InventoryInv, CheckDataRoot
  PROVE  InventoryInv'
  <1>1. survey.step = "rootPath" /\ UNCHANGED <<treeVars, moment>> /\ survey \in Surveys
    BY DEF CheckDataRoot, Surveying, InventoryInv
  <1>2. CASE top # survey.root
    <2>1. GiveUp
      BY <1>2 DEF CheckDataRoot
    <2> QED
      BY <1>1, <2>1, GiveUpKeeps
  <1>3. CASE top = survey.root
    <2>1. SurveyTo("list") /\ "list" \in SurveySteps
      BY <1>3 DEF CheckDataRoot, SurveySteps
    <2>2. /\ survey' \in Surveys /\ survey'.step = "list" /\ survey'.root = survey.root
          /\ survey'.second = survey.second /\ survey'.folder = survey.folder
          /\ survey'.first = survey.first /\ survey'.scan = survey.scan
      BY <1>1, <2>1, SurveyToIs
    <2>3. PICK first, scan : first = survey.first /\ scan = survey.scan
      OBVIOUS
    <2>4. Noted(first) /\ Noted(scan) /\ (~survey'.second => first = Blank)
          /\ first = survey'.first /\ scan = survey'.scan
      BY <2>2, <2>3, BothNoted
    <2>5. ~survey'.second /\ survey'.scan = Blank /\ survey'.folder = Nothing
      BY <1>1, <2>2 DEF InventoryInv, WalkTrue
    <2>6. InventoryExact'
      BY <2>2 DEF InventoryExact
    <2>7. survey'.step \in Between
      BY <2>2 DEF Between
    <2>8. survey'.root \in 1..Len(node) /\ node[survey'.root].kind = "root"
      BY <1>1, <2>2, BothNoted
    <2> QED
      BY <1>1, <2>2, <2>4, <2>5, <2>6, <2>7, <2>8, BetweenKeeps
  <1> QED
    BY <1>2, <1>3

(* The evidence is read.                                                   *)
LEMMA ReadEvidenceKeeps ==
  ASSUME TreeOK, InventoryInv, ReadEvidence
  PROVE  InventoryInv'
  <1>1. survey.step = "evidence" /\ UNCHANGED <<treeVars, moment>> /\ survey \in Surveys
    BY DEF ReadEvidence, Surveying, InventoryInv
  <1>2. ~survey.second /\ survey.scan = Blank /\ survey.folder = Nothing
        /\ survey.inventory = moment
    BY <1>1 DEF InventoryInv, WalkTrue, InventoryExact
  <1>3. PICK first, scan : first = survey.first /\ scan = survey.scan
    OBVIOUS
  <1>4. CASE SurveyTo("status")
    <2>1. "status" \in SurveySteps
      BY DEF SurveySteps
    <2>2. /\ survey' \in Surveys /\ survey'.step = "status" /\ survey'.root = survey.root
          /\ survey'.second = survey.second /\ survey'.inventory = survey.inventory
          /\ survey'.first = survey.first /\ survey'.scan = survey.scan
      BY <1>1, <1>4, <2>1, SurveyToIs
    <2>3. Noted(first) /\ Noted(scan) /\ (~survey'.second => first = Blank)
          /\ first = survey'.first /\ scan = survey'.scan
      BY <1>3, <2>2, BothNoted
    <2>4. InventoryExact'
      BY <1>1, <1>2, <2>2 DEF InventoryExact
    <2>5. survey'.step \in Between /\ ~survey'.second
      BY <1>2, <2>2 DEF Between
    <2>6. survey'.root \in 1..Len(node) /\ node[survey'.root].kind = "root"
      BY <1>1, <2>2, BothNoted
    <2> QED
      BY <1>1, <2>2, <2>3, <2>4, <2>5, <2>6, BetweenKeeps
  <1>5. CASE \E same \in BOOLEAN :
               survey' = [survey EXCEPT !.step = "root", !.again = TRUE, !.current = same]
    <2>1. PICK same \in BOOLEAN :
            survey' = [survey EXCEPT !.step = "root", !.again = TRUE, !.current = same]
      BY <1>5
    <2>2. "root" \in SurveySteps
      BY DEF SurveySteps
    <2>3. /\ survey' \in Surveys /\ survey'.step = "root" /\ survey'.root = survey.root
          /\ survey'.second = survey.second /\ survey'.folder = survey.folder
          /\ survey'.first = survey.first /\ survey'.scan = survey.scan
      BY <1>1, <2>1, <2>2 DEF Surveys
    <2>4. Noted(first) /\ Noted(scan) /\ (~survey'.second => first = Blank)
          /\ first = survey'.first /\ scan = survey'.scan
      BY <1>3, <2>3, BothNoted
    <2>5. InventoryExact'
      BY <2>3 DEF InventoryExact
    <2>6. survey'.step \in Between /\ ~survey'.second
          /\ survey'.scan = Blank /\ survey'.folder = Nothing
      BY <1>2, <2>3 DEF Between
    <2> QED
      BY <1>1, <2>3, <2>4, <2>5, <2>6, BetweenKeeps
  <1> QED
    BY <1>4, <1>5 DEF ReadEvidence

(* The walk goes on with the name it has come to.                          *)
Stays ==
  /\ UNCHANGED <<treeVars, moment>> /\ survey' \in Surveys
  /\ survey.step \in Walking \ {"childList"} /\ survey'.step \in Walking \ {"childList"}
  /\ survey'.root = survey.root /\ survey'.folder = survey.folder
  /\ survey'.second = survey.second /\ survey'.first = survey.first
  /\ survey'.scan = survey.scan /\ survey'.names = survey.names
  /\ survey'.of.name = survey.of.name

(* What that leaves as it was.                                             *)
LEMMA StaysKeepsFound ==
  ASSUME Stays
  PROVE  /\ Ahead' = Ahead /\ (RootWas' <=> RootWas) /\ (FilesFound' <=> FilesFound)
         /\ (FolderWas' <=> FolderWas) /\ Walked' = Walked
         /\ \A n : SameNoted(n)' <=> SameNoted(n)
  <1>1. /\ node' = node /\ top' = top /\ moment' = moment
        /\ \A n, d : WasThere(n, d)' <=> WasThere(n, d)
    BY TreeStays DEF Stays
  <1>2. Ahead' = Ahead
    BY DEF Stays, Ahead
  <1>3. \A n : SameNoted(n)' <=> SameNoted(n)
    BY DEF Stays, SameNoted
  <1>4. PICK r, s, t : r = survey.root /\ s = survey.scan /\ t = survey.first
    OBVIOUS
  <1>5. survey'.root = r /\ survey'.scan = s /\ survey'.first = t
    BY <1>4 DEF Stays
  <1>6. RootWas' <=> RootWas
    <2>1. \A n : WasThere(n, survey.root)' <=> WasThere(n, r)
      BY <1>1, <1>5 DEF WasThere, Lookup
    <2>2. \A n : WasThere(n, survey.root) <=> WasThere(n, r)
      BY <1>4
    <2> QED
      BY <1>1, <1>2, <1>4, <1>5, <2>1, <2>2 DEF RootWas
  <1>7. FilesFound' <=> FilesFound
    BY <1>1, <1>3, <1>4, <1>5 DEF FilesFound, DirNoted
  <1>8. FolderWas' <=> FolderWas
    <2>1. PICK d : d = DirOf(t)
      OBVIOUS
    <2>2. \A n : WasThere(n, DirOf(survey.first))' <=> WasThere(n, d)
      BY <1>1, <1>5, <2>1 DEF WasThere, Lookup, DirOf
    <2>3. \A n : WasThere(n, DirOf(survey.first)) <=> WasThere(n, d)
      BY <1>4, <2>1
    <2> QED
      BY <1>1, <1>4, <1>5, <2>2, <2>3 DEF FolderWas
  <1>9. Walked' = Walked
    BY DEF Walked, Stays
  <1> QED
    BY <1>2, <1>3, <1>6, <1>7, <1>8, <1>9

(* The invariant after such a step.                                        *)
LEMMA StaysKeeps ==
  ASSUME TreeOK, InventoryInv, Stays, ReadingTrue',
         survey'.step \in Descending => survey.folder = Nothing /\ survey.of.name = Folder,
         survey'.step \in Descending \ {"child"} =>
           survey'.of.file \in 1..Len(node) /\ node[survey'.of.file].kind = "folder",
         survey'.step = "childStat" /\ Second /\ DirNoted(survey.first)
           /\ survey'.of.file = DirOf(survey.first) /\ Unwritten(Folder, survey.first) => FolderWas
  PROVE  InventoryInv'
  <1>1. PICK first, scan, root : first = survey.first /\ scan = survey.scan /\ root = survey.root
    OBVIOUS
  <1>2. survey'.first = first /\ survey'.scan = scan /\ survey'.root = root
    BY <1>1 DEF Stays
  <1>3. /\ node' = node /\ top' = top /\ moment' = moment /\ UNCHANGED treeVars
        /\ \A d, n : Lookup(d, n)' = Lookup(d, n)
        /\ \A n, s : Unwritten(n, s)' <=> Unwritten(n, s)
    BY TreeStays DEF Stays
  <1>4. /\ Ahead' = Ahead /\ (RootWas' <=> RootWas) /\ (FilesFound' <=> FilesFound)
        /\ (FolderWas' <=> FolderWas)
        /\ \A n : SameNoted(n)' <=> SameNoted(n)
    BY StaysKeepsFound
  <1>5. Noted(survey.first)' /\ Noted(survey.scan)'
    <2>1. Noted(first)' /\ Noted(scan)'
      BY <1>1, <1>3, NotedStays, BothNoted
    <2> QED
      BY <1>2, <2>1 DEF Noted, DirNoted, DirOf
  <1>6. /\ survey.step \notin Between /\ survey'.step \notin Between
        /\ survey.step \in Walking /\ survey'.step \in Walking
        /\ survey.step \notin {"root", "rootPath", "list", "evidence", "walked", "rootAgain",
                               "childList", "status"}
        /\ survey'.step \notin {"root", "rootPath", "list", "evidence", "walked", "rootAgain",
                                "childList", "status"}
    BY DEF Stays, Between, Walking, Descending, Reading
  <1>7. WalkTrue'
    <2>1. Inode(survey.root)' /\ node'[survey'.root].kind = "root"
      BY <1>1, <1>2, <1>3, <1>6, BothNoted DEF Inode
    <2>2. /\ survey'.names \cup {survey'.of.name}
               \subseteq (IF survey'.folder = Nothing THEN Range(RootNames) ELSE Range(FolderNames))
          /\ survey'.folder = Nothing /\ survey'.of.name = Folder => survey'.names = {}
          /\ survey'.folder # Nothing => DirNoted(survey.scan)' /\ survey'.folder = DirOf(survey.scan)'
          /\ survey'.folder = Nothing => DOMAIN survey'.scan.identities \subseteq Range(RootNames)
          /\ survey'.folder = Nothing /\ survey'.step # "childList" =>
               Folder \notin DOMAIN survey'.scan.identities
      BY <1>6 DEF InventoryInv, WalkTrue, Stays, DirNoted, DirOf
    <2>3. survey'.step \in Descending => survey'.folder = Nothing /\ survey'.of.name = Folder
      BY DEF Stays
    <2>4. survey'.step \in Descending \ {"child"} =>
            Inode(survey.of.file)' /\ node'[survey'.of.file].kind = "folder"
      BY <1>3 DEF Inode
    <2> QED
      BY <1>6, <2>1, <2>2, <2>3, <2>4 DEF WalkTrue
  <1>8. FolderListed'
    <2>1. FolderListed /\ survey.step \in (Walking \ {"childList"}) \cup {"walked"}
      BY <1>6 DEF InventoryInv
    <2> QED
      BY <1>3, <1>4, <2>1 DEF FolderListed, Stays, DirNoted, DirOf, Unwritten
  <1>9. Second' => RootWas' /\ FolderFound' /\ FilesFound'
    <2> SUFFICES ASSUME Second' PROVE RootWas' /\ FolderFound' /\ FilesFound'
      OBVIOUS
    <2>1. Second
      BY <1>6 DEF Second, Stays
    <2>2. RootWas /\ FolderFound /\ FilesFound
      BY <2>1 DEF InventoryInv
    <2>3. FolderFound'
      <3> SUFFICES ASSUME DirNoted(survey.first)'
                   PROVE  /\ Lookup(survey.root, Folder)' = DirOf(survey.first)'
                               /\ Unwritten(Folder, survey.first)' => FolderWas'
                          /\ survey'.step = "childStat" /\ survey'.of.file = DirOf(survey.first)'
                               /\ Unwritten(Folder, survey.first)' => FolderWas'
                          /\ DirNoted(survey.scan)' /\ SameNoted(Folder)' => FolderWas'
        BY DEF FolderFound
      <3>1. DirNoted(survey.first) /\ DirOf(survey.first)' = DirOf(survey.first)
            /\ (Unwritten(Folder, survey.first)' <=> Unwritten(Folder, survey.first))
            /\ (DirNoted(survey.scan)' <=> DirNoted(survey.scan))
            /\ Lookup(survey.root, Folder)' = Lookup(survey.root, Folder)
        BY <1>1, <1>2, <1>3 DEF DirNoted, DirOf, Unwritten, Lookup
      <3> QED
        BY <1>4, <2>1, <2>2, <3>1 DEF FolderFound
    <2> QED
      BY <1>4, <2>2, <2>3
  <1>10. /\ survey' \in Surveys /\ moment' \in NameContents
         /\ (~survey'.second => survey'.first = Blank)
    BY <1>1, <1>2, <1>3, BothNoted DEF Stays
  <1>11. InventoryExact'
    BY <1>6 DEF InventoryExact
  <1>12. survey'.step # "rootAgain"
    BY <1>6
  <1> QED
    BY <1>5, <1>7, <1>8, <1>9, <1>10, <1>11, <1>12 DEF InventoryInv

(* The directory that is walked.                                           *)
LEMMA WalkedIs ==
  ASSUME InventoryInv, survey.step \in Walking
  PROVE  /\ Walked \in 1..Len(node) /\ node[Walked].kind \in {"root", "folder"}
         /\ survey.folder = Nothing =>
              /\ Walked = survey.root /\ node[Walked].kind = "root"
              /\ survey.of.name \in Range(RootNames)
         /\ survey.folder # Nothing =>
              /\ Walked = survey.folder /\ Walked = DirOf(survey.scan) /\ DirNoted(survey.scan)
              /\ node[Walked].kind = "folder" /\ survey.of.name \in Range(FolderNames)
         /\ survey.of.name \in Names
         /\ survey.step \notin Between
  <1>1. survey.step \notin Between
    BY DEF Walking, Descending, Reading, Between
  <1>2. survey.root \in 1..Len(node) /\ node[survey.root].kind = "root"
    BY <1>1, BothNoted DEF Between
  <1>3. survey.folder # Nothing =>
          /\ survey.folder = DirOf(survey.scan) /\ DirNoted(survey.scan)
          /\ survey.folder \in 1..Len(node) /\ node[survey.folder].kind = "folder"
    <2> SUFFICES ASSUME survey.folder # Nothing
                 PROVE  /\ survey.folder = DirOf(survey.scan) /\ DirNoted(survey.scan)
                        /\ survey.folder \in 1..Len(node) /\ node[survey.folder].kind = "folder"
      OBVIOUS
    <2>1. survey.folder = DirOf(survey.scan) /\ DirNoted(survey.scan)
      BY DEF InventoryInv, WalkTrue
    <2>2. Noted(survey.scan)
      BY BothNoted
    <2>3. DirOf(survey.scan) \in 1..Len(node) /\ node[DirOf(survey.scan)].kind = "folder"
      BY <2>1, <2>2 DEF Noted, DirNoted, DirOf, Inode
    <2> QED
      BY <2>1, <2>3
  <1>4. survey.of.name \in (IF survey.folder = Nothing THEN Range(RootNames) ELSE Range(FolderNames))
    BY DEF InventoryInv, WalkTrue
  <1>5. survey.of.name \in Names
    BY <1>4, NamesAre
  <1>6. Walked = IF survey.folder = Nothing THEN survey.root ELSE survey.folder
    BY DEF Walked
  <1>7. CASE survey.folder = Nothing
    BY <1>1, <1>2, <1>4, <1>5, <1>6, <1>7
  <1>8. CASE survey.folder # Nothing
    BY <1>1, <1>3, <1>4, <1>5, <1>6, <1>8
  <1> QED
    BY <1>7, <1>8

(* What the name leads to.                                                 *)
LEMMA EntryIs ==
  ASSUME TreeOK, InventoryInv, survey.step \in Walking, NEW i, i = Lookup(Walked, survey.of.name)
  PROVE  /\ i # Nothing => i \in 1..Len(node) /\ i \in Nat
         /\ IsFile(i) => /\ i \in 1..Len(node) /\ i \in Nat /\ node[i].kind = "file"
                         /\ node[i].stamp \in Nat /\ node[i].content \in Seq(Nat)
                         /\ Len(node[i].content) \in Nat
         /\ IsDirectory(i) =>
              /\ i \in 1..Len(node) /\ i \in Nat /\ node[i].kind = "folder"
              /\ survey.of.name = Folder /\ survey.folder = Nothing /\ Walked = survey.root
  <1>1. PICK d \in 1..Len(node), n \in Names :
          d = Walked /\ n = survey.of.name /\ node[d].kind \in {"root", "folder"}
    BY WalkedIs
  <1>2. i = Lookup(d, n)
    BY <1>1
  <1>3. i # Nothing => i \in 1..Len(node) /\ i \in Nat
    BY <1>1, <1>2, LookupIs
  <1>4. ASSUME IsFile(i)
        PROVE  /\ i \in 1..Len(node) /\ i \in Nat /\ node[i].kind = "file"
               /\ node[i].stamp \in Nat /\ node[i].content \in Seq(Nat)
               /\ Len(node[i].content) \in Nat
    <2>1. i \in 1..Len(node) /\ i \in Nat /\ node[i].kind = "file"
      BY <1>3, <1>4 DEF IsFile
    <2> QED
      BY <2>1, FilesAre
  <1>5. ASSUME IsDirectory(i)
        PROVE  /\ i \in 1..Len(node) /\ i \in Nat /\ node[i].kind = "folder"
               /\ survey.of.name = Folder /\ survey.folder = Nothing /\ Walked = survey.root
    <2>1. n = Folder /\ i \in 1..Len(node) /\ i \in Nat /\ node[i].kind = "folder"
          /\ node[d].kind = "root"
      BY <1>1, <1>2, <1>5, OnlyFolder
    <2>2. survey.folder = Nothing /\ Walked = survey.root
      BY <1>1, <2>1, WalkedIs
    <2> QED
      BY <1>1, <2>1, <2>2
  <1> QED
    BY <1>3, <1>4, <1>5

(* The name is looked at.                                                  *)
LEMMA StatEntryKeeps ==
  ASSUME TreeOK, InventoryInv, StatEntry
  PROVE  InventoryInv'
  <1>1. survey.step = "stat" /\ UNCHANGED <<treeVars, moment>> /\ survey \in Surveys
        /\ survey.step \in Walking \ {"childList"} /\ survey.step # "root"
    BY DEF StatEntry, Surveying, InventoryInv, Walking
  <1>2. PICK i : i = Lookup(Walked, survey.of.name)
    OBVIOUS
  <1>3. CASE IsDirectory(i)
    <2>1. SurveyTo("child") /\ "child" \in SurveySteps
      BY <1>2, <1>3 DEF StatEntry, SurveySteps, Walking, Descending
    <2>2. /\ survey' \in Surveys /\ survey'.step = "child" /\ survey'.root = survey.root
          /\ survey'.second = survey.second /\ survey'.folder = survey.folder
          /\ survey'.first = survey.first /\ survey'.scan = survey.scan
          /\ survey'.names = survey.names /\ survey'.of = survey.of
      BY <1>1, <2>1, SurveyToIs
    <2>3. Stays
      BY <1>1, <2>2 DEF Stays, Walking, Descending
    <2>4. survey.folder = Nothing /\ survey.of.name = Folder
      BY <1>1, <1>2, <1>3, EntryIs
    <2>5. ReadingTrue'
      BY <2>2 DEF ReadingTrue, Reading
    <2> QED
      BY <2>2, <2>3, <2>4, <2>5, StaysKeeps
  <1>4. CASE ~IsDirectory(i) /\ IsFile(i)
    <2>1. PICK size \in Nat : size = Len(node[i].content)
      BY <1>1, <1>2, <1>4, EntryIs
    <2>2. survey' = [survey EXCEPT !.step = "linked", !.of.size = size]
      BY <1>2, <1>4, <2>1 DEF StatEntry
    <2>3. "linked" \in SurveySteps
      BY DEF SurveySteps, Walking
    <2>4. /\ survey' \in Surveys /\ survey'.step = "linked" /\ survey'.root = survey.root
          /\ survey'.second = survey.second /\ survey'.folder = survey.folder
          /\ survey'.first = survey.first /\ survey'.scan = survey.scan
          /\ survey'.names = survey.names /\ survey'.of.name = survey.of.name
          /\ survey'.of.chunks = survey.of.chunks
      BY <1>1, <2>2, <2>3 DEF Surveys
    <2>5. Stays
      BY <1>1, <2>4 DEF Stays, Walking
    <2>6. ReadingTrue'
      <3>1. survey'.of.chunks = <<>>
        BY <1>1, <2>4 DEF InventoryInv, ReadingTrue
      <3> QED
        BY <2>4, <3>1 DEF ReadingTrue, Reading
    <2>7. survey'.step \notin Descending /\ survey'.step # "childStat"
      BY <2>4 DEF Descending
    <2> QED
      BY <2>5, <2>6, <2>7, StaysKeeps
  <1>5. CASE ~IsDirectory(i) /\ ~IsFile(i)
    <2>1. GiveUp
      BY <1>2, <1>5 DEF StatEntry
    <2> QED
      BY <1>1, <2>1, GiveUpKeeps
  <1> QED
    BY <1>3, <1>4, <1>5

(* The folder is opened.                                                   *)
LEMMA OpenChildKeeps ==
  ASSUME TreeOK, InventoryInv, OpenChild
  PROVE  InventoryInv'
  <1>1. survey.step = "child" /\ UNCHANGED <<treeVars, moment>> /\ survey \in Surveys
        /\ survey.step \in Walking \ {"childList"} /\ survey.step # "root"
        /\ survey.step \in Descending
    BY DEF OpenChild, Surveying, InventoryInv, Walking, Descending
  <1>2. PICK i : i = Lookup(Walked, survey.of.name)
    OBVIOUS
  <1>3. CASE IsDirectory(i)
    <2>1. i \in 1..Len(node) /\ i \in Nat /\ node[i].kind = "folder"
      BY <1>1, <1>2, <1>3, EntryIs
    <2>2. survey' = [survey EXCEPT !.step = "childPath", !.of.file = i]
      BY <1>2, <1>3 DEF OpenChild
    <2>3. "childPath" \in SurveySteps
      BY DEF SurveySteps, Walking, Descending
    <2>4. /\ survey' \in Surveys /\ survey'.step = "childPath" /\ survey'.root = survey.root
          /\ survey'.second = survey.second /\ survey'.folder = survey.folder
          /\ survey'.first = survey.first /\ survey'.scan = survey.scan
          /\ survey'.names = survey.names /\ survey'.of.name = survey.of.name
          /\ survey'.of.file = i
      BY <1>1, <2>1, <2>2, <2>3 DEF Surveys
    <2>5. Stays
      BY <1>1, <2>4 DEF Stays, Walking, Descending
    <2>6. survey.folder = Nothing /\ survey.of.name = Folder
      BY <1>1 DEF InventoryInv, WalkTrue
    <2>7. ReadingTrue'
      BY <2>4 DEF ReadingTrue, Reading
    <2> QED
      BY <2>1, <2>4, <2>5, <2>6, <2>7, StaysKeeps
  <1>4. CASE ~IsDirectory(i)
    <2>1. GiveUp
      BY <1>2, <1>4 DEF OpenChild
    <2> QED
      BY <1>1, <2>1, GiveUpKeeps
  <1> QED
    BY <1>3, <1>4

(* The folder is where it was: its name leads to it.                       *)
LEMMA CheckChildKeeps ==
  ASSUME TreeOK, InventoryInv, CheckChild
  PROVE  InventoryInv'
  <1>1. survey.step = "childPath" /\ UNCHANGED <<treeVars, moment>> /\ survey \in Surveys
        /\ survey.step \in Walking /\ survey.step \in Walking \ {"childList"} /\ survey.step # "root"
        /\ survey.step \in Descending /\ survey.step \in Descending \ {"child"}
    BY DEF CheckChild, Surveying, InventoryInv, Walking, Descending
  <1>2. CASE Lookup(Walked, survey.of.name) = survey.of.file
    <2>1. SurveyTo("childStat") /\ "childStat" \in SurveySteps
      BY <1>2 DEF CheckChild, SurveySteps, Walking, Descending
    <2>2. /\ survey' \in Surveys /\ survey'.step = "childStat" /\ survey'.root = survey.root
          /\ survey'.second = survey.second /\ survey'.folder = survey.folder
          /\ survey'.first = survey.first /\ survey'.scan = survey.scan
          /\ survey'.names = survey.names /\ survey'.of = survey.of
      BY <1>1, <2>1, SurveyToIs
    <2>3. Stays
      BY <1>1, <2>2 DEF Stays, Walking, Descending
    <2>4. /\ survey.folder = Nothing /\ survey.of.name = Folder
          /\ survey.of.file \in 1..Len(node) /\ node[survey.of.file].kind = "folder"
      BY <1>1 DEF InventoryInv, WalkTrue, Inode
    <2>5. ASSUME Second, DirNoted(survey.first), survey.of.file = DirOf(survey.first),
                 Unwritten(Folder, survey.first)
          PROVE  FolderWas
      <3>1. Lookup(survey.root, Folder) = DirOf(survey.first)
        BY <1>1, <1>2, <2>4, <2>5, WalkedIs
      <3> QED
        BY <2>5, <3>1 DEF InventoryInv, FolderFound
    <2>6. ReadingTrue'
      BY <2>2 DEF ReadingTrue, Reading
    <2> QED
      BY <2>2, <2>3, <2>4, <2>5, <2>6, StaysKeeps
  <1>3. CASE Lookup(Walked, survey.of.name) # survey.of.file
    <2>1. GiveUp
      BY <1>3 DEF CheckChild
    <2> QED
      BY <1>1, <2>1, GiveUpKeeps
  <1> QED
    BY <1>2, <1>3

(* The file is looked at.                                                  *)
LEMMA StatFileKeeps ==
  ASSUME TreeOK, InventoryInv, StatFile
  PROVE  InventoryInv'
  <1>1. survey.step = "linked" /\ UNCHANGED <<treeVars, moment>> /\ survey \in Surveys
        /\ survey.step \in Walking \ {"childList"} /\ survey.step # "root"
    BY DEF StatFile, Surveying, InventoryInv, Walking
  <1>2. PICK i : i = Lookup(Walked, survey.of.name)
    OBVIOUS
  <1>3. CASE IsFile(i) /\ Len(node[i].content) <= survey.of.size
    <2>1. i \in 1..Len(node) /\ i \in Nat /\ node[i].kind = "file" /\ node[i].stamp \in Nat
      BY <1>1, <1>2, <1>3, EntryIs
    <2>2. PICK linked \in Nat \X Nat : linked = Identity(i) /\ linked[1] = i
                                       /\ linked[2] = node[i].stamp
      <3>1. PICK stamp \in Nat : stamp = node[i].stamp
        BY <2>1
      <3>2. <<i, stamp>> \in Nat \X Nat /\ <<i, stamp>>[1] = i /\ <<i, stamp>>[2] = stamp
        BY <2>1
      <3>3. Identity(i) = <<i, stamp>>
        BY <3>1 DEF Identity
      <3> QED
        BY <3>1, <3>2, <3>3
    <2>3. survey' = [survey EXCEPT !.step = "open", !.of.linked = linked]
      BY <1>2, <1>3, <2>2 DEF StatFile
    <2>4. "open" \in SurveySteps
      BY DEF SurveySteps, Walking, Reading
    <2>5. /\ survey' \in Surveys /\ survey'.step = "open" /\ survey'.root = survey.root
          /\ survey'.second = survey.second /\ survey'.folder = survey.folder
          /\ survey'.first = survey.first /\ survey'.scan = survey.scan
          /\ survey'.names = survey.names /\ survey'.of.name = survey.of.name
          /\ survey'.of.chunks = survey.of.chunks /\ survey'.of.linked = linked
      BY <1>1, <2>2, <2>3, <2>4 DEF Surveys
    <2>6. Stays
      BY <1>1, <2>5 DEF Stays, Walking, Reading
    <2>7. survey'.of.chunks = <<>>
      BY <1>1, <2>5 DEF InventoryInv, ReadingTrue
    <2>8. ASSUME survey'.of.name \in DOMAIN survey'.first.identities,
                 linked[1] = survey'.first.identities[survey'.of.name][1]
          PROVE  survey'.first.identities[survey'.of.name][2] <= linked[2]
      <3>1. Noted(survey.first)
        BY BothNoted
      <3>2. PICK n : n = survey.of.name
        OBVIOUS
      <3>3. n \in DOMAIN survey.first.identities /\ linked[1] = survey.first.identities[n][1]
        BY <2>5, <2>8, <3>2
      <3>4. survey.first.identities[n][2] <= node[survey.first.identities[n][1]].stamp
        BY <3>1, <3>3 DEF Noted
      <3>5. survey.first.identities[n][2] <= linked[2]
        BY <2>2, <3>3, <3>4
      <3> QED
        BY <2>5, <3>2, <3>5
    <2>9. ReadingTrue'
      <3>1. node' = node
        BY <1>1 DEF treeVars
      <3>2. /\ survey'.of.linked \in Nat \X Nat
            /\ Inode(survey.of.linked[1])' /\ node'[survey'.of.linked[1]].kind = "file"
            /\ survey'.of.linked[2] <= node'[survey'.of.linked[1]].stamp
        BY <2>1, <2>2, <2>5, <3>1 DEF Inode
      <3> QED
        BY <2>5, <2>7, <2>8, <3>2 DEF ReadingTrue, Reading
    <2>10. survey'.step \notin Descending /\ survey'.step # "childStat"
      BY <2>5 DEF Descending
    <2> QED
      BY <2>6, <2>9, <2>10, StaysKeeps
  <1>4. CASE ~(IsFile(i) /\ Len(node[i].content) <= survey.of.size)
    <2>1. GiveUp
      BY <1>2, <1>4 DEF StatFile
    <2> QED
      BY <1>1, <2>1, GiveUpKeeps
  <1> QED
    BY <1>3, <1>4

(* What is known of the file that is being read.                           *)
LEMMA ReadingIs ==
  ASSUME TreeOK, InventoryInv, survey.step \in Reading
  PROVE  /\ survey.step \in Walking /\ survey.step \in Walking \ {"childList"}
         /\ survey.step # "root" /\ survey \in Surveys
         /\ survey.of.linked \in Nat \X Nat
         /\ survey.of.linked[1] \in 1..Len(node) /\ survey.of.linked[1] \in Nat
         /\ node[survey.of.linked[1]].kind = "file"
         /\ node[survey.of.linked[1]].stamp \in Nat
         /\ node[survey.of.linked[1]].content \in Seq(Nat)
         /\ Len(node[survey.of.linked[1]].content) \in Nat
         /\ survey.of.linked[2] <= node[survey.of.linked[1]].stamp
         /\ survey.of.linked[2] \in Nat
         /\ survey.of.chunks \in Seq(Nat) /\ Len(survey.of.chunks) \in Nat
  <1>1. /\ survey.step \in Walking /\ survey.step \in Walking \ {"childList"}
        /\ survey.step # "root"
    BY DEF Walking, Reading
  <1>2. survey \in Surveys /\ survey.of.chunks \in Seq(Nat)
    BY SurveyIs DEF InventoryInv
  <1>3. /\ survey.of.linked \in Nat \X Nat
        /\ survey.of.linked[1] \in 1..Len(node)
        /\ node[survey.of.linked[1]].kind = "file"
        /\ survey.of.linked[2] <= node[survey.of.linked[1]].stamp
    BY DEF InventoryInv, ReadingTrue, Inode
  <1>4. survey.of.linked[1] \in Nat /\ survey.of.linked[2] \in Nat
    BY <1>3
  <1>5. PICK i \in 1..Len(node) : i = survey.of.linked[1] /\ node[i].kind = "file"
    BY <1>3
  <1>6. node[i].stamp \in Nat /\ node[i].content \in Seq(Nat) /\ Len(node[i].content) \in Nat
    BY <1>5, FilesAre
  <1>7. Len(survey.of.chunks) \in Nat
    BY <1>2, LenProperties
  <1> QED
    BY <1>1, <1>2, <1>3, <1>4, <1>5, <1>6, <1>7

(* The file is read on.                                                    *)
LEMMA ReadsOn ==
  ASSUME TreeOK, InventoryInv, Stays, survey.step \in Reading, survey'.step \in Reading \ {"open"},
         survey'.of.linked = survey.of.linked,
         survey'.of.file = survey.of.linked[1],
         survey.of.name \in DOMAIN survey.first.identities
           /\ Lookup(Walked, survey.of.name) = survey.first.identities[survey.of.name][1] =>
             survey'.of.file = survey.first.identities[survey.of.name][1],
         NEW i, i = survey'.of.file,
         node[i].stamp = survey'.of.linked[2] =>
           /\ Begins(survey'.of.chunks, node[i].content)
           /\ survey'.step \in {"after", "named"} => survey'.of.chunks = node[i].content
  PROVE  InventoryInv'
  <1>1. node' = node /\ Walked' = Walked
    BY StaysKeepsFound DEF Stays, treeVars
  <1>2. survey'.of.name = survey.of.name /\ survey'.first = survey.first
    BY DEF Stays
  <1>3. PICK w, n : w = Walked /\ n = survey.of.name
    OBVIOUS
  <1>4. Lookup(Walked, survey.of.name)' = Lookup(Walked, survey.of.name)
    BY <1>1, <1>2 DEF Lookup
  <1>5. ReadingTrue'
    <2>1. survey'.step \notin {"stat", "linked", "open"}
      BY DEF Reading
    <2>2. /\ survey'.of.linked \in Nat \X Nat
          /\ Inode(survey.of.linked[1])' /\ node'[survey'.of.linked[1]].kind = "file"
          /\ survey'.of.linked[2] <= node'[survey'.of.linked[1]].stamp
          /\ survey'.of.name \in DOMAIN survey'.first.identities
               /\ survey'.of.linked[1] = survey'.first.identities[survey'.of.name][1] =>
                 survey'.first.identities[survey'.of.name][2] <= survey'.of.linked[2]
      BY <1>1, <1>2 DEF InventoryInv, ReadingTrue, Inode
    <2>3. survey'.of.file = survey'.of.linked[1]
      OBVIOUS
    <2>4. survey'.of.name \in DOMAIN survey'.first.identities
            /\ Lookup(Walked, survey.of.name)' = survey'.first.identities[survey'.of.name][1] =>
              survey'.of.file = survey'.first.identities[survey'.of.name][1]
      BY <1>2, <1>4
    <2>5. node'[survey'.of.file].stamp = survey'.of.linked[2] =>
            /\ Begins(survey'.of.chunks, node'[survey'.of.file].content)
            /\ survey'.step \in {"after", "named"} =>
                 survey'.of.chunks = node'[survey'.of.file].content
      BY <1>1
    <2> QED
      BY <2>1, <2>2, <2>3, <2>4, <2>5 DEF ReadingTrue, Begins
  <1>6. survey'.step \notin Descending /\ survey'.step # "childStat"
    BY DEF Reading, Descending
  <1> QED
    BY <1>5, <1>6, StaysKeeps

(* The file is opened.                                                     *)
LEMMA OpenRegularKeeps ==
  ASSUME TreeOK, InventoryInv, OpenRegular
  PROVE  InventoryInv'
  <1>1. survey.step = "open" /\ UNCHANGED <<treeVars, moment>> /\ survey.step \in Reading
    BY DEF OpenRegular, Surveying, Reading
  <1>2. PICK i : i = Lookup(Walked, survey.of.name)
    OBVIOUS
  <1>3. CASE IsFile(i) /\ Identity(i) = survey.of.linked
    <2>1. i \in 1..Len(node) /\ i \in Nat /\ node[i].kind = "file" /\ node[i].content \in Seq(Nat)
          /\ Len(node[i].content) \in Nat
      BY <1>1, <1>2, <1>3, EntryIs, ReadingIs
    <2>2. survey' = [survey EXCEPT !.step = "read", !.of.file = i]
      BY <1>2, <1>3 DEF OpenRegular
    <2>3. "read" \in SurveySteps /\ survey \in Surveys
      BY DEF SurveySteps, Walking, Reading, InventoryInv
    <2>4. /\ survey' \in Surveys /\ survey'.step = "read" /\ survey'.root = survey.root
          /\ survey'.second = survey.second /\ survey'.folder = survey.folder
          /\ survey'.first = survey.first /\ survey'.scan = survey.scan
          /\ survey'.names = survey.names /\ survey'.of.name = survey.of.name
          /\ survey'.of.chunks = survey.of.chunks /\ survey'.of.linked = survey.of.linked
          /\ survey'.of.file = i
      BY <2>1, <2>2, <2>3 DEF Surveys
    <2>5. Stays
      BY <1>1, <2>4 DEF Stays, Walking, Reading
    <2>6. survey'.of.chunks = <<>>
      BY <1>1, <2>4 DEF InventoryInv, ReadingTrue
    <2>7. i = survey.of.linked[1]
      BY <1>3 DEF Identity
    <2>8. Begins(<<>>, node[i].content)
      <3>1. Len(<<>>) = 0
        OBVIOUS
      <3> QED
        BY <2>1, <3>1 DEF Begins
    <2>9. survey.of.name \in DOMAIN survey.first.identities
            /\ Lookup(Walked, survey.of.name) = survey.first.identities[survey.of.name][1] =>
              survey'.of.file = survey.first.identities[survey.of.name][1]
      BY <1>2, <2>4
    <2>10. survey'.step \in Reading \ {"open"} /\ survey'.step \notin {"after", "named"}
      BY <2>4 DEF Reading
    <2> QED
      BY <1>1, <2>4, <2>5, <2>6, <2>7, <2>8, <2>9, <2>10, ReadsOn
  <1>4. CASE ~(IsFile(i) /\ Identity(i) = survey.of.linked)
    <2>1. GiveUp
      BY <1>2, <1>4 DEF OpenRegular
    <2> QED
      BY <1>1, <2>1, GiveUpKeeps
  <1> QED
    BY <1>3, <1>4

(* What is known of the file once it is open.                              *)
LEMMA OpenIs ==
  ASSUME InventoryInv, survey.step \in Reading \ {"open"}
  PROVE  /\ survey.of.file = survey.of.linked[1]
         /\ survey.of.name \in DOMAIN survey.first.identities
              /\ Lookup(Walked, survey.of.name) = survey.first.identities[survey.of.name][1] =>
                survey.of.file = survey.first.identities[survey.of.name][1]
         /\ node[survey.of.file].stamp = survey.of.linked[2] =>
              /\ Begins(survey.of.chunks, node[survey.of.file].content)
              /\ survey.step \in {"after", "named"} =>
                   survey.of.chunks = node[survey.of.file].content
  BY DEF InventoryInv, ReadingTrue

(* A chunk is read.                                                        *)
LEMMA ReadPayloadKeeps ==
  ASSUME TreeOK, InventoryInv, ReadPayload
  PROVE  InventoryInv'
  <1>1. survey.step = "read" /\ UNCHANGED <<treeVars, moment>> /\ survey.step \in Reading
        /\ survey.step \in Reading \ {"open"} /\ survey.step # "root" /\ survey \in Surveys
    BY DEF ReadPayload, Surveying, Reading, InventoryInv
  <1>2. PICK i : i = survey.of.file /\ i = survey.of.linked[1]
    BY <1>1, OpenIs
  <1>3. PICK content \in Seq(Nat), chunks \in Seq(Nat) :
          content = node[i].content /\ chunks = survey.of.chunks
    BY <1>1, <1>2, ReadingIs
  <1>4. Len(chunks) \in Nat /\ Len(content) \in Nat
    BY LenProperties
  <1>5. node[i].stamp = survey.of.linked[2] => Begins(chunks, content)
    BY <1>1, <1>2, <1>3, OpenIs
  <1>6. CASE Len(chunks) + 1 > Len(content)
    <2>1. SurveyTo("after") /\ "after" \in SurveySteps
      BY <1>2, <1>3, <1>6 DEF ReadPayload, SurveySteps, Walking, Reading
    <2>2. /\ survey' \in Surveys /\ survey'.step = "after" /\ survey'.root = survey.root
          /\ survey'.second = survey.second /\ survey'.folder = survey.folder
          /\ survey'.first = survey.first /\ survey'.scan = survey.scan
          /\ survey'.names = survey.names /\ survey'.of = survey.of
      BY <1>1, <2>1, SurveyToIs
    <2>3. Stays
      BY <1>1, <2>2 DEF Stays, Walking, Reading
    <2>4. node[i].stamp = survey.of.linked[2] => chunks = content
      BY <1>4, <1>5, <1>6, BeginsMore
    <2>5. survey'.step \in Reading \ {"open"}
      BY <2>2 DEF Reading
    <2>6. survey.of.name \in DOMAIN survey.first.identities
            /\ Lookup(Walked, survey.of.name) = survey.first.identities[survey.of.name][1] =>
              survey'.of.file = survey.first.identities[survey.of.name][1]
      BY <1>1, <2>2, OpenIs
    <2>7. /\ survey'.of.linked = survey.of.linked /\ i = survey'.of.file
          /\ survey'.of.file = survey.of.linked[1]
          /\ node[i].stamp = survey'.of.linked[2] =>
               /\ Begins(survey'.of.chunks, node[i].content)
               /\ survey'.step \in {"after", "named"} => survey'.of.chunks = node[i].content
      BY <1>2, <1>3, <1>5, <2>2, <2>4
    <2> QED
      BY <1>1, <2>3, <2>5, <2>6, <2>7, ReadsOn
  <1>7. CASE ~(Len(chunks) + 1 > Len(content)) /\ Len(chunks) + 1 > survey.of.size
    <2>1. GiveUp
      BY <1>2, <1>3, <1>7 DEF ReadPayload
    <2> QED
      BY <1>1, <2>1, GiveUpKeeps
  <1>8. CASE ~(Len(chunks) + 1 > Len(content)) /\ ~(Len(chunks) + 1 > survey.of.size)
    <2>1. PICK more : more = Append(chunks, content[Len(chunks) + 1])
      OBVIOUS
    <2>2. more \in Seq(Nat)
      <3>1. content[Len(chunks) + 1] \in Nat
        BY <1>4, <1>8, ElementOfSeq
      <3> QED
        BY <2>1, <3>1
    <2>3. survey' = [survey EXCEPT !.of.chunks = more]
      BY <1>2, <1>3, <1>8, <2>1 DEF ReadPayload
    <2>4. node[i].stamp = survey.of.linked[2] => Begins(more, content)
      BY <1>4, <1>5, <1>8, <2>1, BeginsMore
    <2>5. /\ survey' \in Surveys /\ survey'.step = "read" /\ survey'.root = survey.root
          /\ survey'.second = survey.second /\ survey'.folder = survey.folder
          /\ survey'.first = survey.first /\ survey'.scan = survey.scan
          /\ survey'.names = survey.names /\ survey'.of.name = survey.of.name
          /\ survey'.of.chunks = more /\ survey'.of.linked = survey.of.linked
          /\ survey'.of.file = survey.of.file
      BY <1>1, <2>2, <2>3 DEF Surveys
    <2>6. Stays
      BY <1>1, <2>5 DEF Stays, Walking, Reading
    <2>7. survey'.step \in Reading \ {"open"} /\ survey'.step \notin {"after", "named"}
      BY <2>5 DEF Reading
    <2>8. survey.of.name \in DOMAIN survey.first.identities
            /\ Lookup(Walked, survey.of.name) = survey.first.identities[survey.of.name][1] =>
              survey'.of.file = survey.first.identities[survey.of.name][1]
      BY <1>1, <2>5, OpenIs
    <2>9. /\ survey'.of.linked = survey.of.linked /\ i = survey'.of.file
          /\ survey'.of.file = survey.of.linked[1]
          /\ node[i].stamp = survey'.of.linked[2] =>
               /\ Begins(survey'.of.chunks, node[i].content)
               /\ survey'.step \in {"after", "named"} => survey'.of.chunks = node[i].content
      BY <1>2, <1>3, <2>4, <2>5, <2>7
    <2> QED
      BY <1>1, <2>6, <2>7, <2>8, <2>9, ReadsOn
  <1> QED
    BY <1>6, <1>7, <1>8

(* The file is as it was when it was looked at.                            *)
LEMMA CheckReadKeeps ==
  ASSUME TreeOK, InventoryInv, CheckRead
  PROVE  InventoryInv'
  <1>1. survey.step = "after" /\ UNCHANGED <<treeVars, moment>> /\ survey.step \in Reading
        /\ survey.step \in Reading \ {"open"} /\ survey.step # "root" /\ survey \in Surveys
    BY DEF CheckRead, Surveying, Reading, InventoryInv
  <1>2. CASE Identity(survey.of.file) = survey.of.linked
    <2>1. SurveyTo("named") /\ "named" \in SurveySteps
      BY <1>2 DEF CheckRead, SurveySteps, Walking, Reading
    <2>2. /\ survey' \in Surveys /\ survey'.step = "named" /\ survey'.root = survey.root
          /\ survey'.second = survey.second /\ survey'.folder = survey.folder
          /\ survey'.first = survey.first /\ survey'.scan = survey.scan
          /\ survey'.names = survey.names /\ survey'.of = survey.of
      BY <1>1, <2>1, SurveyToIs
    <2>3. Stays
      BY <1>1, <2>2 DEF Stays, Walking, Reading
    <2>4. survey'.step \in Reading \ {"open"}
      BY <2>2 DEF Reading
    <2>5. survey.of.name \in DOMAIN survey.first.identities
            /\ Lookup(Walked, survey.of.name) = survey.first.identities[survey.of.name][1] =>
              survey'.of.file = survey.first.identities[survey.of.name][1]
      BY <1>1, <2>2, OpenIs
    <2>6. PICK i : i = survey.of.file
      OBVIOUS
    <2>7. /\ survey'.of.linked = survey.of.linked /\ i = survey'.of.file
          /\ survey'.of.file = survey.of.linked[1]
          /\ node[i].stamp = survey'.of.linked[2] =>
               /\ Begins(survey'.of.chunks, node[i].content)
               /\ survey'.step \in {"after", "named"} => survey'.of.chunks = node[i].content
      BY <1>1, <2>2, <2>6, OpenIs
    <2> QED
      BY <1>1, <2>3, <2>4, <2>5, <2>7, ReadsOn
  <1>3. CASE Identity(survey.of.file) # survey.of.linked
    <2>1. GiveUp
      BY <1>3 DEF CheckRead
    <2> QED
      BY <1>1, <2>1, GiveUpKeeps
  <1> QED
    BY <1>2, <1>3

(* The walk comes to another name, or ends.                                *)
Continues(state) ==
  /\ UNCHANGED treeVars /\ moment' \in NameContents
  /\ state.root \in 1..Len(node) /\ node[state.root].kind = "root"
  /\ Noted(state.first) /\ Noted(state.scan) /\ (~state.second => state.first = Blank)
  /\ state.names \subseteq (IF state.folder = Nothing THEN Range(RootNames) ELSE Range(FolderNames))
  /\ state.folder # Nothing => DirNoted(state.scan) /\ state.folder = DirOf(state.scan)
  /\ state.folder = Nothing /\ state.names # {} =>
       /\ DOMAIN state.scan.identities \subseteq Range(RootNames)
       /\ Folder \notin DOMAIN state.scan.identities
  /\ ~state.second /\ DirNoted(state.scan) /\ Unwritten(Folder, state.scan) =>
       DOMAIN node[DirOf(state.scan)].names \subseteq DOMAIN state.scan.files \cup state.names
  /\ state.second /\ DirNoted(state.first) /\ Unwritten(Folder, state.first) =>
       DOMAIN node[DirOf(state.first)].names \subseteq DOMAIN state.first.files

(* The invariant after such a step.                                        *)
LEMMA ContinuesKeeps ==
  ASSUME NEW state \in Surveys, Continues(state), WalksOn(state), Ahead' = state.names,
         survey'.second => RootWas' /\ FolderFound' /\ FilesFound'
  PROVE  InventoryInv'
  <1>1. node' = node /\ UNCHANGED treeVars
    BY DEF Continues, treeVars
  <1>2. PICK first, scan, root : first = state.first /\ scan = state.scan /\ root = state.root
    OBVIOUS
  <1>3. survey'.first = first /\ survey'.scan = scan /\ survey'.root = root
        /\ survey'.second = state.second /\ survey' \in Surveys
    BY <1>2 DEF WalksOn
  <1>4. Noted(survey.first)' /\ Noted(survey.scan)'
    <2>1. Noted(first)' /\ Noted(scan)'
      BY <1>1, <1>2, NotedStays DEF Continues
    <2> QED
      BY <1>3, <2>1 DEF Noted, DirNoted, DirOf
  <1>5. \/ survey'.step = "walked" /\ state.names = {} /\ survey'.folder = Nothing
        \/ /\ survey'.step = "stat" /\ state.names # {} /\ survey'.folder = state.folder
           /\ survey'.of.name \in state.names /\ survey'.of.chunks = <<>>
           /\ survey'.names = state.names \ {survey'.of.name}
           /\ state.names \subseteq Range(RootNames) /\ survey'.of.name = Folder =>
                survey'.names = {}
    BY DEF WalksOn
  <1>6. /\ "walked" \notin Walking /\ "stat" \in Walking \ {"childList"} /\ "stat" \in Walking
        /\ "walked" \notin Descending /\ "stat" \notin Descending
        /\ "walked" \notin Reading /\ "stat" \notin Reading
    BY DEF Walking, Descending, Reading
  <1>7. WalkTrue'
    <2>1. Inode(survey.root)' /\ node'[survey'.root].kind = "root"
      BY <1>1, <1>2, <1>3 DEF Inode, Continues
    <2>2. CASE survey'.step = "walked"
      BY <1>5, <1>6, <2>1, <2>2 DEF WalkTrue
    <2>3. CASE survey'.step = "stat"
      <3>1. /\ survey'.names \cup {survey'.of.name} = state.names
            /\ survey'.folder = state.folder /\ state.names # {}
        BY <1>5, <2>3
      <3>2. survey'.names \cup {survey'.of.name}
              \subseteq (IF survey'.folder = Nothing THEN Range(RootNames) ELSE Range(FolderNames))
        BY <3>1 DEF Continues
      <3>3. survey'.folder = Nothing /\ survey'.of.name = Folder => survey'.names = {}
        BY <1>5, <2>3 DEF Continues
      <3>4. survey'.folder # Nothing => DirNoted(survey.scan)' /\ survey'.folder = DirOf(survey.scan)'
        BY <1>2, <1>3, <3>1 DEF Continues, DirNoted, DirOf
      <3>5. survey'.folder = Nothing =>
              /\ DOMAIN survey'.scan.identities \subseteq Range(RootNames)
              /\ Folder \notin DOMAIN survey'.scan.identities
        BY <1>2, <1>3, <3>1 DEF Continues
      <3> QED
        BY <1>6, <2>1, <2>3, <3>2, <3>3, <3>4, <3>5 DEF WalkTrue
    <2> QED
      BY <1>5, <2>2, <2>3
  <1>8. ReadingTrue'
    BY <1>5, <1>6 DEF ReadingTrue
  <1>9. FolderListed'
    <2>1. ~survey'.second /\ DirNoted(scan) /\ Unwritten(Folder, scan) =>
            DOMAIN node[DirOf(scan)].names \subseteq DOMAIN scan.files \cup Ahead'
      BY <1>2, <1>3 DEF Continues
    <2>2. survey'.second /\ DirNoted(first) /\ Unwritten(Folder, first) =>
            DOMAIN node[DirOf(first)].names \subseteq DOMAIN first.files
      BY <1>2, <1>3 DEF Continues
    <2> QED
      BY <1>1, <1>3, <2>1, <2>2 DEF FolderListed, DirNoted, DirOf, Unwritten
  <1>10. moment' \in NameContents /\ (~survey'.second => survey'.first = Blank)
    BY <1>2, <1>3 DEF Continues
  <1>11. survey'.step \notin {"rootAgain", "evidence", "status"}
    BY <1>5
  <1>12. InventoryExact'
    BY <1>11 DEF InventoryExact
  <1>13. Second' => RootWas' /\ FolderFound' /\ FilesFound'
    BY DEF Second
  <1> QED
    BY <1>3, <1>4, <1>7, <1>8, <1>9, <1>10, <1>11, <1>12, <1>13 DEF InventoryInv

(* The whole tree at a moment.                                             *)
LEMMA WholeIs ==
  ASSUME TreeOK
  PROVE  /\ Whole \in NameContents
         /\ \A n : n \in DOMAIN Whole <=> n \in Names /\ Visible(n) # NoFile
         /\ \A n \in DOMAIN Whole : Whole[n] = Visible(n)
  <1> DEFINE D == {n \in Names : Visible(n) # NoFile}
  <1>1. ASSUME NEW n \in D
        PROVE  Visible(n) \in Seq(Nat)
    <2>1. IsDirectory(Home(n)) /\ IsFile(Lookup(Home(n), n))
          /\ Visible(n) = node[Lookup(Home(n), n)].content
      BY DEF Visible
    <2>2. PICK d : d = Home(n)
      OBVIOUS
    <2>3. top \in 1..Len(node) /\ node[top].kind \in {"root", "folder"}
      BY DEF TreeOK, Inode
    <2>4. d \in 1..Len(node) /\ node[d].kind \in {"root", "folder"}
      <3>1. CASE d = top
        BY <2>3, <3>1
      <3>2. CASE d = Lookup(top, Folder)
        <4>1. PICK t \in 1..Len(node) : t = top /\ node[t].kind \in {"root", "folder"}
          BY <2>3
        <4>2. IsDirectory(Lookup(t, Folder))
          BY <2>1, <2>2, <3>2, <4>1
        <4> QED
          BY <3>2, <4>1, <4>2, OnlyFolder
      <3> QED
        BY <2>2, <3>1, <3>2 DEF Home
    <2>5. PICK i : i = Lookup(d, n)
      OBVIOUS
    <2>6. i # Nothing /\ node[i].kind = "file" /\ Visible(n) = node[i].content
      BY <2>1, <2>2, <2>5 DEF IsFile
    <2>7. i \in 1..Len(node)
      BY <2>4, <2>5, <2>6, LookupIs
    <2> QED
      BY <2>6, <2>7, FilesAre
  <1>2. Whole = [n \in D |-> Visible(n)]
    BY DEF Whole
  <1>3. D \in SUBSET Names /\ Whole \in [D -> Seq(Nat)]
    BY <1>1, <1>2
  <1>4. DOMAIN Whole = D /\ \A n \in DOMAIN Whole : Whole[n] = Visible(n)
    BY <1>2
  <1>5. Whole \in NameContents
    BY <1>3, MapsAre DEF NameContents
  <1> QED
    BY <1>4, <1>5

(* What is visible is linked where it belongs.                             *)
LEMMA VisibleIs ==
  ASSUME TreeOK, NEW n, Visible(n) # NoFile
  PROVE  /\ n \in Range(FolderNames) =>
              /\ IsDirectory(Lookup(top, Folder)) /\ Lookup(top, Folder) # Nothing
              /\ Folder \in DOMAIN node[top].names /\ Visible(Folder) = NoFile
              /\ n \in DOMAIN node[Lookup(top, Folder)].names
         /\ n \notin Range(FolderNames) =>
              n \in DOMAIN node[top].names /\ IsFile(Lookup(top, n))
  <1>1. IsDirectory(Home(n)) /\ IsFile(Lookup(Home(n), n))
    BY DEF Visible
  <1>2. ASSUME n \in Range(FolderNames)
        PROVE  /\ IsDirectory(Lookup(top, Folder)) /\ Lookup(top, Folder) # Nothing
               /\ Folder \in DOMAIN node[top].names /\ Visible(Folder) = NoFile
               /\ n \in DOMAIN node[Lookup(top, Folder)].names
    <2>1. Home(n) = Lookup(top, Folder)
      BY <1>2 DEF Home
    <2>2. IsDirectory(Lookup(top, Folder)) /\ Lookup(top, Folder) # Nothing
      BY <1>1, <2>1 DEF IsDirectory
    <2>3. Folder \in DOMAIN node[top].names
      BY <2>2 DEF Lookup
    <2>4. Folder \notin Range(FolderNames)
      BY NamesAre
    <2>5. Home(Folder) = top
      BY <2>4 DEF Home
    <2>6. ~IsFile(Lookup(top, Folder))
      BY <2>2 DEF IsFile, IsDirectory
    <2>7. Visible(Folder) = NoFile
      BY <2>5, <2>6 DEF Visible
    <2>8. PICK d : d = Lookup(top, Folder)
      OBVIOUS
    <2>9. IsFile(Lookup(d, n))
      BY <1>1, <2>1, <2>8
    <2>10. n \in DOMAIN node[d].names
      BY <2>9 DEF IsFile, Lookup
    <2> QED
      BY <2>2, <2>3, <2>7, <2>8, <2>10
  <1>3. ASSUME n \notin Range(FolderNames)
        PROVE  n \in DOMAIN node[top].names /\ IsFile(Lookup(top, n))
    <2>1. Home(n) = top
      BY <1>3 DEF Home
    <2>2. IsFile(Lookup(top, n))
      BY <1>1, <2>1
    <2> QED
      BY <2>2 DEF IsFile, Lookup
  <1> QED
    BY <1>2, <1>3

(* When the second walk lists the root, the moment is what the tree is.    *)
LEMMA MomentInRoot ==
  ASSUME TreeOK, NEW n \in Range(RootNames), NEW i \in 1..Len(node), node[i].kind = "file",
         Lookup(top, n) = i
  PROVE  n \in DOMAIN Whole /\ Whole[n] = node[i].content
  <1>1. n \notin Range(FolderNames) /\ n \in Names
    BY NamesAre
  <1>2. Visible(n) = node[i].content
    BY <1>1, VisibleInRoot
  <1>3. node[i].content # NoFile
    BY FilesAre
  <1> QED
    BY <1>1, <1>2, <1>3, WholeIs

(* ... and so is what it has in the folder.                                *)
LEMMA MomentInFolder ==
  ASSUME TreeOK, NEW n \in Range(FolderNames), NEW f \in 1..Len(node), node[f].kind = "folder",
         Lookup(top, Folder) = f,
         NEW i \in 1..Len(node), node[i].kind = "file", Lookup(f, n) = i
  PROVE  n \in DOMAIN Whole /\ Whole[n] = node[i].content
  <1>1. n \in Names
    BY NamesAre
  <1>2. Visible(n) = node[i].content
    BY VisibleInFolder
  <1>3. node[i].content # NoFile
    BY FilesAre
  <1> QED
    BY <1>1, <1>2, <1>3, WholeIs

(* The root is listed; in the second walk that is the moment.              *)
LEMMA ListRootKeeps ==
  ASSUME TreeOK, InventoryInv, ListRoot
  PROVE  InventoryInv'
  <1> DEFINE state == [survey EXCEPT !.names = DOMAIN node[survey.root].names]
  <1>1. /\ survey.step = "list" /\ UNCHANGED treeVars /\ survey \in Surveys
        /\ moment' = (IF survey.second THEN Whole ELSE moment)
    BY DEF ListRoot, Surveying, InventoryInv
  <1>2. Walk(state)
    BY DEF ListRoot
  <1>3. /\ survey.root \in 1..Len(node) /\ node[survey.root].kind = "root"
        /\ survey.scan = Blank /\ survey.folder = Nothing
    BY <1>1, BothNoted DEF InventoryInv, WalkTrue
  <1>a. PICK root \in 1..Len(node) : root = survey.root /\ node[root].kind = "root"
    BY <1>3
  <1>b. PICK first, ns : first = survey.first /\ ns = DOMAIN node[root].names
    OBVIOUS
  <1>4. /\ root = survey.root /\ node[root].kind = "root" /\ first = survey.first
        /\ ns = DOMAIN node[root].names /\ root \in 1..Len(node)
    BY <1>a, <1>b
  <1>5. node[root].names \in NameMaps
    <2>1. node[root] \in Nodes
      BY ElementOfSeq DEF TreeOK
    <2> QED
      BY <1>4, <2>1, NodesAre
  <1>6. ns \in SUBSET Names /\ ns \subseteq Range(RootNames)
    <2>1. ns \in SUBSET Names
      BY <1>4, <1>5, NameMapsAre
    <2>2. \A n \in ns : n \in DirectoryNames("root")
      BY <1>4 DEF TreeOK, Linked
    <2> QED
      BY <2>1, <2>2 DEF DirectoryNames
  <1>7. state = [survey EXCEPT !.names = ns]
    BY <1>4
  <1> HIDE DEF state
  <1>8. /\ state \in Surveys /\ state.names = ns /\ state.root = root /\ state.first = first
        /\ state.scan = Blank /\ state.folder = Nothing /\ state.second = survey.second
    BY <1>1, <1>3, <1>4, <1>6, <1>7 DEF Surveys
  <1>9. WalksOn(state) /\ Ahead' = ns
    BY <1>2, <1>8, WalkIs
  <1>10. Noted(first) /\ (~survey.second => first = Blank)
         /\ (survey.second /\ DirNoted(first) /\ Unwritten(Folder, first) =>
               DOMAIN node[DirOf(first)].names \subseteq DOMAIN first.files)
    BY <1>4, BothNoted
  <1>11. moment' \in NameContents
    BY <1>1, WholeIs DEF InventoryInv
  <1>12. Continues(state)
    BY <1>1, <1>4, <1>6, <1>8, <1>10, <1>11, BlankIs, BlankNoted DEF Continues
  <1>13. /\ survey'.first = first /\ survey'.scan = Blank /\ survey'.root = root
         /\ survey'.second = survey.second /\ survey'.step # "childStat"
         /\ node' = node /\ top' = top
    BY <1>1, <1>8, <1>9 DEF WalksOn, treeVars
  <1>14. ASSUME survey'.second
         PROVE  RootWas' /\ FolderFound' /\ FilesFound'
    <2>1. moment' = Whole
      BY <1>1, <1>13, <1>14
    <2>2. \A n : SameNoted(n)' => FALSE
      BY <1>13, BlankIs DEF SameNoted
    <2>3. FilesFound'
      BY <1>13, BlankIs DEF FilesFound
    <2>4. ASSUME top = root, NEW n \in DOMAIN first.identities \cap Range(RootNames)
          PROVE  WasThere(n, survey.root)'
      <3>1. PICK i \in 1..Len(node) : i = first.identities[n][1]
        BY <1>10 DEF Noted, Inode
      <3>2. ASSUME Lookup(root, n) = i, node[i].kind = "file"
            PROVE  n \in DOMAIN moment' /\ moment'[n] = node[i].content
        BY <2>1, <2>4, <3>2, MomentInRoot
      <3> QED
        BY <1>13, <3>1, <3>2 DEF WasThere, Lookup
    <2>5. ASSUME top = root, NEW n \in DOMAIN moment'
          PROVE  /\ n \in Range(RootNames) => n \in ns
                 /\ n \in Range(FolderNames) => Folder \in ns
      <3>1. Visible(n) # NoFile
        BY <2>1, WholeIs
      <3> QED
        BY <1>4, <2>5, <3>1, VisibleIs, NamesAre
    <2>6. Folder \in DOMAIN moment' => DOMAIN moment' \cap Range(FolderNames) = {}
      <3> SUFFICES ASSUME Folder \in DOMAIN moment', NEW n \in DOMAIN moment',
                          n \in Range(FolderNames)
                   PROVE  FALSE
        OBVIOUS
      <3>1. Visible(n) # NoFile /\ Visible(Folder) # NoFile
        BY <2>1, WholeIs
      <3> QED
        BY <3>1, VisibleIs
    <2>7. RootWas'
      <3>1. top' = survey'.root =>
              /\ \A n \in DOMAIN survey'.first.identities \cap Range(RootNames) :
                   WasThere(n, survey.root)'
              /\ DOMAIN moment' \cap Range(RootNames) \subseteq DOMAIN survey'.scan.identities \cup Ahead'
              /\ DOMAIN moment' \cap Range(FolderNames) # {} =>
                   Folder \in DOMAIN survey'.scan.identities \cup Ahead'
        BY <1>9, <1>13, <2>4, <2>5
      <3> QED
        BY <2>6, <3>1 DEF RootWas
    <2>8. ASSUME DirNoted(first), Lookup(root, Folder) = DirOf(first), Unwritten(Folder, first)
          PROVE  FolderWas'
      <3> SUFFICES ASSUME top = root
                   PROVE  /\ Folder \notin DOMAIN moment'
                          /\ DOMAIN moment' \cap Range(FolderNames) \subseteq DOMAIN survey'.first.files
                          /\ \A n \in DOMAIN survey'.first.identities \cap Range(FolderNames) :
                               WasThere(n, DirOf(survey.first))'
        BY <1>13 DEF FolderWas
      <3>1. PICK f \in 1..Len(node) : f = DirOf(first) /\ node[f].kind = "folder"
        BY <1>10, <2>8 DEF Noted, DirNoted, DirOf, Inode
      <3>2. Lookup(top, Folder) = f
        BY <2>8, <3>1
      <3>3. Folder \notin DOMAIN moment'
        <4>1. ~IsFile(Lookup(top, Folder))
          BY <3>1, <3>2 DEF IsFile
        <4>2. Folder \notin Range(FolderNames)
          BY NamesAre
        <4>3. Visible(Folder) = NoFile
          BY <4>1, <4>2, VisibleIs
        <4> QED
          BY <2>1, <4>3, WholeIs
      <3>4. DOMAIN moment' \cap Range(FolderNames) \subseteq DOMAIN survey'.first.files
        <4> SUFFICES ASSUME NEW n \in DOMAIN moment', n \in Range(FolderNames)
                     PROVE  n \in DOMAIN first.files
          BY <1>13
        <4>1. Visible(n) # NoFile
          BY <2>1, WholeIs
        <4>2. n \in DOMAIN node[Lookup(top, Folder)].names
          BY <4>1, VisibleIs
        <4>3. n \in DOMAIN node[f].names
          BY <3>2, <4>2
        <4>4. survey.second
          BY <1>13, <1>14
        <4> QED
          BY <1>10, <2>8, <3>1, <4>3, <4>4
      <3>5. ASSUME NEW n \in DOMAIN first.identities \cap Range(FolderNames)
            PROVE  WasThere(n, DirOf(survey.first))'
        <4>1. PICK i \in 1..Len(node) : i = first.identities[n][1]
          BY <1>10 DEF Noted, Inode
        <4>2. ASSUME Lookup(f, n) = i, node[i].kind = "file"
              PROVE  n \in DOMAIN moment' /\ moment'[n] = node[i].content
          BY <2>1, <3>1, <3>2, <4>2, MomentInFolder
        <4>3. DirOf(survey.first)' = f
          BY <1>13, <3>1 DEF DirOf
        <4> QED
          BY <1>13, <4>1, <4>2, <4>3 DEF WasThere, Lookup
      <3> QED
        BY <1>13, <3>3, <3>4, <3>5
    <2>9. FolderFound'
      <3>1. ~DirNoted(survey.scan)'
        BY <1>13, BlankIs DEF DirNoted
      <3>2. (DirNoted(survey.first)' <=> DirNoted(first)) /\ DirOf(survey.first)' = DirOf(first)
            /\ (Unwritten(Folder, survey.first)' <=> Unwritten(Folder, first))
            /\ Lookup(survey.root, Folder)' = Lookup(root, Folder)
        BY <1>13 DEF DirNoted, DirOf, Unwritten, Lookup
      <3> QED
        BY <1>13, <2>8, <3>1, <3>2 DEF FolderFound
    <2> QED
      BY <2>3, <2>7, <2>9
  <1> QED
    BY <1>8, <1>9, <1>12, <1>14, ContinuesKeeps


(* Identities under names.                                                 *)
LEMMA IdentitiesWith ==
  ASSUME NEW f \in Identities, NEW n \in Names, NEW v \in Nat \X Nat
  PROVE  With(f, n, v) \in Identities
  <1>1. DOMAIN f \subseteq Names /\ \A m \in DOMAIN f : f[m] \in Nat \X Nat
    BY MapsAre DEF Identities
  <1>2. DOMAIN f \cup {n} \in SUBSET Names /\ With(f, n, v) \in [DOMAIN f \cup {n} -> Nat \X Nat]
    BY <1>1 DEF With
  <1> QED
    BY <1>2, MapsAre DEF Identities

(* The identity of an inode.                                               *)
LEMMA IdentityIs ==
  ASSUME TreeOK, NEW i \in 1..Len(node)
  PROVE  /\ Identity(i) \in Nat \X Nat /\ Identity(i)[1] = i /\ Identity(i)[2] = node[i].stamp
         /\ i \in Nat /\ node[i].stamp \in Nat
         /\ Identity(i)[2] <= node[Identity(i)[1]].stamp
  <1>1. node[i] \in Nodes
    BY ElementOfSeq DEF TreeOK
  <1>2. PICK stamp \in Nat : stamp = node[i].stamp
    BY <1>1, NodesAre
  <1>3. i \in Nat
    BY LenProperties DEF TreeOK
  <1>4. <<i, stamp>> \in Nat \X Nat /\ <<i, stamp>>[1] = i /\ <<i, stamp>>[2] = stamp
        /\ stamp <= stamp
    BY <1>3
  <1>5. Identity(i) = <<i, stamp>>
    BY <1>2 DEF Identity
  <1> QED
    BY <1>2, <1>3, <1>4, <1>5

(* The folder's identity is noted. If it is the one the first walk has     *)
(* noted, the folder has been there, unwritten, since the second began.    *)
LEMMA StatChildKeeps ==
  ASSUME TreeOK, InventoryInv, StatChild
  PROVE  InventoryInv'
  <1>1. /\ survey.step = "childStat" /\ UNCHANGED <<treeVars, moment>> /\ survey \in Surveys
        /\ survey.step \in Walking /\ survey.step \in Descending
        /\ survey.step \in Descending \ {"child"} /\ survey.step # "childList"
        /\ survey.step # "root"
        /\ node' = node /\ top' = top /\ moment' = moment /\ UNCHANGED treeVars
    BY DEF StatChild, Surveying, InventoryInv, Walking, Descending, treeVars
  <1>2. /\ survey.folder = Nothing /\ survey.of.name = Folder
        /\ survey.of.file \in 1..Len(node) /\ node[survey.of.file].kind = "folder"
        /\ Folder \notin DOMAIN survey.scan.identities
        /\ DOMAIN survey.scan.identities \subseteq Range(RootNames)
    BY <1>1 DEF InventoryInv, WalkTrue, Inode
  <1>a. PICK f \in 1..Len(node) : f = survey.of.file /\ node[f].kind = "folder"
    BY <1>2
  <1>b. PICK scan \in Scans : scan = survey.scan
    BY SurveyIs DEF InventoryInv
  <1>c. PICK first, root : first = survey.first /\ root = survey.root
    OBVIOUS
  <1>3. /\ f = survey.of.file /\ node[f].kind = "folder" /\ first = survey.first
        /\ scan = survey.scan /\ root = survey.root
        /\ f \in 1..Len(node) /\ scan \in Scans
    BY <1>a, <1>b, <1>c
  <1>4. PICK v \in Nat \X Nat :
          v = Identity(f) /\ v[1] = f /\ v[2] = node[f].stamp /\ v[2] <= node[f].stamp
    BY IdentityIs
  <1>5. Folder \in Names /\ Folder \in Range(RootNames) /\ Folder \notin Range(FolderNames)
    BY NamesAre
  <1>6. scan.files \in NameContents /\ scan.identities \in Identities
    BY DEF Scans
  <1>7. PICK ids \in Identities :
          /\ ids = With(scan.identities, Folder, v)
          /\ DOMAIN ids = DOMAIN scan.identities \cup {Folder} /\ ids[Folder] = v
          /\ \A m \in DOMAIN scan.identities : m # Folder => ids[m] = scan.identities[m]
    <2>1. PICK old \in Identities : old = scan.identities
      BY <1>6
    <2>2. PICK g \in Identities : g = With(old, Folder, v)
      BY <1>4, <1>5, <2>1, IdentitiesWith
    <2>3. /\ DOMAIN g = DOMAIN old \cup {Folder} /\ g[Folder] = v
          /\ \A m \in DOMAIN old : m # Folder => g[m] = old[m]
      BY <2>2 DEF With
    <2> QED
      BY <2>1, <2>2, <2>3
  <1>8. PICK now \in Scans : now.files = scan.files /\ now.identities = ids
                             /\ now = [scan EXCEPT !.identities = ids]
    BY <1>6 DEF Scans
  <1>9. survey' = [survey EXCEPT !.step = "childList", !.scan = now]
    <2>1. survey' = [survey EXCEPT !.step = "childList", !.scan.identities = ids]
      BY <1>2, <1>3, <1>4, <1>7 DEF StatChild
    <2> QED
      BY <1>1, <1>3, <1>8, <2>1 DEF Surveys
  <1>10. "childList" \in SurveySteps
    BY DEF SurveySteps, Walking, Descending
  <1>11. /\ survey' \in Surveys /\ survey'.step = "childList" /\ survey'.root = root
         /\ survey'.second = survey.second /\ survey'.folder = survey.folder
         /\ survey'.first = first /\ survey'.scan = now
         /\ survey'.names = survey.names /\ survey'.of = survey.of
    BY <1>1, <1>3, <1>9, <1>10 DEF Surveys
  <1>12. Noted(first) /\ Noted(scan) /\ (~survey.second => first = Blank)
    BY <1>3, BothNoted
  <1>13. /\ Folder \notin DOMAIN scan.identities /\ Folder \notin DOMAIN scan.files
         /\ DOMAIN scan.identities \subseteq Range(RootNames)
         /\ DOMAIN scan.files \subseteq Range(RootNames)
    BY <1>2, <1>3, <1>12 DEF Noted
  <1>14. DirNoted(now) /\ DirOf(now) = f
    BY <1>4, <1>7, <1>8, <1>13 DEF DirNoted, DirOf
  <1>15. Noted(now)
    <2>1. DOMAIN now.files \subseteq DOMAIN now.identities
      BY <1>7, <1>8, <1>12 DEF Noted
    <2>2. ASSUME NEW n \in DOMAIN now.identities
          PROVE  /\ Inode(now.identities[n][1])
                 /\ now.identities[n][2] <= node[now.identities[n][1]].stamp
                 /\ n # Folder => n \in DOMAIN now.files
      <3>1. CASE n = Folder
        BY <1>4, <1>7, <1>8, <3>1 DEF Inode
      <3>2. CASE n # Folder
        BY <1>7, <1>8, <1>12, <3>2 DEF Noted
      <3> QED
        BY <3>1, <3>2
    <2> QED
      BY <1>3, <1>14, <2>1, <2>2 DEF Noted
  <1>16. Noted(survey.first)' /\ Noted(survey.scan)'
    <2>1. Noted(first)' /\ Noted(now)'
      BY <1>1, <1>12, <1>15, NotedStays
    <2> QED
      BY <1>11, <2>1 DEF Noted, DirNoted, DirOf
  <1>17. /\ survey'.step \notin Between /\ survey'.step \in Walking /\ survey'.step \in Descending
         /\ survey'.step \notin Reading
         /\ survey'.step \notin {"root", "rootPath", "list", "evidence", "walked", "rootAgain",
                                 "stat", "linked", "open", "status", "childStat"}
    BY <1>11 DEF Between, Walking, Descending, Reading
  <1>18. WalkTrue'
    <2>1. Inode(survey.root)' /\ node'[survey'.root].kind = "root"
      BY <1>1, <1>3, <1>11, BothNoted DEF Inode
    <2>2. /\ survey'.names \cup {survey'.of.name} \subseteq Range(RootNames)
          /\ survey'.of.name = Folder /\ survey'.names = {} /\ survey'.folder = Nothing
      BY <1>1, <1>2, <1>11 DEF InventoryInv, WalkTrue
    <2>3. DOMAIN survey'.scan.identities \subseteq Range(RootNames)
      BY <1>5, <1>7, <1>8, <1>11, <1>13
    <2>4. Inode(survey.of.file)' /\ node'[survey'.of.file].kind = "folder"
      BY <1>1, <1>3, <1>11 DEF Inode
    <2>5. DirNoted(survey.scan)' /\ DirOf(survey.scan)' = survey'.of.file
      BY <1>3, <1>11, <1>14 DEF DirNoted, DirOf
    <2> QED
      BY <1>11, <1>17, <2>1, <2>2, <2>3, <2>4, <2>5 DEF WalkTrue
  <1>19. ReadingTrue'
    BY <1>17 DEF ReadingTrue
  <1>20. FolderListed'
    <2>1. survey.second /\ DirNoted(first) /\ Unwritten(Folder, first) =>
            DOMAIN node[DirOf(first)].names \subseteq DOMAIN first.files
      BY <1>3, BothNoted
    <2>2. "childList" \notin (Walking \ {"childList"}) \cup {"walked"}
      OBVIOUS
    <2> QED
      BY <1>1, <1>11, <2>1, <2>2 DEF FolderListed, DirNoted, DirOf, Unwritten
  <1>21. ASSUME Second'
         PROVE  RootWas' /\ FolderFound' /\ FilesFound'
    <2>1. Second
      BY <1>1, <1>11, <1>21 DEF Second
    <2>2. RootWas /\ FolderFound /\ FilesFound
      BY <2>1 DEF InventoryInv
    <2>3. Ahead' = Ahead
      BY <1>1, <1>11, <1>17 DEF Ahead
    <2>4. \A n, d : (WasThere(n, d)' <=> WasThere(n, d))
      BY <1>1, <1>3, <1>11, TreeStays
    <2>5. RootWas'
      <3>1. \A n : WasThere(n, survey.root)' <=> WasThere(n, root)
        BY <1>1, <1>3, <1>11 DEF WasThere, Lookup, Unwritten
      <3>2. top = root =>
              /\ \A n \in DOMAIN first.identities \cap Range(RootNames) : WasThere(n, root)
              /\ DOMAIN moment \cap Range(RootNames) \subseteq DOMAIN scan.identities \cup Ahead
              /\ DOMAIN moment \cap Range(FolderNames) # {} =>
                   Folder \in DOMAIN scan.identities \cup Ahead
        BY <1>3, <2>2 DEF RootWas
      <3>3. Folder \in DOMAIN moment => DOMAIN moment \cap Range(FolderNames) = {}
        BY <2>2 DEF RootWas
      <3>4. DOMAIN scan.identities \subseteq DOMAIN survey'.scan.identities
        BY <1>7, <1>8, <1>11
      <3>5. top' = survey'.root =>
              /\ \A n \in DOMAIN survey'.first.identities \cap Range(RootNames) :
                   WasThere(n, survey.root)'
              /\ DOMAIN moment' \cap Range(RootNames)
                   \subseteq DOMAIN survey'.scan.identities \cup Ahead'
              /\ DOMAIN moment' \cap Range(FolderNames) # {} =>
                   Folder \in DOMAIN survey'.scan.identities \cup Ahead'
        BY <1>1, <1>11, <2>3, <3>1, <3>2, <3>4
      <3> QED
        BY <1>1, <3>3, <3>5 DEF RootWas
    <2>6. FolderWas' <=> FolderWas
      <3>1. PICK d : d = DirOf(first)
        OBVIOUS
      <3>2. \A n : WasThere(n, DirOf(survey.first))' <=> WasThere(n, d)
        BY <1>1, <1>3, <1>11, <3>1 DEF WasThere, Lookup, DirOf, Unwritten
      <3>3. \A n : WasThere(n, DirOf(survey.first)) <=> WasThere(n, d)
        BY <1>3, <3>1
      <3> QED
        BY <1>1, <1>3, <1>11, <3>2, <3>3 DEF FolderWas
    <2>7. ASSUME DirNoted(first)
          PROVE  /\ Lookup(root, Folder) = DirOf(first) /\ Unwritten(Folder, first) => FolderWas
                 /\ DirNoted(now) /\ Folder \in DOMAIN first.identities
                      /\ first.identities[Folder] = now.identities[Folder] => FolderWas
      <3>1. /\ Lookup(root, Folder) = DirOf(first) /\ Unwritten(Folder, first) => FolderWas
            /\ f = DirOf(first) /\ Unwritten(Folder, first) => FolderWas
        BY <1>1, <1>3, <2>2, <2>7 DEF FolderFound
      <3>2. first.identities[Folder] = v => f = DirOf(first) /\ Unwritten(Folder, first)
        BY <1>4 DEF DirOf, Unwritten
      <3> QED
        BY <1>7, <1>8, <3>1, <3>2
    <2>8. FolderFound'
      <3>1. (DirNoted(survey.first)' <=> DirNoted(first)) /\ DirOf(survey.first)' = DirOf(first)
            /\ (Unwritten(Folder, survey.first)' <=> Unwritten(Folder, first))
            /\ Lookup(survey.root, Folder)' = Lookup(root, Folder)
            /\ (DirNoted(survey.scan)' <=> DirNoted(now))
            /\ (SameNoted(Folder)' => /\ Folder \in DOMAIN first.identities
                                      /\ first.identities[Folder] = now.identities[Folder])
        BY <1>1, <1>11 DEF DirNoted, DirOf, Unwritten, Lookup, SameNoted
      <3> QED
        BY <1>17, <2>6, <2>7, <3>1 DEF FolderFound
    <2>9. FilesFound'
      <3> SUFFICES ASSUME NEW n \in DOMAIN now.files, top = root, SameNoted(n)'
                   PROVE  n \in DOMAIN moment /\ moment[n] = now.files[n]
        BY <1>1, <1>11 DEF FilesFound
      <3>1. n \in DOMAIN scan.files /\ n # Folder /\ n \in Range(RootNames)
            /\ n \in DOMAIN scan.identities /\ n \notin Range(FolderNames)
        BY <1>8, <1>12, <1>13, NamesAre DEF Noted
      <3>2. SameNoted(n)
        BY <1>3, <1>7, <1>8, <1>11, <3>1 DEF SameNoted
      <3> QED
        BY <1>3, <1>8, <2>2, <3>1, <3>2 DEF FilesFound
    <2> QED
      BY <2>5, <2>8, <2>9
  <1>22. InventoryExact'
    BY <1>17 DEF InventoryExact
  <1>23. moment' \in NameContents /\ (~survey'.second => survey'.first = Blank)
    BY <1>1, <1>11, <1>12, BothNoted
  <1> QED
    BY <1>11, <1>16, <1>17, <1>18, <1>19, <1>20, <1>21, <1>22, <1>23 DEF InventoryInv

(* What the first walk has noted of the folder stays so.                   *)
LEMMA FolderStays ==
  ASSUME UNCHANGED <<treeVars, moment>>, survey'.root = survey.root, survey'.first = survey.first
  PROVE  /\ FolderWas' <=> FolderWas
         /\ DirNoted(survey.first)' <=> DirNoted(survey.first)
         /\ DirOf(survey.first)' = DirOf(survey.first)
         /\ Unwritten(Folder, survey.first)' <=> Unwritten(Folder, survey.first)
         /\ Lookup(survey.root, Folder)' = Lookup(survey.root, Folder)
         /\ \A n : WasThere(n, survey.root)' <=> WasThere(n, survey.root)
  <1>1. node' = node /\ top' = top /\ moment' = moment
    BY DEF treeVars
  <1>2. PICK first, root : first = survey.first /\ root = survey.root
    OBVIOUS
  <1>3. survey'.first = first /\ survey'.root = root
    BY <1>2
  <1>4. PICK d : d = DirOf(first)
    OBVIOUS
  <1>5. FolderWas' <=> FolderWas
    <2>1. \A n : WasThere(n, DirOf(survey.first))' <=> WasThere(n, d)
      BY <1>1, <1>2, <1>3, <1>4 DEF WasThere, Lookup, DirOf, Unwritten
    <2>2. \A n : WasThere(n, DirOf(survey.first)) <=> WasThere(n, d)
      BY <1>2, <1>4
    <2> QED
      BY <1>1, <1>2, <1>3, <2>1, <2>2 DEF FolderWas
  <1>6. \A n : WasThere(n, survey.root)' <=> WasThere(n, survey.root)
    BY <1>1, <1>2, <1>3 DEF WasThere, Lookup, Unwritten
  <1>7. /\ DirNoted(survey.first)' <=> DirNoted(survey.first)
        /\ DirOf(survey.first)' = DirOf(survey.first)
        /\ Unwritten(Folder, survey.first)' <=> Unwritten(Folder, survey.first)
        /\ Lookup(survey.root, Folder)' = Lookup(survey.root, Folder)
    BY <1>1, <1>2, <1>3 DEF DirNoted, DirOf, Unwritten, Lookup
  <1> QED
    BY <1>5, <1>6, <1>7

(* What was in the root, as the second walk comes to its names.            *)
LEMMA RootStays ==
  ASSUME RootWas,
         UNCHANGED <<treeVars, moment>>, survey'.root = survey.root, survey'.first = survey.first,
         DOMAIN survey.scan.identities \cup Ahead \subseteq DOMAIN survey'.scan.identities \cup Ahead'
  PROVE  RootWas'
  <1>1. node' = node /\ top' = top /\ moment' = moment
    BY DEF treeVars
  <1>2. PICK first, root : first = survey.first /\ root = survey.root
    OBVIOUS
  <1>3. survey'.first = first /\ survey'.root = root
    BY <1>2
  <1>4. \A n : WasThere(n, survey.root)' <=> WasThere(n, survey.root)
    BY FolderStays
  <1>5. top = root =>
          /\ \A n \in DOMAIN first.identities \cap Range(RootNames) : WasThere(n, survey.root)'
          /\ DOMAIN moment \cap Range(RootNames) \subseteq DOMAIN survey.scan.identities \cup Ahead
          /\ DOMAIN moment \cap Range(FolderNames) # {} =>
               Folder \in DOMAIN survey.scan.identities \cup Ahead
    BY <1>2, <1>4 DEF RootWas
  <1>6. Folder \in DOMAIN moment => DOMAIN moment \cap Range(FolderNames) = {}
    BY DEF RootWas
  <1>7. top' = survey'.root =>
          /\ \A n \in DOMAIN survey'.first.identities \cap Range(RootNames) :
               WasThere(n, survey.root)'
          /\ DOMAIN moment' \cap Range(RootNames)
               \subseteq DOMAIN survey'.scan.identities \cup Ahead'
          /\ DOMAIN moment' \cap Range(FolderNames) # {} =>
               Folder \in DOMAIN survey'.scan.identities \cup Ahead'
    BY <1>1, <1>3, <1>5
  <1> QED
    BY <1>1, <1>6, <1>7 DEF RootWas

(* The second walk goes on with what it has noted.                         *)
LEMMA SecondStays ==
  ASSUME RootWas, FolderFound, FilesFound,
         UNCHANGED <<treeVars, moment>>, survey'.root = survey.root, survey'.first = survey.first,
         survey'.scan = survey.scan, survey'.step # "childStat",
         DOMAIN survey.scan.identities \cup Ahead \subseteq DOMAIN survey.scan.identities \cup Ahead'
  PROVE  RootWas' /\ FolderFound' /\ FilesFound'
  <1>1. node' = node /\ top' = top /\ moment' = moment
    BY DEF treeVars
  <1>2. PICK first, scan, root : first = survey.first /\ scan = survey.scan /\ root = survey.root
    OBVIOUS
  <1>3. survey'.first = first /\ survey'.scan = scan /\ survey'.root = root
    BY <1>2
  <1>4. /\ FolderWas' <=> FolderWas
        /\ DirNoted(survey.first)' <=> DirNoted(survey.first)
        /\ DirOf(survey.first)' = DirOf(survey.first)
        /\ Unwritten(Folder, survey.first)' <=> Unwritten(Folder, survey.first)
        /\ Lookup(survey.root, Folder)' = Lookup(survey.root, Folder)
    BY FolderStays
  <1>5. RootWas'
    BY RootStays
  <1>6. \A n : SameNoted(n)' <=> SameNoted(n)
    BY <1>2, <1>3 DEF SameNoted
  <1>7. DirNoted(survey.scan)' <=> DirNoted(survey.scan)
    BY <1>2, <1>3 DEF DirNoted
  <1>8. FolderFound'
    BY <1>4, <1>6, <1>7 DEF FolderFound
  <1>9. FilesFound'
    BY <1>1, <1>2, <1>3, <1>4, <1>6 DEF FilesFound
  <1> QED
    BY <1>5, <1>8, <1>9

(* The folder is listed.                                                   *)
LEMMA ListChildKeeps ==
  ASSUME TreeOK, InventoryInv, ListChild
  PROVE  InventoryInv'
  <1> DEFINE state == [survey EXCEPT !.folder = survey.of.file,
                                     !.names = DOMAIN node[survey.of.file].names]
  <1>1. /\ survey.step = "childList" /\ UNCHANGED <<treeVars, moment>> /\ survey \in Surveys
        /\ survey.step \in Walking /\ survey.step \in Descending
        /\ survey.step \in Descending \ {"child"} /\ survey.step # "root"
        /\ moment' = moment /\ UNCHANGED treeVars /\ node' = node
    BY DEF ListChild, Surveying, InventoryInv, Walking, Descending, treeVars
  <1>2. Walk(state)
    BY DEF ListChild
  <1>3. /\ survey.folder = Nothing /\ survey.of.name = Folder /\ survey.names = {}
        /\ survey.of.file \in 1..Len(node) /\ node[survey.of.file].kind = "folder"
        /\ DirNoted(survey.scan) /\ DirOf(survey.scan) = survey.of.file
    BY <1>1 DEF InventoryInv, WalkTrue, Inode
  <1>a. PICK f \in 1..Len(node) : f = survey.of.file /\ node[f].kind = "folder"
    BY <1>3
  <1>b. PICK first, scan, root, ns : /\ first = survey.first /\ scan = survey.scan
                                     /\ root = survey.root /\ ns = DOMAIN node[f].names
    OBVIOUS
  <1>4. /\ f = survey.of.file /\ node[f].kind = "folder" /\ first = survey.first
        /\ scan = survey.scan /\ root = survey.root /\ ns = DOMAIN node[f].names
        /\ f \in 1..Len(node)
    BY <1>a, <1>b
  <1>5. node[f].names \in NameMaps
    <2>1. node[f] \in Nodes
      BY ElementOfSeq DEF TreeOK
    <2> QED
      BY <1>4, <2>1, NodesAre
  <1>6. ns \in SUBSET Names /\ ns \subseteq Range(FolderNames)
    <2>1. ns \in SUBSET Names
      BY <1>4, <1>5, NameMapsAre
    <2>2. \A n \in ns : n \in DirectoryNames("folder")
      BY <1>4 DEF TreeOK, Linked
    <2> QED
      BY <2>1, <2>2 DEF DirectoryNames
  <1>7. state = [survey EXCEPT !.folder = f, !.names = ns]
    BY <1>4
  <1>8. f \in Nat /\ f # Nothing
    BY LenProperties DEF TreeOK, Nothing
  <1> HIDE DEF state
  <1>9. /\ state \in Surveys /\ state.names = ns /\ state.root = root /\ state.first = first
        /\ state.scan = scan /\ state.folder = f /\ state.second = survey.second
    BY <1>1, <1>4, <1>6, <1>7, <1>8 DEF Surveys
  <1>10. WalksOn(state) /\ Ahead' = ns
    BY <1>2, <1>9, WalkIs
  <1>11. /\ Noted(first) /\ Noted(scan) /\ (~survey.second => first = Blank)
         /\ (survey.second /\ DirNoted(first) /\ Unwritten(Folder, first) =>
               DOMAIN node[DirOf(first)].names \subseteq DOMAIN first.files)
         /\ root \in 1..Len(node) /\ node[root].kind = "root"
    BY <1>1, <1>4, BothNoted
  <1>12. moment' \in NameContents
    BY <1>1 DEF InventoryInv
  <1>13. DirNoted(scan) /\ DirOf(scan) = f /\ Folder \in DOMAIN scan.identities
    BY <1>3, <1>4 DEF DirNoted
  <1>14. Continues(state)
    BY <1>1, <1>4, <1>6, <1>8, <1>9, <1>11, <1>12, <1>13 DEF Continues
  <1>15. /\ survey'.first = first /\ survey'.scan = scan /\ survey'.root = root
         /\ survey'.second = survey.second /\ survey'.step # "childStat"
    BY <1>9, <1>10 DEF WalksOn
  <1>16. ASSUME survey'.second
         PROVE  RootWas' /\ FolderFound' /\ FilesFound'
    <2>1. RootWas /\ FolderFound /\ FilesFound
      BY <1>1, <1>15, <1>16 DEF InventoryInv, Second
    <2>2. Ahead = {Folder}
      BY <1>1, <1>3 DEF Ahead
    <2>3. DOMAIN survey.scan.identities \cup Ahead \subseteq DOMAIN survey.scan.identities \cup Ahead'
      BY <1>4, <1>13, <2>2
    <2> QED
      BY <1>1, <1>4, <1>15, <2>1, <2>3, SecondStays
  <1> QED
    BY <1>9, <1>10, <1>14, <1>16, ContinuesKeeps

(* What has been read of a file that the second walk notes as the first    *)
(* did is what the file was when the second walk began.                    *)
LEMMA NotedAgain ==
  ASSUME TreeOK, InventoryInv, Second, survey.step = "named",
         NEW i \in 1..Len(node), i = Lookup(Walked, survey.of.name),
         top = survey.root,
         survey.of.name \in DOMAIN survey.first.identities,
         survey.first.identities[survey.of.name][1] = i,
         survey.first.identities[survey.of.name][2] = node[i].stamp,
         survey.folder # Nothing => SameNoted(Folder) /\ DirNoted(survey.first)
  PROVE  survey.of.name \in DOMAIN moment /\ moment[survey.of.name] = survey.of.chunks
  <1>1. /\ survey.step \in Walking /\ survey.step \in Reading /\ survey.step \in Reading \ {"open"}
        /\ survey.step \in {"after", "named"}
    BY DEF Walking, Reading
  <1>2. PICK n, first, id : /\ n = survey.of.name /\ first = survey.first
                            /\ id = first.identities[n] /\ n \in DOMAIN first.identities
                            /\ id[1] = i /\ id[2] = node[i].stamp
    OBVIOUS
  <1>3. survey.of.file = i /\ survey.of.linked[1] = i /\ node[i].kind = "file"
    BY <1>1, <1>2, OpenIs, ReadingIs
  <1>4. survey.of.linked[2] = node[i].stamp
    <2>1. id[2] <= survey.of.linked[2]
      BY <1>1, <1>2, <1>3 DEF InventoryInv, ReadingTrue
    <2>2. survey.of.linked[2] <= node[i].stamp /\ survey.of.linked[2] \in Nat
          /\ node[i].stamp \in Nat
      BY <1>1, <1>3, ReadingIs
    <2> QED
      BY <1>2, <2>1, <2>2
  <1>5. survey.of.chunks = node[i].content
    BY <1>1, <1>3, <1>4, OpenIs
  <1>6. Unwritten(n, first)
    BY <1>2 DEF Unwritten
  <1>7. RootWas /\ FolderFound
    BY DEF InventoryInv
  <1>8. CASE survey.folder = Nothing
    <2>1. n \in Range(RootNames) /\ Walked = survey.root
      BY <1>1, <1>2, <1>8, WalkedIs
    <2>2. WasThere(n, survey.root)
      BY <1>2, <1>7, <2>1 DEF RootWas
    <2> QED
      BY <1>2, <1>3, <1>5, <1>6, <2>1, <2>2 DEF WasThere
  <1>9. CASE survey.folder # Nothing
    <2>1. /\ n \in Range(FolderNames) /\ Walked = DirOf(survey.scan) /\ DirNoted(survey.scan)
      BY <1>1, <1>2, <1>9, WalkedIs
    <2>2. FolderWas
      BY <1>7, <1>9, <2>1 DEF FolderFound
    <2>3. WasThere(n, DirOf(first))
      BY <1>2, <2>1, <2>2 DEF FolderWas
    <2>4. DirOf(first) = Walked
      BY <1>2, <1>9, <2>1 DEF SameNoted, DirOf
    <2> QED
      BY <1>2, <1>3, <1>5, <1>6, <2>3, <2>4 DEF WasThere
  <1> QED
    BY <1>8, <1>9

(* A file that is noted leaves the directory noted as it was.              *)
DirKept(now, scan) ==
  /\ Noted(now) /\ (DirNoted(now) <=> DirNoted(scan))
  /\ DirNoted(scan) =>
       now.identities[Folder] = scan.identities[Folder] /\ DirOf(now) = DirOf(scan)

(* Such a note is one of the tree.                                         *)
LEMMA NotedWith ==
  ASSUME TreeOK, NEW scan \in Scans, Noted(scan), NEW n \in Names, NEW i \in 1..Len(node),
         NEW c \in Seq(Nat), NEW v \in Nat \X Nat, v[1] = i, v[2] = node[i].stamp,
         n = Folder => DOMAIN scan.identities \subseteq Range(RootNames)
                       /\ Folder \notin DOMAIN scan.identities,
         n \in Range(FolderNames) => DirNoted(scan),
         NEW now, now.files = With(scan.files, n, c), now.identities = With(scan.identities, n, v)
  PROVE  DirKept(now, scan)
  <1>1. scan.files \in NameContents /\ scan.identities \in Identities
    BY DEF Scans
  <1>2. PICK f, ids : f = scan.files /\ ids = scan.identities
    OBVIOUS
  <1>3. DOMAIN now.files = DOMAIN f \cup {n}
    BY <1>2 DEF With
  <1>4. /\ DOMAIN now.identities = DOMAIN ids \cup {n} /\ now.identities[n] = v
        /\ \A m \in DOMAIN ids : m # n => now.identities[m] = ids[m]
    <2>1. /\ DOMAIN With(ids, n, v) = DOMAIN ids \cup {n} /\ With(ids, n, v)[n] = v
          /\ \A m \in DOMAIN ids : m # n => With(ids, n, v)[m] = ids[m]
      BY DEF With
    <2> QED
      BY <1>2, <2>1
  <1>5. DirNoted(scan) => now.identities[Folder] = scan.identities[Folder]
                          /\ DirOf(now) = DirOf(scan)
    BY <1>2, <1>4 DEF DirNoted, DirOf
  <1>6. DirNoted(now) <=> DirNoted(scan)
    BY <1>2, <1>3, <1>4 DEF DirNoted
  <1>7. Noted(now)
    <2>1. DOMAIN now.files \subseteq DOMAIN now.identities
      BY <1>2, <1>3, <1>4 DEF Noted
    <2>2. ASSUME NEW m \in DOMAIN now.identities
          PROVE  /\ Inode(now.identities[m][1])
                 /\ now.identities[m][2] <= node[now.identities[m][1]].stamp
                 /\ m # Folder => m \in DOMAIN now.files
      <3>1. CASE m = n
        <4>1. node[i].stamp \in Nat
          BY IdentityIs
        <4> QED
          BY <1>3, <1>4, <3>1, <4>1 DEF Inode
      <3>2. CASE m # n
        BY <1>2, <1>3, <1>4, <2>2, <3>2 DEF Noted
      <3> QED
        BY <3>1, <3>2
    <2>3. DirNoted(now) => node[DirOf(now)].kind = "folder"
      BY <1>5, <1>6 DEF Noted
    <2>4. DOMAIN now.identities \cap Range(FolderNames) # {} => DirNoted(now)
      BY <1>2, <1>4, <1>6 DEF Noted
    <2> QED
      BY <2>1, <2>2, <2>3, <2>4 DEF Noted
  <1> QED
    BY <1>5, <1>6, <1>7 DEF DirKept

(* The file is noted.                                                      *)
LEMMA NoteFileKeeps ==
  ASSUME TreeOK, InventoryInv, NoteFile
  PROVE  InventoryInv'
  <1>1. /\ survey.step = "named" /\ UNCHANGED <<treeVars, moment>> /\ survey \in Surveys
        /\ survey.step \in Walking /\ survey.step \in Walking \ {"childList"}
        /\ survey.step # "childList" /\ survey.step # "root"
        /\ moment' = moment /\ UNCHANGED treeVars /\ node' = node /\ top' = top
    BY DEF NoteFile, Surveying, InventoryInv, Walking, Reading, treeVars
  <1>2. PICK i, n : i = Lookup(Walked, survey.of.name) /\ n = survey.of.name
    OBVIOUS
  <1>3. CASE i = Nothing
    <2>1. GiveUp
      BY <1>2, <1>3 DEF NoteFile
    <2> QED
      BY <1>1, <2>1, GiveUpKeeps
  <1>4. CASE i # Nothing
    <2>1. i \in 1..Len(node) /\ n \in Names
      BY <1>1, <1>2, <1>4, EntryIs, WalkedIs
    <2>21. PICK name \in Names : name = n
      BY <2>1
    <2>2. PICK v \in Nat \X Nat : v = Identity(i) /\ v[1] = i /\ v[2] = node[i].stamp
      BY <2>1, IdentityIs
    <2>31. PICK scan \in Scans : scan = survey.scan
      BY SurveyIs DEF InventoryInv
    <2>32. PICK c \in Seq(Nat) : c = survey.of.chunks
      BY SurveyIs DEF InventoryInv
    <2>33. PICK first, root, ns, folder : /\ first = survey.first /\ root = survey.root
                                          /\ ns = survey.names /\ folder = survey.folder
      OBVIOUS
    <2>3. /\ first = survey.first /\ scan = survey.scan /\ root = survey.root
          /\ ns = survey.names /\ folder = survey.folder /\ c = survey.of.chunks
      BY <2>31, <2>32, <2>33
    <2>4. scan.files \in NameContents /\ scan.identities \in Identities
      BY <2>31 DEF Scans
    <2>5. PICK files \in NameContents :
            /\ files = With(scan.files, n, c) /\ DOMAIN files = DOMAIN scan.files \cup {n}
            /\ files[n] = c /\ \A m \in DOMAIN scan.files : m # n => files[m] = scan.files[m]
      <3>1. PICK old \in NameContents : old = scan.files
        BY <2>4
      <3>2. PICK g \in NameContents : g = With(old, name, c)
        BY <2>21, <2>32, <3>1, ContentsWith
      <3>3. /\ DOMAIN g = DOMAIN old \cup {name} /\ g[name] = c
            /\ \A m \in DOMAIN old : m # name => g[m] = old[m]
        BY <3>2 DEF With
      <3> QED
        BY <2>21, <3>1, <3>2, <3>3
    <2>6. PICK ids \in Identities :
            /\ ids = With(scan.identities, n, v) /\ DOMAIN ids = DOMAIN scan.identities \cup {n}
            /\ ids[n] = v /\ \A m \in DOMAIN scan.identities : m # n => ids[m] = scan.identities[m]
      <3>1. PICK old \in Identities : old = scan.identities
        BY <2>4
      <3>2. PICK g \in Identities : g = With(old, name, v)
        BY <2>2, <2>21, <3>1, IdentitiesWith
      <3>3. /\ DOMAIN g = DOMAIN old \cup {name} /\ g[name] = v
            /\ \A m \in DOMAIN old : m # name => g[m] = old[m]
        BY <3>2 DEF With
      <3> QED
        BY <2>21, <3>1, <3>2, <3>3
    <2>7. PICK now \in Scans : now.files = files /\ now.identities = ids
                               /\ now = [files |-> files, identities |-> ids]
      BY <2>5, <2>6 DEF Scans
    <2>8. PICK state \in Surveys :
            /\ state = [survey EXCEPT !.scan = now]
            /\ state.names = ns /\ state.root = root /\ state.first = first
            /\ state.scan = now /\ state.folder = folder /\ state.second = survey.second
      <3>1. PICK state : state = [survey EXCEPT !.scan = now]
        OBVIOUS
      <3>2. /\ state \in Surveys /\ state.names = ns /\ state.root = root /\ state.first = first
            /\ state.scan = now /\ state.folder = folder /\ state.second = survey.second
        BY <1>1, <2>3, <2>7, <3>1 DEF Surveys
      <3> QED
        BY <3>1, <3>2
    <2>9. Walk(state)
      <3>1. Walk([survey EXCEPT !.scan = [files |-> With(survey.scan.files, n, survey.of.chunks),
                    identities |-> With(survey.scan.identities, n, Identity(i))]])
        BY <1>2, <1>4 DEF NoteFile
      <3> QED
        BY <2>2, <2>3, <2>5, <2>6, <2>7, <2>8, <3>1
    <2>10. WalksOn(state) /\ Ahead' = ns
      BY <2>8, <2>9, WalkIs
    <2>11. /\ Noted(first) /\ Noted(scan) /\ (~survey.second => first = Blank)
           /\ (survey.second /\ DirNoted(first) /\ Unwritten(Folder, first) =>
                 DOMAIN node[DirOf(first)].names \subseteq DOMAIN first.files)
           /\ root \in 1..Len(node) /\ node[root].kind = "root"
      BY <1>1, <2>3, BothNoted
    <2>12. /\ ns \cup {n} \subseteq (IF folder = Nothing THEN Range(RootNames) ELSE Range(FolderNames))
           /\ folder = Nothing /\ n = Folder => ns = {}
           /\ folder # Nothing => DirNoted(scan) /\ folder = DirOf(scan)
           /\ folder = Nothing => DOMAIN scan.identities \subseteq Range(RootNames)
                                  /\ Folder \notin DOMAIN scan.identities
      BY <1>1, <1>2, <2>3 DEF InventoryInv, WalkTrue
    <2>13. /\ n = Folder => folder = Nothing
           /\ n \in Range(FolderNames) => folder # Nothing
      BY <2>12, NamesAre
    <2>14. /\ Noted(now)
           /\ DirNoted(now) <=> DirNoted(scan)
           /\ DirNoted(scan) => n # Folder /\ ids[Folder] = scan.identities[Folder]
                                /\ DirOf(now) = DirOf(scan)
      <3>1. Noted(scan) /\ v[1] = i /\ v[2] = node[i].stamp
        BY <2>2, <2>11
      <3>2. n = Folder => DOMAIN scan.identities \subseteq Range(RootNames)
                          /\ Folder \notin DOMAIN scan.identities
        BY <2>12, <2>13
      <3>3. n \in Range(FolderNames) => DirNoted(scan)
        BY <2>12, <2>13
      <3>4. now.files = With(scan.files, n, c) /\ now.identities = With(scan.identities, n, v)
        BY <2>5, <2>6, <2>7
      <3>5. DirKept(now, scan)
        BY <2>1, <2>2, <2>31, <2>32, <3>1, <3>2, <3>3, <3>4, NotedWith
      <3>6. DirNoted(scan) => n # Folder
        BY <3>2 DEF DirNoted
      <3> QED
        BY <2>7, <3>5, <3>6 DEF DirKept
    <2>15. Ahead = ns \cup {n}
      BY <1>1, <1>2, <2>3 DEF Ahead
    <2>16. ~survey.second /\ DirNoted(now) /\ Unwritten(Folder, now) =>
             DOMAIN node[DirOf(now)].names \subseteq DOMAIN now.files \cup ns
      <3> SUFFICES ASSUME ~survey.second, DirNoted(now), Unwritten(Folder, now)
                   PROVE  DOMAIN node[DirOf(now)].names \subseteq DOMAIN now.files \cup ns
        OBVIOUS
      <3>1. DirNoted(scan) /\ ids[Folder] = scan.identities[Folder] /\ DirOf(now) = DirOf(scan)
        BY <2>14
      <3>2. Unwritten(Folder, scan)
        BY <2>7, <3>1 DEF Unwritten
      <3>3. DOMAIN node[DirOf(scan)].names \subseteq DOMAIN scan.files \cup Ahead
        BY <1>1, <2>3, <3>1, <3>2 DEF InventoryInv, FolderListed
      <3> QED
        BY <2>5, <2>7, <2>15, <3>1, <3>3
    <2>17. moment' \in NameContents
      BY <1>1 DEF InventoryInv
    <2>18. Continues(state)
      <3>1. folder = Nothing /\ ns # {} =>
              DOMAIN ids \subseteq Range(RootNames) /\ Folder \notin DOMAIN ids
        BY <2>6, <2>12
      <3>2. ns \subseteq (IF folder = Nothing THEN Range(RootNames) ELSE Range(FolderNames))
        BY <2>12
      <3>3. folder # Nothing => DirNoted(now) /\ folder = DirOf(now)
        BY <2>12, <2>14
      <3> QED
        BY <1>1, <2>7, <2>8, <2>11, <2>14, <2>16, <2>17, <3>1, <3>2, <3>3 DEF Continues
    <2>19. /\ survey'.first = first /\ survey'.scan = now /\ survey'.root = root
           /\ survey'.second = survey.second /\ survey'.step # "childStat"
      BY <2>8, <2>10 DEF WalksOn
    <2>20. ASSUME survey'.second
           PROVE  RootWas' /\ FolderFound' /\ FilesFound'
      <3>1. RootWas /\ FolderFound /\ FilesFound /\ Second
        BY <1>1, <2>19, <2>20 DEF InventoryInv, Second
      <3>2. survey'.root = survey.root /\ survey'.first = survey.first
        BY <2>3, <2>19
      <3>3. RootWas'
        <4>1. DOMAIN survey.scan.identities \cup Ahead
                \subseteq DOMAIN survey'.scan.identities \cup Ahead'
          BY <2>3, <2>6, <2>7, <2>10, <2>15, <2>19
        <4> QED
          BY <1>1, <3>1, <3>2, <4>1, RootStays
      <3>4. \A m \in DOMAIN scan.identities : m # n => (SameNoted(m)' <=> SameNoted(m))
        BY <2>3, <2>6, <2>7, <2>19 DEF SameNoted
      <3>5. DirNoted(scan) => (SameNoted(Folder)' <=> SameNoted(Folder))
        BY <2>14, <3>4 DEF DirNoted
      <3>6. FolderFound'
        <4>1. (DirNoted(survey.scan)' <=> DirNoted(now))
          BY <2>19 DEF DirNoted
        <4>2. DirNoted(survey.scan)' => DirNoted(survey.scan)
          BY <2>3, <2>14, <4>1
        <4>3. DirNoted(survey.scan)' /\ SameNoted(Folder)' => SameNoted(Folder)
          BY <2>14, <3>5, <4>1
        <4>4. /\ FolderWas' <=> FolderWas
              /\ DirNoted(survey.first)' <=> DirNoted(survey.first)
              /\ DirOf(survey.first)' = DirOf(survey.first)
              /\ Unwritten(Folder, survey.first)' <=> Unwritten(Folder, survey.first)
              /\ Lookup(survey.root, Folder)' = Lookup(survey.root, Folder)
          BY <1>1, <3>2, FolderStays
        <4> QED
          BY <2>19, <3>1, <4>2, <4>3, <4>4 DEF FolderFound
      <3>7. ASSUME NEW m \in DOMAIN files, top = root, SameNoted(m)',
                   m \in Range(FolderNames) => SameNoted(Folder)' /\ DirNoted(first)
            PROVE  m \in DOMAIN moment /\ moment[m] = files[m]
        <4>1. CASE m # n
          <5>1. m \in DOMAIN scan.files /\ m \in DOMAIN scan.identities /\ files[m] = scan.files[m]
            BY <2>5, <2>11, <3>7, <4>1 DEF Noted
          <5>2. SameNoted(m)
            BY <3>4, <3>7, <4>1, <5>1
          <5>3. m \in Range(FolderNames) => SameNoted(Folder) /\ DirNoted(first)
            BY <2>11, <3>5, <3>7, <5>1 DEF Noted
          <5> QED
            BY <2>3, <3>1, <3>7, <5>1, <5>2, <5>3 DEF FilesFound
        <4>2. CASE m = n
          <5>1. n \in DOMAIN first.identities /\ first.identities[n] = v
            BY <2>6, <2>7, <2>19, <3>7, <4>2 DEF SameNoted
          <5>2. folder # Nothing => SameNoted(Folder) /\ DirNoted(first)
            <6> SUFFICES ASSUME folder # Nothing
                         PROVE  SameNoted(Folder) /\ DirNoted(first)
              OBVIOUS
            <6>1. n \in Range(FolderNames) /\ DirNoted(scan)
              BY <2>12
            <6> QED
              BY <3>5, <3>7, <4>2, <6>1
          <5>3. n \in DOMAIN moment /\ moment[n] = c
            BY <1>1, <1>2, <2>1, <2>2, <2>3, <3>1, <3>7, <5>1, <5>2, NotedAgain
          <5> QED
            BY <2>5, <4>2, <5>3
        <4> QED
          BY <4>1, <4>2
      <3>8. FilesFound'
        <4> SUFFICES ASSUME NEW m \in DOMAIN survey'.scan.files, top' = survey'.root,
                            SameNoted(m)',
                            m \in Range(FolderNames) => SameNoted(Folder)' /\ DirNoted(survey.first)'
                     PROVE  m \in DOMAIN moment' /\ moment'[m] = survey'.scan.files[m]
          BY DEF FilesFound
        <4>1. DirNoted(survey.first)' <=> DirNoted(first)
          BY <2>19 DEF DirNoted
        <4> QED
          BY <1>1, <2>7, <2>19, <3>7, <4>1
      <3> QED
        BY <3>3, <3>6, <3>8
    <2> QED
      BY <2>8, <2>10, <2>18, <2>20, ContinuesKeeps
  <1> QED
    BY <1>3, <1>4

(* A walk has ended: another one begins, or the two agree, or not.         *)
LEMMA EndWalkKeeps ==
  ASSUME TreeOK, InventoryInv, EndWalk
  PROVE  InventoryInv'
  <1>1. /\ survey.step = "walked" /\ UNCHANGED <<treeVars, moment>> /\ survey \in Surveys
        /\ survey.step \notin Walking /\ survey.step # "root" /\ survey.folder = Nothing
        /\ survey.step \in (Walking \ {"childList"}) \cup {"walked"}
        /\ moment' = moment /\ UNCHANGED treeVars /\ node' = node
    BY DEF EndWalk, Surveying, InventoryInv, WalkTrue, Walking, Descending, Reading, treeVars
  <1>2. PICK first \in Scans, scan \in Scans : first = survey.first /\ scan = survey.scan
    BY SurveyIs DEF InventoryInv
  <1>3. Ahead = {} /\ survey.second \in BOOLEAN
    BY <1>1, BothNoted DEF Ahead
  <1>4. CASE ~survey.second
    <2>1. survey' = [survey EXCEPT !.step = "list", !.second = TRUE, !.first = survey.scan,
                                   !.scan = Blank]
      BY <1>4 DEF EndWalk
    <2>2. "list" \in SurveySteps /\ Blank \in Scans /\ TRUE \in BOOLEAN
      BY BlankIs DEF SurveySteps
    <2>3. PICK blank \in Scans : blank = Blank
      BY <2>2
    <2>4. survey' = [survey EXCEPT !.step = "list", !.second = TRUE, !.first = scan,
                                   !.scan = blank]
      BY <1>2, <2>1, <2>3
    <2>5. /\ survey' \in Surveys /\ survey'.step = "list" /\ survey'.root = survey.root
          /\ survey'.second /\ survey'.folder = survey.folder
          /\ survey'.first = scan /\ survey'.scan = blank
      BY <1>1, <1>2, <2>2, <2>4 DEF Surveys
    <2>6. Noted(scan) /\ Noted(blank)
      BY <1>2, <2>3, BothNoted, BlankNoted
    <2>7. DirNoted(scan) /\ Unwritten(Folder, scan) =>
            DOMAIN node[DirOf(scan)].names \subseteq DOMAIN scan.files
      BY <1>1, <1>2, <1>3, <1>4 DEF InventoryInv, FolderListed
    <2>8. survey'.step \in Between /\ InventoryExact'
      BY <2>5 DEF Between, InventoryExact
    <2>9. survey'.root \in 1..Len(node) /\ node[survey'.root].kind = "root"
      BY <1>1, <2>5, BothNoted
    <2>10. survey'.scan = Blank /\ survey'.folder = Nothing /\ scan = survey'.first
           /\ blank = survey'.scan /\ survey'.step \notin {"root", "rootPath", "evidence"}
      BY <1>1, <2>3, <2>5
    <2> QED
      BY <1>1, <2>5, <2>6, <2>7, <2>8, <2>9, <2>10, BetweenKeeps
  <1>5. CASE survey.second /\ survey.scan = survey.first
    <2>1. SurveyTo("rootAgain") /\ "rootAgain" \in SurveySteps
      BY <1>5 DEF EndWalk, SurveySteps
    <2>2. /\ survey' \in Surveys /\ survey'.step = "rootAgain" /\ survey'.root = survey.root
          /\ survey'.second = survey.second /\ survey'.folder = survey.folder
          /\ survey'.first = survey.first /\ survey'.scan = survey.scan
      BY <1>1, <2>1, SurveyToIs
    <2>3. survey'.first = first /\ survey'.scan = scan
      BY <1>2, <2>2
    <2>4. /\ survey'.step \notin Walking /\ survey'.step \notin Descending
          /\ survey'.step \notin Reading
          /\ survey'.step \notin {"root", "rootPath", "list", "evidence", "stat", "linked", "open",
                                  "childList", "childStat", "status"}
      BY <2>2 DEF Walking, Descending, Reading
    <2>5. Noted(survey.first)' /\ Noted(survey.scan)'
      <3>1. Noted(first)' /\ Noted(scan)'
        BY <1>1, <1>2, NotedStays, BothNoted
      <3> QED
        BY <2>3, <3>1 DEF Noted, DirNoted, DirOf
    <2>6. WalkTrue'
      <3>1. Inode(survey.root)' /\ node'[survey'.root].kind = "root"
        BY <1>1, <2>2, BothNoted DEF Inode
      <3>2. survey'.folder = Nothing
        BY <1>1, <2>2
      <3> QED
        BY <2>4, <3>1, <3>2 DEF WalkTrue
    <2>7. ReadingTrue'
      BY <2>4 DEF ReadingTrue
    <2>8. FolderListed'
      <3>1. DirNoted(first) /\ Unwritten(Folder, first) =>
              DOMAIN node[DirOf(first)].names \subseteq DOMAIN first.files
        BY <1>2, <1>5, BothNoted
      <3> QED
        BY <1>1, <1>5, <2>2, <2>3, <3>1 DEF FolderListed, DirNoted, DirOf, Unwritten
    <2>9. RootWas' /\ FolderFound' /\ FilesFound'
      <3>1. RootWas /\ FolderFound /\ FilesFound
        BY <1>1, <1>5 DEF InventoryInv, Second
      <3> QED
        BY <1>1, <1>3, <2>2, <2>4, <3>1, SecondStays
    <2>10. InventoryExact' /\ moment' \in NameContents
      BY <1>1, <2>4, BothNoted DEF InventoryExact
    <2>11. survey'.second /\ survey'.scan = survey'.first
      BY <1>5, <2>2
    <2> QED
      BY <2>2, <2>5, <2>6, <2>7, <2>8, <2>9, <2>10, <2>11 DEF InventoryInv
  <1>6. CASE survey.second /\ survey.scan # survey.first
    <2>1. GiveUp
      BY <1>6 DEF EndWalk
    <2> QED
      BY <1>1, <2>1, GiveUpKeeps
  <1> QED
    BY <1>3, <1>4, <1>5, <1>6

(* Two walks that agree have read the tree as it was at the moment.        *)
LEMMA FilesAreMoment ==
  ASSUME TreeOK, InventoryInv, survey.step = "rootAgain", top = survey.root
  PROVE  survey.scan.files = moment
  <1>1. PICK s : s = survey.scan /\ s = survey.first
    BY DEF InventoryInv
  <1>2. RootWas /\ FolderFound /\ FilesFound /\ Noted(s) /\ Ahead = {}
    BY <1>1 DEF InventoryInv, Second, Ahead, Walking, Descending, Reading
  <1>3. \A n \in DOMAIN s.identities : SameNoted(n)
    BY <1>1 DEF SameNoted
  <1>4. DirNoted(s) => FolderWas
    BY <1>1, <1>2, <1>3 DEF FolderFound, DirNoted
  <1>5. ASSUME NEW n \in DOMAIN s.files
        PROVE  n \in DOMAIN moment /\ moment[n] = s.files[n]
    <2>1. n \in DOMAIN s.identities
      BY <1>2 DEF Noted
    <2>2. n \in Range(FolderNames) => DirNoted(s)
      BY <1>2, <2>1 DEF Noted
    <2>3. n \in Range(FolderNames) => SameNoted(Folder) /\ DirNoted(survey.first)
      BY <1>1, <1>3, <2>2 DEF DirNoted
    <2> QED
      BY <1>1, <1>2, <1>3, <2>1, <2>3 DEF FilesFound
  <1>6. ASSUME NEW n \in DOMAIN moment
        PROVE  n \in DOMAIN s.files
    <2>1. n \in Names
      BY MapsAre DEF InventoryInv, NameContents
    <2>2. /\ DOMAIN moment \cap Range(RootNames) \subseteq DOMAIN s.identities
          /\ DOMAIN moment \cap Range(FolderNames) # {} => Folder \in DOMAIN s.identities
          /\ Folder \in DOMAIN moment => DOMAIN moment \cap Range(FolderNames) = {}
      BY <1>1, <1>2 DEF RootWas
    <2>3. CASE n \in Range(RootNames)
      <3>1. n \in DOMAIN s.identities
        BY <1>6, <2>2, <2>3
      <3>2. n # Folder => n \in DOMAIN s.files
        BY <1>2, <3>1 DEF Noted
      <3>3. ASSUME n = Folder, Folder \notin DOMAIN s.files
            PROVE  FALSE
        <4>1. DirNoted(s)
          BY <3>1, <3>3 DEF DirNoted
        <4> QED
          BY <1>4, <1>6, <3>3, <4>1 DEF FolderWas
      <3> QED
        BY <3>2, <3>3
    <2>4. CASE n \in Range(FolderNames)
      <3>1. Folder \in DOMAIN s.identities
        BY <1>6, <2>2, <2>4
      <3>2. DirNoted(s)
        <4>1. ASSUME Folder \in DOMAIN s.files
              PROVE  FALSE
          BY <1>5, <1>6, <2>2, <2>4, <4>1
        <4> QED
          BY <3>1, <4>1 DEF DirNoted
      <3> QED
        BY <1>1, <1>4, <1>6, <2>4, <3>2 DEF FolderWas
    <2> QED
      BY <2>1, <2>3, <2>4, NamesAre
  <1>7. s.files \in NameContents /\ moment \in NameContents
    BY <1>1, SurveyIs DEF InventoryInv
  <1>8. s.files \in [DOMAIN s.files -> Seq(Nat)] /\ moment \in [DOMAIN moment -> Seq(Nat)]
    BY <1>7, MapsAre DEF NameContents
  <1>9. DOMAIN s.files = DOMAIN moment
    BY <1>5, <1>6
  <1>10. PICK f, g, D : f = s.files /\ g = moment /\ D = DOMAIN moment
    OBVIOUS
  <1>11. f \in [D -> Seq(Nat)] /\ g \in [D -> Seq(Nat)] /\ \A n \in D : f[n] = g[n]
    BY <1>5, <1>8, <1>9, <1>10
  <1>12. f = g
    BY <1>11
  <1> QED
    BY <1>1, <1>10, <1>12

(* The inventory is taken.                                                 *)
LEMMA EndInventoryKeeps ==
  ASSUME TreeOK, InventoryInv, EndInventory
  PROVE  InventoryInv'
  <1>1. /\ survey.step = "rootAgain" /\ UNCHANGED <<treeVars, moment>> /\ survey \in Surveys
        /\ survey.step # "root" /\ survey.folder = Nothing /\ moment' = moment
    BY DEF EndInventory, Surveying, InventoryInv, WalkTrue
  <1>2. CASE top # survey.root
    <2>1. GiveUp
      BY <1>2 DEF EndInventory
    <2> QED
      BY <1>1, <2>1, GiveUpKeeps
  <1>3. CASE top = survey.root
    <2>1. PICK s \in {"status", "evidence"}, current \in BOOLEAN, files \in NameContents,
               blank \in Scans :
            /\ s = (IF survey.again THEN "status" ELSE "evidence")
            /\ current = (survey.current /\ survey.scan.files = survey.inventory)
            /\ files = survey.scan.files /\ blank = Blank
      BY <1>1, SurveyIs, BlankIs
    <2>2. survey' = [survey EXCEPT !.step = s, !.inventory = files, !.current = current,
                       !.second = FALSE, !.first = blank, !.scan = blank]
      BY <1>3, <2>1 DEF EndInventory
    <2>3. s \in SurveySteps /\ s \in Between
      BY <2>1 DEF SurveySteps, Between
    <2>4. /\ survey' \in Surveys /\ survey'.step = s /\ survey'.root = survey.root
          /\ ~survey'.second /\ survey'.folder = survey.folder /\ survey'.inventory = files
          /\ survey'.first = blank /\ survey'.scan = blank
      <3>1. PICK half \in Surveys :
              half = [survey EXCEPT !.step = s, !.inventory = files, !.current = current]
        <4>1. PICK at \in Surveys : at = [survey EXCEPT !.step = s]
          BY <1>1, <2>3 DEF Surveys
        <4>2. PICK noted \in Surveys : noted = [at EXCEPT !.inventory = files]
          BY <2>1, <4>1 DEF Surveys
        <4>3. PICK half \in Surveys : half = [noted EXCEPT !.current = current]
          BY <2>1, <4>2 DEF Surveys
        <4>4. half = [survey EXCEPT !.step = s, !.inventory = files, !.current = current]
          BY <1>1, <4>1, <4>2, <4>3 DEF Surveys
        <4> QED
          BY <4>3, <4>4
      <3>2. /\ half.step = s /\ half.root = survey.root /\ half.folder = survey.folder
            /\ half.inventory = files
        BY <1>1, <3>1 DEF Surveys
      <3>3. PICK more \in Surveys : more = [half EXCEPT !.second = FALSE]
        BY <3>1 DEF Surveys
      <3>4. /\ more.step = half.step /\ more.root = half.root /\ more.folder = half.folder
            /\ more.inventory = half.inventory /\ ~more.second
        BY <3>1, <3>3 DEF Surveys
      <3>5. survey' = [more EXCEPT !.first = blank, !.scan = blank]
        BY <1>1, <2>2, <3>1, <3>3 DEF Surveys
      <3>6. /\ survey' \in Surveys /\ survey'.step = more.step /\ survey'.root = more.root
            /\ survey'.folder = more.folder /\ survey'.inventory = more.inventory
            /\ survey'.second = more.second /\ survey'.first = blank /\ survey'.scan = blank
        BY <2>1, <3>3, <3>5 DEF Surveys
      <3> QED
        BY <3>2, <3>4, <3>6
    <2>5. files = moment
      BY <1>1, <1>3, <2>1, FilesAreMoment
    <2>6. InventoryExact'
      BY <1>1, <2>4, <2>5 DEF InventoryExact
    <2>7. Noted(blank) /\ blank = survey'.first /\ blank = survey'.scan /\ blank = Blank
      BY <2>1, <2>4, BlankNoted
    <2>8. survey'.root \in 1..Len(node) /\ node[survey'.root].kind = "root"
      BY <1>1, <2>4, BothNoted
    <2>9. survey'.folder = Nothing /\ survey'.step \in Between
      BY <1>1, <2>3, <2>4
    <2> QED
      BY <1>1, <2>4, <2>6, <2>7, <2>8, <2>9, BetweenKeeps
  <1> QED
    BY <1>2, <1>3

(* What a walk has noted stays, while others change the tree; and what is  *)
(* still as it was noted has not changed.                                  *)
LEMMA NotedMoved ==
  ASSUME TreeOK, TreeMoved, NEW s \in Scans, Noted(s)
  PROVE  /\ Noted(s)'
         /\ \A n \in DOMAIN s.identities :
              Unwritten(n, s)' =>
                Unwritten(n, s) /\ node'[s.identities[n][1]] = node[s.identities[n][1]]
  <1>1. ASSUME NEW n \in DOMAIN s.identities
        PROVE  /\ s.identities[n][1] \in 1..Len(node)
               /\ s.identities[n][1] \in 1..Len(node')
               /\ node'[s.identities[n][1]].kind = node[s.identities[n][1]].kind
               /\ s.identities[n][2] <= node'[s.identities[n][1]].stamp
               /\ node'[s.identities[n][1]].stamp = s.identities[n][2] =>
                    /\ node[s.identities[n][1]].stamp = s.identities[n][2]
                    /\ node'[s.identities[n][1]] = node[s.identities[n][1]]
    <2>1. PICK id \in Nat \X Nat : id = s.identities[n]
      BY MapsAre DEF Scans, Identities
    <2>2. id[1] \in 1..Len(node) /\ id[2] <= node[id[1]].stamp /\ id[2] \in Nat
      BY <2>1 DEF Noted, Inode
    <2>3. PICK i \in 1..Len(node), k \in Nat : i = id[1] /\ k = id[2] /\ k <= node[i].stamp
      BY <2>2
    <2>4. /\ i \in 1..Len(node') /\ node'[i].kind = node[i].kind
          /\ node[i].stamp \in Nat /\ node'[i].stamp \in Nat /\ node[i].stamp <= node'[i].stamp
          /\ node'[i] # node[i] => node[i].stamp < node'[i].stamp
      BY Unstamped
    <2>5. k <= node'[i].stamp /\ (node'[i].stamp = k => node'[i] = node[i] /\ node[i].stamp = k)
      BY <2>3, <2>4
    <2> QED
      BY <2>1, <2>3, <2>4, <2>5
  <1>2. Noted(s)'
    <2>1. DirNoted(s) => node'[DirOf(s)].kind = "folder"
      BY <1>1 DEF Noted, DirNoted, DirOf
    <2>2. \A n \in DOMAIN s.identities :
            /\ Inode(s.identities[n][1])'
            /\ s.identities[n][2] <= node'[s.identities[n][1]].stamp
            /\ n # Folder => n \in DOMAIN s.files
      BY <1>1 DEF Noted, Inode
    <2> QED
      BY <2>1, <2>2 DEF Noted, DirNoted, DirOf
  <1>3. \A n \in DOMAIN s.identities :
          Unwritten(n, s)' =>
            Unwritten(n, s) /\ node'[s.identities[n][1]] = node[s.identities[n][1]]
    BY <1>1 DEF Unwritten
  <1> QED
    BY <1>2, <1>3

(* What was there when the second walk began.                              *)
LEMMA WasThereMoved ==
  ASSUME TreeOK, TreeMoved, UNCHANGED <<survey, moment>>, survey.first \in Scans,
         Noted(survey.first),
         NEW d \in 1..Len(node), node[d].kind \in {"root", "folder"},
         NEW n \in DOMAIN survey.first.identities, WasThere(n, d)
  PROVE  WasThere(n, d)'
  <1>1. PICK s \in Scans : s = survey.first
    OBVIOUS
  <1>2. Noted(s) /\ n \in DOMAIN s.identities
    BY <1>1
  <1>3. PICK i \in 1..Len(node) : i = s.identities[n][1]
    BY <1>2 DEF Noted, Inode
  <1>4. Unwritten(n, s)' => Unwritten(n, s) /\ node'[i] = node[i]
    BY <1>2, <1>3, NotedMoved
  <1>5. Lookup(d, n)' = i => Lookup(d, n) = i
    BY LinkedBefore
  <1>6. Lookup(d, n) = i /\ Unwritten(n, s) /\ node[i].kind = "file" =>
          n \in DOMAIN moment /\ moment[n] = node[i].content
    BY <1>1, <1>3 DEF WasThere
  <1>7. Lookup(d, n)' = i /\ Unwritten(n, s)' /\ node'[i].kind = "file" =>
          n \in DOMAIN moment' /\ moment'[n] = node'[i].content
    BY <1>4, <1>5, <1>6
  <1>8. survey'.first = s
    BY <1>1
  <1> QED
    BY <1>3, <1>7, <1>8 DEF WasThere, Unwritten

(* What is known of a file that is being read stays known.                 *)
LEMMA ReadingWhileMoved ==
  ASSUME TreeOK, InventoryInv, TreeMoved, UNCHANGED <<survey, moment>>
  PROVE  ReadingTrue'
  <1>1. /\ survey.step \in {"stat", "linked", "open"} => survey.of.chunks = <<>>
        /\ survey' = survey
    BY DEF InventoryInv, ReadingTrue
  <1>2. CASE survey.step \notin Reading
    BY <1>1, <1>2 DEF ReadingTrue, Reading
  <1>3. CASE survey.step \in Reading
    <2>10. PICK linked \in Nat \X Nat : linked = survey.of.linked
      BY <1>3, ReadingIs
    <2>11. PICK n, first : n = survey.of.name /\ first = survey.first
      OBVIOUS
    <2>1. n = survey.of.name /\ first = survey.first /\ linked = survey.of.linked
      BY <2>10, <2>11
    <2>2. PICK f \in 1..Len(node), k \in Nat : /\ f = linked[1] /\ k = linked[2]
                                               /\ node[f].kind = "file" /\ k <= node[f].stamp
      BY <1>3, <2>1, ReadingIs
    <2>3. /\ f \in 1..Len(node') /\ node'[f].kind = "file"
          /\ k <= node'[f].stamp /\ (node'[f].stamp = k => node'[f] = node[f] /\ node[f].stamp = k)
      <3>1. /\ f \in 1..Len(node') /\ node'[f].kind = node[f].kind
            /\ node[f].stamp \in Nat /\ node'[f].stamp \in Nat /\ node[f].stamp <= node'[f].stamp
            /\ node'[f] # node[f] => node[f].stamp < node'[f].stamp
        BY Unstamped
      <3> QED
        BY <2>2, <3>1
    <2>4. n \in DOMAIN first.identities /\ linked[1] = first.identities[n][1] =>
            first.identities[n][2] <= linked[2]
      BY <1>3, <2>1 DEF InventoryInv, ReadingTrue
    <2>5. ASSUME survey.step \in Reading \ {"open"}
          PROVE  /\ survey.of.file = f
                 /\ n \in DOMAIN first.identities /\ Lookup(Walked, n)' = first.identities[n][1] =>
                      f = first.identities[n][1]
                 /\ node'[f].stamp = k =>
                      /\ Begins(survey.of.chunks, node'[f].content)
                      /\ survey.step \in {"after", "named"} => survey.of.chunks = node'[f].content
      <3>1. /\ survey.of.file = f
            /\ n \in DOMAIN first.identities /\ Lookup(Walked, n) = first.identities[n][1] =>
                 f = first.identities[n][1]
            /\ node[f].stamp = k =>
                 /\ Begins(survey.of.chunks, node[f].content)
                 /\ survey.step \in {"after", "named"} => survey.of.chunks = node[f].content
        BY <2>1, <2>2, <2>5, OpenIs
      <3>2. PICK w \in 1..Len(node) : w = Walked /\ node[w].kind \in {"root", "folder"}
        BY <1>3, ReadingIs, WalkedIs
      <3>3. Walked' = w
        BY <1>1, <3>2 DEF Walked
      <3>4. ASSUME n \in DOMAIN first.identities, Lookup(Walked, n)' = first.identities[n][1]
            PROVE  f = first.identities[n][1]
        <4>1. Noted(first)
          BY <2>1, BothNoted
        <4>2. PICK i \in 1..Len(node) : i = first.identities[n][1]
          BY <3>4, <4>1 DEF Noted, Inode
        <4>3. Lookup(w, n)' = i
          BY <3>3, <3>4, <4>2 DEF Lookup
        <4>4. Lookup(w, n) = i
          BY <3>2, <4>3, LinkedBefore
        <4> QED
          BY <3>1, <3>2, <3>4, <4>2, <4>4
      <3> QED
        BY <2>3, <3>1, <3>4
    <2>6. survey.step \in Reading =>
            /\ survey'.of.linked \in Nat \X Nat
            /\ Inode(survey.of.linked[1])' /\ node'[survey'.of.linked[1]].kind = "file"
            /\ survey'.of.linked[2] <= node'[survey'.of.linked[1]].stamp
            /\ survey'.of.name \in DOMAIN survey'.first.identities
                 /\ survey'.of.linked[1] = survey'.first.identities[survey'.of.name][1] =>
                   survey'.first.identities[survey'.of.name][2] <= survey'.of.linked[2]
      BY <1>1, <2>1, <2>2, <2>3, <2>4 DEF Inode
    <2>7. ASSUME survey.step \in Reading \ {"open"}
          PROVE  /\ survey'.of.file = survey'.of.linked[1]
                 /\ survey'.of.name \in DOMAIN survey'.first.identities
                      /\ Lookup(Walked, survey.of.name)' = survey'.first.identities[survey'.of.name][1]
                      => survey'.of.file = survey'.first.identities[survey'.of.name][1]
                 /\ node'[survey'.of.file].stamp = survey'.of.linked[2] =>
                      /\ Begins(survey.of.chunks, node[survey.of.file].content)'
                      /\ survey'.step \in {"after", "named"} =>
                           survey'.of.chunks = node'[survey'.of.file].content
      <3>1. Lookup(Walked, survey.of.name)' = Lookup(Walked, n)'
        BY <1>1, <2>1 DEF Lookup
      <3>2. Begins(survey.of.chunks, node[survey.of.file].content)'
              <=> Begins(survey.of.chunks, node'[survey.of.file].content)
        BY <1>1 DEF Begins
      <3> QED
        BY <1>1, <2>1, <2>2, <2>5, <2>7, <3>1, <3>2
    <2> QED
      BY <1>1, <2>6, <2>7 DEF ReadingTrue
  <1> QED
    BY <1>2, <1>3

(* What others do between two steps of the command.                        *)
LEMMA FoundWhileMoved ==
  ASSUME TreeOK, InventoryInv, TreeMoved, UNCHANGED <<survey, moment>>, Second
  PROVE  RootWas' /\ FolderFound' /\ FilesFound'
  <1>1. RootWas /\ FolderFound /\ FilesFound
    BY DEF InventoryInv
  <1>2. PICK first \in Scans, scan \in Scans : first = survey.first /\ scan = survey.scan
    BY SurveyIs DEF InventoryInv
  <1>3. Noted(first) /\ Noted(scan) /\ survey.first \in Scans /\ Noted(survey.first)
    BY <1>2, BothNoted
  <1>4. survey.step # "root"
    BY DEF Second, Walking, Descending, Reading
  <1>5. PICK root \in 1..Len(node) :
          root = survey.root /\ node[root].kind = "root" /\ node[root].kind \in {"root", "folder"}
    BY <1>4, BothNoted
  <1>6. /\ survey'.first = first /\ survey'.scan = scan /\ survey'.root = root /\ moment' = moment
        /\ survey' = survey /\ survey'.step = survey.step /\ survey'.of = survey.of
    BY <1>2, <1>5
  <1>7. top' = root => top = root
    BY RootBefore
  <1>8. Ahead' = Ahead
    BY <1>6 DEF Ahead
  <1>9. RootWas'
    <2>1. ASSUME top' = root, NEW n \in DOMAIN first.identities \cap Range(RootNames)
          PROVE  WasThere(n, root)'
      <3>1. WasThere(n, root)
        BY <1>1, <1>2, <1>5, <1>7, <2>1 DEF RootWas
      <3> QED
        BY <1>2, <1>3, <1>5, <3>1, WasThereMoved
    <2>2. \A n : WasThere(n, survey.root)' <=> WasThere(n, root)'
      BY <1>6 DEF WasThere, Lookup
    <2>3. top' = root =>
            /\ DOMAIN moment \cap Range(RootNames) \subseteq DOMAIN scan.identities \cup Ahead
            /\ DOMAIN moment \cap Range(FolderNames) # {} =>
                 Folder \in DOMAIN scan.identities \cup Ahead
      BY <1>1, <1>2, <1>5, <1>7 DEF RootWas
    <2>4. Folder \in DOMAIN moment => DOMAIN moment \cap Range(FolderNames) = {}
      BY <1>1 DEF RootWas
    <2>5. top' = survey'.root =>
            /\ \A n \in DOMAIN survey'.first.identities \cap Range(RootNames) :
                 WasThere(n, survey.root)'
            /\ DOMAIN moment' \cap Range(RootNames)
                 \subseteq DOMAIN survey'.scan.identities \cup Ahead'
            /\ DOMAIN moment' \cap Range(FolderNames) # {} =>
                 Folder \in DOMAIN survey'.scan.identities \cup Ahead'
      BY <1>6, <1>8, <2>1, <2>2, <2>3
    <2> QED
      BY <1>6, <2>4, <2>5 DEF RootWas
  <1>10. ASSUME DirNoted(first), FolderWas
         PROVE  FolderWas'
    <2>1. PICK f \in 1..Len(node) :
            f = DirOf(first) /\ node[f].kind = "folder" /\ node[f].kind \in {"root", "folder"}
      BY <1>3, <1>10 DEF Noted, DirNoted, DirOf, Inode
    <2>2. ASSUME top' = root
          PROVE  /\ Folder \notin DOMAIN moment
                 /\ DOMAIN moment \cap Range(FolderNames) \subseteq DOMAIN first.files
                 /\ \A n \in DOMAIN first.identities \cap Range(FolderNames) : WasThere(n, f)'
      <3>1. /\ Folder \notin DOMAIN moment
            /\ DOMAIN moment \cap Range(FolderNames) \subseteq DOMAIN first.files
            /\ \A n \in DOMAIN first.identities \cap Range(FolderNames) : WasThere(n, f)
        BY <1>2, <1>5, <1>7, <1>10, <2>1, <2>2 DEF FolderWas
      <3> QED
        BY <1>2, <1>3, <2>1, <3>1, WasThereMoved
    <2>3. \A n : WasThere(n, DirOf(survey.first))' <=> WasThere(n, f)'
      BY <1>6, <2>1 DEF WasThere, Lookup, DirOf
    <2>4. top' = survey'.root =>
            /\ Folder \notin DOMAIN moment'
            /\ DOMAIN moment' \cap Range(FolderNames) \subseteq DOMAIN survey'.first.files
            /\ \A n \in DOMAIN survey'.first.identities \cap Range(FolderNames) :
                 WasThere(n, DirOf(survey.first))'
      BY <1>6, <2>2, <2>3
    <2> QED
      BY <2>4 DEF FolderWas
  <1>11. FolderFound'
    <2> SUFFICES ASSUME DirNoted(first)
                 PROVE  /\ Lookup(root, Folder)' = DirOf(first) /\ Unwritten(Folder, first)' =>
                             FolderWas'
                        /\ survey.step = "childStat" /\ survey.of.file = DirOf(first)
                             /\ Unwritten(Folder, first)' => FolderWas'
                        /\ DirNoted(scan) /\ SameNoted(Folder) => FolderWas'
      <3>1. /\ DirNoted(survey.first)' <=> DirNoted(first)
            /\ DirNoted(survey.scan)' <=> DirNoted(scan)
            /\ DirOf(survey.first)' = DirOf(first)
            /\ Unwritten(Folder, survey.first)' <=> Unwritten(Folder, first)'
            /\ Lookup(survey.root, Folder)' = Lookup(root, Folder)'
            /\ SameNoted(Folder)' <=> SameNoted(Folder)
        BY <1>6 DEF DirNoted, DirOf, Unwritten, Lookup, SameNoted
      <3> QED
        BY <1>6, <3>1 DEF FolderFound
    <2>1. PICK f \in 1..Len(node) : f = DirOf(first)
      BY <1>3 DEF Noted, DirNoted, DirOf, Inode
    <2>2. Lookup(root, Folder)' = f => Lookup(root, Folder) = f
      BY <1>5, LinkedBefore
    <2>3. Unwritten(Folder, first)' => Unwritten(Folder, first)
      BY <1>3, NotedMoved DEF DirNoted
    <2>4. /\ Lookup(root, Folder) = f /\ Unwritten(Folder, first) => FolderWas
          /\ survey.step = "childStat" /\ survey.of.file = f /\ Unwritten(Folder, first) =>
               FolderWas
          /\ DirNoted(scan) /\ SameNoted(Folder) => FolderWas
      BY <1>1, <1>2, <1>5, <2>1 DEF FolderFound
    <2> QED
      BY <1>10, <2>1, <2>2, <2>3, <2>4
  <1>12. FilesFound'
    <2>1. \A n : SameNoted(n)' <=> SameNoted(n)
      BY <1>6 DEF SameNoted
    <2>2. DirNoted(survey.first)' <=> DirNoted(survey.first)
      BY <1>6 DEF DirNoted
    <2>3. top' = survey'.root => top = survey.root
      BY <1>5, <1>6, <1>7
    <2> QED
      BY <1>1, <1>6, <2>1, <2>2, <2>3 DEF FilesFound
  <1> QED
    BY <1>9, <1>11, <1>12

(* The whole invariant holds after a step of others.                       *)
LEMMA SurveyWhileMoved ==
  ASSUME TreeOK, InventoryInv, TreeMoved, UNCHANGED <<survey, moment>>
  PROVE  InventoryInv'
  <1>1. PICK first \in Scans, scan \in Scans : first = survey.first /\ scan = survey.scan
    BY SurveyIs DEF InventoryInv
  <1>2. /\ survey' = survey /\ moment' = moment /\ survey'.first = first /\ survey'.scan = scan
        /\ survey' \in Surveys /\ moment' \in NameContents
    BY <1>1, BothNoted
  <1>3. Noted(first) /\ Noted(scan)
    BY <1>1, BothNoted
  <1>4. Noted(survey.first)' /\ Noted(survey.scan)'
    <2>1. Noted(first)' /\ Noted(scan)'
      BY <1>3, NotedMoved
    <2> QED
      BY <1>2, <2>1 DEF Noted, DirNoted, DirOf
  <1>5. \A i \in 1..Len(node) : i \in 1..Len(node') /\ node'[i].kind = node[i].kind
    BY Unstamped
  <1>6. WalkTrue'
    <2>1. WalkTrue
      BY DEF InventoryInv
    <2> QED
      BY <1>2, <1>5, <2>1 DEF WalkTrue, Inode, DirNoted, DirOf
  <1>7. ReadingTrue'
    BY ReadingWhileMoved
  <1>8. FolderListed'
    <2>1. Ahead' = Ahead
      BY <1>2 DEF Ahead
    <2>2. DirNoted(scan) /\ Unwritten(Folder, scan)' =>
            Unwritten(Folder, scan) /\ node'[DirOf(scan)] = node[DirOf(scan)]
      BY <1>3, NotedMoved DEF DirNoted, DirOf
    <2>3. DirNoted(first) /\ Unwritten(Folder, first)' =>
            Unwritten(Folder, first) /\ node'[DirOf(first)] = node[DirOf(first)]
      BY <1>3, NotedMoved DEF DirNoted, DirOf
    <2>4. /\ ~survey.second /\ survey.step \in (Walking \ {"childList"}) \cup {"walked"}
               /\ DirNoted(scan) /\ Unwritten(Folder, scan) =>
                 DOMAIN node[DirOf(scan)].names \subseteq DOMAIN scan.files \cup Ahead
          /\ survey.second /\ DirNoted(first) /\ Unwritten(Folder, first) =>
               DOMAIN node[DirOf(first)].names \subseteq DOMAIN first.files
      BY <1>1 DEF InventoryInv, FolderListed
    <2>5. /\ ~survey'.second /\ survey'.step \in (Walking \ {"childList"}) \cup {"walked"}
               /\ DirNoted(scan) /\ Unwritten(Folder, scan)' =>
                 DOMAIN node'[DirOf(scan)].names \subseteq DOMAIN scan.files \cup Ahead'
          /\ survey'.second /\ DirNoted(first) /\ Unwritten(Folder, first)' =>
               DOMAIN node'[DirOf(first)].names \subseteq DOMAIN first.files
      BY <1>2, <2>1, <2>2, <2>3, <2>4
    <2> QED
      BY <1>2, <2>5 DEF FolderListed, DirNoted, DirOf, Unwritten
  <1>9. Second' => RootWas' /\ FolderFound' /\ FilesFound'
    <2>1. Second' <=> Second
      BY <1>2 DEF Second
    <2> QED
      BY <2>1, FoundWhileMoved
  <1>10. /\ ~survey'.second => survey'.first = Blank
         /\ survey'.step = "rootAgain" => survey'.second /\ survey'.scan = survey'.first
         /\ InventoryExact'
    BY <1>2 DEF InventoryInv, InventoryExact
  <1> QED
    BY <1>2, <1>4, <1>6, <1>7, <1>8, <1>9, <1>10 DEF InventoryInv

(* The inventory at first.                                                 *)
LEMMA InventoryAtFirst ==
  ASSUME InventoryInit
  PROVE  InventoryInv
  <1>1. /\ survey = [step |-> "root", again |-> FALSE, inventory |-> <<>>, current |-> FALSE,
                     root |-> Nothing, folder |-> Nothing, second |-> FALSE, first |-> Blank,
                     scan |-> Blank, names |-> {}, of |-> Pending]
        /\ moment = <<>>
    BY DEF InventoryInit
  <1>2. PICK blank \in Scans, files \in NameContents, names \in SUBSET Names,
             of \in [name : Names \cup {""}, size : Nat, linked : {<<>>} \cup (Nat \X Nat),
                     file : Nat, chunks : Seq(Nat)] :
          blank = Blank /\ files = <<>> /\ names = {} /\ of = Pending
    BY BlankIs, NoContents, PendingIs
  <1>3. survey = [step |-> "root", again |-> FALSE, inventory |-> files, current |-> FALSE,
                  root |-> Nothing, folder |-> Nothing, second |-> FALSE, first |-> blank,
                  scan |-> blank, names |-> names, of |-> of]
    BY <1>1, <1>2
  <1>4. "root" \in SurveySteps /\ Nothing \in Nat
    BY DEF SurveySteps, Nothing
  <1>5. /\ survey \in Surveys /\ survey.step = "root" /\ ~survey.second
        /\ survey.first = Blank /\ survey.scan = Blank /\ survey.folder = Nothing
    BY <1>2, <1>3, <1>4 DEF Surveys
  <1>6. moment \in NameContents
    BY <1>1, NoContents
  <1>7. Noted(survey.first) /\ Noted(survey.scan)
    BY <1>5, BlankNoted
  <1>8. survey.step \notin Walking /\ survey.step \notin Descending /\ survey.step \notin Reading
        /\ survey.step \notin {"walked", "rootAgain", "stat", "linked", "open", "childList",
                               "evidence", "status"}
    BY <1>5 DEF Walking, Descending, Reading
  <1>9. WalkTrue
    BY <1>5, <1>8 DEF WalkTrue
  <1>10. ReadingTrue /\ FolderListed /\ InventoryExact /\ ~Second
    BY <1>5, <1>8 DEF ReadingTrue, FolderListed, InventoryExact, Second
  <1> QED
    BY <1>5, <1>6, <1>7, <1>8, <1>9, <1>10 DEF InventoryInv

(* A step of the command, or of others.                                    *)
LEMMA InventoryKeeps ==
  ASSUME TreeOK, InventoryInv, InventoryNext
  PROVE  InventoryInv'
  <1>1. CASE survey.step \notin {"status", "failed"} /\ Others /\ UNCHANGED <<survey, moment>>
    BY <1>1, OthersMove, SurveyWhileMoved
  <1> QED
    BY <1>1, OpenDataRootKeeps, CheckDataRootKeeps, ListRootKeeps, StatEntryKeeps, OpenChildKeeps,
       CheckChildKeeps, StatChildKeeps, ListChildKeeps, StatFileKeeps, OpenRegularKeeps,
       ReadPayloadKeeps, CheckReadKeeps, NoteFileKeeps, EndWalkKeeps, EndInventoryKeeps,
       ReadEvidenceKeeps
       DEF InventoryNext

-----------------------------------------------------------------------------
(* Both readers.                                                           *)
ReadersInv == TreeOK /\ BackupInv /\ InventoryInv

(* Neither reader writes: a step of one is the step of others for the      *)
(* other.                                                                  *)
LEMMA TreeUnchanged ==
  ASSUME UNCHANGED treeVars
  PROVE  TreeOK => TreeOK'
  <1>1. node' = node /\ top' = top /\ changes' = changes /\ seen' = seen
    BY DEF treeVars
  <1>2. \A n : Visible(n)' = Visible(n)
    BY <1>1 DEF Visible, Home, Lookup, IsDirectory, IsFile
  <1> QED
    BY <1>1, <1>2 DEF TreeOK, Linked, Inode

(* For the backup a step of the inventory is none, ...                     *)
LEMMA BackupUnchanged ==
  ASSUME UNCHANGED <<treeVars, hashing>>
  PROVE  BackupInv => BackupInv'
  <1>1. node' = node /\ top' = top /\ seen' = seen /\ hashing' = hashing
    BY DEF treeVars
  <1>2. (Name' = Name) /\ (InFolder' <=> InFolder) /\ Parent' = Parent
    BY <1>1 DEF Name, InFolder, Parent
  <1>3. /\ EntryRead' <=> EntryRead
        /\ StillNamed' <=> StillNamed
        /\ StillLinked' <=> StillLinked
    BY <1>1, <1>2 DEF EntryRead, StillNamed, StillLinked, Lookup
  <1>4. EntriesTrue' <=> EntriesTrue
    BY <1>1 DEF EntriesTrue
  <1>5. FileTrue => FileTrue'
    BY <1>1, <1>2, <1>3 DEF FileTrue, ReadTrue, Inode, Begins
  <1> QED
    BY <1>1, <1>4, <1>5 DEF BackupInv, Inode

(* ... and for the inventory one of the backup is none.                    *)
LEMMA InventoryUnchanged ==
  ASSUME UNCHANGED <<treeVars, survey, moment>>
  PROVE  InventoryInv => InventoryInv'
  <1>1. node' = node /\ top' = top /\ survey' = survey /\ moment' = moment
        /\ UNCHANGED <<treeVars, moment>> /\ survey'.first = survey.first
        /\ survey'.root = survey.root
    BY DEF treeVars
  <1>2. /\ Noted(survey.first)' <=> Noted(survey.first)
        /\ Noted(survey.scan)' <=> Noted(survey.scan)
    BY <1>1 DEF Noted, DirNoted, DirOf, Inode
  <1>3. WalkTrue' <=> WalkTrue
    BY <1>1 DEF WalkTrue, Inode, DirNoted, DirOf
  <1>4. Walked' = Walked /\ Ahead' = Ahead
    BY <1>1 DEF Walked, Ahead
  <1>5. ReadingTrue' <=> ReadingTrue
    BY <1>1, <1>4 DEF ReadingTrue, Inode, Lookup, Begins
  <1>6. FolderListed' <=> FolderListed
    BY <1>1, <1>4 DEF FolderListed, DirNoted, DirOf, Unwritten
  <1>7. /\ FolderWas' <=> FolderWas
        /\ DirNoted(survey.first)' <=> DirNoted(survey.first)
        /\ DirOf(survey.first)' = DirOf(survey.first)
        /\ Unwritten(Folder, survey.first)' <=> Unwritten(Folder, survey.first)
        /\ Lookup(survey.root, Folder)' = Lookup(survey.root, Folder)
        /\ \A n : WasThere(n, survey.root)' <=> WasThere(n, survey.root)
    BY <1>1, FolderStays
  <1>8. /\ \A n : SameNoted(n)' <=> SameNoted(n)
        /\ DirNoted(survey.scan)' <=> DirNoted(survey.scan)
    BY <1>1 DEF SameNoted, DirNoted
  <1>9. RootWas => RootWas'
    BY <1>1, <1>4, RootStays
  <1>10. FolderFound => FolderFound'
    BY <1>1, <1>7, <1>8 DEF FolderFound
  <1>11. FilesFound => FilesFound'
    BY <1>1, <1>7, <1>8 DEF FilesFound
  <1>12. (Second' <=> Second) /\ (InventoryExact' <=> InventoryExact)
    BY <1>1 DEF Second, InventoryExact
  <1> QED
    BY <1>1, <1>2, <1>3, <1>5, <1>6, <1>9, <1>10, <1>11, <1>12 DEF InventoryInv

(* A step of either, or of others.                                         *)
LEMMA ReadersKeep ==
  ASSUME ReadersInv, [ReadersNext]_readersVars
  PROVE  ReadersInv'
  <1>1. TreeOK /\ BackupInv /\ InventoryInv
    BY DEF ReadersInv
  <1>2. ASSUME BackupNext, UNCHANGED <<survey, moment>>
        PROVE  ReadersInv'
    <2>1. BackupInv'
      BY <1>1, <1>2, BackupKeeps
    <2>2. (Others /\ UNCHANGED hashing) \/ UNCHANGED treeVars
      BY <1>2 DEF BackupNext, OpenRoot, CheckRoot, OpenFolder, OpenFile, ReadChunk,
                  CheckUnchanged, CheckFolder, CheckName, Hashing
    <2>3. TreeOK' /\ InventoryInv'
      <3>1. CASE Others
        BY <1>1, <1>2, <3>1, OthersMove, SurveyWhileMoved
      <3>2. CASE UNCHANGED treeVars
        BY <1>1, <1>2, <3>2, TreeUnchanged, InventoryUnchanged
      <3> QED
        BY <2>2, <3>1, <3>2
    <2> QED
      BY <2>1, <2>3 DEF ReadersInv
  <1>3. ASSUME InventoryNext, UNCHANGED hashing
        PROVE  ReadersInv'
    <2>1. InventoryInv'
      BY <1>1, <1>3, InventoryKeeps
    <2>2. Others \/ UNCHANGED treeVars
      BY <1>3 DEF InventoryNext, OpenDataRoot, CheckDataRoot, ListRoot, StatEntry, OpenChild,
                  CheckChild, StatChild, ListChild, StatFile, OpenRegular, ReadPayload, CheckRead,
                  NoteFile, EndWalk, EndInventory, ReadEvidence, Surveying
    <2>3. TreeOK' /\ BackupInv'
      <3>1. CASE Others
        BY <1>1, <1>3, <3>1, OthersMove, HashingWhileMoved
      <3>2. CASE UNCHANGED treeVars
        BY <1>1, <1>3, <3>2, TreeUnchanged, BackupUnchanged
      <3> QED
        BY <2>2, <3>1, <3>2
    <2> QED
      BY <2>1, <2>3 DEF ReadersInv
  <1>4. ASSUME UNCHANGED readersVars
        PROVE  ReadersInv'
    <2>1. UNCHANGED treeVars /\ UNCHANGED hashing /\ UNCHANGED <<survey, moment>>
      BY <1>4 DEF readersVars
    <2> QED
      BY <1>1, <2>1, TreeUnchanged, BackupUnchanged, InventoryUnchanged DEF ReadersInv
  <1> QED
    BY <1>2, <1>3, <1>4 DEF ReadersNext

(* However many files the root and the folder hold, and however often and  *)
(* whenever others write files, put, replace and remove names, and replace *)
(* the folder and the root: a manifest or a verified restore reports of    *)
(* each declared file bytes that its path has led to while the command     *)
(* ran, and an inventory called consistent is the whole tree at one        *)
(* moment.                                                                 *)
THEOREM TreesAreReadTrue == ReadersSpec => []TreesReadTrue
  <1>1. ReadersInit => ReadersInv
    BY TreeAtFirst, BackupAtFirst, InventoryAtFirst DEF ReadersInit, ReadersInv
  <1>2. ReadersInv /\ [ReadersNext]_readersVars => ReadersInv'
    BY ReadersKeep
  <1>3. ReadersInv => TreesReadTrue
    BY BackupTrue DEF ReadersInv, InventoryInv, TreesReadTrue
  <1> QED
    BY <1>1, <1>2, <1>3, PTL DEF ReadersSpec
=============================================================================
