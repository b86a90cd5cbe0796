------------------------------- MODULE MCDesk -------------------------------
(***************************************************************************)
(* One run for eight components that share no state: a behaviour is of one *)
(* of them, and the others stay as they are.                               *)
(***************************************************************************)
EXTENDS Snapshot, CompanionEvidence, Delivery, OAuthSession, Fundus, MCImages,
        EditorTab, ViewerPointers

VARIABLE desk  \* the component the behaviour is of

SomeMaterial == [m \in Manifests |-> 1]
SomeLook == [b \in Builds |-> IF b.manifest = "m3" THEN 2 ELSE 1]
FirstRegistry == [manifest |-> "m1", recipe |-> "c1"]

Init ==
  /\ desk \in {"snapshot", "evidence", "delivery", "oauth", "fundus", "images", "tab", "pointers"}
  /\ SnapInit /\ EvidenceInit /\ DeliveryInit /\ OAuthInit /\ FundusInit /\ ImageInit
  /\ TabInit /\ ViewerInit

OnlySnapshot ==
  /\ desk = "snapshot"
  /\ UNCHANGED <<desk, evidenceVars, deliveryVars, oauthVars, fundusVars, imageVars, tabVars, viewerVars>>

OnlyEvidence ==
  /\ desk = "evidence"
  /\ UNCHANGED <<desk, snapVars, deliveryVars, oauthVars, fundusVars, imageVars, tabVars, viewerVars>>

OnlyDelivery ==
  /\ desk = "delivery"
  /\ UNCHANGED <<desk, snapVars, evidenceVars, oauthVars, fundusVars, imageVars, tabVars, viewerVars>>

OnlyOAuth ==
  /\ desk = "oauth"
  /\ UNCHANGED <<desk, snapVars, evidenceVars, deliveryVars, fundusVars, imageVars, tabVars, viewerVars>>

OnlyFundus ==
  /\ desk = "fundus"
  /\ UNCHANGED <<desk, snapVars, evidenceVars, deliveryVars, oauthVars, imageVars, tabVars, viewerVars>>

OnlyImages ==
  /\ desk = "images"
  /\ UNCHANGED <<desk, snapVars, evidenceVars, deliveryVars, oauthVars, fundusVars, tabVars, viewerVars>>

OnlyTab ==
  /\ desk = "tab"
  /\ UNCHANGED <<desk, snapVars, evidenceVars, deliveryVars, oauthVars, fundusVars, imageVars, viewerVars>>

OnlyPointers ==
  /\ desk = "pointers"
  /\ UNCHANGED <<desk, snapVars, evidenceVars, deliveryVars, oauthVars, fundusVars, imageVars, tabVars>>

Next ==
  \/ OnlySnapshot /\ SnapNext
  \/ OnlyEvidence /\ EvidenceNext
  \/ OnlyDelivery /\ DeliveryNext
  \/ OnlyOAuth /\ OAuthNext
  \/ OnlyFundus /\ FundusNext
  \/ OnlyImages /\ ImageNext
  \/ OnlyTab /\ TabNext
  \/ OnlyPointers /\ ViewerNext

Spec ==
  Init /\ [][Next]_<<desk, snapVars, evidenceVars, deliveryVars, oauthVars, fundusVars, imageVars,
                     tabVars, viewerVars>>
=============================================================================
