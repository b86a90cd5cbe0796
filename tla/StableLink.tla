------------------------------ MODULE StableLink ------------------------------
(***************************************************************************)
(* What the publication store promises its readers: the stable link shows  *)
(* one release at a time, a release replaces exactly the link that was     *)
(* reviewed with it and an earlier publication only, and a withdrawn       *)
(* release is shown as withdrawn until a later one replaces it.            *)
(***************************************************************************)
EXTENDS Naturals

CONSTANTS
  Previews,   \* reviewed previews
  Expected,   \* the link each preview was reviewed against
  Published,  \* when each preview is published
  None

VARIABLE shown

Active(r) == [preview |-> r, state |-> "active"]
Withdrawn(r) == [preview |-> r, state |-> "withdrawn"]

Init == shown = None

Release(r) ==
  /\ shown = Expected[r]
  /\ shown # None => Published[r] > Published[shown.preview]
  /\ shown' = Active(r)
Withdraw(r) == shown = Active(r) /\ shown' = Withdrawn(r)

Next == \E r \in Previews : Release(r) \/ Withdraw(r)

Spec == Init /\ [][Next]_shown
=============================================================================
