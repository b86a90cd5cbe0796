-------------------------- MODULE MCPublicationStore --------------------------
(* Instances of PublicationStore for TLC. *)
EXTENDS PublicationStore, TLC

CONSTANTS r1, r2, r3, r4   \* previews

(* Two first releases that claim the same version, an update of the first  *)
(* and a release that follows its withdrawal.                              *)
Versions4 == r1 :> 1 @@ r2 :> 1 @@ r3 :> 2 @@ r4 :> 3
Expected4 == r1 :> NoLink @@ r2 :> NoLink @@ r3 :> Active(r1) @@ r4 :> Withdrawn(r1)
Published4 == r1 :> 1 @@ r2 :> 1 @@ r3 :> 2 @@ r4 :> 3

Anywhere == StoreSteps
ButUnlink == StoreSteps \ {"unlink"}
=============================================================================
