---------------------------- MODULE EditorProofs ----------------------------
(***************************************************************************)
(* Theorems about the editor: the pointers in the viewer's frame           *)
(* (ViewerPointers), and the bundle cache of its server (EditorCache).     *)
(***************************************************************************)
EXTENDS ViewerPointers, EditorCache, SumProofs

-----------------------------------------------------------------------------
(* Pointers. *)

Gestures == [kind : {"none", "drag", "pan", "pinch"}, pointer : SUBSET Pointers,
             node : SUBSET Nodes, from : Spots, moved : BOOLEAN]
FitStates == [auto : BOOLEAN, before : BOOLEAN, changed : BOOLEAN, moved : BOOLEAN,
         pending : BOOLEAN, fits : BOOLEAN]

ViewerTypeOK ==
  /\ active \subseteq Pointers /\ IsFiniteSet(active)
  /\ gesture \in Gestures
  /\ shown \in [Nodes -> Spots] /\ home \in [Nodes -> Spots] /\ sent \in [Nodes -> Spots]
  /\ fit \in FitStates
  /\ own \in {"nothing", "view", "other"}
  /\ observing \in BOOLEAN
  /\ frame \in {"live", "rebuild", "history"}

(* A gesture is of pointers that are followed, and a drag knows where the  *)
(* document posted last has its node.                                      *)
GestureHeld ==
  /\ gesture.kind = "none" => gesture = NoGesture
  /\ gesture.kind = "drag" =>
       \E p \in active, n \in Nodes :
         gesture.pointer = {p} /\ gesture.node = {n} /\ gesture.from = sent[n]
  /\ gesture.kind = "pan" => \E p \in active : gesture.pointer = {p}
  /\ gesture.kind = "pinch" => active # {} /\ gesture.pointer = {}
  /\ gesture.kind # "drag" => gesture.node = {}

PictureHeld ==
  \A n \in Nodes : shown[n] # sent[n] =>
    gesture.kind = "drag" /\ gesture.moved /\ n \in gesture.node

Untouched ==
  /\ frame # "live" => active = {}
  /\ observing => gesture.kind # "drag" /\ picking = "none"

(* What the fit is suspended with tells what it will be after the last     *)
(* pointer has gone.                                                       *)
FitHeld ==
  /\ own = "nothing" =>
       IF active = {} THEN fit.auto
       ELSE /\ fit.before /\ ~fit.changed
            /\ fit.moved => gesture.kind = "drag" /\ gesture.moved
  /\ own = "view" => ~fit.auto /\ (active # {} => fit.changed \/ ~fit.before)
  /\ fit.auto => fit.fits
  /\ active = {} => ~fit.before
  /\ active # {} /\ fit.before /\ ~fit.changed => fit.fits \/ fit.pending

ViewerInv == ViewerTypeOK /\ GestureHeld /\ PictureHeld /\ Untouched /\ FitHeld

-----------------------------------------------------------------------------

(* The fields of what the handlers make of a gesture.                      *)
LEMMA NoGestureIs ==
  /\ NoGesture \in Gestures
  /\ NoGesture.kind = "none" /\ NoGesture.pointer = {} /\ NoGesture.node = {} /\ NoGesture.moved = FALSE
PROOF
  BY PointerAssumption DEF NoGesture, Gestures

LEMMA TrackingIs ==
  ASSUME NEW p \in Pointers, NEW kind \in {"drag", "pan", "pinch"}
  PROVE  /\ Tracking(kind, p) \in Gestures
         /\ Tracking(kind, p).kind = kind
         /\ Tracking(kind, p).pointer = {p}
         /\ Tracking(kind, p).node = {}
         /\ Tracking(kind, p).moved = FALSE
PROOF
  <1>1. PICK g \in Gestures : g = NoGesture
    BY NoGestureIs
  <1>2. Tracking(kind, p) = [g EXCEPT !.kind = kind, !.pointer = {p}]
    BY <1>1 DEF Tracking
  <1>3. g.node = {} /\ g.moved = FALSE
    BY <1>1, NoGestureIs
  <1> DEFINE t == [g EXCEPT !.kind = kind, !.pointer = {p}]
  <1>4. t \in Gestures /\ t.kind = kind /\ t.pointer = {p} /\ t.node = {} /\ t.moved = FALSE
    BY <1>3 DEF Gestures
  <1>5. Tracking(kind, p) = t
    BY <1>2
  <1> HIDE DEF t
  <1> QED
    BY <1>4, <1>5

LEMMA DraggingIs ==
  ASSUME NEW p \in Pointers, NEW n \in Nodes, shown \in [Nodes -> Spots]
  PROVE  /\ Dragging(p, n) \in Gestures
         /\ Dragging(p, n).kind = "drag"
         /\ Dragging(p, n).pointer = {p}
         /\ Dragging(p, n).node = {n}
         /\ Dragging(p, n).from = shown[n]
         /\ Dragging(p, n).moved = FALSE
PROOF
  <1>1. PICK g \in Gestures : g = Tracking("drag", p)
    BY TrackingIs
  <1>2. Dragging(p, n) = [g EXCEPT !.node = {n}, !.from = shown[n]]
    BY <1>1 DEF Dragging
  <1>3. g.kind = "drag" /\ g.pointer = {p} /\ g.moved = FALSE
    BY <1>1, TrackingIs
  <1> DEFINE t == [g EXCEPT !.node = {n}, !.from = shown[n]]
  <1>4. /\ t \in Gestures /\ t.kind = "drag" /\ t.pointer = {p}
        /\ t.node = {n} /\ t.from = shown[n] /\ t.moved = FALSE
    BY <1>3 DEF Gestures
  <1>5. Dragging(p, n) = t
    BY <1>2
  <1> HIDE DEF t
  <1> QED
    BY <1>4, <1>5

LEMMA PinchIs ==
  /\ [NoGesture EXCEPT !.kind = "pinch"] \in Gestures
  /\ [NoGesture EXCEPT !.kind = "pinch"].kind = "pinch"
  /\ [NoGesture EXCEPT !.kind = "pinch"].pointer = {}
  /\ [NoGesture EXCEPT !.kind = "pinch"].node = {}
PROOF
  <1>1. PICK g \in Gestures : g = NoGesture
    BY NoGestureIs
  <1>2. g.node = {} /\ g.pointer = {}
    BY <1>1, NoGestureIs
  <1> QED
    BY <1>1, <1>2 DEF Gestures

(* What becomes of the fit when a pointer comes, when the last one has     *)
(* gone, and when the user changes the view.                               *)
LEMMA SuspendedIs ==
  ASSUME fit \in FitStates
  PROVE  /\ Suspended \in FitStates
         /\ ~Suspended.auto
         /\ Suspended.fits = fit.fits
         /\ active = {} => /\ Suspended.before = fit.auto
                           /\ ~Suspended.changed /\ ~Suspended.moved /\ ~Suspended.pending
         /\ active # {} => /\ Suspended.before = fit.before /\ Suspended.changed = fit.changed
                           /\ Suspended.moved = fit.moved /\ Suspended.pending = fit.pending
PROOF
  BY DEF Suspended, FitStates

LEMMA ReleasedIs ==
  ASSUME NEW f \in FitStates, NEW pointers, NEW doing \in Gestures
  PROVE  /\ Released(f, pointers, doing) \in FitStates
         /\ pointers # {} \/ doing.kind # "none" => Released(f, pointers, doing) = f
         /\ pointers = {} /\ doing.kind = "none" =>
              LET r == Released(f, pointers, doing)
              IN  /\ r.auto <=> (f.auto \/ (f.before /\ ~f.changed /\ ~f.moved))
                  /\ r.fits <=> (f.fits \/ (f.before /\ ~f.changed /\ ~f.moved /\ f.pending))
                  /\ ~r.before
PROOF
  BY DEF Released, FitStates

LEMMA ChosenIs ==
  ASSUME fit \in FitStates
  PROVE  /\ Chosen(fit) \in FitStates
         /\ ~Chosen(fit).auto /\ Chosen(fit).before = fit.before
         /\ Chosen(fit).changed <=> active # {}
         /\ Chosen(fit).moved = fit.moved
PROOF
  BY DEF Chosen, FitStates

(* What a drag is taken back to is what was posted.                        *)
LEMMA RollbackIs ==
  ASSUME ViewerInv
  PROVE  RolledBack = sent
PROOF
  <1>1. shown \in [Nodes -> Spots] /\ sent \in [Nodes -> Spots]
    BY DEF ViewerInv, ViewerTypeOK
  <1>2. ASSUME NEW n \in Nodes
        PROVE  (IF n \in gesture.node THEN gesture.from ELSE shown[n]) = sent[n]
    BY DEF ViewerInv, GestureHeld, PictureHeld
  <1>3. RolledBack = [n \in Nodes |-> sent[n]]
    BY <1>2 DEF RolledBack
  <1> QED
    BY <1>1, <1>3

(* The pointers stay finitely many.                                        *)
LEMMA FollowFinite ==
  ASSUME ViewerTypeOK, NEW p \in Pointers
  PROVE  /\ active \cup {p} \subseteq Pointers /\ IsFiniteSet(active \cup {p})
         /\ active \ {p} \subseteq Pointers /\ IsFiniteSet(active \ {p})
PROOF
  BY FS_AddElement, FS_RemoveElement DEF ViewerTypeOK

(* What is left of a gesture is one of the pointers left.                  *)
LEMMA RemainingIs ==
  ASSUME ViewerInv, NEW p \in Pointers
  PROVE  LET g == Remaining(p)
             others == active \ {p}
         IN  /\ g \in Gestures
             /\ g.kind = "none" => g = NoGesture
             /\ g.kind = "drag" => g = gesture /\ gesture.pointer \subseteq others /\ gesture.pointer # {p}
             /\ g.kind = "pan" => \E q \in others : g.pointer = {q}
             /\ g.kind = "pinch" => others # {} /\ g.pointer = {}
             /\ g.kind # "drag" => g.node = {}
             /\ gesture.kind = "drag" => g = IF gesture.pointer = {p} THEN NoGesture ELSE gesture
             /\ others = {} => g = NoGesture
PROOF
  <1> USE DEF ViewerInv
  <1> DEFINE others == active \ {p}
  <1>1. others \subseteq Pointers /\ IsFiniteSet(others)
    BY FollowFinite
  <1>2. gesture \in Gestures
    BY DEF ViewerTypeOK
  <1>3. CASE gesture.pointer = {p}
    <2>1. Remaining(p) = NoGesture
      BY <1>3 DEF Remaining
    <2> QED
      BY <1>3, <2>1, NoGestureIs
  <1>4. CASE gesture.pointer # {p} /\ gesture.kind = "pinch" /\ Cardinality(others) < 2
    <2>1. CASE others = {}
      <3>1. Remaining(p) = NoGesture
        BY <1>4, <2>1 DEF Remaining
      <3> QED
        BY <1>4, <2>1, <3>1, NoGestureIs
    <2>2. CASE others # {}
      <3>1. Remaining(p) = [Tracking("pan", p) EXCEPT !.pointer = others]
        BY <1>4, <2>2 DEF Remaining
      <3>2. PICK q \in others : TRUE
        BY <2>2
      <3>3. others = {q}
        <4>1. Cardinality(others) \in Nat /\ Cardinality(others \ {q}) \in Nat
              /\ Cardinality(others \ {q}) = Cardinality(others) - 1 /\ IsFiniteSet(others \ {q})
          BY <1>1, <3>2, FS_CardinalityType, FS_RemoveElement
        <4>2. Cardinality(others \ {q}) = 0
          BY <1>4, <4>1
        <4>3. others \ {q} = {}
          BY <4>1, <4>2, FS_EmptySet
        <4> QED
          BY <3>2, <4>3
      <3>4. PICK g \in Gestures : g = Tracking("pan", p) /\ g.kind = "pan" /\ g.node = {}
        BY TrackingIs
      <3>5. Remaining(p) = [g EXCEPT !.pointer = others]
        BY <3>1, <3>4
      <3>6. Remaining(p) \in Gestures /\ Remaining(p).kind = "pan" /\ Remaining(p).node = {}
            /\ Remaining(p).pointer = others
        BY <1>1, <3>4, <3>5 DEF Gestures
      <3> QED
        BY <1>4, <2>2, <3>2, <3>3, <3>6
    <2> QED
      BY <2>1, <2>2
  <1>5. CASE gesture.pointer # {p} /\ ~(gesture.kind = "pinch" /\ Cardinality(others) < 2)
    <2>1. Remaining(p) = gesture
      BY <1>5 DEF Remaining
    <2>2. gesture.kind = "pinch" => others # {}
      <3>1. Cardinality({}) = 0
        BY FS_EmptySet
      <3> QED
        BY <1>5, <3>1
    <2>3. gesture.kind \in {"drag", "pan"} => \E q \in others : gesture.pointer = {q}
      BY <1>5 DEF GestureHeld
    <2>4. gesture.kind \in {"none", "drag", "pan", "pinch"}
      BY <1>2 DEF Gestures
    <2> QED
      BY <1>2, <1>5, <2>1, <2>2, <2>3, <2>4 DEF GestureHeld
  <1> QED
    BY <1>3, <1>4, <1>5

(* With no pointer nothing is under way and the picture is what was posted. *)
LEMMA IdleIs ==
  ASSUME ViewerInv, active = {}
  PROVE  gesture = NoGesture /\ shown = sent
PROOF
  <1>1. gesture = NoGesture
    BY DEF ViewerInv, ViewerTypeOK, GestureHeld, Gestures
  <1>2. \A n \in Nodes : shown[n] = sent[n]
    BY <1>1, NoGestureIs DEF ViewerInv, PictureHeld
  <1> QED
    BY <1>1, <1>2 DEF ViewerInv, ViewerTypeOK

(* A frame that has just started meets the invariant.                      *)
LEMMA InitialViewer == ViewerInit => ViewerInv
PROOF
  <1> SUFFICES ASSUME ViewerInit
               PROVE  ViewerInv
    OBVIOUS
  <1>1. /\ active = {} /\ gesture = NoGesture /\ fit = Fitted /\ own = "nothing"
        /\ observing = FALSE /\ frame = "live"
        /\ shown = home /\ sent = home /\ home \in [Nodes -> Spots]
    BY PointerAssumption DEF ViewerInit, Opened
  <1>2. Fitted \in FitStates /\ Fitted.auto /\ Fitted.fits /\ ~Fitted.before
    BY DEF Fitted, FitStates
  <1>3. ViewerTypeOK
    BY <1>1, <1>2, NoGestureIs, FS_EmptySet DEF ViewerTypeOK
  <1>4. GestureHeld /\ PictureHeld /\ Untouched
    BY <1>1, NoGestureIs DEF GestureHeld, PictureHeld, Untouched
  <1>5. FitHeld
    BY <1>1, <1>2 DEF FitHeld
  <1> QED
    BY <1>3, <1>4, <1>5 DEF ViewerInv

(* A pointer comes down.                                                   *)
LEMMA PressesStep ==
  ASSUME ViewerInv, NEW p \in Pointers,
         \/ \E n \in Nodes : PressNode(p, n)
         \/ PressElsewhere(p) \/ PressEdge(p) \/ PickEnd(p) \/ StartPinch(p) \/ PressMore(p)
  PROVE  ViewerInv'
PROOF
  <1> USE DEF ViewerInv
  <1>0. fit \in FitStates /\ gesture \in Gestures
    BY DEF ViewerTypeOK
  <1>s. /\ Suspended \in FitStates
        /\ ~Suspended.auto
        /\ Suspended.fits = fit.fits
        /\ active = {} => /\ Suspended.before = fit.auto
                          /\ ~Suspended.changed /\ ~Suspended.moved /\ ~Suspended.pending
        /\ active # {} => /\ Suspended.before = fit.before /\ Suspended.changed = fit.changed
                          /\ Suspended.moved = fit.moved /\ Suspended.pending = fit.pending
    BY <1>0, SuspendedIs
  <1>f. active \cup {p} \subseteq Pointers /\ IsFiniteSet(active \cup {p})
    BY FollowFinite
  \* The first pointer: the fit it suspends.
  <1>1. ASSUME active = {}, frame = "live", active' = {p}, fit' = Suspended, UNCHANGED own,
               gesture' \in Gestures, gesture'.moved = FALSE
        PROVE  FitHeld'
    BY <1>0, <1>1, <1>s DEF FitHeld, FitStates
  \* The first pointer, let go at once.
  <1>2. ASSUME active = {}, fit' = Released(Suspended, active, NoGesture), UNCHANGED <<own, active>>
        PROVE  fit' \in FitStates /\ FitHeld'
    <2>1. LET r == Released(Suspended, active, NoGesture)
          IN  /\ r \in FitStates
              /\ r.auto <=> (Suspended.auto \/ (Suspended.before /\ ~Suspended.changed /\ ~Suspended.moved))
              /\ r.fits <=> (Suspended.fits \/ (Suspended.before /\ ~Suspended.changed /\ ~Suspended.moved
                                                /\ Suspended.pending))
              /\ ~r.before
      BY <1>2, <1>s, ReleasedIs, NoGestureIs
    <2>2. fit' \in FitStates /\ (fit'.auto <=> fit.auto) /\ (fit'.fits <=> fit.fits) /\ ~fit'.before
      BY <1>2, <1>s, <2>1
    <2> QED
      BY <1>2, <2>2 DEF FitHeld
  <1>3. ASSUME NEW n \in Nodes, PressNode(p, n)
        PROVE  ViewerInv'
    <2>1. active = {} /\ frame = "live" /\ ~observing /\ active' = {p} /\ gesture' = Dragging(p, n)
          /\ fit' = Suspended /\ UNCHANGED <<positions, own, observing, picking, frame>>
      BY <1>3 DEF PressNode, Comes, Follow
    <2>2. gesture = NoGesture /\ shown = sent
      BY <2>1, IdleIs
    <2>3. /\ gesture' \in Gestures /\ gesture'.kind = "drag" /\ gesture'.pointer = {p}
          /\ gesture'.node = {n} /\ gesture'.from = sent[n] /\ gesture'.moved = FALSE
      BY <2>1, <2>2, DraggingIs DEF ViewerTypeOK
    <2>4. ViewerTypeOK'
      BY <1>f, <1>s, <2>1, <2>3 DEF ViewerTypeOK, positions
    <2>5. GestureHeld' /\ PictureHeld' /\ Untouched'
      BY <2>1, <2>2, <2>3 DEF GestureHeld, PictureHeld, Untouched, positions
    <2> QED
      BY <1>1, <2>1, <2>3, <2>4, <2>5
  <1>4. CASE PressElsewhere(p)
    <2>1. active = {} /\ frame = "live" /\ active' = {p} /\ gesture' = Tracking("pan", p)
          /\ fit' = Suspended /\ UNCHANGED <<positions, own, observing, picking, frame>>
      BY <1>4 DEF PressElsewhere, Comes, Follow
    <2>2. gesture = NoGesture /\ shown = sent
      BY <2>1, IdleIs
    <2>3. /\ gesture' \in Gestures /\ gesture'.kind = "pan" /\ gesture'.pointer = {p}
          /\ gesture'.node = {} /\ gesture'.moved = FALSE
      BY <2>1, TrackingIs
    <2>4. ViewerTypeOK'
      BY <1>f, <1>s, <2>1, <2>3 DEF ViewerTypeOK, positions
    <2>5. GestureHeld' /\ PictureHeld' /\ Untouched'
      BY <2>1, <2>2, <2>3 DEF GestureHeld, PictureHeld, Untouched, positions
    <2> QED
      BY <1>1, <2>1, <2>3, <2>4, <2>5
  <1>5. CASE PressEdge(p)
    <2>1. active = {} /\ gesture' = NoGesture /\ fit' = Released(Suspended, active, NoGesture)
          /\ UNCHANGED <<active, positions, own, observing, picking, frame>>
      BY <1>5 DEF PressEdge
    <2>2. gesture = NoGesture /\ shown = sent
      BY <2>1, IdleIs
    <2>3. fit' \in FitStates /\ FitHeld'
      BY <1>2, <2>1
    <2>4. ViewerTypeOK'
      BY <2>1, <2>2, <2>3, NoGestureIs DEF ViewerTypeOK, positions
    <2>5. GestureHeld' /\ PictureHeld' /\ Untouched'
      BY <2>1, <2>2, NoGestureIs DEF GestureHeld, PictureHeld, Untouched, positions
    <2> QED
      BY <2>3, <2>4, <2>5
  <1>6. CASE PickEnd(p)
    <2>1. active = {} /\ ~observing /\ picking' = "none" /\ fit' = Released(Suspended, active, gesture)
          /\ UNCHANGED <<active, gesture, own, observing>>
      BY <1>6 DEF PickEnd
    <2>2. gesture = NoGesture /\ shown = sent
      BY <2>1, IdleIs
    <2>3. fit' \in FitStates /\ FitHeld'
      BY <1>2, <2>1, <2>2
    <2>4. \/ sent' = shown /\ home' = shown /\ frame' = "rebuild" /\ UNCHANGED shown
          \/ UNCHANGED <<positions, frame>>
      BY <1>6 DEF PickEnd, Rebuild
    <2>5. ViewerTypeOK'
      BY <2>1, <2>3, <2>4 DEF ViewerTypeOK, positions
    <2>6. GestureHeld' /\ PictureHeld' /\ Untouched'
      BY <2>1, <2>2, <2>4, NoGestureIs DEF GestureHeld, PictureHeld, Untouched, positions
    <2> QED
      BY <2>3, <2>5, <2>6
  <1>7. CASE StartPinch(p)
    <2>1. /\ Cardinality(active) = 1 /\ active' = active \cup {p} /\ frame = "live"
          /\ gesture' = [NoGesture EXCEPT !.kind = "pinch"]
          /\ shown' = IF gesture.moved THEN RolledBack ELSE shown
          /\ fit' = [Suspended EXCEPT !.moved = IF gesture.kind = "drag" /\ gesture.moved THEN FALSE ELSE @]
          /\ UNCHANGED <<home, sent, own, observing, selected, picking, frame>>
      BY <1>7 DEF StartPinch, Comes, Follow, editing
    <2>2. active # {}
      BY <2>1, FS_EmptySet
    <2>3. shown' = sent
      <3>1. CASE gesture.moved
        BY <2>1, <3>1, RollbackIs
      <3>2. CASE ~gesture.moved
        <4>1. \A n \in Nodes : shown[n] = sent[n]
          BY <3>2 DEF PictureHeld
        <4> QED
          BY <2>1, <3>2, <4>1 DEF ViewerTypeOK
      <3> QED
        BY <3>1, <3>2
    <2>4. /\ gesture' \in Gestures /\ gesture'.kind = "pinch" /\ gesture'.pointer = {}
          /\ gesture'.node = {}
      BY <2>1, PinchIs
    <2>5. PICK s \in FitStates : s = Suspended
      BY <1>s
    <2>6. gesture.moved \in BOOLEAN
      BY <1>0 DEF Gestures
    <2>7. /\ fit' \in FitStates /\ fit'.auto = s.auto /\ fit'.before = s.before /\ fit'.changed = s.changed
          /\ fit'.pending = s.pending /\ fit'.fits = s.fits
          /\ fit'.moved = IF gesture.kind = "drag" /\ gesture.moved THEN FALSE ELSE s.moved
      BY <2>1, <2>5 DEF FitStates
    <2>8. FitHeld'
      BY <1>s, <2>1, <2>2, <2>5, <2>7 DEF FitHeld
    <2>9. ViewerTypeOK'
      BY <1>f, <2>1, <2>3, <2>4, <2>7 DEF ViewerTypeOK
    <2>10. GestureHeld' /\ PictureHeld' /\ Untouched'
      BY <2>1, <2>3, <2>4 DEF GestureHeld, PictureHeld, Untouched
    <2> QED
      BY <2>8, <2>9, <2>10
  <1>8. CASE PressMore(p)
    <2>1. /\ active # {} /\ active' = active \cup {p} /\ frame = "live" /\ fit' = Suspended
          /\ UNCHANGED <<gesture, shown, home, sent, own, observing, selected, picking, frame>>
      BY <1>8 DEF PressMore, Comes, Follow, editing, positions
    <2>2. FitHeld'
      BY <1>s, <2>1 DEF FitHeld
    <2>3. ViewerTypeOK'
      BY <1>f, <1>s, <2>1 DEF ViewerTypeOK
    <2>4. GestureHeld' /\ PictureHeld' /\ Untouched'
      BY <2>1 DEF GestureHeld, PictureHeld, Untouched
    <2> QED
      BY <2>2, <2>3, <2>4
  <1> QED
    BY <1>3, <1>4, <1>5, <1>6, <1>7, <1>8

(* Pointers move.                                                          *)
LEMMA MovesStep ==
  ASSUME ViewerInv, Drag \/ MoveView
  PROVE  ViewerInv'
PROOF
  <1> USE DEF ViewerInv
  <1>0. fit \in FitStates /\ gesture \in Gestures
    BY DEF ViewerTypeOK
  <1>g. LET g == [gesture EXCEPT !.moved = TRUE]
        IN  /\ g \in Gestures /\ g.kind = gesture.kind /\ g.pointer = gesture.pointer
            /\ g.node = gesture.node /\ g.from = gesture.from /\ g.moved = TRUE
    BY <1>0 DEF Gestures
  <1>1. CASE Drag
    <2>1. /\ gesture.kind = "drag" /\ gesture' = [gesture EXCEPT !.moved = TRUE]
          /\ fit' = [fit EXCEPT !.moved = TRUE]
          /\ UNCHANGED <<active, home, sent, own, observing, selected, picking, frame>>
      BY <1>1 DEF Drag, editing
    <2>2. PICK n \in gesture.node, spot \in Spots : shown' = [shown EXCEPT ![n] = spot]
      BY <1>1 DEF Drag
    <2>3. /\ fit' \in FitStates /\ fit'.auto = fit.auto /\ fit'.before = fit.before
          /\ fit'.changed = fit.changed /\ fit'.pending = fit.pending /\ fit'.fits = fit.fits
      BY <1>0, <2>1 DEF FitStates
    <2>4. n \in Nodes
      BY <1>0, <2>2 DEF Gestures
    <2>5. ViewerTypeOK'
      BY <1>g, <2>1, <2>2, <2>3, <2>4 DEF ViewerTypeOK
    <2>6. GestureHeld' /\ Untouched'
      BY <1>g, <2>1 DEF GestureHeld, Untouched
    <2>7. PictureHeld'
      BY <1>g, <2>1, <2>2, <2>4 DEF PictureHeld, ViewerTypeOK
    <2>8. active # {}
      BY <2>1 DEF GestureHeld
    <2>9. FitHeld'
      BY <1>g, <2>1, <2>3, <2>8 DEF FitHeld
    <2> QED
      BY <2>5, <2>6, <2>7, <2>9
  <1>2. CASE MoveView
    <2>1. /\ gesture.kind \in {"pan", "pinch"} /\ gesture' = [gesture EXCEPT !.moved = TRUE]
          /\ fit' = Chosen(fit) /\ own' = "view"
          /\ UNCHANGED <<active, shown, home, sent, observing, selected, picking, frame>>
      BY <1>2 DEF MoveView, editing, positions
    <2>2. /\ fit' \in FitStates /\ ~fit'.auto /\ (fit'.changed <=> active # {}) /\ fit'.before = fit.before
      BY <1>0, <2>1, ChosenIs
    <2>3. active # {}
      BY <2>1 DEF GestureHeld
    <2>4. ViewerTypeOK'
      BY <1>g, <2>1, <2>2 DEF ViewerTypeOK
    <2>5. GestureHeld' /\ PictureHeld' /\ Untouched'
      BY <1>g, <2>1 DEF GestureHeld, PictureHeld, Untouched
    <2>6. FitHeld'
      BY <2>1, <2>2, <2>3 DEF FitHeld
    <2> QED
      BY <2>4, <2>5, <2>6
  <1> QED
    BY <1>1, <1>2

(* The last pointer goes: its fit is released, when the drag it may have   *)
(* ended has been accounted for.                                           *)
LEMMA GoneStep ==
  ASSUME ViewerInv, NEW p \in Pointers, NEW f \in FitStates, frame = "live",
         active' = active \ {p}, gesture' = Remaining(p), fit' = Released(f, active', gesture'),
         f.auto = fit.auto, f.before = fit.before, f.changed = fit.changed,
         f.pending = fit.pending, f.fits = fit.fits,
         LET ends == gesture.kind = "drag" /\ gesture.pointer = {p} /\ gesture.moved
         IN  \/ ends /\ ~f.moved /\ own' = own
             \/ ends /\ own' # "nothing" /\ (own' = "view" => own = "view")
             \/ ~ends /\ f.moved = fit.moved /\ own' = own
  PROVE  fit' \in FitStates /\ FitHeld'
PROOF
  <1> USE DEF ViewerInv
  <1>0. fit \in FitStates /\ gesture \in Gestures
    BY DEF ViewerTypeOK
  <1>1. /\ gesture' \in Gestures
        /\ gesture.kind = "drag" => gesture' = IF gesture.pointer = {p} THEN NoGesture ELSE gesture
        /\ active' = {} => gesture' = NoGesture
    BY RemainingIs
  <1>2. /\ fit' \in FitStates
        /\ active' # {} => fit' = f
        /\ active' = {} =>
             /\ fit'.auto <=> (f.auto \/ (f.before /\ ~f.changed /\ ~f.moved))
             /\ fit'.fits <=> (f.fits \/ (f.before /\ ~f.changed /\ ~f.moved /\ f.pending))
             /\ ~fit'.before
    BY <1>1, ReleasedIs, NoGestureIs
  <1>3. CASE active' # {}
    <2>1. active # {}
      BY <1>3
    <2>2. own' = "nothing" => own = "nothing"
      OBVIOUS
    <2>3. own' = "view" => own = "view"
      OBVIOUS
    <2>4. fit' = f
      BY <1>2, <1>3
    <2>5. own' = "nothing" => fit'.before /\ ~fit'.changed
      BY <2>1, <2>2, <2>4 DEF FitHeld
    <2>6. ASSUME own' = "nothing", fit'.moved
          PROVE  gesture'.kind = "drag" /\ gesture'.moved
      <3>1. ~(gesture.kind = "drag" /\ gesture.pointer = {p} /\ gesture.moved) /\ fit.moved
        BY <2>4, <2>6
      <3>2. gesture.kind = "drag" /\ gesture.moved
        BY <2>1, <2>2, <2>6, <3>1 DEF FitHeld
      <3> QED
        BY <1>1, <3>1, <3>2
    <2>7. own' = "view" => ~fit'.auto /\ (fit'.changed \/ ~fit'.before)
      BY <2>1, <2>3, <2>4 DEF FitHeld
    <2>8. (fit'.auto => fit'.fits) /\ (fit'.before /\ ~fit'.changed => fit'.fits \/ fit'.pending)
      BY <2>1, <2>4 DEF FitHeld
    <2> QED
      BY <1>2, <1>3, <2>5, <2>6, <2>7, <2>8 DEF FitHeld
  <1>4. CASE active' = {} /\ active = {}
    <2>1. gesture = NoGesture
      BY <1>4, IdleIs
    <2>2. own' = own
      BY <2>1, NoGestureIs
    <2>3. ~f.before
      BY <1>4 DEF FitHeld
    <2> QED
      BY <1>2, <1>4, <2>2, <2>3 DEF FitHeld
  <1>5. CASE active' = {} /\ active # {}
    <2>1. active = {p}
      BY <1>5
    <2>2. own' = "nothing" => own = "nothing"
      OBVIOUS
    <2>3. own' = "view" => own = "view"
      OBVIOUS
    <2>4. ASSUME own' = "nothing"
          PROVE  fit'.auto
      <3>1. fit.before /\ ~fit.changed /\ (fit.moved => gesture.kind = "drag" /\ gesture.moved)
        BY <1>5, <2>2, <2>4 DEF FitHeld
      <3>2. gesture.kind = "drag" => gesture.pointer = {p}
        BY <2>1 DEF GestureHeld
      <3>3. ~f.moved
        BY <2>4, <3>1, <3>2
      <3> QED
        BY <1>2, <1>5, <3>1, <3>3
    <2>5. own' = "view" => ~fit'.auto
      BY <1>2, <1>5, <2>3 DEF FitHeld
    <2>6. fit'.auto => fit'.fits
      BY <1>2, <1>5 DEF FitHeld
    <2> QED
      BY <1>2, <1>5, <2>4, <2>5, <2>6 DEF FitHeld
  <1> QED
    BY <1>3, <1>4, <1>5

(* A pointer goes: a drag that ends is posted, one that is cancelled taken *)
(* back.                                                                   *)
LEMMA LiftsStep ==
  ASSUME ViewerInv, NEW p \in Pointers, LiftPointer(p) \/ CancelPointer(p)
  PROVE  ViewerInv'
PROOF
  <1> USE DEF ViewerInv
  <1> DEFINE ends == gesture.kind = "drag" /\ gesture.pointer = {p} /\ gesture.moved
  <1>0. fit \in FitStates /\ gesture \in Gestures
    BY DEF ViewerTypeOK
  <1>1. /\ frame = "live" /\ active' = active \ {p} /\ gesture' = Remaining(p)
        /\ UNCHANGED <<home, observing, selected, picking, frame>>
    BY DEF LiftPointer, CancelPointer, editing
  <1>2. /\ gesture' \in Gestures
        /\ gesture'.kind = "none" => gesture' = NoGesture
        /\ gesture'.kind = "drag" => gesture' = gesture /\ gesture.pointer \subseteq active' /\ gesture.pointer # {p}
        /\ gesture'.kind = "pan" => \E q \in active' : gesture'.pointer = {q}
        /\ gesture'.kind = "pinch" => active' # {} /\ gesture'.pointer = {}
        /\ gesture'.kind # "drag" => gesture'.node = {}
        /\ gesture.kind = "drag" => gesture' = IF gesture.pointer = {p} THEN NoGesture ELSE gesture
    BY <1>1, RemainingIs
  <1>3. active' \subseteq Pointers /\ IsFiniteSet(active')
    BY <1>1, FollowFinite
  <1>4. Untouched'
    BY <1>1, <1>2 DEF Untouched
  \* The picture, however the drag has ended.
  <1>5. ASSUME ends => shown' = sent', ~ends => UNCHANGED <<shown, sent>>
        PROVE  GestureHeld' /\ PictureHeld'
    <2>1. CASE ends
      <3>1. gesture' = NoGesture
        BY <1>2, <2>1
      <3> QED
        BY <1>5, <2>1, <3>1, NoGestureIs DEF GestureHeld, PictureHeld
    <2>2. CASE ~ends
      <3>1. UNCHANGED <<shown, sent>>
        BY <1>5, <2>2
      <3>2. ASSUME NEW n \in Nodes, shown[n] # sent[n]
            PROVE  gesture' = gesture /\ gesture.kind = "drag" /\ gesture.moved /\ n \in gesture.node
        BY <1>2, <2>2, <3>2 DEF PictureHeld
      <3>3. PictureHeld'
        BY <3>1, <3>2 DEF PictureHeld
      <3>4. gesture'.kind = "drag" =>
              \E q \in active', n \in Nodes :
                gesture'.pointer = {q} /\ gesture'.node = {n} /\ gesture'.from = sent'[n]
        BY <1>2, <3>1 DEF GestureHeld
      <3> QED
        BY <1>2, <3>3, <3>4 DEF GestureHeld
    <2> QED
      BY <2>1, <2>2
  <1>6. CASE LiftPointer(p)
    <2>1. /\ sent' = IF ends THEN shown ELSE sent
          /\ own' = IF ends /\ own = "nothing" THEN "other" ELSE own
          /\ fit' = Released(fit, active', gesture') /\ shown' = shown
      BY <1>6 DEF LiftPointer
    <2>2. fit' \in FitStates /\ FitHeld'
      BY <1>0, <1>1, <2>1, GoneStep
    <2>3. GestureHeld' /\ PictureHeld'
      BY <1>5, <2>1
    <2>4. ViewerTypeOK'
      BY <1>1, <1>2, <1>3, <2>1, <2>2 DEF ViewerTypeOK
    <2> QED
      BY <1>4, <2>2, <2>3, <2>4
  <1>7. CASE CancelPointer(p)
    <2>1. /\ shown' = IF ends THEN RolledBack ELSE shown
          /\ fit' = Released([fit EXCEPT !.moved = @ /\ ~ends], active', gesture')
          /\ UNCHANGED <<sent, own>>
      BY <1>7 DEF CancelPointer
    <2> DEFINE m == fit.moved /\ ~ends
    <2>0. m \in BOOLEAN /\ fit' = Released([fit EXCEPT !.moved = m], active', gesture')
      BY <2>1
    <2> HIDE DEF m
    <2>2. PICK f \in FitStates : /\ f = [fit EXCEPT !.moved = m]
                            /\ f.auto = fit.auto /\ f.before = fit.before /\ f.changed = fit.changed
                            /\ f.pending = fit.pending /\ f.fits = fit.fits
                            /\ f.moved = m
      BY <1>0, <2>0 DEF FitStates
    <2>3. fit.moved \in BOOLEAN
      BY <1>0 DEF FitStates
    <2>4. (ends => ~f.moved) /\ (~ends => f.moved = fit.moved)
      BY <2>2, <2>3 DEF m
    <2>5. fit' = Released(f, active', gesture')
      BY <2>0, <2>2
    <2>6. fit' \in FitStates /\ FitHeld'
      BY <1>1, <2>1, <2>2, <2>4, <2>5, GoneStep
    <2>7. ends => shown' = sent'
      BY <2>1, RollbackIs
    <2>8. GestureHeld' /\ PictureHeld'
      BY <1>5, <2>1, <2>7
    <2>9. ViewerTypeOK'
      BY <1>1, <1>2, <1>3, <2>1, <2>6, <2>7 DEF ViewerTypeOK
    <2> QED
      BY <1>4, <2>6, <2>8, <2>9
  <1> QED
    BY <1>6, <1>7

(* Buttons and keys, while no pointer is down where they change the        *)
(* document.                                                               *)
LEMMA ButtonsStep ==
  ASSUME ViewerInv, ~MidGesture,
         \/ ResetLayout \/ EditDocument \/ BeginPicking \/ Escape \/ ToggleObservation
         \/ PressFit \/ Zoom \/ LayoutChanges \/ RenderHistory \/ HistoryFails
  PROVE  ViewerInv'
PROOF
  <1> USE DEF ViewerInv
  <1>0. fit \in FitStates /\ gesture \in Gestures
    BY DEF ViewerTypeOK
  <1>1. CASE ResetLayout
    <2>1. active = {} /\ shown' = home /\ sent' = home
          /\ UNCHANGED <<active, gesture, home, fit, own, observing, selected, picking, frame>>
      BY <1>1 DEF ResetLayout, Editable, editing
    <2>2. gesture = NoGesture
      BY <2>1, IdleIs
    <2>3. ViewerTypeOK' /\ FitHeld'
      BY <2>1 DEF ViewerTypeOK, FitHeld
    <2>4. GestureHeld' /\ PictureHeld' /\ Untouched'
      BY <2>1, <2>2, NoGestureIs DEF GestureHeld, PictureHeld, Untouched
    <2> QED
      BY <2>3, <2>4
  <1>2. CASE EditDocument
    <2>1. active = {} /\ sent' = shown /\ home' = shown /\ frame' = "rebuild" /\ shown' = shown
          /\ UNCHANGED <<active, gesture, fit, own, observing, picking>>
      BY <1>2 DEF EditDocument, Editable, Rebuild
    <2>2. gesture = NoGesture
      BY <2>1, IdleIs
    <2>3. ViewerTypeOK' /\ FitHeld'
      BY <2>1 DEF ViewerTypeOK, FitHeld
    <2>4. GestureHeld' /\ PictureHeld' /\ Untouched'
      BY <2>1, <2>2, NoGestureIs DEF GestureHeld, PictureHeld, Untouched
    <2> QED
      BY <2>3, <2>4
  <1>3. CASE BeginPicking
    <2>1. ~observing
          /\ UNCHANGED <<active, gesture, shown, home, sent, fit, own, observing, selected, frame>>
      BY <1>3 DEF BeginPicking, positions
    <2>2. ViewerTypeOK' /\ FitHeld' /\ GestureHeld' /\ PictureHeld' /\ Untouched'
      BY <2>1 DEF ViewerTypeOK, FitHeld, GestureHeld, PictureHeld, Untouched
    <2> QED
      BY <2>2
  <1>4. CASE Escape
    <2>1. picking' = "none"
          /\ UNCHANGED <<active, gesture, shown, home, sent, fit, own, observing, frame>>
      BY <1>4 DEF Escape, positions
    <2>2. ViewerTypeOK' /\ FitHeld' /\ GestureHeld' /\ PictureHeld' /\ Untouched'
      BY <2>1 DEF ViewerTypeOK, FitHeld, GestureHeld, PictureHeld, Untouched
    <2> QED
      BY <2>2
  <1>5. CASE ToggleObservation
    <2>1. /\ observing' = ~observing /\ shown' = sent /\ active' = {} /\ gesture' = NoGesture
          /\ picking' = "none"
          /\ own' = IF active # {} /\ own = "nothing" THEN "other" ELSE own
          /\ UNCHANGED <<home, sent, frame>>
      BY <1>5, RollbackIs DEF ToggleObservation
    <2>2. fit' = [fit EXCEPT !.before = FALSE, !.changed = FALSE, !.moved = FALSE, !.pending = FALSE]
      BY <1>5 DEF ToggleObservation
    <2>3. fit' \in FitStates /\ fit'.auto = fit.auto /\ fit'.fits = fit.fits /\ fit'.before = FALSE
      BY <1>0, <2>2 DEF FitStates
    <2>4. ViewerTypeOK'
      BY <2>1, <2>3, FS_EmptySet, NoGestureIs DEF ViewerTypeOK
    <2>5. FitHeld'
      BY <2>1, <2>3 DEF FitHeld
    <2>6. GestureHeld' /\ PictureHeld' /\ Untouched'
      BY <2>1, NoGestureIs DEF GestureHeld, PictureHeld, Untouched
    <2> QED
      BY <2>4, <2>5, <2>6
  <1>6. CASE PressFit
    <2>1. /\ fit' = [fit EXCEPT !.auto = TRUE, !.fits = TRUE]
          /\ own' = IF active = {} THEN "nothing" ELSE "other"
          /\ UNCHANGED <<active, gesture, shown, home, sent, observing, selected, picking, frame>>
      BY <1>6 DEF PressFit, positions, editing
    <2>2. fit' \in FitStates /\ fit'.auto = TRUE /\ fit'.fits = TRUE /\ fit'.before = fit.before
      BY <1>0, <2>1 DEF FitStates
    <2>3. ViewerTypeOK'
      BY <2>1, <2>2 DEF ViewerTypeOK
    <2>4. FitHeld'
      BY <2>1, <2>2 DEF FitHeld
    <2>5. GestureHeld' /\ PictureHeld' /\ Untouched'
      BY <2>1 DEF GestureHeld, PictureHeld, Untouched
    <2> QED
      BY <2>3, <2>4, <2>5
  <1>7. CASE Zoom
    <2>1. /\ fit' = Chosen(fit) /\ own' = "view"
          /\ UNCHANGED <<active, gesture, shown, home, sent, observing, selected, picking, frame>>
      BY <1>7 DEF Zoom, positions, editing
    <2>2. /\ fit' \in FitStates /\ ~fit'.auto /\ fit'.before = fit.before /\ (fit'.changed <=> active # {})
      BY <1>0, <2>1, ChosenIs
    <2>3. ViewerTypeOK'
      BY <2>1, <2>2 DEF ViewerTypeOK
    <2>4. FitHeld'
      BY <2>1, <2>2 DEF FitHeld
    <2>5. GestureHeld' /\ PictureHeld' /\ Untouched'
      BY <2>1 DEF GestureHeld, PictureHeld, Untouched
    <2> QED
      BY <2>3, <2>4, <2>5
  <1>8. CASE LayoutChanges
    <2>1. /\ fit' = [fit EXCEPT !.fits = fit.auto,
                                !.pending = @ \/ (~fit.auto /\ active # {} /\ fit.before)]
          /\ UNCHANGED <<active, gesture, shown, home, sent, own, observing, selected, picking, frame>>
      BY <1>8 DEF LayoutChanges, positions, editing
    <2>2. /\ fit' \in FitStates /\ fit'.auto = fit.auto /\ fit'.fits = fit.auto /\ fit'.before = fit.before
          /\ fit'.changed = fit.changed /\ fit'.moved = fit.moved
          /\ fit'.pending = (fit.pending \/ (~fit.auto /\ active # {} /\ fit.before))
      BY <1>0, <2>1 DEF FitStates
    <2>3. ViewerTypeOK'
      BY <2>1, <2>2 DEF ViewerTypeOK
    <2>4. FitHeld'
      BY <2>1, <2>2 DEF FitHeld
    <2>5. GestureHeld' /\ PictureHeld' /\ Untouched'
      BY <2>1 DEF GestureHeld, PictureHeld, Untouched
    <2> QED
      BY <2>3, <2>4, <2>5
  <1>9. CASE RenderHistory \/ HistoryFails
    <2>1. /\ frame' \in {"live", "history"} /\ (frame' # "live" => active = {})
          /\ UNCHANGED <<active, gesture, shown, home, sent, fit, own, observing, selected, picking>>
      BY <1>9 DEF RenderHistory, HistoryFails, positions
    <2>2. ViewerTypeOK' /\ FitHeld' /\ GestureHeld' /\ PictureHeld' /\ Untouched'
      BY <2>1 DEF ViewerTypeOK, FitHeld, GestureHeld, PictureHeld, Untouched
    <2> QED
      BY <2>2
  <1> QED
    BY <1>1, <1>2, <1>3, <1>4, <1>5, <1>6, <1>7, <1>8, <1>9

(* A frame with a new picture takes the place of the old one.              *)
LEMMA ReplaceStep ==
  ASSUME ViewerInv, ReplaceFrame
  PROVE  ViewerInv'
PROOF
  <1> USE DEF ViewerInv
  <1>1. /\ active = {} /\ active' = {} /\ gesture' = NoGesture /\ observing' = FALSE
        /\ picking' = "none" /\ frame' = "live"
        /\ home' \in [Nodes -> Spots] /\ shown' \in [Nodes -> Spots] /\ sent' = shown'
    BY DEF ReplaceFrame, Untouched, ViewerTypeOK
  <1>2. /\ Fitted \in FitStates /\ Fitted.auto = TRUE /\ Fitted.fits = TRUE /\ Fitted.before = FALSE
        /\ [Fitted EXCEPT !.auto = FALSE, !.fits = FALSE] \in FitStates
        /\ [Fitted EXCEPT !.auto = FALSE, !.fits = FALSE].auto = FALSE
        /\ [Fitted EXCEPT !.auto = FALSE, !.fits = FALSE].before = FALSE
    <2>0. Fitted \in FitStates /\ Fitted.auto = TRUE /\ Fitted.fits = TRUE /\ Fitted.before = FALSE
      BY DEF Fitted, FitStates
    <2>1. PICK f \in FitStates : f = Fitted /\ f.auto = TRUE /\ f.fits = TRUE /\ f.before = FALSE
      BY <2>0
    <2> DEFINE g == [f EXCEPT !.auto = FALSE, !.fits = FALSE]
    <2>2. g \in FitStates /\ g.auto = FALSE /\ g.before = FALSE
      BY <2>1 DEF FitStates
    <2> QED
      BY <2>1, <2>2
  <1>3. \/ /\ ~fit.auto /\ own' = own
           /\ fit' \in FitStates /\ fit'.auto = FALSE /\ fit'.before = FALSE
        \/ /\ own' = "nothing"
           /\ fit' \in FitStates /\ fit'.auto = TRUE /\ fit'.fits = TRUE /\ fit'.before = FALSE
    BY <1>2 DEF ReplaceFrame
  <1>4. ViewerTypeOK'
    BY <1>1, <1>3, FS_EmptySet, NoGestureIs DEF ViewerTypeOK
  <1>5. FitHeld'
    BY <1>1, <1>3 DEF FitHeld
  <1>6. GestureHeld' /\ PictureHeld' /\ Untouched'
    BY <1>1, NoGestureIs DEF GestureHeld, PictureHeld, Untouched
  <1> QED
    BY <1>4, <1>5, <1>6

(* Every step preserves the invariant.                                     *)
LEMMA ViewerStep ==
  ASSUME ~MidGesture, ViewerInv, [ViewerNext]_viewerVars
  PROVE  ViewerInv'
PROOF
  <1>1. CASE UNCHANGED viewerVars
    BY <1>1 DEF viewerVars, ViewerInv, ViewerTypeOK, GestureHeld, PictureHeld, Untouched, FitHeld
  <1>2. CASE ViewerNext
    BY <1>2, PressesStep, LiftsStep, MovesStep, ButtonsStep, ReplaceStep DEF ViewerNext
  <1> QED
    BY <1>1, <1>2

(* The invariant holds always, for any number of pointers, nodes and       *)
(* spots, if documents are not edited from the keyboard while a pointer is *)
(* down.                                                                   *)
THEOREM ViewerInvariance ==
  ASSUME ~MidGesture
  PROVE  ViewerSpec => []ViewerInv
PROOF
  BY InitialViewer, ViewerStep, PTL DEF ViewerSpec

(* Under the same assumption: whenever nobody touches the frame, its       *)
(* picture is the document posted last, and the view is fitted or as the   *)
(* user left it (app.js of the native viewer: startPinchIfPossible,        *)
(* setObservationMode and releasePointerAutoFitIfIdle).                    *)
THEOREM FramesSettle ==
  ASSUME ~MidGesture
  PROVE  ViewerSpec => []ViewerSettled
PROOF
  <1>1. ASSUME ViewerInv
        PROVE  ViewerSettled
    <2>1. PictureSent
      BY <1>1 DEF ViewerInv, PictureHeld, GestureHeld, Untouched, PictureSent
    <2>2. active = {} => gesture = NoGesture
      BY <1>1, IdleIs
    <2>3. ViewKept
      BY <1>1, <2>2 DEF ViewerInv, FitHeld, ViewKept
    <2> QED
      BY <2>1, <2>3 DEF ViewerSettled
  <1> QED
    BY <1>1, ViewerInvariance, PTL

-----------------------------------------------------------------------------
(* What is known of the bundle cache between any two steps.                *)

Records == [digest : Digests \cup {NoDigest}, used : Nat, max : Nat, creator : Clients,
            lease : [Clients -> Nat], count : [Clients -> Nat]]
Windows == [max : Nat, keys : SUBSET Clients, released : BOOLEAN]
BuildSteps == {"admit", "reserve", "mkdir", "render", "register", "trim", "finish"}
Steps == {"idle", "lookup", "wait", "answer", "settle", "prune", "sweep"} \cup BuildSteps
Slots == {0} \cup Ids
Requests == [step : Steps, digest : Digests \cup {NoDigest}, by : Nat, sent : Slots, old : Slots,
             rec : Slots, created : BOOLEAN, fresh : BOOLEAN, max : Nat, victims : SUBSET Ids]

CacheTypeOK ==
  /\ clock \in Nat /\ built \in Nat /\ posts \in Nat
  /\ rec \in [Ids -> Records]
  /\ byDigest \in [Digests -> Slots]
  /\ windows \in [Digests -> Windows]
  /\ req \in [Tabs -> Requests]
  /\ token \in [Tabs -> Slots] /\ seen \in [Tabs -> Int]
  /\ \A t \in Tabs : At(t, "idle") \/ req[t].digest \in Digests

(* A POST builds once: what is built and what still may be are no more     *)
(* than the POSTs.                                                         *)
Unbuilt == {t \in Tabs : req[t].step \in {"lookup", "wait", "admit", "reserve", "mkdir"}}
BuildsCounted == IsFiniteSet(Unbuilt) /\ built + Cardinality(Unbuilt) <= posts /\ posts <= MaxPosts

OneBuilder ==
  /\ builder = {t \in Tabs : req[t].step \in BuildSteps}
  /\ \A s, t \in builder : s = t

(* What is on disk but not in the cache is nobody else's.                  *)
Building(t) == req[t].step \in {"render", "register"}
DirectoriesHeld ==
  /\ IndexesAgree
  /\ dirs \subseteq 1..built
  /\ \A t \in Tabs :
       /\ req[t].rec <= built /\ token[t] <= built
       /\ req[t].victims \subseteq 1..built /\ req[t].victims \cap byToken = {}
       /\ Building(t) =>
            /\ req[t].rec \in dirs \ byToken
            /\ \A s \in Tabs : /\ req[t].rec \notin req[s].victims
                               /\ req[t].rec # token[s]
                               /\ s # t => req[t].rec # req[s].rec

(* What was found before the build is still so.                            *)
AdmissionHeld ==
  \A t \in Tabs : req[t].step \in {"reserve", "mkdir", "render", "register"} =>
    /\ ~Alive(byDigest[req[t].digest])
    /\ req[t].fresh => windows[req[t].digest].max = 0 /\ Cardinality(LiveWindows) < MaxWindows
    /\ ~req[t].fresh /\ clock < req[t].max => windows[req[t].digest].max = req[t].max

RoomHeld ==
  /\ CacheWithinLimits
  /\ \A t \in Tabs : req[t].step \in {"mkdir", "render", "register"} =>
       Cardinality(Cached) <= MaxEntries /\ Bytes(Cached) <= MaxBytes

CacheInv == CacheTypeOK /\ BuildsCounted /\ OneBuilder /\ DirectoriesHeld /\ AdmissionHeld /\ RoomHeld

LeasesBounded == \A i \in Ids, c \in Clients : rec[i].lease[c] <= rec[i].max

(* A record is held for a tab until then, by this many consumers.          *)
Until(i, asked) == Fewer(asked + Grace, rec[i].max)
HeldFor(i, c, asked, n) ==
  clock < Until(i, asked) =>
    i \in byToken /\ rec[i].lease[c] >= Until(i, asked) /\ rec[i].count[c] >= n

Settling == {"trim", "finish", "answer"}
Consumers(t) == IF At(t, "answer") /\ req[t].rec = token[t] THEN 2 ELSE 1
Answer(t) ==
  /\ req[t].step # "idle" => Timeout <= req[t].by /\ req[t].by <= clock + Timeout
  /\ req[t].step \in Settling => req[t].rec # 0 /\ rec[req[t].rec].digest = req[t].digest
  /\ req[t].step \in {"trim", "finish"} => token[t] # req[t].rec
  /\ At(t, "settle") /\ token[t] # 0 => token[t] = req[t].rec /\ rec[token[t]].digest = req[t].digest
  /\ Sole(t) /\ req[t].step \in Settling => HeldFor(req[t].rec, ClientOf[t], req[t].by - Timeout, 1)
  /\ Sole(t) /\ token[t] # 0 => HeldFor(token[t], ClientOf[t], seen[t], Consumers(t))
AnswersHeld == \A t \in Tabs : Answer(t)

LeaseInv == CacheInv /\ LeasesBounded /\ AnswersHeld

-----------------------------------------------------------------------------
(* The cache is coherent.                                                  *)

(* The sooner of two times.                                                *)
LEMMA LeastClock ==
  ASSUME NEW a \in Nat, NEW b \in Nat
  PROVE  Fewer(a, b) \in Nat /\ Fewer(a, b) <= a /\ Fewer(a, b) <= b /\ Fewer(a, b) \in {a, b}
  BY DEF Fewer

(* The fields of a record that is pinned.                                  *)
LEMMA PinnedRecord ==
  ASSUME CacheAssumption, CacheTypeOK, NEW i \in Ids, NEW c \in Clients, NEW n \in {0, 1}, PinRecord(i, c, n)
  PROVE  /\ rec' \in [Ids -> Records]
         /\ \A j \in Ids \ {i} : rec'[j] = rec[j]
         /\ rec'[i].digest = rec[i].digest /\ rec'[i].max = rec[i].max /\ rec'[i].creator = rec[i].creator
         /\ \A e \in Clients \ {c} : rec'[i].lease[e] = rec[i].lease[e] /\ rec'[i].count[e] = rec[i].count[e]
         /\ rec'[i].lease[c] = Fewer(IF rec[i].lease[c] > clock + Grace THEN rec[i].lease[c] ELSE clock + Grace,
                                     rec[i].max)
         /\ rec'[i].count[c] = rec[i].count[c] + n
<1> DEFINE k == Fewer(IF rec[i].lease[c] > clock + Grace THEN rec[i].lease[c] ELSE clock + Grace, rec[i].max)
           m == rec[i].count[c] + n
           lease == [rec[i].lease EXCEPT ![c] = k]
           count == [rec[i].count EXCEPT ![c] = m]
           r == [rec[i] EXCEPT !.used = clock, !.count = count, !.lease = lease]
<1>1. rec[i] \in Records /\ rec \in [Ids -> Records] /\ clock \in Nat /\ Grace \in Nat
  BY DEF CacheTypeOK, CacheAssumption
<1>2. rec[i].lease \in [Clients -> Nat] /\ rec[i].count \in [Clients -> Nat] /\ rec[i].max \in Nat
  BY <1>1 DEF Records
<1>3. k \in Nat /\ m \in Nat
  <2> DEFINE x == IF rec[i].lease[c] > clock + Grace THEN rec[i].lease[c] ELSE clock + Grace
  <2>1. x \in Nat
    BY <1>1, <1>2
  <2>2. k = Fewer(x, rec[i].max)
    OBVIOUS
  <2> HIDE DEF x, k
  <2>3. m \in Nat
    BY <1>2
  <2> QED BY <1>2, <2>1, <2>2, <2>3, LeastClock
<1>4. rec' = [rec EXCEPT ![i] = r]
  BY <1>1 DEF PinRecord
<1> HIDE DEF k, m
<1>5. lease \in [Clients -> Nat] /\ count \in [Clients -> Nat]
  BY <1>2, <1>3
<1>6. lease[c] = k /\ count[c] = m /\ \A e \in Clients \ {c} : lease[e] = rec[i].lease[e] /\ count[e] = rec[i].count[e]
  BY <1>2
<1> HIDE DEF lease, count
<1>7. r \in Records /\ r.digest = rec[i].digest /\ r.max = rec[i].max /\ r.creator = rec[i].creator
      /\ r.lease = lease /\ r.count = count
  BY <1>1, <1>5 DEF Records
<1> HIDE DEF r
<1>8. rec' \in [Ids -> Records] /\ rec'[i] = r /\ \A j \in Ids \ {i} : rec'[j] = rec[j]
  BY <1>1, <1>4, <1>7
<1> QED BY <1>6, <1>7, <1>8 DEF k, m

(* The fields of a record a consumer has left.                             *)
LEMMA UnpinnedRecord ==
  ASSUME CacheTypeOK, NEW i \in Ids, NEW c \in Clients
  PROVE  LET r == Unpinned(rec[i], c) IN
         /\ r \in Records
         /\ r.digest = rec[i].digest /\ r.max = rec[i].max /\ r.creator = rec[i].creator
         /\ \A e \in Clients \ {c} : r.lease[e] = rec[i].lease[e] /\ r.count[e] = rec[i].count[e]
         /\ r.lease[c] = IF rec[i].count[c] <= 1 THEN 0 ELSE rec[i].lease[c]
         /\ r.count[c] = IF rec[i].count[c] <= 1 THEN 0 ELSE rec[i].count[c] - 1
<1> DEFINE k == IF rec[i].count[c] <= 1 THEN 0 ELSE rec[i].lease[c]
           m == IF rec[i].count[c] <= 1 THEN 0 ELSE rec[i].count[c] - 1
           lease == [rec[i].lease EXCEPT ![c] = k]
           count == [rec[i].count EXCEPT ![c] = m]
           r == [rec[i] EXCEPT !.used = clock, !.count = count, !.lease = lease]
<1>1. rec[i] \in Records /\ clock \in Nat
  BY DEF CacheTypeOK
<1>2. rec[i].lease \in [Clients -> Nat] /\ rec[i].count \in [Clients -> Nat] /\ rec[i].max \in Nat
  BY <1>1 DEF Records
<1>3. k \in Nat /\ m \in Nat
  BY <1>2
<1>4. Unpinned(rec[i], c) = r
  BY DEF Unpinned
<1> HIDE DEF k, m
<1>5. lease \in [Clients -> Nat] /\ count \in [Clients -> Nat]
  BY <1>2, <1>3
<1>6. lease[c] = k /\ count[c] = m /\ \A e \in Clients \ {c} : lease[e] = rec[i].lease[e] /\ count[e] = rec[i].count[e]
  BY <1>2
<1> HIDE DEF lease, count
<1>7. r \in Records /\ r.digest = rec[i].digest /\ r.max = rec[i].max /\ r.creator = rec[i].creator
      /\ r.lease = lease /\ r.count = count
  BY <1>1, <1>5 DEF Records
<1> HIDE DEF r
<1> QED BY <1>4, <1>6, <1>7 DEF k, m

(* The fields of a record when time passes.                                *)
LEMMA ExpiredRecord ==
  ASSUME CacheTypeOK, NEW i \in Ids
  PROVE  LET r == Expired(rec[i]) IN
         /\ r \in Records
         /\ r.digest = rec[i].digest /\ r.max = rec[i].max /\ r.creator = rec[i].creator
         /\ \A c \in Clients : /\ r.lease[c] = IF rec[i].lease[c] <= clock' THEN 0 ELSE rec[i].lease[c]
                               /\ r.count[c] = IF rec[i].lease[c] <= clock' THEN 0 ELSE rec[i].count[c]
<1> DEFINE lease == [c \in Clients |-> IF rec[i].lease[c] <= clock' THEN 0 ELSE rec[i].lease[c]]
           count == [c \in Clients |-> IF rec[i].lease[c] <= clock' THEN 0 ELSE rec[i].count[c]]
           r == [rec[i] EXCEPT !.count = count, !.lease = lease]
<1>1. rec[i] \in Records
  BY DEF CacheTypeOK
<1>2. rec[i].lease \in [Clients -> Nat] /\ rec[i].count \in [Clients -> Nat]
  BY <1>1 DEF Records
<1>4. Expired(rec[i]) = r
  BY <1>1 DEF Expired, Records
<1>5. lease \in [Clients -> Nat] /\ count \in [Clients -> Nat]
  BY <1>2
<1>6. \A c \in Clients : /\ lease[c] = IF rec[i].lease[c] <= clock' THEN 0 ELSE rec[i].lease[c]
                         /\ count[c] = IF rec[i].lease[c] <= clock' THEN 0 ELSE rec[i].count[c]
  OBVIOUS
<1> HIDE DEF lease, count
<1>7. r \in Records /\ r.digest = rec[i].digest /\ r.max = rec[i].max /\ r.creator = rec[i].creator
      /\ r.lease = lease /\ r.count = count
  BY <1>1, <1>5 DEF Records
<1> HIDE DEF r
<1> QED BY <1>4, <1>6, <1>7

(* The bytes of a part of the cache are no more.                           *)
LEMMA SumFewer ==
  ASSUME NEW v, NEW w, NEW S, IsFiniteSet(S), \A i \in S : w[i] \in Nat,
         NEW R, R \subseteq S, \A i \in R : v[i] = w[i]
  PROVE  /\ SumFunctionOnSet(v, R) \in Nat /\ SumFunctionOnSet(w, S) \in Nat
         /\ SumFunctionOnSet(v, R) <= SumFunctionOnSet(w, S)
<1>1. IsFiniteSet(R)
  BY FS_Subset
<1>2. SumFunctionOnSet(v, R) = SumFunctionOnSet(w, R)
  BY <1>1, SumSame
<1>3. SumFunctionOnSet(w, R) \in Nat /\ SumFunctionOnSet(w, S) \in Nat
  BY <1>1, SumNat
<1>4. SumFunctionOnSet(w, R) <= SumFunctionOnSet(w, S)
  BY SumPart
<1> QED BY <1>2, <1>3, <1>4

(* One more record adds its own bytes.                                     *)
LEMMA SumOneMore ==
  ASSUME NEW v, NEW w, NEW S, IsFiniteSet(S), \A i \in S : w[i] \in Nat,
         NEW R, NEW x, R \subseteq S \cup {x}, \A i \in R \ {x} : v[i] = w[i], v[x] \in Nat
  PROVE  /\ SumFunctionOnSet(v, R) \in Nat /\ SumFunctionOnSet(w, S) \in Nat
         /\ SumFunctionOnSet(v, R) <= SumFunctionOnSet(w, S) + v[x]
<1> DEFINE Q == R \ {x}
<1>1. Q \subseteq S /\ IsFiniteSet(Q) /\ IsFiniteSet(R)
  <2>1. IsFiniteSet(S \cup {x})
    BY FS_AddElement
  <2>2. IsFiniteSet(R)
    BY <2>1, FS_Subset
  <2> QED BY <2>2, FS_RemoveElement
<1>2. /\ SumFunctionOnSet(v, Q) \in Nat /\ SumFunctionOnSet(w, S) \in Nat
      /\ SumFunctionOnSet(v, Q) <= SumFunctionOnSet(w, S)
  <2>1. \A i \in Q : v[i] = w[i]
    OBVIOUS
  <2> HIDE DEF Q
  <2> QED BY <1>1, <2>1, SumFewer
<1>3. \A i \in R : v[i] \in Nat
  OBVIOUS
<1>4. CASE x \in R
  <2>1. SumFunctionOnSet(v, R) = v[x] + SumFunctionOnSet(v, Q)
    BY <1>1, <1>3, <1>4, SumRemove
  <2> HIDE DEF Q
  <2> QED BY <2>1, <1>2
<1>5. CASE x \notin R
  <2>1. Q = R
    BY <1>5
  <2> HIDE DEF Q
  <2> QED BY <2>1, <1>2
<1> QED BY <1>4, <1>5

(* The bytes of records are the sum of their documents' sizes.             *)
LEMMA BytesIs == \A S : Bytes(S) = SumFunctionOnSet([i \in S |-> SizeOf[rec[i].digest]], S)
  BY DEF Bytes, Size, SumFunction

(* The records cached are finitely many, with at most one for each digest. *)
LEMMA CachedIs ==
  ASSUME CacheAssumption, CacheTypeOK, IndexesAgree
  PROVE  /\ byToken = Cached /\ Cached \subseteq Ids /\ IsFiniteSet(Cached) /\ IsFiniteSet(Ids)
         /\ \A i \in Cached : /\ rec[i].digest \in Digests /\ byDigest[rec[i].digest] = i
                              /\ SizeOf[rec[i].digest] \in Nat /\ SizeOf[rec[i].digest] <= BundleMax
<1>1. byToken = Cached /\ Cached \subseteq Ids
  BY DEF CacheTypeOK, IndexesAgree, Cached, Slots
<1>2. IsFiniteSet(Ids)
  <2>1. MaxPosts \in Int /\ 1 \in Int
    BY DEF CacheAssumption
  <2> QED BY <2>1, FS_Interval DEF Ids
<1>3. IsFiniteSet(Cached)
  BY <1>1, <1>2, FS_Subset
<1>4. \A i \in Cached : rec[i].digest \in Digests /\ byDigest[rec[i].digest] = i
  BY DEF Cached, IndexesAgree
<1>5. \A d \in Digests : SizeOf[d] \in Nat /\ SizeOf[d] <= BundleMax
  BY DEF CacheAssumption
<1> QED BY <1>1, <1>2, <1>3, <1>4, <1>5

(* What a step that registers nothing leaves of the cache. *)
DigestsKept == \A i \in Ids : rec'[i].digest = rec[i].digest /\ rec'[i].max = rec[i].max
(* A pin window stays or runs out.                                         *)
WindowsKept ==
  \A d \in Digests : \/ windows'[d].max = windows[d].max
                     \/ windows'[d].max = 0 /\ windows[d].max <= clock'
(* Nothing is cached that was not.                                         *)
CacheShrinks ==
  /\ DigestsKept
  /\ \A d \in Digests : byDigest'[d] \in {byDigest[d], 0}
  /\ byToken' = {byDigest'[d] : d \in Digests} \ {0}

(* The indexes still agree when records are forgotten.                     *)
LEMMA ShrunkIndexes ==
  ASSUME CacheAssumption, CacheTypeOK, IndexesAgree, CacheShrinks, byToken' \subseteq dirs'
  PROVE  IndexesAgree' /\ Cached' \subseteq Cached /\ byToken' \subseteq byToken
<1>1. Cached' = byToken' /\ byToken = Cached
  BY DEF CacheShrinks, Cached, IndexesAgree
<1>2. Cached' \subseteq Cached
  BY DEF Cached, CacheShrinks
<1>3. \A d \in Digests : byDigest'[d] # 0 => rec'[byDigest'[d]].digest = d
  BY DEF CacheShrinks, DigestsKept, IndexesAgree, CacheTypeOK, Slots
<1> QED BY <1>1, <1>2, <1>3 DEF IndexesAgree

(* The cache still has its room when records are forgotten.                *)
LEMMA ShrunkRoom ==
  ASSUME CacheAssumption, CacheTypeOK, IndexesAgree, CacheShrinks, Cached' \subseteq Cached
  PROVE  /\ Cardinality(Cached)' \in Nat /\ Cardinality(Cached) \in Nat
         /\ Cardinality(Cached)' <= Cardinality(Cached)
         /\ Bytes(Cached)' \in Nat /\ Bytes(Cached) \in Nat
         /\ Bytes(Cached)' <= Bytes(Cached)
<1>1. /\ Cached \subseteq Ids /\ IsFiniteSet(Cached)
      /\ \A i \in Cached : SizeOf[rec[i].digest] \in Nat
  BY CachedIs
<1>2. /\ Cardinality(Cached') <= Cardinality(Cached)
      /\ Cardinality(Cached') \in Nat /\ Cardinality(Cached) \in Nat
  BY <1>1, FS_Subset, FS_CardinalityType
<1> DEFINE v == [i \in Cached' |-> SizeOf[rec'[i].digest]]
           w == [i \in Cached |-> SizeOf[rec[i].digest]]
<1>3. Bytes(Cached) = SumFunctionOnSet(w, Cached)
  BY BytesIs
<1>4. Bytes(Cached)' = SumFunctionOnSet(v, Cached')
  BY DEF Bytes, Size, SumFunction
<1>5. \A i \in Cached : w[i] \in Nat
  BY <1>1
<1>6. \A i \in Cached' : v[i] = w[i]
  BY <1>1 DEF CacheShrinks, DigestsKept
<1> HIDE DEF v, w
<1> QED BY <1>1, <1>2, <1>3, <1>4, <1>5, <1>6, SumFewer

(* The steps of a POST: before its build, from its admission, and with     *)
(* room made for it.                                                       *)
Awaiting == {"lookup", "wait", "admit", "reserve", "mkdir"}
Admitted == {"reserve", "mkdir", "render", "register"}
Roomy == {"mkdir", "render", "register"}

(* The limits on pins. *)
PinsWithin ==
  /\ Cardinality({i \in Cached : Pinned(i)}) <= MaxEntries
  /\ Proxied => \A c \in Clients : Cardinality({i \in Cached : Leased(i, c)}) <= ClientPins + 1

(* What a step does to a POST when it neither admits, reserves nor renders. *)
Counting == \A s \in Tabs : req'[s].step \in Awaiting => req[s].step \in Awaiting
(* The directories a POST holds are still its own.                         *)
Owning ==
  \A s \in Tabs :
    /\ req'[s].rec \in byToken \cup {0, req[s].rec}
    /\ req'[s].victims \subseteq req[s].victims \cup byToken /\ req'[s].victims \cap byToken' = {}
    /\ token'[s] \in {0, token[s], req[s].rec}
    /\ req'[s].step \in {"render", "register"} =>
         Building(s) /\ req'[s].rec = req[s].rec /\ token'[s] = token[s] /\ req[s].rec \in dirs'
(* What was found at the admission goes with the POST.                     *)
Admitting ==
  \A s \in Tabs : req'[s].step \in Admitted =>
    /\ req[s].step \in Admitted
    /\ req'[s].digest = req[s].digest /\ req'[s].fresh = req[s].fresh /\ req'[s].max = req[s].max
(* No other POST has room made for it.                                     *)
Making == \A s \in Tabs : req'[s].step \in Roomy => req[s].step \in Roomy

(* The builds are still counted.                                           *)
LEMMA CountKept ==
  ASSUME BuildsCounted, Counting, built' = built, posts' = posts, built \in Nat, posts \in Nat
  PROVE  BuildsCounted'
<1>1. Unbuilt' \subseteq Unbuilt
  BY DEF Unbuilt, Counting, Awaiting
<1>2. IsFiniteSet(Unbuilt)
  BY DEF BuildsCounted
<1>3. IsFiniteSet(Unbuilt') /\ Cardinality(Unbuilt') <= Cardinality(Unbuilt)
      /\ Cardinality(Unbuilt') \in Nat /\ Cardinality(Unbuilt) \in Nat
  BY <1>1, <1>2, FS_Subset, FS_CardinalityType
<1>4. MaxPosts' = MaxPosts
  OBVIOUS
<1> QED BY <1>3, <1>4 DEF BuildsCounted

(* The directories are still held.                                         *)
LEMMA DirectoriesKept ==
  ASSUME CacheAssumption, CacheTypeOK, DirectoriesHeld, Owning, CacheShrinks,
         byToken' \subseteq dirs', dirs' \subseteq dirs, built' = built
  PROVE  DirectoriesHeld'
<1>1. IndexesAgree' /\ byToken' \subseteq byToken
  BY ShrunkIndexes DEF DirectoriesHeld
<1>2. dirs \subseteq 1..built /\ byToken \subseteq dirs /\ built \in Nat
  BY DEF DirectoriesHeld, IndexesAgree, CacheTypeOK
<1>3. dirs' \subseteq 1..built'
  BY <1>2
<1>4. ASSUME NEW s \in Tabs
      PROVE  /\ req'[s].rec <= built' /\ token'[s] <= built'
             /\ req'[s].victims \subseteq 1..built' /\ req'[s].victims \cap byToken' = {}
  <2>1. /\ req[s].rec <= built /\ token[s] <= built /\ req[s].victims \subseteq 1..built
        /\ \A i \in byToken : i \in 1..built
    BY <1>2 DEF DirectoriesHeld
  <2>0. req[s].rec \in Nat /\ token[s] \in Nat
    BY DEF CacheTypeOK, Requests, Slots, Ids
  <2>2. req'[s].rec <= built /\ token'[s] <= built
    <3>1. req'[s].rec \in byToken \cup {0, req[s].rec} /\ token'[s] \in {0, token[s], req[s].rec}
      BY DEF Owning
    <3>2. \A i \in byToken : i \in Nat /\ i <= built
      BY <2>1, <1>2
    <3>3. req'[s].rec <= built
      <4>1. CASE req'[s].rec \in byToken
        BY <4>1, <3>2
      <4>2. CASE req'[s].rec = 0
        BY <4>2, <1>2
      <4>3. CASE req'[s].rec = req[s].rec
        BY <4>3, <2>1
      <4> QED BY <3>1, <4>1, <4>2, <4>3
    <3>4. token'[s] <= built
      BY <3>1, <3>2, <2>0, <2>1, <1>2
    <3> QED BY <3>3, <3>4
  <2>3. req'[s].victims \subseteq 1..built /\ req'[s].victims \cap byToken' = {}
    BY <2>1 DEF Owning
  <2> QED BY <2>2, <2>3
<1>5. ASSUME NEW s \in Tabs, req'[s].step \in {"render", "register"}, NEW u \in Tabs
      PROVE  /\ req'[s].rec \in dirs' \ byToken'
             /\ req'[s].rec \notin req'[u].victims /\ req'[s].rec # token'[u]
             /\ u # s => req'[s].rec # req'[u].rec
  <2>1. Building(s) /\ req'[s].rec = req[s].rec /\ token'[s] = token[s] /\ req[s].rec \in dirs'
    BY <1>5 DEF Owning
  <2>2. /\ req[s].rec \in dirs \ byToken /\ req[s].rec \notin req[u].victims /\ req[s].rec # token[u]
        /\ u # s => req[s].rec # req[u].rec
    BY <2>1 DEF DirectoriesHeld
  <2>3. req[s].rec # 0
    BY <1>2, <2>2
  <2>4. req'[s].rec \notin req'[u].victims
    BY <2>1, <2>2 DEF Owning
  <2>5. req'[s].rec # token'[u]
    BY <2>1, <2>2, <2>3 DEF Owning
  <2>6. u # s => req'[s].rec # req'[u].rec
    BY <2>1, <2>2, <2>3 DEF Owning
  <2> QED BY <2>1, <2>2, <2>4, <2>5, <2>6, <1>1
<1> QED BY <1>1, <1>3, <1>4, <1>5 DEF DirectoriesHeld, Building

(* No pin window is new.                                                   *)
LEMMA LiveKept == CacheTypeOK /\ WindowsKept => LiveWindows' \subseteq LiveWindows
  BY DEF LiveWindows, WindowsKept, CacheTypeOK, Windows

(* Nor are there more of them.                                             *)
LEMMA WindowsFewer ==
  ASSUME CacheAssumption, CacheTypeOK, LiveWindows' \subseteq LiveWindows
  PROVE  /\ IsFiniteSet(LiveWindows)
         /\ Cardinality(LiveWindows)' \in Nat /\ Cardinality(LiveWindows) \in Nat
         /\ Cardinality(LiveWindows)' <= Cardinality(LiveWindows)
<1>2. IsFiniteSet(LiveWindows)
  <2>1. LiveWindows \subseteq Digests /\ IsFiniteSet(Digests)
    BY DEF LiveWindows, CacheAssumption
  <2> QED BY <2>1, FS_Subset
<1>3. /\ Cardinality(LiveWindows') \in Nat /\ Cardinality(LiveWindows) \in Nat
      /\ Cardinality(LiveWindows') <= Cardinality(LiveWindows)
  BY <1>2, FS_Subset, FS_CardinalityType
<1> QED BY <1>2, <1>3

(* A digest without a live record gets none.                               *)
LEMMA DeadStays ==
  ASSUME CacheTypeOK, CacheShrinks, clock' \in Nat, clock <= clock', NEW d \in Digests, ~Alive(byDigest[d])
  PROVE  ~Alive(byDigest[d])'
  BY DEF CacheTypeOK, CacheShrinks, DigestsKept, Alive, Slots, Records

(* What was found at the admission is still so.                            *)
LEMMA AdmissionKept ==
  ASSUME CacheAssumption, CacheTypeOK, AdmissionHeld, Admitting, CacheShrinks, WindowsKept,
         clock' \in Nat, clock <= clock'
  PROVE  AdmissionHeld'
<1> SUFFICES ASSUME NEW s \in Tabs, req'[s].step \in Admitted
             PROVE  /\ ~Alive(byDigest[req[s].digest])'
                    /\ req'[s].fresh => windows'[req'[s].digest].max = 0 /\ Cardinality(LiveWindows)' < MaxWindows
                    /\ ~req'[s].fresh /\ clock' < req'[s].max => windows'[req'[s].digest].max = req'[s].max
  BY DEF AdmissionHeld, Admitted
<1>0. req[s].digest \in Digests
  BY DEF CacheTypeOK, At, Admitted, Admitting
<1>d. PICK d \in Digests : d = req[s].digest
  BY <1>0
<1>1. /\ req[s].step \in Admitted
      /\ req'[s].digest = d /\ req'[s].fresh = req[s].fresh /\ req'[s].max = req[s].max
  BY <1>d DEF Admitting
<1>2. d \in Digests /\ req[s] \in Requests /\ req[s].max \in Nat /\ clock \in Nat /\ req[s].fresh \in BOOLEAN
  BY <1>1 DEF CacheTypeOK, At, Admitted, Requests
<1>3. /\ ~Alive(byDigest[d])
      /\ req[s].fresh => windows[d].max = 0 /\ Cardinality(LiveWindows) < MaxWindows
      /\ ~req[s].fresh /\ clock < req[s].max => windows[d].max = req[s].max
  BY <1>1, <1>d DEF AdmissionHeld, Admitted
<1>4. ~Alive(byDigest[d])'
  BY <1>2, <1>3, DeadStays
<1>5. windows'[d].max = windows[d].max \/ (windows'[d].max = 0 /\ windows[d].max <= clock')
  BY <1>2 DEF WindowsKept
<1>6. MaxWindows \in Nat
  BY DEF CacheAssumption
<1>7. req[s].fresh => windows'[d].max = 0 /\ Cardinality(LiveWindows)' < MaxWindows
  BY <1>3, <1>5, <1>6, LiveKept, WindowsFewer
<1>8. ~req[s].fresh /\ clock' < req[s].max => windows'[d].max = req[s].max
  <2>1. windows[d].max \in Nat
    BY <1>2 DEF CacheTypeOK, Windows
  <2> QED BY <2>1, <1>2, <1>3, <1>5
<1>9. ~Alive(byDigest[req[s].digest])'
  BY <1>1, <1>4 DEF Alive
<1> QED BY <1>1, <1>7, <1>8, <1>9

(* The limits hold when no pin is new.                                     *)
LEMMA LimitsKept ==
  ASSUME CacheAssumption, CacheTypeOK, IndexesAgree, CacheWithinLimits, CacheShrinks, Cached' \subseteq Cached,
         LiveWindows' \subseteq LiveWindows, PinsWithin'
  PROVE  CacheWithinLimits'
<1>1. MaxEntries \in Nat /\ MaxBytes \in Nat /\ BundleMax \in Nat /\ MaxWindows \in Nat
  BY DEF CacheAssumption
<1>2. Cardinality(Cached)' <= MaxEntries + 1 /\ Bytes(Cached)' <= MaxBytes + BundleMax
  BY <1>1, ShrunkRoom DEF CacheWithinLimits
<1>3. Cardinality(LiveWindows)' <= MaxWindows
  BY <1>1, WindowsFewer DEF CacheWithinLimits
<1> QED BY <1>2, <1>3 DEF CacheWithinLimits, PinsWithin

(* The room made is still there.                                           *)
LEMMA RoomKept ==
  ASSUME CacheAssumption, CacheTypeOK, IndexesAgree, RoomHeld, Making, CacheShrinks, Cached' \subseteq Cached,
         LiveWindows' \subseteq LiveWindows, PinsWithin'
  PROVE  RoomHeld'
<1>1. MaxEntries \in Nat /\ MaxBytes \in Nat
  BY DEF CacheAssumption
<1>4. CacheWithinLimits'
  BY LimitsKept DEF RoomHeld
<1>5. ASSUME NEW s \in Tabs, req'[s].step \in Roomy
      PROVE  Cardinality(Cached)' <= MaxEntries /\ Bytes(Cached)' <= MaxBytes
  <2>1. Cardinality(Cached) <= MaxEntries /\ Bytes(Cached) <= MaxBytes
    BY <1>5 DEF Making, RoomHeld, Roomy
  <2> QED BY <2>1, <1>1, ShrunkRoom
<1> QED BY <1>4, <1>5 DEF RoomHeld, Roomy

(* A step that only takes leases away keeps the limits on pins. *)
LEMMA FewerPins ==
  ASSUME CacheAssumption, CacheTypeOK, IndexesAgree, PinsWithin, Cached' \subseteq Cached,
         \A i \in Cached', c \in Clients : Leased(i, c)' => Leased(i, c)
  PROVE  PinsWithin'
<1> DEFINE P == {i \in Cached : Pinned(i)}
           L(c) == {i \in Cached : Leased(i, c)}
           P1 == {i \in Cached' : Pinned(i)'}
           L1(c) == {i \in Cached' : Leased(i, c)'}
<1>1. IsFiniteSet(Cached)
  BY CachedIs
<1>2. P1 \subseteq P /\ P \subseteq Cached
  BY DEF Pinned
<1>3. \A c \in Clients : L1(c) \subseteq L(c) /\ L(c) \subseteq Cached
  OBVIOUS
<1>4. Cardinality(P) <= MaxEntries /\ (Proxied => \A c \in Clients : Cardinality(L(c)) <= ClientPins + 1)
  BY DEF PinsWithin
<1>5. MaxEntries \in Nat /\ ClientPins \in Nat
  BY DEF CacheAssumption
<1>6. Cardinality(P1) <= MaxEntries
  <2> HIDE DEF P, P1
  <2>1. IsFiniteSet(P)
    BY <1>1, <1>2, FS_Subset
  <2>2. IsFiniteSet(P1) /\ Cardinality(P1) <= Cardinality(P)
    BY <1>2, <2>1, FS_Subset
  <2>3. Cardinality(P1) \in Nat /\ Cardinality(P) \in Nat
    BY <2>1, <2>2, FS_CardinalityType
  <2> QED BY <2>2, <2>3, <1>4, <1>5
<1>7. ASSUME NEW c \in Clients, Proxied PROVE Cardinality(L1(c)) <= ClientPins + 1
  <2>0. Cardinality(L(c)) <= ClientPins + 1 /\ L1(c) \subseteq L(c) /\ L(c) \subseteq Cached
    BY <1>3, <1>4, <1>7
  <2> HIDE DEF L, L1
  <2>1. IsFiniteSet(L(c))
    BY <1>1, <2>0, FS_Subset
  <2>2. IsFiniteSet(L1(c)) /\ Cardinality(L1(c)) <= Cardinality(L(c))
    BY <2>0, <2>1, FS_Subset
  <2>3. Cardinality(L1(c)) \in Nat /\ Cardinality(L(c)) \in Nat
    BY <2>1, <2>2, FS_CardinalityType
  <2> QED BY <2>0, <2>2, <2>3, <1>5
<1> QED BY <1>6, <1>7 DEF PinsWithin

(* A step that caches nothing new keeps the invariant.                     *)
LEMMA ShrinkStep ==
  ASSUME CacheAssumption, CacheInv, CacheTypeOK', OneBuilder', PinsWithin',
         CacheShrinks, WindowsKept, clock <= clock',
         byToken' \subseteq dirs', dirs' \subseteq dirs, built' = built, posts' = posts,
         Counting, Owning, Admitting, Making
  PROVE  CacheInv'
<1>0. CacheTypeOK /\ BuildsCounted /\ DirectoriesHeld /\ AdmissionHeld /\ RoomHeld /\ IndexesAgree
  BY DEF CacheInv, DirectoriesHeld
<1>1. Cached' \subseteq Cached
  BY <1>0, ShrunkIndexes
<1>2. clock' \in Nat /\ built \in Nat /\ posts \in Nat
  BY <1>0 DEF CacheTypeOK
<1>3. BuildsCounted'
  BY <1>0, <1>2, CountKept
<1>4. DirectoriesHeld'
  BY <1>0, DirectoriesKept
<1>5. AdmissionHeld'
  BY <1>0, <1>2, AdmissionKept
<1>6. RoomHeld'
  BY <1>0, <1>1, LiveKept, RoomKept
<1> QED BY <1>3, <1>4, <1>5, <1>6 DEF CacheInv

(* The cache does not move.                                                *)
LEMMA CalmCache ==
  ASSUME IndexesAgree, DigestsKept, UNCHANGED <<byDigest, byToken>>
  PROVE  CacheShrinks /\ Cached' = Cached
  BY DEF CacheShrinks, IndexesAgree, Cached

(* The build lock passes on to at most one POST.                           *)
LEMMA NextBuilder ==
  ASSUME CacheTypeOK, OneBuilder, NEW t \in Tabs, NEW q, req' = [req EXCEPT ![t] = q],
         \/ builder' = builder /\ (q.step \in BuildSteps <=> req[t].step \in BuildSteps)
         \/ builder' = {} /\ req[t].step \in BuildSteps /\ q.step \notin BuildSteps
         \/ builder = {} /\ builder' = {t} /\ q.step \in BuildSteps
  PROVE  OneBuilder'
<1>1. req'[t] = q /\ \A s \in Tabs \ {t} : req'[s] = req[s]
  BY DEF CacheTypeOK
<1>2. CASE builder' = builder /\ (q.step \in BuildSteps <=> req[t].step \in BuildSteps)
  <2>1. \A s \in Tabs : req'[s].step \in BuildSteps <=> req[s].step \in BuildSteps
    BY <1>1, <1>2
  <2> QED BY <2>1, <1>2 DEF OneBuilder
<1>3. CASE builder' = {} /\ req[t].step \in BuildSteps /\ q.step \notin BuildSteps
  <2>1. \A s \in Tabs : req'[s].step \notin BuildSteps
    BY <1>1, <1>3 DEF OneBuilder
  <2> QED BY <2>1, <1>3 DEF OneBuilder
<1>4. CASE builder = {} /\ builder' = {t} /\ q.step \in BuildSteps
  <2>1. \A s \in Tabs : req'[s].step \in BuildSteps <=> s = t
    BY <1>1, <1>4 DEF OneBuilder
  <2> QED BY <2>1, <1>4 DEF OneBuilder
<1> QED BY <1>2, <1>3, <1>4

(* Two elements that are left out make a set smaller by two.               *)
LEMMA TwoMore ==
  ASSUME NEW P, NEW x, NEW y, NEW S, IsFiniteSet(P), S \subseteq (P \cup {x}) \cup {y}
  PROVE  IsFiniteSet(S) /\ Cardinality(S) \in Nat /\ Cardinality(P) \in Nat /\ Cardinality(S) <= Cardinality(P) + 2
<1> DEFINE Q == P \cup {x}
           R == Q \cup {y}
<1>1. IsFiniteSet(Q) /\ (Cardinality(Q) = Cardinality(P) \/ Cardinality(Q) = Cardinality(P) + 1)
  BY FS_AddElement
<1>2. IsFiniteSet(R) /\ (Cardinality(R) = Cardinality(Q) \/ Cardinality(R) = Cardinality(Q) + 1)
  <2> HIDE DEF Q
  <2> QED BY <1>1, FS_AddElement
<1>3. S \subseteq R
  OBVIOUS
<1> HIDE DEF Q, R
<1>4. IsFiniteSet(S) /\ Cardinality(S) <= Cardinality(R)
  BY <1>2, <1>3, FS_Subset
<1>5. Cardinality(S) \in Nat /\ Cardinality(P) \in Nat /\ Cardinality(Q) \in Nat /\ Cardinality(R) \in Nat
  BY <1>1, <1>2, <1>4, FS_CardinalityType
<1> QED BY <1>1, <1>2, <1>4, <1>5

(* One pin more, for which there is room. *)
LEMMA OnePinMore ==
  ASSUME CacheAssumption, CacheTypeOK, IndexesAgree, PinsWithin,
         NEW i \in Ids, NEW c \in Clients, NEW old, NEW size, PinFits(i, size, c, old),
         Cached' \subseteq Cached \cup {i},
         \A j \in Cached' \ {i}, e \in Clients : Leased(j, e)' => Leased(j, e),
         \A e \in Clients \ {c} : Leased(i, e)' => i \in Cached /\ Leased(i, e)
  PROVE  PinsWithin'
<1> DEFINE S == {j \in Cached \ {i} : Pinned(j)}
           L(e) == {j \in Cached : Leased(j, e)}
           P1 == {j \in Cached' : Pinned(j)'}
           L1(e) == {j \in Cached' : Leased(j, e)'}
           P == PinnedOthers(i, old, c)
           CP == ClientPinned(i, old, c)
<1>0. IsFiniteSet(Cached) /\ MaxEntries \in Nat /\ ClientPins \in Nat
  BY CachedIs DEF CacheAssumption
<1>1. P \subseteq Cached /\ CP \subseteq Cached
  BY DEF PinnedOthers, ClientPinned, Counted
<1>2. P1 \subseteq (P \cup {old}) \cup {i}
  <2>1. P1 \subseteq S \cup {i}
    BY DEF Pinned
  <2>2. S \subseteq P \cup {old}
    BY DEF PinnedOthers, Counted
  <2> HIDE DEF S, P, P1
  <2> QED BY <2>1, <2>2
<1>3. L1(c) \subseteq (CP \cup {old}) \cup {i}
  <2>1. L1(c) \subseteq {j \in Cached \ {i} : Leased(j, c)} \cup {i}
    OBVIOUS
  <2>2. {j \in Cached \ {i} : Leased(j, c)} \subseteq CP \cup {old}
    BY DEF ClientPinned
  <2> HIDE DEF CP, L1
  <2> QED BY <2>1, <2>2
<1>4. \A e \in Clients \ {c} : L1(e) \subseteq L(e) /\ L(e) \subseteq Cached
  OBVIOUS
<1>5. Cardinality(P) + 2 <= MaxEntries /\ (Proxied => Cardinality(CP) < ClientPins)
  BY DEF PinFits
<1>6. Proxied => \A e \in Clients : Cardinality(L(e)) <= ClientPins + 1
  BY DEF PinsWithin
<1> HIDE DEF S, L, P1, L1, P, CP
<1>7. Cardinality(P1) <= MaxEntries
  <2>1. IsFiniteSet(P)
    BY <1>0, <1>1, FS_Subset
  <2>2. Cardinality(P1) \in Nat /\ Cardinality(P) \in Nat /\ Cardinality(P1) <= Cardinality(P) + 2
    BY <2>1, <1>2, TwoMore
  <2> QED BY <2>2, <1>0, <1>5
<1>8. ASSUME Proxied PROVE Cardinality(L1(c)) <= ClientPins + 1
  <2>1. IsFiniteSet(CP)
    BY <1>0, <1>1, FS_Subset
  <2> DEFINE X == L1(c)
  <2>2. X \subseteq (CP \cup {old}) \cup {i}
    BY <1>3
  <2> HIDE DEF X
  <2>3. Cardinality(X) \in Nat /\ Cardinality(CP) \in Nat /\ Cardinality(X) <= Cardinality(CP) + 2
    BY <2>1, <2>2, TwoMore
  <2>4. Cardinality(X) <= ClientPins + 1
    BY <2>3, <1>0, <1>5, <1>8
  <2> QED BY <2>4 DEF X
<1>9. ASSUME NEW e \in Clients \ {c}, Proxied PROVE Cardinality(L1(e)) <= ClientPins + 1
  <2>0. L1(e) \subseteq L(e) /\ L(e) \subseteq Cached /\ Cardinality(L(e)) <= ClientPins + 1
    BY <1>4, <1>6, <1>9
  <2>1. IsFiniteSet(L(e))
    BY <1>0, <2>0, FS_Subset
  <2>2. IsFiniteSet(L1(e)) /\ Cardinality(L1(e)) <= Cardinality(L(e))
    BY <2>0, <2>1, FS_Subset
  <2>3. Cardinality(L1(e)) \in Nat /\ Cardinality(L(e)) \in Nat
    BY <2>1, <2>2, FS_CardinalityType
  <2> QED BY <2>0, <2>2, <2>3, <1>0
<1>10. Proxied => \A e \in Clients : Cardinality(L1(e)) <= ClientPins + 1
  BY <1>8, <1>9
<1> QED BY <1>7, <1>10 DEF PinsWithin, P1, L1

(* A lease given or prolonged. *)
LEMMA PinKeepsLimits ==
  ASSUME CacheAssumption, CacheTypeOK, IndexesAgree, PinsWithin, UNCHANGED <<byDigest, clock>>,
         NEW i \in Cached, NEW c \in Clients, NEW n \in {0, 1}, NEW old, PinRecord(i, c, n), MayPin(i, c, old)
  PROVE  PinsWithin'
<1>0. i \in Ids /\ Cached' = Cached
  BY CachedIs DEF Cached
<1>1. /\ \A j \in Ids \ {i} : rec'[j] = rec[j]
      /\ \A e \in Clients \ {c} : rec'[i].lease[e] = rec[i].lease[e]
  BY <1>0, PinnedRecord
<1>2. \A j \in Cached \ {i}, e \in Clients : Leased(j, e)' => Leased(j, e)
  BY <1>1, CachedIs DEF Leased
<1>3. \A e \in Clients \ {c} : Leased(i, e)' => Leased(i, e)
  BY <1>1 DEF Leased
<1>4. CASE Leased(i, c)
  BY <1>0, <1>2, <1>3, <1>4, FewerPins
<1>5. CASE PinFits(i, Size(i), c, old)
  BY <1>0, <1>2, <1>3, <1>5, OnePinMore
<1> QED BY <1>4, <1>5 DEF MayPin

(* A step of a POST that caches nothing new keeps the invariant.           *)
LEMMA QuietStep ==
  ASSUME CacheAssumption, CacheInv, PinsWithin',
         NEW t \in Tabs, NEW q \in Requests, req' = [req EXCEPT ![t] = q],
         q.step \notin Admitted, q.step = "idle" \/ q.digest \in Digests,
         q.step \in Awaiting => req[t].step \in Awaiting,
         q.rec \in byToken \cup {0, req[t].rec},
         q.victims \subseteq req[t].victims \cup byToken, q.victims \cap byToken' = {},
         NEW k \in {0, token[t], req[t].rec}, token' = [token EXCEPT ![t] = k],
         \/ builder' = builder /\ (q.step \in BuildSteps <=> req[t].step \in BuildSteps)
         \/ builder' = {} /\ req[t].step \in BuildSteps /\ q.step \notin BuildSteps
         \/ builder = {} /\ builder' = {t} /\ q.step \in BuildSteps,
         CacheShrinks, WindowsKept, clock' = clock, built' = built, posts' = posts,
         byToken' \subseteq dirs', dirs' \subseteq dirs,
         \A s \in Tabs \ {t} : Building(s) => req[s].rec \in dirs',
         rec' \in [Ids -> Records], byDigest' \in [Digests -> Slots], windows' \in [Digests -> Windows],
         seen' \in [Tabs -> Int]
  PROVE  CacheInv'
<1>0. CacheTypeOK /\ OneBuilder /\ DirectoriesHeld /\ IndexesAgree
  BY DEF CacheInv, DirectoriesHeld
<1>1. /\ req'[t] = q /\ token'[t] = k
      /\ \A s \in Tabs \ {t} : req'[s] = req[s] /\ token'[s] = token[s]
      /\ req' \in [Tabs -> Requests]
  BY <1>0 DEF CacheTypeOK
<1>2. byToken' \subseteq byToken
  BY <1>0, ShrunkIndexes
<1>3. CacheTypeOK'
  <2>1. token' \in [Tabs -> Slots]
    BY <1>0 DEF CacheTypeOK, Requests, Slots
  <2>2. \A s \in Tabs : At(s, "idle")' \/ req'[s].digest \in Digests
    BY <1>0, <1>1 DEF CacheTypeOK, At
  <2> QED BY <1>0, <1>1, <2>1, <2>2 DEF CacheTypeOK
<1>4. OneBuilder'
  BY <1>0, NextBuilder
<1>5. Counting
  BY <1>1 DEF Counting
<1>6. Owning
  <2>1. ASSUME NEW s \in Tabs \ {t}
        PROVE  /\ req[s].victims \cap byToken' = {}
               /\ req[s].step \in {"render", "register"} => req[s].rec \in dirs' /\ Building(s)
    BY <1>0, <1>2 DEF DirectoriesHeld, Building
  <2>2. q.step \notin {"render", "register"}
    BY DEF Admitted
  <2> QED BY <1>1, <2>1, <2>2 DEF Owning
<1>7. Admitting
  BY <1>1 DEF Admitting
<1>8. Making
  BY <1>1 DEF Making, Roomy, Admitted
<1>9. clock <= clock'
  BY <1>0 DEF CacheTypeOK
<1> QED BY <1>3, <1>4, <1>5, <1>6, <1>7, <1>8, <1>9, ShrinkStep

(* The parts of the invariant that every step needs.                       *)
LEMMA InvParts ==
  ASSUME CacheInv
  PROVE  /\ CacheTypeOK /\ BuildsCounted /\ OneBuilder /\ DirectoriesHeld /\ AdmissionHeld /\ RoomHeld
         /\ IndexesAgree /\ PinsWithin
  BY DEF CacheInv, DirectoriesHeld, RoomHeld, CacheWithinLimits, PinsWithin

(* A step that leaves every record, lease and window as it is. *)
LEMMA UntouchedCache ==
  ASSUME CacheAssumption, CacheInv, UNCHANGED <<clock, rec, byDigest, byToken, windows>>
  PROVE  /\ PinsWithin' /\ CacheShrinks /\ WindowsKept /\ DigestsKept /\ byToken' = byToken
         /\ rec' \in [Ids -> Records] /\ byDigest' \in [Digests -> Slots] /\ windows' \in [Digests -> Windows]
<1>1. CacheTypeOK /\ IndexesAgree /\ PinsWithin
  BY InvParts
<1>2. DigestsKept /\ WindowsKept
  BY DEF DigestsKept, WindowsKept
<1>3. CacheShrinks
  BY <1>1, <1>2, CalmCache
<1>4. PinsWithin'
  BY <1>1 DEF PinsWithin, Cached, Pinned, Leased
<1> QED BY <1>1, <1>2, <1>3, <1>4 DEF CacheTypeOK

(* No directory, record or token moves.                                    *)
LEMMA DirectoriesLast ==
  ASSUME CacheInv, NEW t \in Tabs
  PROVE  /\ byToken \subseteq dirs /\ req[t].victims \cap byToken = {}
         /\ \A s \in Tabs : Building(s) => req[s].rec \in dirs \ byToken /\ req[s].rec \notin req[t].victims
         /\ \A s \in Tabs \ {t} : Building(s) => req[s].rec # req[t].rec
  BY InvParts DEF DirectoriesHeld, IndexesAgree

(* The tab's request is over. *)
LEMMA EndIs ==
  ASSUME CacheAssumption, CacheInv, NEW t \in Tabs, End(t)
  PROVE  \E q \in Requests : /\ req' = [req EXCEPT ![t] = q]
                             /\ q.step = "idle" /\ q.rec = 0 /\ q.victims = {}
<1>1. Idle \in Requests /\ Idle.step = "idle" /\ Idle.rec = 0 /\ Idle.victims = {}
  BY DEF Idle, Requests, Steps, Slots
<1>2. req' = [req EXCEPT ![t] = Idle]
  BY DEF End
<1> QED BY <1>1, <1>2

(* The tab's request goes to its next step.                                *)
LEMMA GotoIs ==
  ASSUME CacheInv, NEW t \in Tabs, NEW step \in Steps, Goto(t, step)
  PROVE  \E q \in Requests : /\ req' = [req EXCEPT ![t] = q] /\ q.step = step
                             /\ q.digest = req[t].digest /\ q.rec = req[t].rec /\ q.victims = req[t].victims
                             /\ q.fresh = req[t].fresh /\ q.max = req[t].max /\ q.by = req[t].by
                             /\ q.sent = req[t].sent /\ q.old = req[t].old /\ q.created = req[t].created
<1> DEFINE q == [req[t] EXCEPT !.step = step]
<1>1. req \in [Tabs -> Requests]
  BY InvParts DEF CacheTypeOK
<1>2. req' = [req EXCEPT ![t] = q]
  BY <1>1 DEF Goto
<1>3. q \in Requests
  BY <1>1 DEF Requests
<1>4. /\ q.step = step
      /\ q.digest = req[t].digest /\ q.rec = req[t].rec /\ q.victims = req[t].victims
      /\ q.fresh = req[t].fresh /\ q.max = req[t].max /\ q.by = req[t].by
      /\ q.sent = req[t].sent /\ q.old = req[t].old /\ q.created = req[t].created
  BY <1>1 DEF Requests
<1> HIDE DEF q
<1> QED BY <1>2, <1>3, <1>4

(* The cached record is pinned.                                            *)
LEMMA HitIs ==
  ASSUME CacheAssumption, CacheInv, NEW t \in Tabs, ~At(t, "idle"), Hit(t), UNCHANGED <<clock, byDigest, byToken>>
  PROVE  /\ \E q \in Requests :
              /\ req' = [req EXCEPT ![t] = q]
              /\ q.step = "answer" /\ q.digest = req[t].digest /\ q.rec = byDigest[req[t].digest]
              /\ q.rec \in byToken /\ q.rec \in Ids /\ q.victims = req[t].victims /\ q.by = req[t].by
         /\ PinsWithin' /\ CacheShrinks /\ WindowsKept /\ byToken' = byToken
         /\ rec' \in [Ids -> Records] /\ byDigest' \in [Digests -> Slots] /\ windows' \in [Digests -> Windows]
<1>0. CacheTypeOK /\ IndexesAgree /\ PinsWithin
  BY InvParts
<1> DEFINE i == byDigest[req[t].digest]
           q == [req[t] EXCEPT !.step = "answer", !.rec = i]
<1>1. req[t] \in Requests /\ req[t].digest \in Digests /\ req \in [Tabs -> Requests]
  BY <1>0 DEF CacheTypeOK, At
<1>2. i \in Cached /\ i \in byToken /\ i \in Ids /\ ClientOf[t] \in Clients
  <2>1. i # 0
    BY DEF Hit, Alive
  <2>2. i \in Cached
    BY <2>1, <1>1 DEF Cached
  <2> QED BY <2>2, <1>0, CachedIs DEF CacheAssumption
<1>3. req' = [req EXCEPT ![t] = q]
  BY <1>1 DEF Hit
<1>4. q \in Requests /\ q.step = "answer" /\ q.digest = req[t].digest /\ q.rec = i
      /\ q.victims = req[t].victims /\ q.by = req[t].by
  <2> HIDE DEF i
  <2> QED BY <1>1, <1>2 DEF Requests, Steps, Slots
<1>5. PICK j \in Cached : j = i
  BY <1>2
<1>6. PinRecord(j, ClientOf[t], 1) /\ MayPin(j, ClientOf[t], req[t].old)
  BY <1>5 DEF Hit
<1>7. rec' \in [Ids -> Records] /\ DigestsKept
  <2>1. /\ rec' \in [Ids -> Records] /\ \A k \in Ids \ {j} : rec'[k] = rec[k]
        /\ rec'[j].digest = rec[j].digest /\ rec'[j].max = rec[j].max
    BY <1>0, <1>2, <1>5, <1>6, PinnedRecord
  <2> QED BY <2>1 DEF DigestsKept
<1>8. PinsWithin'
  BY <1>0, <1>2, <1>5, <1>6, PinKeepsLimits
<1>9. windows' \in [Digests -> Windows] /\ WindowsKept
  <2>1. windows' = [windows EXCEPT ![req[t].digest].released = FALSE]
    BY DEF Hit
  <2>2. windows \in [Digests -> Windows]
    BY <1>0 DEF CacheTypeOK
  <2>3. \A d \in Digests : windows'[d] \in Windows /\ windows'[d].max = windows[d].max
    BY <2>1, <2>2 DEF Windows
  <2> QED BY <2>1, <2>2, <2>3 DEF WindowsKept
<1>10. CacheShrinks
  BY <1>0, <1>7, CalmCache
<1> HIDE DEF q
<1>11. byDigest' \in [Digests -> Slots]
  BY <1>0 DEF CacheTypeOK
<1> QED BY <1>2, <1>3, <1>4, <1>7, <1>8, <1>9, <1>10, <1>11

(* The steps of a POST keep the invariant.                                 *)
LEMMA LookupKeeps == ASSUME CacheAssumption, CacheInv, NEW t \in Tabs, Lookup(t) PROVE CacheInv'
<1>0. /\ CacheTypeOK /\ req[t].step = "lookup" /\ ~At(t, "idle") /\ t \in Tabs
      /\ UNCHANGED <<clock, byDigest, byToken, dirs, builder, token, seen, built, posts>>
  BY InvParts DEF Lookup, At, cache, tabs
<1>1. token' = [token EXCEPT ![t] = token[t]] /\ seen' \in [Tabs -> Int]
  BY <1>0 DEF CacheTypeOK
<1>2. req[t].step \notin BuildSteps
  BY <1>0 DEF BuildSteps
<1>3. CASE Hit(t)
  <2>1. PICK q \in Requests :
              /\ req' = [req EXCEPT ![t] = q]
              /\ q.step = "answer" /\ q.digest = req[t].digest /\ q.rec \in byToken /\ q.victims = req[t].victims
    BY <1>0, <1>3, HitIs
  <2>2. q.digest \in Digests
    BY <1>0, <2>1 DEF CacheTypeOK, At
  <2> QED
    BY <1>0, <1>1, <1>2, <1>3, <2>1, <2>2, HitIs, DirectoriesLast, QuietStep DEF Admitted, Awaiting, BuildSteps
<1>4. CASE Refused(t)
  <2>1. PICK q \in Requests : req' = [req EXCEPT ![t] = q] /\ q.step = "idle" /\ q.rec = 0 /\ q.victims = {}
    BY <1>4, EndIs DEF Refused
  <2>2. UNCHANGED <<rec, windows>>
    BY <1>4 DEF Refused
  <2> QED
    BY <1>0, <1>1, <1>2, <2>1, <2>2, UntouchedCache, DirectoriesLast, QuietStep DEF Admitted, Awaiting, BuildSteps
<1>5. CASE Missed(t) /\ Goto(t, "wait") /\ UNCHANGED <<rec, windows>>
  <2>1. PICK q \in Requests :
              /\ req' = [req EXCEPT ![t] = q] /\ q.step = "wait" /\ q.digest = req[t].digest
              /\ q.rec = req[t].rec /\ q.victims = req[t].victims
    BY <1>5, GotoIs DEF Steps
  <2>2. q.digest \in Digests
    BY <1>0, <2>1 DEF CacheTypeOK, At
  <2> QED
    BY <1>0, <1>1, <1>2, <1>5, <2>1, <2>2, UntouchedCache, DirectoriesLast, QuietStep DEF Admitted, Awaiting, BuildSteps
<1> QED BY <1>3, <1>4, <1>5 DEF Lookup

LEMMA AcquireKeeps == ASSUME CacheAssumption, CacheInv, NEW t \in Tabs, Acquire(t) PROVE CacheInv'
<1>0. /\ CacheTypeOK /\ req[t].step = "wait" /\ ~At(t, "idle") /\ t \in Tabs /\ builder = {} /\ builder' = {t}
      /\ UNCHANGED <<clock, rec, byDigest, byToken, windows, dirs, token, seen, built, posts>>
  BY InvParts DEF Acquire, At, cache, tabs
<1>1. token' = [token EXCEPT ![t] = token[t]] /\ seen' \in [Tabs -> Int]
  BY <1>0 DEF CacheTypeOK
<1>2. PICK q \in Requests :
              /\ req' = [req EXCEPT ![t] = q] /\ q.step = "admit" /\ q.digest = req[t].digest
              /\ q.rec = req[t].rec /\ q.victims = req[t].victims
  BY GotoIs DEF Acquire, Steps, BuildSteps
<1>3. q.digest \in Digests
  BY <1>0, <1>2 DEF CacheTypeOK, At
<1> QED BY <1>0, <1>1, <1>2, <1>3, UntouchedCache, DirectoriesLast, QuietStep DEF Admitted, Awaiting, BuildSteps

LEMMA GiveUpKeeps == ASSUME CacheAssumption, CacheInv, NEW t \in Tabs, GiveUp(t) PROVE CacheInv'
<1>0. /\ CacheTypeOK /\ req[t].step = "wait" /\ t \in Tabs
      /\ UNCHANGED <<clock, rec, byDigest, byToken, windows, dirs, builder, token, seen, built, posts>>
  BY InvParts DEF GiveUp, At, cache, tabs
<1>1. token' = [token EXCEPT ![t] = token[t]] /\ seen' \in [Tabs -> Int]
  BY <1>0 DEF CacheTypeOK
<1>2. PICK q \in Requests : req' = [req EXCEPT ![t] = q] /\ q.step = "idle" /\ q.rec = 0 /\ q.victims = {}
  BY EndIs DEF GiveUp
<1> QED BY <1>0, <1>1, <1>2, UntouchedCache, DirectoriesLast, QuietStep DEF Admitted, Awaiting, BuildSteps

(* The build is given up with its directory. *)
LEMMA DropKeeps ==
  ASSUME CacheAssumption, CacheInv, NEW t \in Tabs, Building(t), DropTarget(t),
         UNCHANGED <<clock, rec, byDigest, byToken, windows, token, seen, built, posts>>
  PROVE  CacheInv'
<1>0. CacheTypeOK /\ t \in Tabs /\ req[t].step \in BuildSteps
  BY InvParts DEF Building, BuildSteps
<1>1. token' = [token EXCEPT ![t] = token[t]] /\ seen' \in [Tabs -> Int]
  BY <1>0 DEF CacheTypeOK
<1>2. PICK q \in Requests : req' = [req EXCEPT ![t] = q] /\ q.step = "idle" /\ q.rec = 0 /\ q.victims = {}
  BY EndIs DEF DropTarget
<1>3. /\ byToken' \subseteq dirs' /\ dirs' \subseteq dirs
      /\ \A s \in Tabs \ {t} : Building(s) => req[s].rec \in dirs'
  BY DirectoriesLast DEF DropTarget
<1> QED BY <1>0, <1>1, <1>2, <1>3, UntouchedCache, QuietStep DEF Admitted, Awaiting, BuildSteps, DropTarget

LEMMA UnregistrableKeeps == ASSUME CacheAssumption, CacheInv, NEW t \in Tabs, Unregistrable(t) PROVE CacheInv'
  BY DropKeeps DEF Unregistrable, At, Building, tabs

LEMMA RenderKeeps == ASSUME CacheAssumption, CacheInv, NEW t \in Tabs, Render(t) PROVE CacheInv'
<1>0. /\ CacheTypeOK /\ req[t].step = "render" /\ Building(t) /\ t \in Tabs
      /\ UNCHANGED <<clock, rec, byDigest, byToken, windows, token, seen, built, posts>>
  BY InvParts DEF Render, At, Building, tabs
<1>1. CASE DropTarget(t)
  BY <1>0, <1>1, DropKeeps
<1>2. CASE ~Late(t) /\ Goto(t, "register") /\ UNCHANGED <<dirs, builder>>
  <2>1. PICK q \in Requests :
              /\ req' = [req EXCEPT ![t] = q] /\ q.step = "register" /\ q.digest = req[t].digest
              /\ q.rec = req[t].rec /\ q.victims = req[t].victims /\ q.fresh = req[t].fresh /\ q.max = req[t].max
    BY <1>2, GotoIs DEF Steps, BuildSteps
  <2>2. req' \in [Tabs -> Requests] /\ req'[t] = q /\ \A s \in Tabs \ {t} : req'[s] = req[s]
    BY <1>0, <2>1 DEF CacheTypeOK
  <2>3. CacheTypeOK'
    BY <1>0, <2>1, <2>2 DEF CacheTypeOK, At
  <2>4. OneBuilder'
    BY <1>0, <1>2, <2>1, InvParts, NextBuilder DEF BuildSteps
  <2>5. Counting /\ Making
    BY <1>0, <2>1, <2>2 DEF Counting, Making, Awaiting, Roomy
  <2>6. Admitting
    BY <1>0, <2>1, <2>2 DEF Admitting, Admitted
  <2>7. Owning
    <3>1. \A s \in Tabs : req'[s].rec = req[s].rec /\ req'[s].victims = req[s].victims /\ token'[s] = token[s]
                          /\ (req'[s].step \in {"render", "register"} => Building(s))
      BY <1>0, <2>1, <2>2 DEF Building
    <3>2. \A s \in Tabs : req[s].victims \cap byToken = {} /\ (Building(s) => req[s].rec \in dirs)
      BY DirectoriesLast
    <3> QED BY <1>0, <1>2, <3>1, <3>2 DEF Owning
  <2>8. byToken' \subseteq dirs' /\ dirs' \subseteq dirs /\ clock <= clock'
    BY <1>0, <1>2, DirectoriesLast DEF CacheTypeOK
  <2> QED BY <1>0, <2>3, <2>4, <2>5, <2>6, <2>7, <2>8, UntouchedCache, ShrinkStep
<1> QED BY <1>1, <1>2 DEF Render

LEMMA FinishKeeps == ASSUME CacheAssumption, CacheInv, NEW t \in Tabs, Finish(t) PROVE CacheInv'
<1>0. /\ CacheTypeOK /\ req[t].step = "finish" /\ ~At(t, "idle") /\ t \in Tabs /\ builder' = {}
      /\ UNCHANGED <<clock, rec, byDigest, byToken, windows, token, seen, built, posts>>
      /\ dirs' = dirs \ req[t].victims
  BY InvParts DEF Finish, At, tabs
<1>1. token' = [token EXCEPT ![t] = token[t]] /\ seen' \in [Tabs -> Int] /\ req[t] \in Requests /\ req \in [Tabs -> Requests]
  BY <1>0 DEF CacheTypeOK
<1> DEFINE q == [req[t] EXCEPT !.step = "answer", !.victims = {}]
<1>2. /\ q \in Requests /\ q.step = "answer" /\ q.digest = req[t].digest /\ q.rec = req[t].rec /\ q.victims = {}
  BY <1>1 DEF Requests, Steps
<1>3. req' = [req EXCEPT ![t] = q]
  BY <1>1 DEF Finish
<1>4. q.digest \in Digests
  BY <1>0, <1>2 DEF CacheTypeOK, At
<1> HIDE DEF q
<1>5. /\ byToken' \subseteq dirs' /\ dirs' \subseteq dirs
      /\ \A s \in Tabs \ {t} : Building(s) => req[s].rec \in dirs'
  BY <1>0, DirectoriesLast
<1> QED BY <1>0, <1>1, <1>2, <1>3, <1>4, <1>5, UntouchedCache, QuietStep DEF Admitted, Awaiting, BuildSteps

LEMMA SweepKeeps == ASSUME CacheAssumption, CacheInv, NEW t \in Tabs, Sweep(t) PROVE CacheInv'
<1>0. /\ CacheTypeOK /\ req[t].step = "sweep" /\ t \in Tabs
      /\ UNCHANGED <<clock, rec, byDigest, byToken, windows, builder, token, seen, built, posts>>
      /\ dirs' = dirs \ req[t].victims
  BY InvParts DEF Sweep, At, tabs
<1>1. token' = [token EXCEPT ![t] = token[t]] /\ seen' \in [Tabs -> Int]
  BY <1>0 DEF CacheTypeOK
<1>2. PICK q \in Requests : req' = [req EXCEPT ![t] = q] /\ q.step = "idle" /\ q.rec = 0 /\ q.victims = {}
  BY EndIs DEF Sweep
<1>3. /\ byToken' \subseteq dirs' /\ dirs' \subseteq dirs
      /\ \A s \in Tabs \ {t} : Building(s) => req[s].rec \in dirs'
  BY <1>0, DirectoriesLast
<1> QED BY <1>0, <1>1, <1>2, <1>3, UntouchedCache, QuietStep DEF Admitted, Awaiting, BuildSteps

LEMMA DeliverKeeps == ASSUME CacheAssumption, CacheInv, NEW t \in Tabs, Deliver(t) PROVE CacheInv'
<1>0. /\ CacheTypeOK /\ req[t].step = "answer" /\ ~At(t, "idle") /\ t \in Tabs
      /\ UNCHANGED <<clock, rec, byDigest, byToken, windows, dirs, builder, built, posts>>
  BY InvParts DEF Deliver, At, cache
<1>1. PICK k \in {req[t].rec, 0} : token' = [token EXCEPT ![t] = k]
  BY DEF Deliver
<1>2. seen' \in [Tabs -> Int]
  <2>1. req[t].by \in Nat /\ Timeout \in Nat
    BY <1>0 DEF CacheTypeOK, Requests, CacheAssumption
  <2>2. req[t].by - Timeout \in Int
    BY <2>1
  <2> QED BY <1>0, <2>2 DEF CacheTypeOK, Deliver
<1>3. PICK q \in Requests :
              /\ req' = [req EXCEPT ![t] = q] /\ q.step = "settle" /\ q.digest = req[t].digest
              /\ q.rec = req[t].rec /\ q.victims = req[t].victims
  BY GotoIs DEF Deliver, Steps
<1>4. q.digest \in Digests
  BY <1>0, <1>3 DEF CacheTypeOK, At
<1> QED BY <1>0, <1>1, <1>2, <1>3, <1>4, UntouchedCache, DirectoriesLast, QuietStep DEF Admitted, Awaiting, BuildSteps

LEMMA ReloadKeeps == ASSUME CacheAssumption, CacheInv, NEW t \in Tabs, Reload(t) PROVE CacheInv'
<1>0. /\ CacheTypeOK /\ req[t].step = "idle" /\ t \in Tabs /\ token' = [token EXCEPT ![t] = 0]
      /\ UNCHANGED <<clock, rec, byDigest, byToken, windows, dirs, builder, req, seen, built, posts>>
  BY InvParts DEF Reload, At, cache
<1>1. /\ req' = [req EXCEPT ![t] = req[t]] /\ req[t] \in Requests /\ seen' \in [Tabs -> Int]
  BY <1>0 DEF CacheTypeOK
<1> QED BY <1>0, <1>1, UntouchedCache, DirectoriesLast, QuietStep DEF Admitted, Awaiting, BuildSteps

(* A step that at most takes leases away. *)
LEMMA LeasesFewer ==
  ASSUME CacheAssumption, CacheInv, UNCHANGED <<clock, byDigest, byToken>>, rec' \in [Ids -> Records], DigestsKept,
         \A i \in Ids, c \in Clients : rec'[i].lease[c] \in {0, rec[i].lease[c]}
  PROVE  PinsWithin' /\ CacheShrinks /\ byToken' = byToken /\ byDigest' \in [Digests -> Slots]
<1>0. CacheTypeOK /\ IndexesAgree /\ PinsWithin
  BY InvParts
<1>1. CacheShrinks /\ Cached' = Cached
  BY <1>0, CalmCache
<1>2. Cached \subseteq Ids /\ clock \in Nat
  BY <1>0, CachedIs DEF CacheTypeOK
<1>3. \A i \in Cached', c \in Clients : Leased(i, c)' => Leased(i, c)
  BY <1>1, <1>2 DEF Leased
<1> QED BY <1>0, <1>1, <1>3, FewerPins DEF CacheTypeOK

(* The records of V are forgotten. *)
LEMMA ForgetIs ==
  ASSUME CacheAssumption, CacheInv, NEW V, V \subseteq Cached, Forget(V), UNCHANGED <<clock, rec>>
  PROVE  /\ PinsWithin' /\ CacheShrinks /\ byDigest' \in [Digests -> Slots] /\ rec' \in [Ids -> Records]
         /\ Cached' = Cached \ V /\ byToken' = byToken \ V /\ V \subseteq byToken /\ V \in SUBSET Ids
<1>0. CacheTypeOK /\ IndexesAgree /\ PinsWithin
  BY InvParts
<1>1. byToken = Cached /\ Cached \subseteq Ids
  BY <1>0, CachedIs
<1>2. byToken' = byToken \ V /\ \A d \in Digests : byDigest'[d] = IF byDigest[d] \in V THEN 0 ELSE byDigest[d]
  BY DEF Forget
<1>3. Cached' = Cached \ V
  BY <1>2 DEF Cached
<1>4. CacheShrinks
  <2>1. byToken' = {byDigest'[d] : d \in Digests} \ {0}
    BY <1>1, <1>2, <1>3 DEF Cached
  <2> QED BY <1>2, <2>1 DEF CacheShrinks, DigestsKept
<1>5. byDigest' \in [Digests -> Slots]
  BY <1>0 DEF CacheTypeOK, Forget, Slots
<1>6. \A i \in Cached', c \in Clients : Leased(i, c)' => Leased(i, c)
  BY DEF Leased
<1>7. PinsWithin'
  BY <1>0, <1>3, <1>6, FewerPins
<1> QED BY <1>0, <1>1, <1>2, <1>3, <1>4, <1>5, <1>7 DEF CacheTypeOK

(* What a prune evicts is cached, unpinned and not the record it spares.   *)
LEMMA EvictionsIn ==
  ASSUME NEW S, S \subseteq Cached, NEW keep, NEW entries, NEW bytes,
         NEW V \in Evictions(S, Unpinnable(S, keep), entries, bytes)
  PROVE  V \subseteq S /\ V \subseteq Cached /\ \A i \in V : ~Pinned(i)
  BY DEF Evictions, Unpinnable

(* What a prune does not count is the superseded record at most.           *)
LEMMA CountedIn == \A S, old, c : Counted(S, old, c) \subseteq S /\ S \subseteq Counted(S, old, c) \cup {old}
  BY DEF Counted

LEMMA AbandonKeeps == ASSUME CacheAssumption, CacheInv, NEW t \in Tabs, Abandon(t) PROVE CacheInv'
<1>0. /\ CacheTypeOK /\ IndexesAgree /\ req[t].step = "answer" /\ t \in Tabs
      /\ UNCHANGED <<clock, byDigest, byToken, windows, dirs, builder, token, seen, built, posts>>
  BY InvParts DEF Abandon, At, cache, tabs
<1>1. token' = [token EXCEPT ![t] = token[t]] /\ seen' \in [Tabs -> Int]
  BY <1>0 DEF CacheTypeOK
<1>2. PICK q \in Requests : req' = [req EXCEPT ![t] = q] /\ q.step = "idle" /\ q.rec = 0 /\ q.victims = {}
  BY EndIs DEF Abandon
<1>3. /\ rec' \in [Ids -> Records] /\ DigestsKept
      /\ \A i \in Ids, c \in Clients : rec'[i].lease[c] \in {0, rec[i].lease[c]}
  <2>1. CASE req[t].rec \in Cached
    <3>1. PICK i \in Ids : i = req[t].rec
      BY <1>0, <2>1, CachedIs
    <3>2. PICK c \in Clients : c = ClientOf[t]
      BY DEF CacheAssumption
    <3> DEFINE r == Unpinned(rec[i], c)
    <3>3. /\ r \in Records /\ r.digest = rec[i].digest /\ r.max = rec[i].max
          /\ \A e \in Clients : r.lease[e] \in {0, rec[i].lease[e]}
      <4>1. /\ r \in Records /\ r.digest = rec[i].digest /\ r.max = rec[i].max
            /\ \A e \in Clients \ {c} : r.lease[e] = rec[i].lease[e]
            /\ r.lease[c] = IF rec[i].count[c] <= 1 THEN 0 ELSE rec[i].lease[c]
        BY <1>0, UnpinnedRecord
      <4> HIDE DEF r
      <4> QED BY <4>1
    <3>4. rec' = [rec EXCEPT ![i] = r]
      BY <2>1, <3>1, <3>2, <1>0 DEF Abandon, CacheTypeOK
    <3> HIDE DEF r
    <3> QED BY <1>0, <3>3, <3>4 DEF CacheTypeOK, DigestsKept
  <2>2. CASE req[t].rec \notin Cached
    BY <1>0, <2>2 DEF Abandon, CacheTypeOK, DigestsKept
  <2> QED BY <2>1, <2>2
<1>4. PinsWithin' /\ CacheShrinks /\ byToken' = byToken /\ byDigest' \in [Digests -> Slots]
  BY <1>0, <1>3, LeasesFewer
<1>5. WindowsKept /\ windows' \in [Digests -> Windows]
  BY <1>0 DEF WindowsKept, CacheTypeOK
<1> QED BY <1>0, <1>1, <1>2, <1>3, <1>4, <1>5, DirectoriesLast, QuietStep DEF Admitted, Awaiting, BuildSteps

(* The superseded record is registered, alive and of another document.     *)
LEMMA SupersededIn ==
  ASSUME NEW named, NEW c, NEW d, NEW i, i = Superseded(named, c, d), i # 0
  PROVE  i = named /\ i \in byToken /\ rec[i].digest # d /\ Alive(i)
  BY DEF Superseded

LEMMA ReleaseOldKeeps == ASSUME CacheAssumption, CacheInv, NEW t \in Tabs, ReleaseOld(t) PROVE CacheInv'
<1>0. /\ CacheTypeOK /\ IndexesAgree /\ req[t].step = "settle" /\ ~At(t, "idle") /\ t \in Tabs
      /\ UNCHANGED <<clock, byDigest, byToken, dirs, builder, token, seen, built, posts>>
  BY InvParts DEF ReleaseOld, At, cache, tabs
<1>1. token' = [token EXCEPT ![t] = token[t]] /\ seen' \in [Tabs -> Int]
  BY <1>0 DEF CacheTypeOK
<1>2. PICK q \in Requests :
              /\ req' = [req EXCEPT ![t] = q] /\ q.step = "prune" /\ q.digest = req[t].digest
              /\ q.rec = req[t].rec /\ q.victims = req[t].victims
  <2>1. Goto(t, "prune") /\ "prune" \in Steps
    BY DEF ReleaseOld, Steps
  <2> QED BY <2>1, GotoIs
<1>6. q.digest \in Digests
  BY <1>0, <1>2 DEF CacheTypeOK, At
<1>7. PICK c \in Clients : c = ClientOf[t]
  BY DEF CacheAssumption
<1>8. PICK i \in Ids : i = Superseded(req[t].sent, c, req[t].digest) /\ i \in byToken
  <2>1. Superseded(req[t].sent, c, req[t].digest) # 0
    BY <1>7 DEF ReleaseOld
  <2>2. Superseded(req[t].sent, c, req[t].digest) \in byToken
    BY <2>1, SupersededIn
  <2> QED BY <1>0, <2>2, CachedIs
<1> DEFINE r == Unpinned(rec[i], c)
           d == rec[i].digest
<1>9. /\ rec' = [rec EXCEPT ![i] = r]
      /\ windows' = IF windows[d].max > 0 /\ r.count[c] = 0
                THEN [windows EXCEPT ![d].keys = @ \ {c},
                                     ![d].released = @ \/ \A e \in Clients : r.count[e] = 0]
                ELSE windows
  BY <1>7, <1>8 DEF ReleaseOld
<1>10. /\ r \in Records /\ r.digest = rec[i].digest /\ r.max = rec[i].max
       /\ \A e \in Clients : r.lease[e] \in {0, rec[i].lease[e]}
  <2>1. /\ r \in Records /\ r.digest = rec[i].digest /\ r.max = rec[i].max
        /\ \A e \in Clients \ {c} : r.lease[e] = rec[i].lease[e]
        /\ r.lease[c] = IF rec[i].count[c] <= 1 THEN 0 ELSE rec[i].lease[c]
    BY <1>0, UnpinnedRecord
  <2> HIDE DEF r
  <2> QED BY <2>1
<1>11. d \in Digests
  BY <1>0, <1>8, CachedIs
<1> HIDE DEF r, d
<1>3. /\ rec' \in [Ids -> Records] /\ DigestsKept
      /\ \A j \in Ids, e \in Clients : rec'[j].lease[e] \in {0, rec[j].lease[e]}
  BY <1>0, <1>9, <1>10 DEF CacheTypeOK, DigestsKept
<1>4. PinsWithin' /\ CacheShrinks /\ byToken' = byToken /\ byDigest' \in [Digests -> Slots]
  BY <1>0, <1>3, LeasesFewer
<1>5. WindowsKept /\ windows' \in [Digests -> Windows]
  <2> DEFINE free == \A e \in Clients : r.count[e] = 0
             keys == windows[d].keys \ {c}
             released == windows[d].released \/ free
             w == [windows[d] EXCEPT !.keys = keys, !.released = released]
  <2>1. windows \in [Digests -> Windows] /\ windows[d] \in Windows
    BY <1>0, <1>11 DEF CacheTypeOK
  <2>2. keys \in SUBSET Clients
    BY <2>1 DEF Windows
  <2>3. released \in BOOLEAN
    BY <2>1 DEF Windows
  <2>4. windows' = windows \/ windows' = [windows EXCEPT ![d] = w]
    BY <1>9, <2>1
  <2> HIDE DEF keys, released
  <2>5. w \in Windows /\ w.max = windows[d].max
    BY <2>1, <2>2, <2>3 DEF Windows
  <2> HIDE DEF w
  <2> QED BY <2>1, <2>4, <2>5 DEF WindowsKept
<1> QED BY <1>0, <1>1, <1>2, <1>3, <1>4, <1>5, <1>6, DirectoriesLast, QuietStep DEF Admitted, Awaiting, BuildSteps

LEMMA KeepOldKeeps == ASSUME CacheAssumption, CacheInv, NEW t \in Tabs, KeepOld(t) PROVE CacheInv'
<1>0. /\ CacheTypeOK /\ IndexesAgree /\ req[t].step = "settle" /\ t \in Tabs
      /\ UNCHANGED <<clock, byDigest, byToken, windows, dirs, builder, token, seen, built, posts>>
  BY InvParts DEF KeepOld, At, cache, tabs
<1>1. token' = [token EXCEPT ![t] = token[t]] /\ seen' \in [Tabs -> Int]
  BY <1>0 DEF CacheTypeOK
<1>2. PICK q \in Requests : req' = [req EXCEPT ![t] = q] /\ q.step = "idle" /\ q.rec = 0 /\ q.victims = {}
  <2>1. End(t)
    BY DEF KeepOld
  <2> QED BY <2>1, EndIs
<1>3. /\ rec' \in [Ids -> Records] /\ DigestsKept
      /\ \A j \in Ids, e \in Clients : rec'[j].lease[e] \in {0, rec[j].lease[e]}
  <2> DEFINE i == req[t].rec
             c == ClientOf[t]
  <2>1. CASE rec' = rec
    BY <1>0, <2>1 DEF CacheTypeOK, DigestsKept
  <2>2. CASE /\ i \in Cached /\ rec[i].count[c] > 1
             /\ rec' = [rec EXCEPT ![i].count[c] = @ - 1, ![i].used = clock]
    <3>1. PICK k \in Ids : k = i
      BY <1>0, <2>2, CachedIs
    <3>2. PICK f \in Clients : f = c
      BY DEF CacheAssumption
    <3> HIDE DEF i, c
    <3> DEFINE m == rec[k].count[f] - 1
               count == [rec[k].count EXCEPT ![f] = m]
               r == [rec[k] EXCEPT !.count = count, !.used = clock]
    <3>3. rec[k] \in Records /\ clock \in Nat /\ rec \in [Ids -> Records]
      BY <1>0 DEF CacheTypeOK
    <3>4. m \in Nat
      <4>1. rec[k].count[f] \in Nat /\ rec[k].count[f] > 1
        BY <2>2, <3>1, <3>2, <3>3 DEF Records
      <4> QED BY <4>1
    <3>5. rec' = [rec EXCEPT ![k] = r]
      BY <2>2, <3>1, <3>2, <3>3
    <3> HIDE DEF m
    <3>6. count \in [Clients -> Nat]
      BY <3>3, <3>4 DEF Records
    <3> HIDE DEF count
    <3>7. r \in Records /\ r.digest = rec[k].digest /\ r.max = rec[k].max /\ r.lease = rec[k].lease
      BY <3>3, <3>6 DEF Records
    <3> HIDE DEF r
    <3> QED BY <3>3, <3>5, <3>7 DEF DigestsKept
  <2>3. \/ rec' = rec
        \/ /\ i \in Cached /\ rec[i].count[c] > 1
           /\ rec' = [rec EXCEPT ![i].count[c] = @ - 1, ![i].used = clock]
    BY DEF KeepOld
  <2> QED BY <2>1, <2>2, <2>3
<1>4. PinsWithin' /\ CacheShrinks /\ byToken' = byToken /\ byDigest' \in [Digests -> Slots]
  BY <1>0, <1>3, LeasesFewer
<1>5. WindowsKept /\ windows' \in [Digests -> Windows]
  BY <1>0 DEF WindowsKept, CacheTypeOK
<1> QED BY <1>0, <1>1, <1>2, <1>3, <1>4, <1>5, DirectoriesLast, QuietStep DEF Admitted, Awaiting, BuildSteps

(* A prune that ends in this request. *)
LEMMA PruneKeepsInv ==
  ASSUME CacheAssumption, CacheInv, NEW t \in Tabs, NEW V, V \subseteq Cached, Forget(V),
         NEW q \in Requests, req' = [req EXCEPT ![t] = q],
         q.step \notin Admitted, q.step \notin Awaiting, q.step = "idle" \/ q.digest \in Digests,
         q.rec \in {0, req[t].rec}, q.victims \subseteq req[t].victims \cup V,
         \/ builder' = builder /\ (q.step \in BuildSteps <=> req[t].step \in BuildSteps)
         \/ builder' = {} /\ req[t].step \in BuildSteps /\ q.step \notin BuildSteps,
         UNCHANGED <<clock, rec, dirs, windows, token, seen, built, posts>>
  PROVE  CacheInv'
<1>0. CacheTypeOK
  BY InvParts
<1>1. token' = [token EXCEPT ![t] = token[t]] /\ seen' \in [Tabs -> Int]
  BY <1>0 DEF CacheTypeOK
<1>2. /\ PinsWithin' /\ CacheShrinks /\ byDigest' \in [Digests -> Slots] /\ rec' \in [Ids -> Records]
      /\ byToken' = byToken \ V /\ V \subseteq byToken
  BY ForgetIs
<1>3. WindowsKept /\ windows' \in [Digests -> Windows]
  BY <1>0 DEF WindowsKept, CacheTypeOK
<1>4. q.victims \subseteq req[t].victims \cup byToken /\ q.victims \cap byToken' = {}
  BY <1>2, DirectoriesLast
<1>5. /\ byToken' \subseteq dirs' /\ dirs' \subseteq dirs
      /\ \A s \in Tabs \ {t} : Building(s) => req[s].rec \in dirs'
  BY <1>2, DirectoriesLast
<1> QED BY <1>1, <1>2, <1>3, <1>4, <1>5, QuietStep

LEMMA PruneKeeps == ASSUME CacheAssumption, CacheInv, NEW t \in Tabs, Prune(t) PROVE CacheInv'
<1>0. /\ CacheTypeOK /\ req[t].step = "prune" /\ ~At(t, "idle") /\ t \in Tabs
      /\ UNCHANGED <<clock, rec, dirs, windows, builder, token, seen, built, posts>>
  BY InvParts DEF Prune, At, tabs
<1>1. PICK V \in Evictions(Cached, Unpinnable(Cached, req[t].rec), 0, 0) :
             /\ Forget(V)
             /\ End(t) \/ req' = [req EXCEPT ![t].step = "sweep", ![t].victims = V]
  BY DEF Prune
<1>2. V \subseteq Cached /\ V \in SUBSET Ids
  BY <1>0, <1>1, EvictionsIn, ForgetIs
<1>3. CASE End(t)
  <2>1. PICK q \in Requests : req' = [req EXCEPT ![t] = q] /\ q.step = "idle" /\ q.rec = 0 /\ q.victims = {}
    BY <1>3, EndIs
  <2> QED BY <1>0, <1>1, <1>2, <2>1, PruneKeepsInv DEF Admitted, Awaiting, BuildSteps
<1>4. CASE req' = [req EXCEPT ![t].step = "sweep", ![t].victims = V]
  <2> DEFINE q == [req[t] EXCEPT !.step = "sweep", !.victims = V]
  <2>1. req[t] \in Requests /\ req \in [Tabs -> Requests] /\ req[t].digest \in Digests
    BY <1>0 DEF CacheTypeOK, At
  <2>2. q \in Requests /\ q.step = "sweep" /\ q.digest \in Digests /\ q.rec = req[t].rec /\ q.victims = V
    BY <2>1, <1>2 DEF Requests, Steps
  <2>3. req' = [req EXCEPT ![t] = q]
    BY <1>4, <2>1
  <2> HIDE DEF q
  <2> QED BY <1>0, <1>1, <1>2, <2>2, <2>3, PruneKeepsInv DEF Admitted, Awaiting, BuildSteps
<1> QED BY <1>1, <1>3, <1>4

LEMMA TrimKeeps == ASSUME CacheAssumption, CacheInv, NEW t \in Tabs, Trim(t) PROVE CacheInv'
<1> DEFINE S == Counted(Cached, req[t].old, ClientOf[t])
<1>0. /\ CacheTypeOK /\ req[t].step = "trim" /\ ~At(t, "idle") /\ t \in Tabs
      /\ UNCHANGED <<clock, rec, dirs, windows, token, seen, built, posts>>
  BY InvParts DEF Trim, At, tabs
<1>1. PICK V \in Evictions(S, Unpinnable(S, req[t].rec), 0, 0) :
             /\ Forget(V)
             /\ \/ req' = [req EXCEPT ![t].step = "finish", ![t].victims = @ \cup V] /\ UNCHANGED builder
                \/ End(t) /\ builder' = {}
  BY DEF Trim
<1>2. S \subseteq Cached
  BY CountedIn
<1> HIDE DEF S
<1>3. V \subseteq Cached
  BY <1>1, <1>2, EvictionsIn
<1>4. V \in SUBSET Ids
  BY <1>0, <1>1, <1>3, ForgetIs
<1>5. CASE End(t) /\ builder' = {}
  <2>1. PICK q \in Requests : req' = [req EXCEPT ![t] = q] /\ q.step = "idle" /\ q.rec = 0 /\ q.victims = {}
    BY <1>5, EndIs
  <2> QED BY <1>0, <1>1, <1>3, <1>5, <2>1, PruneKeepsInv DEF Admitted, Awaiting, BuildSteps
<1>6. CASE req' = [req EXCEPT ![t].step = "finish", ![t].victims = @ \cup V] /\ UNCHANGED builder
  <2> DEFINE q == [req[t] EXCEPT !.step = "finish", !.victims = req[t].victims \cup V]
  <2>1. req[t] \in Requests /\ req \in [Tabs -> Requests] /\ req[t].digest \in Digests
    BY <1>0 DEF CacheTypeOK, At
  <2>2. /\ q \in Requests /\ q.step = "finish" /\ q.digest \in Digests /\ q.rec = req[t].rec
        /\ q.victims = req[t].victims \cup V
    BY <2>1, <1>4 DEF Requests, Steps, BuildSteps
  <2>3. req' = [req EXCEPT ![t] = q]
    BY <1>6, <2>1
  <2> HIDE DEF q
  <2> QED BY <1>0, <1>1, <1>3, <1>6, <2>2, <2>3, PruneKeepsInv DEF Admitted, Awaiting, BuildSteps
<1> QED BY <1>1, <1>5, <1>6

(* The requests and the tabs stay as they are. *)
LEMMA StillRequests ==
  ASSUME CacheInv, UNCHANGED <<req, token, builder, dirs, byToken>>
  PROVE  OneBuilder' /\ Counting /\ Owning /\ Admitting /\ Making /\ byToken' \subseteq dirs' /\ dirs' \subseteq dirs
<1>1. OneBuilder'
  BY InvParts DEF OneBuilder
<1>2. Counting /\ Admitting /\ Making
  BY DEF Counting, Admitting, Making
<1>3. \A s \in Tabs : req[s].victims \cap byToken = {} /\ (Building(s) => req[s].rec \in dirs)
  BY DirectoriesLast
<1>4. Owning
  BY <1>3 DEF Owning, Building
<1>5. byToken \subseteq dirs
  BY InvParts DEF IndexesAgree
<1> QED BY <1>1, <1>2, <1>4, <1>5

(* A read, the passage of time and a new POST keep the invariant.          *)
LEMMA GetKeeps == ASSUME CacheAssumption, CacheInv, NEW t \in Tabs, Get(t) PROVE CacheInv'
<1>0. /\ CacheTypeOK /\ IndexesAgree /\ PinsWithin
      /\ UNCHANGED <<clock, byDigest, byToken, windows, dirs, builder, req, token, seen, built, posts>>
  BY InvParts DEF Get, cache, tabs
<1>1. PICK i \in Cached : i = token[t] /\ i \in Ids
  BY <1>0, CachedIs DEF Get
<1>2. PICK c \in Clients : c = ClientOf[t]
  BY DEF CacheAssumption
<1>3. PinRecord(i, c, 0) /\ MayPin(i, c, 0)
  BY <1>1, <1>2 DEF Get
<1>4. rec' \in [Ids -> Records] /\ DigestsKept
  <2>1. /\ rec' \in [Ids -> Records] /\ \A k \in Ids \ {i} : rec'[k] = rec[k]
        /\ rec'[i].digest = rec[i].digest /\ rec'[i].max = rec[i].max
    BY <1>0, <1>1, <1>3, PinnedRecord
  <2> QED BY <2>1 DEF DigestsKept
<1>5. PinsWithin'
  BY <1>0, <1>3, PinKeepsLimits
<1>6. CacheShrinks
  BY <1>0, <1>4, CalmCache
<1>7. WindowsKept /\ clock <= clock'
  BY <1>0 DEF WindowsKept, CacheTypeOK
<1>8. CacheTypeOK'
  BY <1>0, <1>4 DEF CacheTypeOK, At
<1> QED BY <1>0, <1>5, <1>6, <1>7, <1>8, StillRequests, ShrinkStep

LEMMA TickKeeps == ASSUME CacheAssumption, CacheInv, Tick PROVE CacheInv'
<1>0. /\ CacheTypeOK /\ IndexesAgree /\ PinsWithin /\ clock \in Nat /\ clock' = clock + 1
      /\ rec' = [i \in Ids |-> Expired(rec[i])]
      /\ windows' = [d \in Digests |-> IF windows[d].max <= clock' THEN NoWindow ELSE windows[d]]
      /\ UNCHANGED <<byDigest, byToken, dirs, builder, req, token, seen, built, posts>>
  BY InvParts DEF Tick, cache, tabs, CacheTypeOK
<1>1. ASSUME NEW i \in Ids
      PROVE  /\ rec'[i] \in Records /\ rec'[i].digest = rec[i].digest /\ rec'[i].max = rec[i].max
             /\ \A c \in Clients : rec'[i].lease[c] > clock' => rec[i].lease[c] > clock
  <2> DEFINE r == Expired(rec[i])
  <2>1. rec'[i] = r
    BY <1>0
  <2>2. /\ r \in Records /\ r.digest = rec[i].digest /\ r.max = rec[i].max
        /\ \A c \in Clients : r.lease[c] = IF rec[i].lease[c] <= clock' THEN 0 ELSE rec[i].lease[c]
    BY <1>0, ExpiredRecord
  <2>3. \A c \in Clients : rec[i].lease[c] \in Nat
    BY <1>0 DEF CacheTypeOK, Records
  <2> HIDE DEF r
  <2> QED BY <1>0, <2>1, <2>2, <2>3
<1>2. rec' \in [Ids -> Records] /\ DigestsKept
  BY <1>0, <1>1 DEF DigestsKept
<1>3. CacheShrinks /\ Cached' = Cached
  BY <1>0, <1>2, CalmCache
<1>4. PinsWithin'
  <2>1. Cached \subseteq Ids
    BY <1>0, CachedIs
  <2>2. \A i \in Cached', c \in Clients : Leased(i, c)' => Leased(i, c)
    BY <1>1, <1>3, <2>1 DEF Leased
  <2> QED BY <1>0, <1>3, <2>2, FewerPins
<1>5. WindowsKept /\ windows' \in [Digests -> Windows]
  <2>1. NoWindow \in Windows /\ NoWindow.max = 0
    BY DEF NoWindow, Windows
  <2>2. windows \in [Digests -> Windows]
    BY <1>0 DEF CacheTypeOK
  <2> HIDE DEF NoWindow
  <2> QED BY <1>0, <2>1, <2>2 DEF WindowsKept
<1>6. CacheTypeOK'
  BY <1>0, <1>2, <1>5 DEF CacheTypeOK, At
<1>7. clock <= clock'
  BY <1>0
<1> QED BY <1>0, <1>3, <1>4, <1>5, <1>6, <1>7, StillRequests, ShrinkStep

LEMMA PostKeeps == ASSUME CacheAssumption, CacheInv, NEW t \in Tabs, NEW d \in Digests, Post(t, d) PROVE CacheInv'
<1>0. /\ CacheTypeOK /\ IndexesAgree /\ BuildsCounted /\ DirectoriesHeld /\ AdmissionHeld /\ RoomHeld /\ OneBuilder
      /\ req[t].step = "idle" /\ posts < MaxPosts /\ posts' = posts + 1
      /\ UNCHANGED <<clock, rec, byDigest, byToken, dirs, windows, builder, token, seen, built>>
  BY InvParts DEF Post, At, cache, tabs
<1>1. PICK old : old = Superseded(token[t], ClientOf[t], d)
  OBVIOUS
<1>2. old \in Slots /\ token[t] \in Slots /\ clock \in Nat /\ Timeout \in Nat /\ posts \in Nat /\ MaxPosts \in Nat /\ built \in Nat
  BY <1>0, <1>1 DEF Superseded, CacheTypeOK, CacheAssumption, Slots
<1>by. PICK by \in Nat : by = clock + Timeout
  BY <1>2
<1>id. Idle \in Requests /\ Idle.rec = 0 /\ Idle.victims = {}
  BY DEF Idle, Requests, Steps, Slots
<1> DEFINE q == [Idle EXCEPT !.step = "lookup", !.digest = d, !.sent = token[t], !.old = old, !.by = by]
<1>3. /\ q \in Requests /\ q.step = "lookup" /\ q.digest = d /\ q.rec = 0 /\ q.victims = {}
  BY <1>2, <1>id DEF Requests, Steps
<1>4. req' = [req EXCEPT ![t] = q]
  BY <1>1, <1>by DEF Post
<1> HIDE DEF q
<1>5. req'[t] = q /\ (\A s \in Tabs \ {t} : req'[s] = req[s]) /\ req' \in [Tabs -> Requests]
  BY <1>0, <1>3, <1>4 DEF CacheTypeOK
<1>6. CacheTypeOK'
  BY <1>0, <1>2, <1>3, <1>5 DEF CacheTypeOK, At
<1>7. BuildsCounted'
  <2>1. Unbuilt' = Unbuilt \cup {t} /\ t \notin Unbuilt
    BY <1>0, <1>3, <1>5 DEF Unbuilt
  <2>2. IsFiniteSet(Unbuilt) /\ built + Cardinality(Unbuilt) <= posts
    BY <1>0 DEF BuildsCounted
  <2>3. IsFiniteSet(Unbuilt') /\ Cardinality(Unbuilt') = Cardinality(Unbuilt) + 1
    BY <2>1, <2>2, FS_AddElement
  <2>4. Cardinality(Unbuilt) \in Nat
    BY <2>2, FS_CardinalityType
  <2> QED BY <1>0, <1>2, <2>2, <2>3, <2>4 DEF BuildsCounted
<1>8. /\ PinsWithin' /\ CacheShrinks /\ WindowsKept /\ byToken' = byToken
  BY <1>0, UntouchedCache
<1>9. OneBuilder'
  BY <1>0, <1>3, <1>4, NextBuilder DEF BuildSteps
<1>10. Owning /\ Admitting /\ Making
  <2>1. \A s \in Tabs : req[s].victims \cap byToken = {} /\ (Building(s) => req[s].rec \in dirs)
    BY DirectoriesLast
  <2>2. Owning
    BY <1>0, <1>3, <1>5, <2>1 DEF Owning, Building
  <2>3. Admitting /\ Making
    BY <1>3, <1>5 DEF Admitting, Making, Admitted, Roomy
  <2> QED BY <2>2, <2>3
<1>11. byToken' \subseteq dirs' /\ dirs' \subseteq dirs /\ clock' \in Nat /\ clock <= clock' /\ Cached' \subseteq Cached
  BY <1>0, <1>2 DEF IndexesAgree, Cached
<1>12. DirectoriesHeld'
  BY <1>0, <1>8, <1>10, <1>11, DirectoriesKept
<1>13. AdmissionHeld'
  BY <1>0, <1>8, <1>10, <1>11, AdmissionKept
<1>14. RoomHeld'
  BY <1>0, <1>8, <1>10, <1>11, LiveKept, RoomKept
<1> QED BY <1>6, <1>7, <1>9, <1>12, <1>13, <1>14 DEF CacheInv

(* A build starts: one POST less may still build.                          *)
LEMMA MkdirKeeps == ASSUME CacheAssumption, CacheInv, NEW t \in Tabs, Mkdir(t) PROVE CacheInv'
<1>0. /\ CacheTypeOK /\ IndexesAgree /\ BuildsCounted /\ DirectoriesHeld /\ AdmissionHeld /\ RoomHeld /\ OneBuilder
      /\ req[t].step = "mkdir" /\ ~At(t, "idle") /\ built' = built + 1
      /\ dirs' = (dirs \ req[t].victims) \cup {built'}
      /\ UNCHANGED <<clock, rec, byDigest, byToken, windows, builder, token, seen, posts>>
  BY InvParts DEF Mkdir, At, tabs
<1>1. built \in Nat /\ posts \in Nat /\ MaxPosts \in Nat
  BY <1>0 DEF CacheTypeOK, CacheAssumption
<1>2. BuildsCounted' /\ built' <= MaxPosts
  <2>1. req'[t].step = "render" /\ \A s \in Tabs \ {t} : req'[s] = req[s]
    BY <1>0 DEF Mkdir, CacheTypeOK, Requests
  <2>2. Unbuilt' = Unbuilt \ {t} /\ t \in Unbuilt
    BY <1>0, <2>1 DEF Unbuilt
  <2>3. IsFiniteSet(Unbuilt) /\ built + Cardinality(Unbuilt) <= posts /\ posts <= MaxPosts
    BY <1>0 DEF BuildsCounted
  <2>4. IsFiniteSet(Unbuilt') /\ Cardinality(Unbuilt') = Cardinality(Unbuilt) - 1
    BY <2>2, <2>3, FS_RemoveElement
  <2>5. Cardinality(Unbuilt) \in Nat /\ Cardinality(Unbuilt') \in Nat
    BY <2>3, <2>4, FS_CardinalityType
  <2> QED BY <1>0, <1>1, <2>3, <2>4, <2>5 DEF BuildsCounted
<1> DEFINE q == [req[t] EXCEPT !.step = "render", !.rec = built', !.victims = {}]
<1>3. req[t] \in Requests /\ req \in [Tabs -> Requests] /\ req[t].digest \in Digests /\ built' \in Slots
  BY <1>0, <1>1, <1>2 DEF CacheTypeOK, At, Slots, Ids
<1>4. /\ q \in Requests /\ q.step = "render" /\ q.digest = req[t].digest /\ q.rec = built' /\ q.victims = {}
      /\ q.fresh = req[t].fresh /\ q.max = req[t].max
  <2>1. PICK b \in Slots : b = built'
    BY <1>3
  <2>2. q = [req[t] EXCEPT !.step = "render", !.rec = b, !.victims = {}]
    BY <2>1
  <2> HIDE DEF q
  <2> QED BY <1>3, <2>1, <2>2 DEF Requests, Steps, BuildSteps
<1>5. req' = [req EXCEPT ![t] = q]
  BY <1>3 DEF Mkdir
<1> HIDE DEF q
<1>6. req'[t] = q /\ (\A s \in Tabs \ {t} : req'[s] = req[s]) /\ req' \in [Tabs -> Requests]
  BY <1>3, <1>4, <1>5
<1>7. CacheTypeOK'
  BY <1>0, <1>1, <1>3, <1>4, <1>6 DEF CacheTypeOK, At
<1>8. /\ PinsWithin' /\ CacheShrinks /\ WindowsKept /\ byToken' = byToken
  BY <1>0, UntouchedCache
<1>9. OneBuilder'
  BY <1>0, <1>4, <1>5, NextBuilder DEF BuildSteps
<1>10. Admitting /\ Making
  BY <1>0, <1>4, <1>6 DEF Admitting, Making, Admitted, Roomy
<1>11. clock' \in Nat /\ clock <= clock' /\ Cached' \subseteq Cached
  BY <1>0 DEF CacheTypeOK, Cached
<1>12. DirectoriesHeld'
  <2>1. byToken \subseteq dirs /\ req[t].victims \cap byToken = {} /\ dirs \subseteq 1..built
    BY <1>0, DirectoriesLast DEF DirectoriesHeld
  <2>2. IndexesAgree'
    BY <1>0, <2>1 DEF IndexesAgree, Cached
  <2>3. dirs' \subseteq 1..built'
    <3>1. built' \in 1..built' /\ \A i \in 1..built : i \in 1..built'
      BY <1>0, <1>1
    <3> QED BY <1>0, <2>1, <3>1
  <2>0. \A s \in Tabs : req[s].rec \in Nat /\ token[s] \in Nat
    <3> SUFFICES ASSUME NEW s \in Tabs PROVE req[s].rec \in Nat /\ token[s] \in Nat
      OBVIOUS
    <3>1. req[s] \in Requests /\ token[s] \in Slots
      BY <1>0 DEF CacheTypeOK
    <3> QED BY <3>1 DEF Requests, Slots, Ids
  <2>4. ASSUME NEW s \in Tabs
        PROVE  /\ req'[s].rec <= built' /\ token'[s] <= built'
               /\ req'[s].victims \subseteq 1..built' /\ req'[s].victims \cap byToken' = {}
    <3>1. /\ req[s].rec <= built /\ token[s] <= built
          /\ req[s].victims \subseteq 1..built /\ req[s].victims \cap byToken = {}
      BY <1>0 DEF DirectoriesHeld
    <3>2. req[s].rec \in Nat /\ token[s] \in Nat
      BY <2>0
    <3>3. \A i \in 1..built : i \in 1..built'
      BY <1>0, <1>1
    <3>4. req'[s].rec <= built' /\ token'[s] <= built'
      BY <1>0, <1>1, <1>4, <1>6, <3>1, <3>2
    <3>5. req'[s].victims \subseteq 1..built' /\ req'[s].victims \cap byToken' = {}
      BY <1>0, <1>4, <1>6, <3>1, <3>3
    <3> QED BY <3>4, <3>5
  <2>5. ASSUME NEW s \in Tabs, Building(s)', NEW u \in Tabs
        PROVE  /\ req'[s].rec \in dirs' \ byToken'
               /\ req'[s].rec \notin req'[u].victims /\ req'[s].rec # token'[u]
               /\ u # s => req'[s].rec # req'[u].rec
    <3>1. s = t
      BY <1>0, <1>6, <2>5 DEF OneBuilder, Building, BuildSteps
    <3>2. req'[s].rec = built'
      BY <3>1, <1>4, <1>6
    <3>3. built' \in dirs' /\ built' \notin byToken'
      BY <1>0, <1>1, <2>1
    <3>4. /\ req[u].rec <= built /\ token[u] <= built /\ req[u].victims \subseteq 1..built
          /\ req[u].rec \in Nat /\ token[u] \in Nat
      BY <1>0, <2>0 DEF DirectoriesHeld
    <3>5. built' \notin req'[u].victims
      BY <1>0, <1>1, <1>4, <1>6, <3>4
    <3>6. built' # token'[u] /\ (u # s => built' # req'[u].rec)
      BY <1>0, <1>1, <1>6, <3>1, <3>4
    <3> QED BY <3>2, <3>3, <3>5, <3>6
  <2> QED BY <2>2, <2>3, <2>4, <2>5 DEF DirectoriesHeld, Building
<1>13. AdmissionHeld'
  BY <1>0, <1>8, <1>10, <1>11, AdmissionKept
<1>14. RoomHeld'
  BY <1>0, <1>8, <1>10, <1>11, LiveKept, RoomKept
<1> QED BY <1>2, <1>7, <1>9, <1>12, <1>13, <1>14 DEF CacheInv

(* A build is admitted. *)
LEMMA AdmitEntry ==
  ASSUME CacheAssumption, CacheInv, NEW t \in Tabs, At(t, "admit"),
         NEW q \in Requests, req' = [req EXCEPT ![t] = q], q.step = "reserve", q.digest = req[t].digest,
         q.rec = req[t].rec, q.victims = req[t].victims, ~Alive(byDigest[req[t].digest]),
         q.fresh => windows'[req[t].digest].max = 0 /\ Cardinality(LiveWindows)' < MaxWindows,
         ~q.fresh => windows'[req[t].digest].max = q.max,
         windows' \in [Digests -> Windows], LiveWindows' \subseteq LiveWindows,
         UNCHANGED <<clock, rec, byDigest, byToken, dirs, builder, token, seen, built, posts>>
  PROVE  CacheInv'
<1>0. /\ CacheTypeOK /\ IndexesAgree /\ BuildsCounted /\ DirectoriesHeld /\ RoomHeld /\ OneBuilder /\ PinsWithin
      /\ req[t].step = "admit"
  BY InvParts DEF At
<1>1. req'[t] = q /\ (\A s \in Tabs \ {t} : req'[s] = req[s]) /\ req' \in [Tabs -> Requests]
  BY <1>0 DEF CacheTypeOK
<1>2. CacheTypeOK'
  BY <1>0, <1>1 DEF CacheTypeOK, At
<1>3. /\ CacheShrinks /\ byToken' = byToken /\ Cached' = Cached
  <2>1. DigestsKept
    BY DEF DigestsKept
  <2> QED BY <1>0, <2>1, CalmCache
<1>4. PinsWithin'
  BY <1>0, <1>3 DEF PinsWithin, Pinned, Leased
<1>5. OneBuilder'
  BY <1>0, NextBuilder DEF BuildSteps
<1>6. Counting /\ Making
  BY <1>0, <1>1 DEF Counting, Awaiting, Making, Roomy
<1>7. Owning
  <2>1. \A s \in Tabs : req[s].victims \cap byToken = {} /\ (Building(s) => req[s].rec \in dirs)
    BY DirectoriesLast
  <2> QED BY <1>1, <2>1 DEF Owning, Building
<1>8. BuildsCounted'
  BY <1>0, <1>6, CountKept DEF CacheTypeOK
<1>9. DirectoriesHeld'
  BY <1>0, <1>3, <1>7, DirectoriesKept DEF IndexesAgree
<1>10. RoomHeld'
  BY <1>0, <1>3, <1>4, <1>6, RoomKept
<1>11. AdmissionHeld'
  <2> SUFFICES ASSUME NEW s \in Tabs, req'[s].step \in Admitted
               PROVE  /\ ~Alive(byDigest[req[s].digest])'
                      /\ req'[s].fresh => windows'[req'[s].digest].max = 0 /\ Cardinality(LiveWindows)' < MaxWindows
                      /\ ~req'[s].fresh /\ clock' < req'[s].max => windows'[req'[s].digest].max = req'[s].max
    BY DEF AdmissionHeld, Admitted
  <2>1. s = t
    BY <1>0, <1>1 DEF OneBuilder, BuildSteps, Admitted
  <2>2. req'[s] = q
    BY <2>1, <1>1
  <2>3. ~Alive(byDigest[req[s].digest])'
    BY <2>1, <2>2 DEF Alive
  <2> QED BY <2>1, <2>2, <2>3
<1> QED BY <1>2, <1>5, <1>8, <1>9, <1>10, <1>11 DEF CacheInv

LEMMA AdmitKeeps == ASSUME CacheAssumption, CacheInv, NEW t \in Tabs, Admit(t) PROVE CacheInv'
<1>0. /\ CacheTypeOK /\ RoomHeld /\ req[t].step = "admit" /\ At(t, "admit") /\ ~At(t, "idle") /\ t \in Tabs
      /\ UNCHANGED <<clock, byDigest, byToken, dirs, token, seen, built, posts>>
  BY InvParts DEF Admit, At, cache, tabs
<1>1. token' = [token EXCEPT ![t] = token[t]] /\ seen' \in [Tabs -> Int]
  BY <1>0 DEF CacheTypeOK
<1>2. req[t] \in Requests /\ req \in [Tabs -> Requests] /\ windows \in [Digests -> Windows]
  BY <1>0 DEF CacheTypeOK
<1>d. PICK d \in Digests : d = req[t].digest
  BY <1>0 DEF CacheTypeOK, At
<1>w. windows[d] \in Windows
  BY <1>2
<1>3. CASE Hit(t) /\ builder' = {}
  <2>1. PICK q \in Requests :
              /\ req' = [req EXCEPT ![t] = q]
              /\ q.step = "answer" /\ q.digest = req[t].digest /\ q.rec \in byToken /\ q.victims = req[t].victims
    BY <1>0, <1>3, HitIs
  <2>2. q.digest \in Digests
    BY <1>d, <2>1
  <2> QED
    BY <1>0, <1>1, <1>3, <2>1, <2>2, HitIs, DirectoriesLast, QuietStep DEF Admitted, Awaiting, BuildSteps
<1>4. ASSUME End(t), builder' = {}, UNCHANGED <<rec, windows>>
      PROVE  CacheInv'
  <2>1. PICK q \in Requests : req' = [req EXCEPT ![t] = q] /\ q.step = "idle" /\ q.rec = 0 /\ q.victims = {}
    BY <1>4, EndIs
  <2> QED
    BY <1>0, <1>1, <1>4, <2>1, UntouchedCache, DirectoriesLast, QuietStep DEF Admitted, Awaiting, BuildSteps
<1>5. CASE Refused(t) /\ builder' = {}
  BY <1>4, <1>5 DEF Refused
<1>6. CASE Missed(t) /\ OwnWindow(t) /\ UNCHANGED rec
  <2>1. CASE End(t) /\ builder' = {} /\ UNCHANGED windows
    BY <1>4, <1>6, <2>1
  <2>2. CASE /\ windows' = [windows EXCEPT ![d].released = FALSE]
             /\ req' = [req EXCEPT ![t].step = "reserve", ![t].fresh = FALSE, ![t].max = windows[d].max]
             /\ UNCHANGED builder
    <3>1. PICK m \in Nat : m = windows[d].max
      BY <1>w DEF Windows
    <3> DEFINE q == [req[t] EXCEPT !.step = "reserve", !.fresh = FALSE, !.max = m]
    <3>2. req' = [req EXCEPT ![t] = q]
      BY <2>2, <3>1, <1>2
    <3>3. /\ q \in Requests /\ q.step = "reserve" /\ q.digest = req[t].digest /\ ~q.fresh /\ q.max = m
          /\ q.rec = req[t].rec /\ q.victims = req[t].victims
      BY <1>2 DEF Requests, Steps, BuildSteps
    <3> HIDE DEF q
    <3>4. \A e \in Digests : windows'[e] \in Windows /\ windows'[e].max = windows[e].max
      BY <2>2, <1>2 DEF Windows
    <3>5. windows' \in [Digests -> Windows]
      BY <2>2, <3>4, <1>2
    <3>6. LiveWindows' \subseteq LiveWindows
      BY <3>4 DEF LiveWindows
    <3>7. ~Alive(byDigest[req[t].digest])
      BY <1>6 DEF Missed
    <3>8. windows'[req[t].digest].max = q.max
      BY <3>1, <3>3, <3>4, <1>d
    <3> QED BY <1>0, <1>6, <2>2, <3>2, <3>3, <3>5, <3>6, <3>7, <3>8, AdmitEntry
  <2> QED BY <1>6, <1>d, <2>1, <2>2 DEF OwnWindow
<1>7. CASE Missed(t) /\ NewWindow(t) /\ UNCHANGED rec
  <2>0. windows[d].max = 0
    BY <1>7, <1>d DEF NewWindow
  <2>1. CASE End(t) /\ builder' = {} /\ UNCHANGED windows
    BY <1>4, <1>7, <2>1
  <2>2. CASE /\ \/ Cardinality(LiveWindows) < MaxWindows /\ UNCHANGED windows
                \/ /\ Cardinality(LiveWindows) >= MaxWindows
                   /\ \E e \in LiveWindows : Spare(e) /\ windows' = [windows EXCEPT ![e] = NoWindow]
             /\ req' = [req EXCEPT ![t].step = "reserve", ![t].fresh = TRUE, ![t].max = clock + MaxPin]
             /\ UNCHANGED builder
    <3>1. PICK m \in Nat : m = clock + MaxPin
      BY <1>0 DEF CacheTypeOK, CacheAssumption
    <3> DEFINE q == [req[t] EXCEPT !.step = "reserve", !.fresh = TRUE, !.max = m]
    <3>2. req' = [req EXCEPT ![t] = q]
      BY <2>2, <3>1, <1>2
    <3>3. /\ q \in Requests /\ q.step = "reserve" /\ q.digest = req[t].digest /\ q.fresh = TRUE
          /\ q.rec = req[t].rec /\ q.victims = req[t].victims
      BY <1>2 DEF Requests, Steps, BuildSteps
    <3> HIDE DEF q
    <3>4. /\ windows' \in [Digests -> Windows] /\ LiveWindows' \subseteq LiveWindows
          /\ windows'[d].max = 0 /\ Cardinality(LiveWindows)' < MaxWindows
      <4>1. CASE Cardinality(LiveWindows) < MaxWindows /\ UNCHANGED windows
        BY <4>1, <1>2, <2>0 DEF LiveWindows
      <4>2. CASE /\ Cardinality(LiveWindows) >= MaxWindows
                 /\ \E e \in LiveWindows : Spare(e) /\ windows' = [windows EXCEPT ![e] = NoWindow]
        <5>1. PICK e \in LiveWindows : windows' = [windows EXCEPT ![e] = NoWindow]
          BY <4>2
        <5>2. NoWindow \in Windows /\ NoWindow.max = 0
          BY DEF NoWindow, Windows
        <5> HIDE DEF NoWindow
        <5>3. e \in Digests /\ LiveWindows \subseteq Digests
          BY DEF LiveWindows
        <5>4. LiveWindows' = LiveWindows \ {e} /\ windows'[d].max = 0 /\ windows' \in [Digests -> Windows]
          BY <1>2, <2>0, <5>1, <5>2, <5>3 DEF LiveWindows
        <5>5. IsFiniteSet(LiveWindows)
          BY <5>3, FS_Subset DEF CacheAssumption
        <5>6. Cardinality(LiveWindows') = Cardinality(LiveWindows) - 1
          BY <5>4, <5>5, FS_RemoveElement
        <5>7. Cardinality(LiveWindows) <= MaxWindows /\ Cardinality(LiveWindows) \in Nat /\ MaxWindows \in Nat
          BY <1>0, <5>5, FS_CardinalityType DEF RoomHeld, CacheWithinLimits, CacheAssumption
        <5> QED BY <5>4, <5>6, <5>7
      <4> QED BY <2>2, <4>1, <4>2
    <3>7. ~Alive(byDigest[req[t].digest])
      BY <1>7 DEF Missed
    <3> QED BY <1>0, <1>7, <1>d, <2>2, <3>2, <3>3, <3>4, <3>7, AdmitEntry
  <2> QED BY <1>7, <1>d, <2>1, <2>2 DEF NewWindow
<1> QED BY <1>3, <1>5, <1>6, <1>7 DEF Admit

(* What fits without the superseded record leaves room for one build with  *)
(* it.                                                                     *)
LEMMA RoomAfter ==
  ASSUME CacheAssumption, CacheTypeOK, IndexesAgree, rec' = rec, Cached' \subseteq Cached,
         NEW Q, Q \subseteq Cached, NEW x, Cached' \subseteq Q \cup {x}, Fits(Q, 1, BundleMax)
  PROVE  Cardinality(Cached)' <= MaxEntries /\ Bytes(Cached)' <= MaxBytes
<1> DEFINE v == [i \in Cached' |-> SizeOf[rec'[i].digest]]
           w == [i \in Q |-> SizeOf[rec[i].digest]]
<1>1. /\ IsFiniteSet(Cached)
      /\ \A i \in Cached : SizeOf[rec[i].digest] \in Nat /\ SizeOf[rec[i].digest] <= BundleMax
  BY CachedIs
<1>2. IsFiniteSet(Q) /\ IsFiniteSet(Cached')
  BY <1>1, FS_Subset
<1>3. MaxEntries \in Nat /\ MaxBytes \in Nat /\ BundleMax \in Nat
  BY DEF CacheAssumption
<1>4. Bytes(Q) = SumFunctionOnSet(w, Q)
  BY BytesIs
<1>5. Bytes(Cached)' = SumFunctionOnSet(v, Cached')
  BY DEF Bytes, Size, SumFunction
<1>6. /\ \A i \in Q : w[i] \in Nat
      /\ \A i \in Cached' \ {x} : v[i] = w[i]
      /\ \A i \in Cached' : v[i] \in Nat /\ v[i] <= BundleMax
  BY <1>1
<1>7. Cardinality(Q) + 1 <= MaxEntries /\ Bytes(Q) + BundleMax <= MaxBytes
  BY DEF Fits
<1> HIDE DEF v, w
<1>8. Cardinality(Cached') <= MaxEntries
  <2> DEFINE R == Q \cup {x}
  <2>1. IsFiniteSet(R) /\ (Cardinality(R) = Cardinality(Q) \/ Cardinality(R) = Cardinality(Q) + 1)
    BY <1>2, FS_AddElement
  <2>2. Cached' \subseteq R
    OBVIOUS
  <2> HIDE DEF R
  <2>3. Cardinality(Cached') <= Cardinality(R)
    BY <2>1, <2>2, FS_Subset
  <2>4. Cardinality(Cached') \in Nat /\ Cardinality(Q) \in Nat /\ Cardinality(R) \in Nat
    BY <1>2, <2>1, FS_CardinalityType
  <2> QED BY <2>1, <2>3, <2>4, <1>3, <1>7
<1>9. Bytes(Cached)' <= MaxBytes
  <2>1. CASE x \in Cached'
    <3>1. v[x] \in Nat /\ v[x] <= BundleMax
      BY <1>6, <2>1
    <3>2. /\ SumFunctionOnSet(v, Cached') \in Nat /\ SumFunctionOnSet(w, Q) \in Nat
          /\ SumFunctionOnSet(v, Cached') <= SumFunctionOnSet(w, Q) + v[x]
      BY <1>2, <1>6, <3>1, SumOneMore
    <3> QED BY <3>1, <3>2, <1>3, <1>4, <1>5, <1>7
  <2>2. CASE x \notin Cached'
    <3>1. Cached' \subseteq Q /\ \A i \in Cached' : v[i] = w[i]
      BY <1>6, <2>2
    <3>2. /\ SumFunctionOnSet(v, Cached') \in Nat /\ SumFunctionOnSet(w, Q) \in Nat
          /\ SumFunctionOnSet(v, Cached') <= SumFunctionOnSet(w, Q)
      BY <1>2, <1>6, <3>1, SumFewer
    <3> QED BY <3>2, <1>3, <1>4, <1>5, <1>7
  <2> QED BY <2>1, <2>2
<1> QED BY <1>8, <1>9

LEMMA ReserveKeeps == ASSUME CacheAssumption, CacheInv, NEW t \in Tabs, Reserve(t) PROVE CacheInv'
<1> DEFINE old == req[t].old
           S == Counted(Cached, old, ClientOf[t])
<1>0. /\ CacheTypeOK /\ IndexesAgree /\ BuildsCounted /\ DirectoriesHeld /\ AdmissionHeld /\ RoomHeld /\ OneBuilder
      /\ CacheWithinLimits /\ req[t].step = "reserve" /\ ~At(t, "idle") /\ t \in Tabs
      /\ UNCHANGED <<clock, rec, dirs, windows, token, seen, built, posts>>
  BY InvParts DEF Reserve, At, tabs, RoomHeld
<1>1. PICK V \in Evictions(S, Unpinnable(S, 0), 1, BundleMax) :
             /\ Forget(V)
             /\ \/ /\ Fits(S \ V, 1, BundleMax)
                   /\ req' = [req EXCEPT ![t].step = "mkdir", ![t].victims = V]
                   /\ UNCHANGED builder
                \/ End(t) /\ builder' = {}
  BY DEF Reserve
<1>2. S \subseteq Cached /\ Cached \subseteq S \cup {old}
  BY CountedIn
<1> HIDE DEF S, old
<1>3. V \subseteq Cached
  BY <1>1, <1>2, EvictionsIn
<1>4. /\ PinsWithin' /\ CacheShrinks /\ byDigest' \in [Digests -> Slots] /\ rec' \in [Ids -> Records]
      /\ Cached' = Cached \ V /\ byToken' = byToken \ V /\ V \subseteq byToken /\ V \in SUBSET Ids
  BY <1>0, <1>1, <1>3, ForgetIs
<1>5. CASE End(t) /\ builder' = {}
  <2>1. PICK q \in Requests : req' = [req EXCEPT ![t] = q] /\ q.step = "idle" /\ q.rec = 0 /\ q.victims = {}
    BY <1>5, EndIs
  <2> QED BY <1>0, <1>1, <1>3, <1>5, <2>1, PruneKeepsInv DEF Admitted, Awaiting, BuildSteps
<1>6. CASE /\ Fits(S \ V, 1, BundleMax)
           /\ req' = [req EXCEPT ![t].step = "mkdir", ![t].victims = V]
           /\ UNCHANGED builder
  <2> DEFINE q == [req[t] EXCEPT !.step = "mkdir", !.victims = V]
  <2>1. req[t] \in Requests /\ req \in [Tabs -> Requests] /\ req[t].digest \in Digests
    BY <1>0 DEF CacheTypeOK, At
  <2>2. /\ q \in Requests /\ q.step = "mkdir" /\ q.digest = req[t].digest /\ q.rec = req[t].rec
        /\ q.victims = V /\ q.fresh = req[t].fresh /\ q.max = req[t].max
    BY <2>1, <1>4 DEF Requests, Steps, BuildSteps
  <2>3. req' = [req EXCEPT ![t] = q]
    BY <1>6, <2>1
  <2> HIDE DEF q
  <2>4. req'[t] = q /\ (\A s \in Tabs \ {t} : req'[s] = req[s]) /\ req' \in [Tabs -> Requests]
    BY <2>1, <2>2, <2>3
  <2>5. CacheTypeOK'
    BY <1>0, <1>4, <2>1, <2>2, <2>4 DEF CacheTypeOK, At
  <2>6. OneBuilder'
    BY <1>0, <1>6, <2>2, <2>3, NextBuilder DEF BuildSteps
  <2>7. Counting /\ Admitting
    BY <1>0, <2>2, <2>4 DEF Counting, Awaiting, Admitting, Admitted
  <2>8. Owning
    <3>1. \A s \in Tabs : req[s].victims \cap byToken = {} /\ (Building(s) => req[s].rec \in dirs)
      BY DirectoriesLast
    <3>2. req'[t].rec = req[t].rec /\ req'[t].victims = V /\ req'[t].step = "mkdir"
      BY <2>2, <2>4
    <3> QED BY <1>0, <1>4, <2>4, <3>1, <3>2 DEF Owning, Building
  <2>9. /\ byToken' \subseteq dirs' /\ dirs' \subseteq dirs /\ clock' \in Nat /\ clock <= clock'
        /\ WindowsKept /\ LiveWindows' \subseteq LiveWindows
    BY <1>0, <1>4, LiveKept DEF IndexesAgree, WindowsKept, CacheTypeOK
  <2>10. BuildsCounted'
    BY <1>0, <2>7, CountKept DEF CacheTypeOK
  <2>11. DirectoriesHeld'
    BY <1>0, <1>4, <2>8, <2>9, DirectoriesKept
  <2>12. AdmissionHeld'
    BY <1>0, <1>4, <2>7, <2>9, AdmissionKept
  <2>13. RoomHeld'
    <3>1. CacheWithinLimits'
      BY <1>0, <1>4, <2>9, LimitsKept
    <3>2. Cardinality(Cached)' <= MaxEntries /\ Bytes(Cached)' <= MaxBytes
      <4> DEFINE Q == S \ V
      <4>1. Q \subseteq Cached /\ Cached' \subseteq Q \cup {old} /\ Cached' \subseteq Cached /\ Fits(Q, 1, BundleMax)
        BY <1>2, <1>4, <1>6
      <4> HIDE DEF Q
      <4> QED BY <1>0, <4>1, RoomAfter
    <3> QED BY <3>1, <3>2 DEF RoomHeld
  <2> QED BY <2>5, <2>6, <2>10, <2>11, <2>12, <2>13 DEF CacheInv
<1> QED BY <1>1, <1>5, <1>6

(* A new bundle is registered in the place of its digest's last one. *)
LEMMA RegisterIs ==
  ASSUME CacheAssumption, CacheInv, NEW t \in Tabs, Register(t)
  PROVE  LET i == req[t].rec  d == req[t].digest  c == ClientOf[t] IN
         /\ i \in Ids /\ d \in Digests /\ c \in Clients /\ i \in dirs /\ i \notin byToken /\ i \notin Cached
         /\ rec' \in [Ids -> Records] /\ \A j \in Ids \ {i} : rec'[j] = rec[j]
         /\ rec'[i].digest = d /\ rec'[i].max = req[t].max /\ rec'[i].creator = c
         /\ rec'[i].lease[c] = Fewer(clock + Grace, req[t].max) /\ rec'[i].count[c] = 1
         /\ \A e \in Clients \ {c} : rec'[i].lease[e] = 0
         /\ byDigest' \in [Digests -> Slots] /\ byDigest'[d] = i
         /\ \A e \in Digests \ {d} : byDigest'[e] = byDigest[e]
         /\ byToken' = (byToken \ {byDigest[d]}) \cup {i}
         /\ windows' \in [Digests -> Windows] /\ windows'[d].max = req[t].max
         /\ \A e \in Digests \ {d} : windows'[e] = windows[e]
         /\ req' \in [Tabs -> Requests] /\ \A s \in Tabs \ {t} : req'[s] = req[s]
         /\ req'[t].step = "trim" /\ req'[t].digest = d /\ req'[t].rec = i
         /\ req'[t].victims = {byDigest[d]} \ {0} /\ req'[t].by = req[t].by
<1> DEFINE i == req[t].rec
           d == req[t].digest
           c == ClientOf[t]
<1>0. /\ CacheTypeOK /\ IndexesAgree /\ DirectoriesHeld /\ At(t, "register") /\ ~At(t, "idle") /\ Building(t)
      /\ req[t] \in Requests /\ req \in [Tabs -> Requests] /\ windows \in [Digests -> Windows]
      /\ byDigest \in [Digests -> Slots] /\ rec \in [Ids -> Records] /\ clock \in Nat
  BY InvParts DEF Register, At, Building, CacheTypeOK
<1>1. i \in Ids /\ d \in Digests /\ c \in Clients /\ i \in dirs /\ i \notin byToken /\ i \notin Cached
  <2>1. i \in dirs \ byToken /\ dirs \subseteq 1..built
    BY <1>0 DEF DirectoriesHeld
  <2>2. i # 0
    BY <2>1
  <2>3. i \in Slots
    BY <1>0 DEF Requests
  <2>4. d \in Digests /\ c \in Clients
    BY <1>0 DEF CacheTypeOK, CacheAssumption
  <2>5. byToken = Cached
    BY <1>0 DEF IndexesAgree
  <2> HIDE DEF i, d, c
  <2> QED BY <2>1, <2>2, <2>3, <2>4, <2>5 DEF Slots
<1>2. PICK until \in Nat : until = Fewer(clock + Grace, req[t].max)
  <2>1. PICK g \in Nat : g = clock + Grace
    BY <1>0 DEF CacheAssumption
  <2>2. req[t].max \in Nat
    BY <1>0 DEF Requests
  <2>3. Fewer(g, req[t].max) \in Nat
    BY <2>2, LeastClock
  <2> QED BY <2>1, <2>3
<1>3. PICK m \in Nat : m = req[t].max
  BY <1>0 DEF Requests
<1>4. PICK K \in SUBSET Clients : K = WindowKeys(t) \cup IF Proxied THEN {c} ELSE {}
  <2>1. windows[d].keys \subseteq Clients
    BY <1>0, <1>1 DEF Windows
  <2>2. WindowKeys(t) \subseteq Clients
    BY <2>1 DEF WindowKeys
  <2>3. (IF Proxied THEN {c} ELSE {}) \subseteq Clients
    BY <1>1
  <2> HIDE DEF d, c
  <2>4. (WindowKeys(t) \cup IF Proxied THEN {c} ELSE {}) \in SUBSET Clients
    BY <2>2, <2>3
  <2> QED BY <2>4
<1> DEFINE lease == [NoLease EXCEPT ![c] = until]
           count == [NoLease EXCEPT ![c] = 1]
           r == [digest |-> d, used |-> clock, max |-> m, creator |-> c, lease |-> lease, count |-> count]
           w == [max |-> m, released |-> windows[d].released, keys |-> K]
           old == byDigest[d]
           q == [req[t] EXCEPT !.step = "trim", !.created = TRUE, !.victims = {old} \ {0}]
<1>5. rec' = [rec EXCEPT ![i] = r]
  BY <1>2, <1>3 DEF Register
<1>6. windows' = [windows EXCEPT ![d] = w]
  BY <1>3, <1>4 DEF Register
<1>7. byDigest' = [byDigest EXCEPT ![d] = i] /\ byToken' = (byToken \ {old}) \cup {i}
  BY DEF Register
<1>8. req' = [req EXCEPT ![t] = q]
  BY <1>0 DEF Register
<1>9. q \in Requests /\ q.step = "trim" /\ q.digest = d /\ q.rec = i /\ q.victims = {old} \ {0} /\ q.by = req[t].by
  <2>1. old \in Slots
    BY <1>0, <1>1
  <2> HIDE DEF old
  <2>2. {old} \ {0} \in SUBSET Ids
    BY <2>1 DEF Slots
  <2> QED BY <1>0, <2>2 DEF Requests, Steps, BuildSteps
<1> HIDE DEF q
<1>10. /\ lease \in [Clients -> Nat] /\ lease[c] = until /\ count \in [Clients -> Nat] /\ count[c] = 1
       /\ \A e \in Clients \ {c} : lease[e] = 0
  <2> HIDE DEF c
  <2> QED BY <1>1 DEF NoLease
<1> HIDE DEF lease, count
<1>11. /\ r \in Records /\ r.digest = d /\ r.max = m /\ r.creator = c /\ r.lease = lease /\ r.count = count
  <2> HIDE DEF c, d
  <2> QED BY <1>0, <1>1, <1>10 DEF Records
<1> HIDE DEF r
<1>12. w \in Windows /\ w.max = m
  <2>1. windows[d].released \in BOOLEAN
    BY <1>0, <1>1 DEF Windows
  <2> QED BY <2>1 DEF Windows
<1> HIDE DEF w
<1>13. /\ rec' \in [Ids -> Records] /\ rec'[i] = r /\ \A j \in Ids \ {i} : rec'[j] = rec[j]
  <2> HIDE DEF i
  <2> QED BY <1>0, <1>1, <1>5, <1>11
<1>14. /\ windows' \in [Digests -> Windows] /\ windows'[d] = w /\ \A e \in Digests \ {d} : windows'[e] = windows[e]
  <2> HIDE DEF d
  <2> QED BY <1>0, <1>1, <1>6, <1>12
<1>15. /\ byDigest' \in [Digests -> Slots] /\ byDigest'[d] = i /\ \A e \in Digests \ {d} : byDigest'[e] = byDigest[e]
  <2> HIDE DEF d, i
  <2> QED BY <1>0, <1>1, <1>7 DEF Slots
<1>16. /\ req' \in [Tabs -> Requests] /\ req'[t] = q /\ \A s \in Tabs \ {t} : req'[s] = req[s]
  BY <1>0, <1>8, <1>9
<1> QED BY <1>1, <1>2, <1>3, <1>7, <1>9, <1>10, <1>11, <1>12, <1>13, <1>14, <1>15, <1>16

(* There is room for the bundle that is registered.                        *)
LEMMA RegisterRoom ==
  ASSUME CacheAssumption, CacheInv, NEW t \in Tabs, Register(t),
         Cached' \subseteq Cached \cup {req[t].rec}
  PROVE  Cardinality(Cached)' <= MaxEntries + 1 /\ Bytes(Cached)' <= MaxBytes + BundleMax
<1>0. /\ CacheTypeOK /\ IndexesAgree /\ RoomHeld /\ req[t].step = "register"
  BY InvParts DEF Register, At
<1> DEFINE i == req[t].rec
           v == [j \in Cached' |-> SizeOf[rec'[j].digest]]
           w == [j \in Cached |-> SizeOf[rec[j].digest]]
<1>1. /\ i \in Ids /\ i \notin Cached /\ req[t].digest \in Digests
      /\ \A j \in Ids \ {i} : rec'[j] = rec[j]
      /\ rec'[i].digest = req[t].digest /\ byDigest'[req[t].digest] = i
  BY RegisterIs
<1>2. /\ IsFiniteSet(Cached) /\ Cached \subseteq Ids
      /\ \A j \in Cached : SizeOf[rec[j].digest] \in Nat
  BY <1>0, CachedIs
<1>3. MaxEntries \in Nat /\ MaxBytes \in Nat /\ BundleMax \in Nat
      /\ \A d \in Digests : SizeOf[d] \in Nat /\ SizeOf[d] <= BundleMax
  BY DEF CacheAssumption
<1>4. i \in Cached'
  <2>1. i # 0
    BY <1>1 DEF Ids
  <2> QED BY <1>1, <2>1 DEF Cached
<1>5. v[i] \in Nat /\ v[i] <= BundleMax
  BY <1>1, <1>3, <1>4
<1>6. (\A j \in Cached : w[j] \in Nat) /\ (\A j \in Cached' \ {i} : v[j] = w[j])
  BY <1>1, <1>2
<1>7. Bytes(Cached) = SumFunctionOnSet(w, Cached)
  BY BytesIs
<1>8. Bytes(Cached)' = SumFunctionOnSet(v, Cached')
  BY DEF Bytes, Size, SumFunction
<1>9. Cardinality(Cached) <= MaxEntries /\ Bytes(Cached) <= MaxBytes
  BY <1>0 DEF RoomHeld
<1>10. Cached' \subseteq Cached \cup {i}
  OBVIOUS
<1> HIDE DEF v, w, i
<1>11. /\ SumFunctionOnSet(v, Cached') \in Nat /\ SumFunctionOnSet(w, Cached) \in Nat
       /\ SumFunctionOnSet(v, Cached') <= SumFunctionOnSet(w, Cached) + v[i]
  BY <1>2, <1>5, <1>6, <1>10, SumOneMore
<1>12. Bytes(Cached)' <= MaxBytes + BundleMax
  BY <1>3, <1>5, <1>7, <1>8, <1>9, <1>11
<1>13. Cardinality(Cached') <= MaxEntries + 1
  <2> DEFINE R == Cached \cup {i}
  <2>1. IsFiniteSet(R) /\ (Cardinality(R) = Cardinality(Cached) \/ Cardinality(R) = Cardinality(Cached) + 1)
    BY <1>2, FS_AddElement
  <2>2. Cached' \subseteq R
    BY <1>10
  <2> HIDE DEF R
  <2>3. IsFiniteSet(Cached') /\ Cardinality(Cached') <= Cardinality(R)
    BY <2>1, <2>2, FS_Subset
  <2>4. Cardinality(Cached') \in Nat /\ Cardinality(Cached) \in Nat /\ Cardinality(R) \in Nat
    BY <1>2, <2>1, <2>3, FS_CardinalityType
  <2> QED BY <2>1, <2>3, <2>4, <1>3, <1>9
<1> QED BY <1>12, <1>13

LEMMA RegisterKeeps == ASSUME CacheAssumption, CacheInv, NEW t \in Tabs, Register(t) PROVE CacheInv'
<1>0. /\ CacheTypeOK /\ IndexesAgree /\ BuildsCounted /\ DirectoriesHeld /\ AdmissionHeld /\ RoomHeld /\ OneBuilder
      /\ PinsWithin /\ req[t].step = "register" /\ Building(t) /\ t \in Tabs
      /\ Registrable(t) /\ clock < req[t].max
      /\ UNCHANGED <<clock, dirs, builder, token, seen, built, posts>>
  BY InvParts DEF Register, Registrable, At, tabs, Building
<1>d. PICK d \in Digests : d = req[t].digest
  BY RegisterIs
<1>i. PICK i \in Ids : i = req[t].rec
  BY RegisterIs
<1>c. PICK c \in Clients : c = ClientOf[t]
  BY RegisterIs
<1>1. /\ i \in dirs /\ i \notin byToken /\ i \notin Cached
      /\ rec' \in [Ids -> Records] /\ \A j \in Ids \ {i} : rec'[j] = rec[j]
      /\ rec'[i].digest = d
      /\ \A e \in Clients \ {c} : rec'[i].lease[e] = 0
      /\ byDigest' \in [Digests -> Slots] /\ byDigest'[d] = i
      /\ \A e \in Digests \ {d} : byDigest'[e] = byDigest[e]
      /\ byToken' = (byToken \ {byDigest[d]}) \cup {i}
  BY <1>d, <1>i, <1>c, RegisterIs
<1>2. /\ windows' \in [Digests -> Windows] /\ windows'[d].max = req[t].max
      /\ \A e \in Digests \ {d} : windows'[e] = windows[e]
  BY <1>d, RegisterIs
<1>3. /\ req' \in [Tabs -> Requests] /\ \A s \in Tabs \ {t} : req'[s] = req[s]
      /\ req'[t].step = "trim" /\ req'[t].digest = d /\ req'[t].rec = i
      /\ req'[t].victims = {byDigest[d]} \ {0}
  BY <1>d, <1>i, RegisterIs
<1>4. CacheTypeOK'
  BY <1>0, <1>1, <1>2, <1>3 DEF CacheTypeOK, At
<1>5. /\ Cached \subseteq Ids /\ byToken = Cached /\ byToken \subseteq dirs /\ i # 0
      /\ \A e \in Digests : byDigest[e] # 0 => rec[byDigest[e]].digest = e
  BY <1>0, CachedIs DEF IndexesAgree, Ids
<1>6. Cached' = (Cached \ {byDigest[d]}) \cup {i}
  <2>1. \A e \in Digests \ {d} : byDigest[e] # 0 => byDigest[e] # byDigest[d]
    BY <1>5
  <2>2. \A e \in Digests \ {d} : byDigest'[e] # 0 => byDigest'[e] \in Cached \ {byDigest[d]}
    BY <2>1, <1>1 DEF Cached
  <2>3. Cached' \subseteq (Cached \ {byDigest[d]}) \cup {i}
    BY <2>2, <1>1 DEF Cached
  <2>4. i \in Cached'
    BY <1>1, <1>5 DEF Cached
  <2>5. ASSUME NEW j \in Cached, j # byDigest[d] PROVE j \in Cached'
    <3>1. PICK e \in Digests : j = byDigest[e] /\ j # 0
      BY DEF Cached
    <3>2. e # d
      BY <3>1, <2>5
    <3>3. byDigest'[e] = j
      BY <1>1, <3>1, <3>2
    <3> QED BY <3>1, <3>3 DEF Cached
  <2> QED BY <2>3, <2>4, <2>5
<1>7. IndexesAgree'
  <2>1. ASSUME NEW e \in Digests, byDigest'[e] # 0 PROVE rec'[byDigest'[e]].digest = e
    <3>1. CASE e = d
      BY <1>1, <3>1
    <3>2. CASE e # d
      <4>1. byDigest'[e] = byDigest[e] /\ byDigest[e] \in Cached
        BY <1>1, <2>1, <3>2 DEF Cached
      <4>2. rec'[byDigest[e]] = rec[byDigest[e]]
        BY <1>1, <1>5, <4>1
      <4> QED BY <1>5, <2>1, <4>1, <4>2
    <3> QED BY <3>1, <3>2
  <2>2. byToken' = Cached' /\ byToken' \subseteq dirs'
    BY <1>0, <1>1, <1>5, <1>6
  <2> QED BY <2>1, <2>2 DEF IndexesAgree
<1>8. OneBuilder'
  <2>1. \A s \in Tabs : req'[s].step \in BuildSteps <=> req[s].step \in BuildSteps
    BY <1>0, <1>3 DEF BuildSteps
  <2> QED BY <1>0, <2>1 DEF OneBuilder
<1>9. BuildsCounted'
  <2>1. Counting
    BY <1>3 DEF Counting, Awaiting
  <2> QED BY <1>0, <2>1, CountKept DEF CacheTypeOK
<1>10. \A s \in Tabs : req'[s].step \notin Admitted
  BY <1>0, <1>3 DEF OneBuilder, Admitted, BuildSteps
<1>11. AdmissionHeld'
  BY <1>10 DEF AdmissionHeld, Admitted
<1>12. DirectoriesHeld'
  <2>1. dirs \subseteq 1..built
    BY <1>0 DEF DirectoriesHeld
  <2>2. ASSUME NEW s \in Tabs
        PROVE  /\ req'[s].rec <= built' /\ token'[s] <= built'
               /\ req'[s].victims \subseteq 1..built' /\ req'[s].victims \cap byToken' = {}
    <3>1. /\ req[s].rec <= built /\ token[s] <= built /\ req[s].victims \subseteq 1..built
          /\ req[s].victims \cap byToken = {} /\ i \notin req[s].victims
      BY <1>0, <1>i DEF DirectoriesHeld
    <3>2. CASE s = t
      <4>1. req'[s].victims = {byDigest[d]} \ {0} /\ req'[s].rec = req[s].rec
        BY <1>3, <1>i, <3>2
      <4>2. byDigest[d] # 0 => byDigest[d] \in Cached
        BY DEF Cached
      <4>3. req'[s].victims \subseteq 1..built
        BY <4>1, <4>2, <1>5, <2>1
      <4>4. req'[s].victims \cap byToken' = {}
        BY <4>1, <4>2, <1>1, <1>5
      <4> QED BY <1>0, <3>1, <4>1, <4>3, <4>4
    <3>3. CASE s # t
      BY <1>0, <1>1, <1>3, <3>1, <3>3
    <3> QED BY <3>2, <3>3
  <2>3. \A s \in Tabs : ~Building(s)'
    BY <1>10 DEF Building, Admitted
  <2> QED BY <1>0, <1>7, <2>1, <2>2, <2>3 DEF DirectoriesHeld
<1>13. PinsWithin'
  <2> DEFINE old == req[t].old
             size == SizeOf[req[t].digest]
  <2>1. PinFits(i, size, c, old)
    BY <1>0, <1>i, <1>c DEF Registrable
  <2>2. Cached' \subseteq Cached \cup {i}
    BY <1>6
  <2>3. \A j \in Cached' \ {i}, e \in Clients : Leased(j, e)' => Leased(j, e)
    BY <1>0, <1>1, <1>5, <1>6 DEF Leased
  <2>4. \A e \in Clients \ {c} : ~Leased(i, e)'
    <3>1. clock \in Nat
      BY <1>0 DEF CacheTypeOK
    <3> QED BY <1>0, <1>1, <3>1 DEF Leased
  <2> HIDE DEF old, size
  <2> QED BY <1>0, <2>1, <2>2, <2>3, <2>4, OnePinMore
<1>14. Cardinality(LiveWindows)' <= MaxWindows
  <2>0. /\ MaxWindows \in Nat /\ IsFiniteSet(LiveWindows) /\ Cardinality(LiveWindows) <= MaxWindows
        /\ windows \in [Digests -> Windows] /\ clock \in Nat /\ req[t].max \in Nat /\ req[t].fresh \in BOOLEAN
    <3>1. LiveWindows \subseteq Digests /\ IsFiniteSet(Digests)
      BY DEF LiveWindows, CacheAssumption
    <3>2. MaxWindows \in Nat
      BY DEF CacheAssumption
    <3>3. req[t] \in Requests
      BY <1>0 DEF CacheTypeOK
    <3>4. req[t].max \in Nat /\ req[t].fresh \in BOOLEAN
      BY <3>3 DEF Requests
    <3> QED BY <1>0, <3>1, <3>2, <3>4, FS_Subset DEF CacheTypeOK, RoomHeld, CacheWithinLimits
  <2>1. LiveWindows' \subseteq LiveWindows \cup {d}
    BY <1>2 DEF LiveWindows
  <2>2. CASE req[t].fresh
    <3>1. Cardinality(LiveWindows) < MaxWindows
      BY <1>0, <2>2 DEF AdmissionHeld
    <3> DEFINE R == LiveWindows \cup {d}
    <3>2. IsFiniteSet(R) /\ (Cardinality(R) = Cardinality(LiveWindows) \/ Cardinality(R) = Cardinality(LiveWindows) + 1)
      BY <2>0, FS_AddElement
    <3>3. LiveWindows' \subseteq R
      BY <2>1
    <3> HIDE DEF R
    <3>4. IsFiniteSet(LiveWindows') /\ Cardinality(LiveWindows') <= Cardinality(R)
      BY <3>2, <3>3, FS_Subset
    <3>5. Cardinality(LiveWindows') \in Nat /\ Cardinality(LiveWindows) \in Nat /\ Cardinality(R) \in Nat
      BY <2>0, <3>2, <3>4, FS_CardinalityType
    <3> QED BY <3>1, <3>2, <3>4, <3>5, <2>0
  <2>3. CASE ~req[t].fresh
    <3>1. windows[d].max = req[t].max
      BY <1>0, <1>d, <2>3 DEF AdmissionHeld
    <3>2. d \in LiveWindows
      BY <1>0, <2>0, <3>1 DEF LiveWindows
    <3>3. LiveWindows' \subseteq LiveWindows
      BY <2>1, <3>2
    <3>4. Cardinality(LiveWindows') \in Nat /\ Cardinality(LiveWindows) \in Nat
          /\ Cardinality(LiveWindows') <= Cardinality(LiveWindows)
      BY <2>0, <3>3, FS_Subset, FS_CardinalityType
    <3> QED BY <3>4, <2>0
  <2> QED BY <2>2, <2>3
<1>15. RoomHeld'
  <2>1. Cardinality(Cached)' <= MaxEntries + 1 /\ Bytes(Cached)' <= MaxBytes + BundleMax
    BY <1>6, <1>i, RegisterRoom
  <2>2. CacheWithinLimits'
    BY <1>13, <1>14, <2>1 DEF CacheWithinLimits, PinsWithin
  <2>3. \A s \in Tabs : req'[s].step \notin Roomy
    BY <1>10 DEF Roomy, Admitted
  <2> QED BY <2>2, <2>3 DEF RoomHeld, Roomy
<1> QED BY <1>4, <1>8, <1>9, <1>11, <1>12, <1>15 DEF CacheInv

(* The invariant holds at first, and with every step.                      *)
LEMMA CacheStarts == ASSUME CacheAssumption, Init PROVE CacheInv
<1>0. /\ clock = 0 /\ rec = [i \in Ids |-> NoRecord] /\ byDigest = [d \in Digests |-> 0]
      /\ byToken = {} /\ dirs = {} /\ builder = {} /\ windows = [d \in Digests |-> NoWindow]
      /\ req = [t \in Tabs |-> Idle] /\ token = [t \in Tabs |-> 0] /\ seen = [t \in Tabs |-> 0]
      /\ built = 0 /\ posts = 0
  BY DEF Init
<1>1. NoRecord \in Records
  <2>1. NoLease \in [Clients -> Nat]
    BY DEF NoLease
  <2>2. (CHOOSE c \in Clients : TRUE) \in Clients
    BY DEF CacheAssumption
  <2> QED BY <2>1, <2>2 DEF NoRecord, Records
<1>2. NoWindow \in Windows /\ NoWindow.max = 0
  BY DEF NoWindow, Windows
<1>3. Idle \in Requests /\ Idle.step = "idle" /\ Idle.rec = 0 /\ Idle.victims = {}
  BY DEF Idle, Requests, Steps, Slots
<1>4. CacheTypeOK
  BY <1>0, <1>1, <1>2, <1>3 DEF CacheTypeOK, At, Slots
<1>5. \A t \in Tabs : req[t] = Idle
  BY <1>0
<1>6. Cached = {} /\ LiveWindows = {} /\ Cardinality({}) = 0 /\ IsFiniteSet({})
  BY <1>0, <1>2, FS_EmptySet DEF Cached, LiveWindows
<1>7. BuildsCounted
  <2>1. Unbuilt = {}
    BY <1>3, <1>5 DEF Unbuilt
  <2>2. MaxPosts \in Nat
    BY DEF CacheAssumption
  <2> QED BY <1>0, <1>6, <2>1, <2>2 DEF BuildsCounted
<1>8. OneBuilder
  BY <1>0, <1>3, <1>5 DEF OneBuilder, BuildSteps
<1>9. DirectoriesHeld
  BY <1>0, <1>3, <1>5, <1>6 DEF DirectoriesHeld, IndexesAgree, Building
<1>10. AdmissionHeld
  BY <1>3, <1>5 DEF AdmissionHeld
<1>11. RoomHeld
  <2>1. Bytes({}) = 0
    BY SumEmpty, BytesIs
  <2>2. /\ MaxEntries \in Nat /\ MaxBytes \in Nat /\ BundleMax \in Nat /\ MaxWindows \in Nat /\ ClientPins \in Nat
    BY DEF CacheAssumption
  <2>3. {i \in Cached : Pinned(i)} = {} /\ \A c \in Clients : {i \in Cached : Leased(i, c)} = {}
    BY <1>6
  <2>4. CacheWithinLimits
    BY <1>6, <2>1, <2>2, <2>3 DEF CacheWithinLimits
  <2> QED BY <1>3, <1>5, <2>4 DEF RoomHeld
<1> QED BY <1>4, <1>7, <1>8, <1>9, <1>10, <1>11 DEF CacheInv

LEMMA CacheSteps == ASSUME CacheAssumption, CacheInv, [Next]_vars PROVE CacheInv'
<1>1. CASE Tick
  BY <1>1, TickKeeps
<1>2. CASE \E t \in Tabs : Serve(t) \/ Get(t) \/ Reload(t) \/ \E d \in Digests : Post(t, d)
  <2>1. PICK t \in Tabs : Serve(t) \/ Get(t) \/ Reload(t) \/ \E d \in Digests : Post(t, d)
    BY <1>2
  <2>2. CASE Get(t) \/ Reload(t) \/ \E d \in Digests : Post(t, d)
    BY <2>2, GetKeeps, ReloadKeeps, PostKeeps
  <2>3. CASE Lookup(t) \/ Acquire(t) \/ GiveUp(t) \/ Admit(t) \/ Reserve(t) \/ Mkdir(t) \/ Render(t)
    BY <2>3, LookupKeeps, AcquireKeeps, GiveUpKeeps, AdmitKeeps, ReserveKeeps, MkdirKeeps, RenderKeeps
  <2>4. CASE Register(t) \/ Unregistrable(t) \/ Trim(t) \/ Finish(t) \/ Deliver(t)
    BY <2>4, RegisterKeeps, UnregistrableKeeps, TrimKeeps, FinishKeeps, DeliverKeeps
  <2>5. CASE Abandon(t) \/ ReleaseOld(t) \/ KeepOld(t) \/ Prune(t) \/ Sweep(t)
    BY <2>5, AbandonKeeps, ReleaseOldKeeps, KeepOldKeeps, PruneKeeps, SweepKeeps
  <2> QED BY <2>1, <2>2, <2>3, <2>4, <2>5 DEF Serve
<1>3. CASE UNCHANGED vars
  <2>1. UNCHANGED <<clock, rec, byDigest, byToken, dirs, windows, builder, req, token, seen, built, posts>>
    BY <1>3 DEF vars
  <2>2. CacheTypeOK /\ clock <= clock'
    BY <2>1, InvParts DEF CacheTypeOK
  <2>3. CacheTypeOK'
    BY <2>1, <2>2 DEF CacheTypeOK, At
  <2> QED BY <2>1, <2>2, <2>3, UntouchedCache, StillRequests, ShrinkStep
<1> QED BY <1>1, <1>2, <1>3 DEF Next

(* The invariant is as strong as the property.                             *)
LEMMA CacheInvHolds == CacheInv => CacheCoherent
<1> SUFFICES ASSUME CacheInv PROVE CacheCoherent
  OBVIOUS
<1>1. IndexesAgree /\ CacheWithinLimits /\ OneBuilder /\ AdmissionHeld
  BY InvParts DEF RoomHeld
<1>2. builder = {t \in Tabs : req[t].step \in {"admit", "reserve", "mkdir", "render", "register", "trim", "finish"}}
  BY <1>1 DEF OneBuilder, BuildSteps
<1>3. Cardinality(builder) <= 1
  <2>1. CASE builder = {}
    BY <2>1, FS_EmptySet
  <2>2. CASE builder # {}
    <3>1. PICK t : t \in builder
      BY <2>2
    <3>2. builder = {t}
      BY <1>1, <3>1 DEF OneBuilder
    <3>3. Cardinality({t}) = 1
      BY FS_Singleton
    <3> QED BY <3>2, <3>3
  <2> QED BY <2>1, <2>2
<1>4. BuildUncontested
  BY <1>1, <1>2, <1>3 DEF BuildUncontested, AdmissionHeld, At
<1> QED BY <1>1, <1>4 DEF CacheCoherent

(* What every thread of the editor server relies on between its critical   *)
(* sections holds, whatever the others forget, supersede, register or prune*)
(* meanwhile: the two indexes name the same records, each registered record*)
(* has its directory, one thread builds at a time and finds no live record of*)
(* its digest when it registers, and entries, bytes, pins and windows stay *)
(* within the limits, for any number of tabs, clients, documents and sizes.*)
THEOREM CacheIsCoherent == Spec => []CacheCoherent
<1>1. Init => CacheInv
  BY CacheStarts, CacheAssumption
<1>2. CacheInv /\ [Next]_vars => CacheInv'
  BY CacheSteps, CacheAssumption
<1> QED BY <1>1, <1>2, CacheInvHolds, PTL DEF Spec

-----------------------------------------------------------------------------
(* Leases hold.                                                            *)

(* A client's leases outlast the step. *)
Preserved(c) ==
  \A i \in byToken : rec[i].lease[c] > clock' =>
    i \in byToken' /\ rec'[i].lease[c] >= rec[i].lease[c] /\ rec'[i].count[c] >= rec[i].count[c]
(* The records registered keep their documents and their lives.            *)
RecordsStay ==
  \A i \in Ids : (\A t \in Tabs : Building(t) => req[t].rec # i) =>
    rec'[i].digest = rec[i].digest /\ rec'[i].max = rec[i].max

(* What is held for a tab is still held when its client's leases outlast   *)
(* the step.                                                               *)
LEMMA HeldStays ==
  ASSUME CacheAssumption, CacheTypeOK, CacheTypeOK', clock <= clock',
         NEW i \in Ids, NEW c \in Clients, NEW asked \in Int, NEW n \in Nat, NEW m \in Nat, m <= n,
         rec'[i].max = rec[i].max, Preserved(c), HeldFor(i, c, asked, n)
  PROVE  HeldFor(i, c, asked, m)'
<1>0. Grace \in Nat /\ clock \in Nat /\ clock' \in Nat /\ Grace' = Grace
  BY DEF CacheAssumption, CacheTypeOK
<1>1. /\ rec[i].max \in Nat /\ rec[i].lease[c] \in Nat /\ rec[i].count[c] \in Nat
      /\ rec'[i].lease[c] \in Nat /\ rec'[i].count[c] \in Nat
  BY DEF CacheTypeOK, Records
<1>2. PICK u \in Int : u = Fewer(asked + Grace, rec[i].max)
  BY <1>0, <1>1 DEF Fewer
<1>3. Until(i, asked) = u /\ Until(i, asked)' = u
  BY <1>2 DEF Until, Fewer
<1>4. SUFFICES ASSUME clock' < u
               PROVE  i \in byToken' /\ rec'[i].lease[c] >= u /\ rec'[i].count[c] >= m
  BY <1>3 DEF HeldFor
<1>5. i \in byToken /\ rec[i].lease[c] >= u /\ rec[i].count[c] >= n
  BY <1>0, <1>2, <1>3, <1>4 DEF HeldFor
<1>6. rec[i].lease[c] > clock'
  BY <1>0, <1>1, <1>2, <1>4, <1>5
<1> QED BY <1>1, <1>2, <1>5, <1>6 DEF Preserved

(* The tab's answer is as before, or nearer. *)
LEMMA AnswerKept ==
  ASSUME CacheAssumption, LeaseInv, CacheTypeOK', clock <= clock', RecordsStay,
         NEW t \in Tabs, Preserved(ClientOf[t]), token'[t] = token[t], seen'[t] = seen[t],
         req'[t].step # "idle" => req[t].step # "idle" /\ req'[t].by = req[t].by,
         req'[t].step \in Settling \cup {"settle"} => req'[t].rec = req[t].rec /\ req'[t].digest = req[t].digest,
         req'[t].step \in Settling => req[t].step \in Settling,
         req'[t].step \in {"trim", "finish"} => req[t].step # "answer",
         req'[t].step = "settle" => req[t].step = "settle"
  PROVE  Answer(t)'
<1>0. /\ CacheTypeOK /\ Answer(t) /\ DirectoriesHeld /\ Timeout \in Nat /\ Timeout' = Timeout
      /\ clock \in Nat /\ clock' \in Nat /\ req[t] \in Requests /\ req[t].by \in Nat /\ req[t].rec \in Slots
      /\ token[t] \in Slots /\ seen[t] \in Int
  <2>1. CacheTypeOK /\ Answer(t) /\ DirectoriesHeld
    BY InvParts DEF LeaseInv, AnswersHeld
  <2>2. req[t] \in Requests
    BY <2>1 DEF CacheTypeOK
  <2> QED BY <2>1, <2>2 DEF CacheTypeOK, CacheAssumption, Requests
<1>1. ASSUME req'[t].step \in Settling
      PROVE  /\ req[t].rec \in Ids /\ rec'[req[t].rec].digest = rec[req[t].rec].digest
             /\ rec'[req[t].rec].max = rec[req[t].rec].max
  <2>1. req[t].rec \in Ids /\ ~Building(t)
    BY <1>0, <1>1 DEF Answer, Settling, Slots, Building
  <2>2. \A s \in Tabs : Building(s) => req[s].rec # req[t].rec
    BY <1>0, <2>1 DEF DirectoriesHeld
  <2> QED BY <2>1, <2>2 DEF RecordsStay
<1>2. ASSUME token[t] # 0
      PROVE  /\ token[t] \in Ids /\ rec'[token[t]].digest = rec[token[t]].digest
             /\ rec'[token[t]].max = rec[token[t]].max
  <2>1. token[t] \in Ids
    BY <1>0, <1>2 DEF Slots
  <2>2. \A s \in Tabs : Building(s) => req[s].rec # token[t]
    BY <1>0 DEF DirectoriesHeld
  <2> QED BY <2>1, <2>2 DEF RecordsStay
<1>3. PICK c \in Clients : c = ClientOf[t]
  BY DEF CacheAssumption
<1>4. req'[t].step # "idle" => Timeout <= req'[t].by /\ req'[t].by <= clock' + Timeout
  BY <1>0 DEF Answer
<1>5. req'[t].step \in Settling => req'[t].rec # 0 /\ rec'[req'[t].rec].digest = req'[t].digest
  BY <1>0, <1>1 DEF Answer
<1>6. req'[t].step \in {"trim", "finish"} => token'[t] # req'[t].rec
  BY <1>0 DEF Answer, Settling
<1>7. At(t, "settle")' /\ token'[t] # 0 => token'[t] = req'[t].rec /\ rec'[token'[t]].digest = req'[t].digest
  BY <1>0, <1>2 DEF Answer, At
<1>8. ASSUME Sole(t)', req'[t].step \in Settling PROVE HeldFor(req[t].rec, ClientOf[t], req[t].by - Timeout, 1)'
  <2>1. PICK i \in Ids : i = req[t].rec
    BY <1>1, <1>8
  <2>2. PICK asked \in Int : asked = req[t].by - Timeout
    BY <1>0
  <2>3. HeldFor(i, c, asked, 1)
    BY <1>0, <1>3, <1>8, <2>1, <2>2 DEF Answer, Sole
  <2>4. rec'[i].max = rec[i].max
    BY <1>1, <1>8, <2>1
  <2>5. HeldFor(i, c, asked, 1)'
    BY <1>0, <1>3, <2>3, <2>4, HeldStays
  <2>6. req'[t].rec = i /\ req'[t].by - Timeout = asked
    BY <1>8, <2>1, <2>2 DEF Settling
  <2> QED BY <1>3, <2>5, <2>6 DEF HeldFor, Until
<1>9. ASSUME Sole(t)', token'[t] # 0 PROVE HeldFor(token[t], ClientOf[t], seen[t], Consumers(t))'
  <2>1. PICK i \in Ids : i = token[t]
    BY <1>2, <1>9
  <2>2. PICK asked \in Int : asked = seen[t]
    BY <1>0
  <2>3. PICK n \in {1, 2} : n = Consumers(t)
    BY DEF Consumers
  <2>4. PICK m \in {1, 2} : m = Consumers(t)'
    BY DEF Consumers
  <2>5. HeldFor(i, c, asked, n)
    BY <1>0, <1>3, <1>9, <2>1, <2>2, <2>3 DEF Answer, Sole
  <2>6. m <= n
    BY <1>0, <2>3, <2>4 DEF Consumers, At, Answer, Settling
  <2>7. rec'[i].max = rec[i].max
    BY <1>2, <1>9, <2>1
  <2>8. HeldFor(i, c, asked, m)'
    BY <1>0, <1>3, <2>5, <2>6, <2>7, HeldStays
  <2> QED BY <1>3, <2>1, <2>2, <2>4, <2>8 DEF HeldFor, Until
<1> QED BY <1>4, <1>5, <1>6, <1>7, <1>8, <1>9 DEF Answer

(* One POST takes a step.                                                  *)
LEMMA StepLeases ==
  ASSUME CacheAssumption, LeaseInv, CacheTypeOK', clock' = clock, RecordsStay,
         NEW t \in Tabs, \A s \in Tabs \ {t} : req'[s] = req[s] /\ token'[s] = token[s] /\ seen'[s] = seen[s],
         req'[t] # req[t] \/ Preserved(ClientOf[t]),
         \A c \in Clients \ {ClientOf[t]} : Preserved(c), Answer(t)'
  PROVE  AnswersHeld' /\ ForeignLeasesKept
<1>1. CacheTypeOK /\ ClientOf[t] \in Clients /\ \A s \in Tabs : ClientOf[s] \in Clients
  BY InvParts DEF LeaseInv, CacheAssumption
<1>2. ForeignLeasesKept
  <2> SUFFICES ASSUME NEW c \in Clients, \A s \in Tabs : ClientOf[s] = c => req'[s] = req[s]
               PROVE  Preserved(c)
    BY DEF ForeignLeasesKept, Preserved
  <2> QED OBVIOUS
<1>3. ASSUME NEW s \in Tabs PROVE Answer(s)'
  <2>1. CASE s = t
    BY <2>1
  <2>2. CASE s # t /\ ClientOf[s] # ClientOf[t]
    <3>1. Preserved(ClientOf[s]) /\ clock <= clock'
      BY <1>1, <2>2 DEF CacheTypeOK
    <3> QED BY <2>2, <3>1, AnswerKept DEF Settling
  <2>3. CASE s # t /\ ClientOf[s] = ClientOf[t]
    <3>1. ~Sole(s)' /\ ~Sole(s)
      BY <2>3 DEF Sole
    <3>2. Answer(s) /\ DirectoriesHeld
      BY InvParts DEF LeaseInv, AnswersHeld
    <3>3. /\ req'[s] = req[s] /\ token'[s] = token[s] /\ clock' = clock /\ req[s].rec \in Slots /\ token[s] \in Slots
          /\ Timeout' = Timeout
      BY <1>1, <2>3 DEF CacheTypeOK, Requests
    <3>4. req[s].step \in Settling => rec'[req[s].rec].digest = rec[req[s].rec].digest
      <4> HAVE req[s].step \in Settling
      <4>1. req[s].rec \in Ids /\ ~Building(s)
        BY <3>2, <3>3 DEF Answer, Settling, Slots, Building
      <4>2. \A u \in Tabs : Building(u) => req[u].rec # req[s].rec
        BY <3>2, <4>1 DEF DirectoriesHeld
      <4> QED BY <4>1, <4>2 DEF RecordsStay
    <3>5. token[s] # 0 => rec'[token[s]].digest = rec[token[s]].digest
      <4> HAVE token[s] # 0
      <4>1. token[s] \in Ids
        BY <3>3 DEF Slots
      <4>2. \A u \in Tabs : Building(u) => req[u].rec # token[s]
        BY <3>2 DEF DirectoriesHeld
      <4> QED BY <4>1, <4>2 DEF RecordsStay
    <3> QED BY <3>1, <3>2, <3>3, <3>4, <3>5 DEF Answer, At
  <2> QED BY <2>1, <2>2, <2>3
<1> QED BY <1>2, <1>3 DEF AnswersHeld

(* What each step is shown to keep of the leases.                          *)
LeasesKept == LeasesBounded' /\ AnswersHeld' /\ ForeignLeasesKept

(* The parts of the invariant that every step needs.                       *)
LEMMA LeaseParts ==
  ASSUME CacheAssumption, LeaseInv
  PROVE  /\ CacheInv /\ CacheTypeOK /\ IndexesAgree /\ DirectoriesHeld /\ LeasesBounded /\ AnswersHeld
         /\ byToken \subseteq Ids /\ byToken = Cached /\ clock \in Nat
         /\ \A i \in Ids, c \in Clients : rec[i].lease[c] \in Nat /\ rec[i].count[c] \in Nat /\ rec[i].max \in Nat
<1>1. CacheInv /\ CacheTypeOK /\ IndexesAgree /\ DirectoriesHeld /\ LeasesBounded /\ AnswersHeld
  BY InvParts DEF LeaseInv
<1>2. byToken \subseteq Ids /\ byToken = Cached /\ clock \in Nat
  BY <1>1, CachedIs DEF CacheTypeOK
<1>3. \A i \in Ids, c \in Clients : rec[i].lease[c] \in Nat /\ rec[i].count[c] \in Nat /\ rec[i].max \in Nat
  BY <1>1 DEF CacheTypeOK, Records
<1> QED BY <1>1, <1>2, <1>3

(* No lease is touched.                                                    *)
LEMMA StillLeases ==
  ASSUME CacheAssumption, LeaseInv, UNCHANGED <<rec, byToken>>
  PROVE  RecordsStay /\ LeasesBounded' /\ \A c \in Clients : Preserved(c)
<1>1. \A i \in byToken, c \in Clients : rec[i].lease[c] \in Nat /\ rec[i].count[c] \in Nat
  BY LeaseParts
<1>2. \A c \in Clients : Preserved(c)
  BY <1>1 DEF Preserved
<1>3. RecordsStay /\ LeasesBounded'
  BY LeaseParts DEF RecordsStay, LeasesBounded
<1> QED BY <1>2, <1>3

(* Unpinned records are forgotten.                                         *)
LEMMA ForgottenLeases ==
  ASSUME CacheAssumption, LeaseInv, UNCHANGED <<rec, clock>>, NEW V, V \subseteq Cached, Forget(V),
         \A i \in V : ~Pinned(i)
  PROVE  RecordsStay /\ LeasesBounded' /\ \A c \in Clients : Preserved(c)
<1>1. \A i \in byToken, c \in Clients : rec[i].lease[c] \in Nat /\ rec[i].count[c] \in Nat
  BY LeaseParts
<1>2. ASSUME NEW c \in Clients PROVE Preserved(c)
  <2> SUFFICES ASSUME NEW i \in byToken, rec[i].lease[c] > clock'
               PROVE  i \in byToken' /\ rec'[i].lease[c] >= rec[i].lease[c] /\ rec'[i].count[c] >= rec[i].count[c]
    BY DEF Preserved
  <2>1. Pinned(i)
    BY DEF Pinned, Leased
  <2>2. i \in byToken'
    BY <2>1 DEF Forget
  <2> QED BY <1>1, <2>2
<1>3. RecordsStay /\ LeasesBounded'
  BY LeaseParts DEF RecordsStay, LeasesBounded
<1> QED BY <1>2, <1>3

(* A lease is given or prolonged.                                          *)
LEMMA PinnedLeases ==
  ASSUME CacheAssumption, LeaseInv, UNCHANGED <<clock, byToken>>,
         NEW i \in Ids, NEW c \in Clients, NEW n \in {0, 1}, PinRecord(i, c, n)
  PROVE  /\ RecordsStay /\ LeasesBounded' /\ \A e \in Clients : Preserved(e)
         /\ rec'[i].count[c] = rec[i].count[c] + n
         /\ rec'[i].lease[c] >= Fewer(clock + Grace, rec[i].max)
<1>0. Grace \in Nat /\ CacheTypeOK
  BY LeaseParts DEF CacheAssumption
<1>1. /\ \A j \in Ids \ {i} : rec'[j] = rec[j]
      /\ rec'[i].digest = rec[i].digest /\ rec'[i].max = rec[i].max
      /\ \A e \in Clients \ {c} : rec'[i].lease[e] = rec[i].lease[e] /\ rec'[i].count[e] = rec[i].count[e]
      /\ rec'[i].lease[c] = Fewer(IF rec[i].lease[c] > clock + Grace THEN rec[i].lease[c] ELSE clock + Grace,
                                  rec[i].max)
      /\ rec'[i].count[c] = rec[i].count[c] + n
  BY <1>0, PinnedRecord
<1>2. /\ byToken \subseteq Ids /\ clock \in Nat
      /\ \A j \in Ids, e \in Clients : rec[j].lease[e] \in Nat /\ rec[j].count[e] \in Nat /\ rec[j].max \in Nat
                                       /\ rec[j].lease[e] <= rec[j].max
  BY LeaseParts DEF LeasesBounded
<1>3. PICK k \in Nat : k = rec[i].lease[c] /\ k <= rec[i].max
  BY <1>2
<1>4. PICK g \in Nat : g = clock + Grace
  BY <1>0, <1>2
<1>5. PICK m \in Nat : m = rec[i].max
  BY <1>2
<1>6. rec'[i].lease[c] = Fewer(IF k > g THEN k ELSE g, m)
  BY <1>1, <1>3, <1>4, <1>5
<1>7. rec'[i].lease[c] >= k /\ rec'[i].lease[c] >= Fewer(g, m) /\ rec'[i].lease[c] <= m /\ rec'[i].lease[c] \in Nat
  BY <1>3, <1>5, <1>6 DEF Fewer
<1>8. LeasesBounded'
  BY <1>1, <1>2, <1>5, <1>7 DEF LeasesBounded
<1>9. RecordsStay
  BY <1>1 DEF RecordsStay
<1>10. \A e \in Clients : Preserved(e)
  <2> SUFFICES ASSUME NEW e \in Clients, NEW j \in byToken
               PROVE  rec'[j].lease[e] >= rec[j].lease[e] /\ rec'[j].count[e] >= rec[j].count[e]
    BY DEF Preserved
  <2>1. CASE j = i /\ e = c
    <3>1. rec[i].count[c] \in Nat
      BY <1>2
    <3> QED BY <2>1, <3>1, <1>1, <1>3, <1>7
  <2>2. CASE ~(j = i /\ e = c)
    BY <2>2, <1>1, <1>2
  <2> QED BY <2>1, <2>2
<1> QED BY <1>1, <1>4, <1>5, <1>7, <1>8, <1>9, <1>10

(* One client's consumer goes. *)
LEMMA ReleasedLeases ==
  ASSUME CacheAssumption, LeaseInv, UNCHANGED <<clock, byToken>>, DigestsKept, rec' \in [Ids -> Records],
         NEW c \in Clients, \A j \in Ids : rec'[j].lease[c] \in {0, rec[j].lease[c]},
         \A j \in Ids, e \in Clients \ {c} : rec'[j].lease[e] = rec[j].lease[e] /\ rec'[j].count[e] = rec[j].count[e]
  PROVE  /\ RecordsStay /\ LeasesBounded' /\ \A e \in Clients \ {c} : Preserved(e)
<1>2. /\ byToken \subseteq Ids
      /\ \A j \in Ids, e \in Clients : rec[j].lease[e] \in Nat /\ rec[j].count[e] \in Nat /\ rec[j].max \in Nat
                                       /\ rec[j].lease[e] <= rec[j].max
  BY LeaseParts DEF LeasesBounded
<1>3. \A e \in Clients \ {c} : Preserved(e)
  BY <1>2 DEF Preserved
<1>4. LeasesBounded'
  <2> SUFFICES ASSUME NEW j \in Ids, NEW e \in Clients PROVE rec'[j].lease[e] <= rec'[j].max
    BY DEF LeasesBounded
  <2>1. rec'[j].max = rec[j].max /\ rec'[j].lease[e] \in {0, rec[j].lease[e]}
    BY DEF DigestsKept
  <2> QED BY <1>2, <2>1
<1>5. RecordsStay
  BY DEF RecordsStay, DigestsKept
<1> QED BY <1>3, <1>4, <1>5

(* A new record takes the place of one whose life is over.                 *)
LEMMA RegisteredLeases ==
  ASSUME CacheAssumption, LeaseInv, NEW t \in Tabs, Register(t)
  PROVE  /\ RecordsStay /\ LeasesBounded' /\ \A e \in Clients : Preserved(e)
         /\ HeldFor(req[t].rec, ClientOf[t], req[t].by - Timeout, 1)'
<1>0. /\ CacheInv /\ CacheTypeOK /\ DirectoriesHeld /\ AdmissionHeld /\ Answer(t) /\ Building(t)
      /\ req[t].step = "register" /\ UNCHANGED clock /\ req[t] \in Requests /\ req[t].max \in Nat /\ req[t].by \in Nat
      /\ Grace \in Nat /\ Timeout \in Nat /\ Timeout' = Timeout /\ Grace' = Grace
  <2>1. CacheInv /\ CacheTypeOK /\ DirectoriesHeld /\ AdmissionHeld /\ Answer(t)
    BY LeaseParts, InvParts DEF AnswersHeld
  <2>2. req[t] \in Requests
    BY <2>1 DEF CacheTypeOK
  <2> QED BY <2>1, <2>2 DEF Register, At, Building, Requests, CacheAssumption
<1>d. PICK d \in Digests : d = req[t].digest
  BY <1>0, RegisterIs
<1>i. PICK i \in Ids : i = req[t].rec
  BY <1>0, RegisterIs
<1>c. PICK c \in Clients : c = ClientOf[t]
  BY <1>0, RegisterIs
<1>1. /\ i \notin byToken /\ \A j \in Ids \ {i} : rec'[j] = rec[j]
      /\ rec'[i].max = req[t].max /\ rec'[i].count[c] = 1
      /\ rec'[i].lease[c] = Fewer(clock + Grace, req[t].max)
      /\ \A e \in Clients \ {c} : rec'[i].lease[e] = 0
      /\ byToken' = (byToken \ {byDigest[d]}) \cup {i}
  BY <1>0, <1>d, <1>i, <1>c, RegisterIs
<1>2. /\ byToken \subseteq Ids /\ byToken = Cached /\ clock \in Nat
      /\ \A j \in Ids, e \in Clients : rec[j].lease[e] \in Nat /\ rec[j].count[e] \in Nat /\ rec[j].max \in Nat
                                       /\ rec[j].lease[e] <= rec[j].max
  BY LeaseParts DEF LeasesBounded
<1>3. RecordsStay
  BY <1>0, <1>1, <1>i DEF RecordsStay
<1>4. ASSUME NEW e \in Clients PROVE Preserved(e)
  <2> SUFFICES ASSUME NEW j \in byToken, rec[j].lease[e] > clock'
               PROVE  j \in byToken' /\ rec'[j].lease[e] >= rec[j].lease[e] /\ rec'[j].count[e] >= rec[j].count[e]
    BY DEF Preserved
  <2>1. j # byDigest[d]
    <3>1. ~Alive(byDigest[d])
      BY <1>0, <1>d DEF AdmissionHeld
    <3>0. j \in Ids
      BY <1>2
    <3>2. j # 0
      BY <3>0 DEF Ids
    <3>3. clock < rec[j].max
      BY <1>0, <1>2, <3>0
    <3> QED BY <3>1, <3>2, <3>3 DEF Alive
  <2> QED BY <1>1, <1>2, <2>1
<1>5. PICK g \in Nat : g = clock + Grace
  BY <1>0, <1>2
<1>6. PICK m \in Nat : m = req[t].max
  BY <1>0
<1>7. rec'[i].lease[c] = Fewer(g, m) /\ Fewer(g, m) <= m
  BY <1>1, <1>5, <1>6 DEF Fewer
<1>8. LeasesBounded'
  <2> SUFFICES ASSUME NEW j \in Ids, NEW e \in Clients PROVE rec'[j].lease[e] <= rec'[j].max
    BY DEF LeasesBounded
  <2>1. CASE j # i
    BY <2>1, <1>1, <1>2
  <2>2. CASE j = i /\ e = c
    BY <2>2, <1>1, <1>6, <1>7
  <2>3. CASE j = i /\ e # c
    BY <2>3, <1>1, <1>6
  <2> QED BY <2>1, <2>2, <2>3
<1>9. HeldFor(req[t].rec, ClientOf[t], req[t].by - Timeout, 1)'
  <2>1. req'[t].rec = i /\ req'[t].by = req[t].by
    BY <1>0, <1>i, RegisterIs
  <2>2. PICK asked \in Int : asked = req[t].by - Timeout /\ asked <= clock
    BY <1>0, <1>2 DEF Answer
  <2>3. Until(i, asked)' = Fewer(asked + Grace, m)
    BY <1>0, <1>1, <1>6 DEF Until, Fewer
  <2>4. Fewer(asked + Grace, m) <= Fewer(g, m)
    BY <1>0, <1>2, <1>5, <2>2 DEF Fewer
  <2>5. i \in byToken' /\ rec'[i].lease[c] >= Until(i, asked)' /\ rec'[i].count[c] >= 1
    BY <1>1, <1>7, <2>3, <2>4, <2>2, <1>0 DEF Fewer
  <2> QED BY <1>0, <1>c, <2>1, <2>2, <2>5 DEF HeldFor, Until
<1> QED BY <1>3, <1>4, <1>8, <1>9

(* A step that spares every lease and answers nobody. *)
LEMMA SparingStep ==
  ASSUME CacheAssumption, LeaseInv, CacheTypeOK', clock' = clock,
         RecordsStay, LeasesBounded', \A c \in Clients : Preserved(c),
         NEW t \in Tabs, NEW q, req' = [req EXCEPT ![t] = q], UNCHANGED <<token, seen>>,
         q.step # "idle" => req[t].step # "idle" /\ q.by = req[t].by,
         q.step \in Settling \cup {"settle"} => q.rec = req[t].rec /\ q.digest = req[t].digest,
         q.step \in Settling => req[t].step \in Settling,
         q.step \in {"trim", "finish"} => req[t].step # "answer",
         q.step = "settle" => req[t].step = "settle"
  PROVE  LeasesKept
<1>1. CacheTypeOK /\ ClientOf[t] \in Clients
  BY LeaseParts DEF CacheAssumption
<1>2. req'[t] = q /\ \A s \in Tabs \ {t} : req'[s] = req[s]
  BY <1>1 DEF CacheTypeOK
<1>3. clock <= clock'
  BY <1>1 DEF CacheTypeOK
<1>4. Answer(t)'
  BY <1>1, <1>2, <1>3, AnswerKept
<1> QED BY <1>1, <1>2, <1>4, StepLeases DEF LeasesKept

(* A POST ends, or goes to another step, and every lease stays.            *)
LEMMA EndLeases ==
  ASSUME CacheAssumption, LeaseInv, CacheTypeOK', NEW t \in Tabs, End(t),
         UNCHANGED <<clock, token, seen>>, RecordsStay, LeasesBounded', \A c \in Clients : Preserved(c)
  PROVE  LeasesKept
<1>1. PICK q : req' = [req EXCEPT ![t] = q] /\ q.step = "idle"
  BY LeaseParts, EndIs
<1> QED BY <1>1, SparingStep DEF Settling

LEMMA GotoLeases ==
  ASSUME CacheAssumption, LeaseInv, CacheTypeOK', NEW t \in Tabs, NEW step \in Steps \ {"idle", "settle"}, Goto(t, step),
         req[t].step # "idle", step \notin Settling,
         UNCHANGED <<clock, token, seen>>, RecordsStay, LeasesBounded', \A c \in Clients : Preserved(c)
  PROVE  LeasesKept
<1>0. step \in Steps /\ CacheInv
  BY LeaseParts
<1>1. PICK q : req' = [req EXCEPT ![t] = q] /\ q.step = step /\ q.by = req[t].by
  BY <1>0, GotoIs
<1> QED BY <1>1, SparingStep DEF Settling

(* A POST pins the record it answers with.                                 *)
LEMMA HitLeases ==
  ASSUME CacheAssumption, LeaseInv, CacheTypeOK', NEW t \in Tabs, Hit(t), req[t].step \in {"lookup", "admit"},
         UNCHANGED <<clock, byDigest, byToken, token, seen>>
  PROVE  LeasesKept
<1>0. /\ CacheInv /\ CacheTypeOK /\ IndexesAgree /\ LeasesBounded /\ Answer(t) /\ ~At(t, "idle")
      /\ req \in [Tabs -> Requests] /\ req[t] \in Requests /\ req[t].by \in Nat
      /\ Grace \in Nat /\ Timeout \in Nat /\ Timeout' = Timeout /\ Grace' = Grace /\ clock \in Nat /\ clock' = clock
  <2>1. CacheInv /\ CacheTypeOK /\ IndexesAgree /\ LeasesBounded /\ Answer(t)
    BY LeaseParts DEF AnswersHeld
  <2>2. req \in [Tabs -> Requests] /\ req[t] \in Requests
    BY <2>1 DEF CacheTypeOK
  <2> QED BY <2>1, <2>2 DEF Requests, CacheAssumption, CacheTypeOK, At
<1>1. PICK q \in Requests :
              /\ req' = [req EXCEPT ![t] = q]
              /\ q.step = "answer" /\ q.digest = req[t].digest /\ q.rec = byDigest[req[t].digest]
              /\ q.rec \in byToken /\ q.rec \in Ids /\ q.by = req[t].by
  BY <1>0, HitIs
<1>2. req'[t] = q /\ \A s \in Tabs \ {t} : req'[s] = req[s]
  BY <1>0, <1>1
<1>i. PICK i \in Ids : i = q.rec /\ i \in byToken
  BY <1>1
<1>c. PICK c \in Clients : c = ClientOf[t]
  BY DEF CacheAssumption
<1>3. PinRecord(i, c, 1)
  BY <1>1, <1>i, <1>c DEF Hit
<1>4. /\ RecordsStay /\ LeasesBounded' /\ \A e \in Clients : Preserved(e)
      /\ rec'[i].count[c] = rec[i].count[c] + 1
      /\ rec'[i].lease[c] >= Fewer(clock + Grace, rec[i].max)
  BY <1>3, <1>0, PinnedLeases
<1>5. rec'[i].digest = q.digest /\ rec'[i].max = rec[i].max /\ i # 0
  <2>1. rec'[i].digest = rec[i].digest /\ rec'[i].max = rec[i].max
    BY <1>0, <1>3, PinnedRecord
  <2>2. i # 0
    BY DEF Ids
  <2>3. rec[i].digest = req[t].digest
    BY <1>0, <1>1, <1>i, <2>2 DEF IndexesAgree, CacheTypeOK, At
  <2> QED BY <2>1, <2>2, <2>3, <1>1
<1>6. rec[i].count[c] \in Nat /\ rec[i].max \in Nat /\ rec'[i].count[c] \in Nat /\ rec'[i].lease[c] \in Nat
  BY <1>0 DEF CacheTypeOK, Records
<1>7. PICK asked \in Int : asked = req[t].by - Timeout /\ asked <= clock
  BY <1>0 DEF Answer
<1>8. HeldFor(req[t].rec, ClientOf[t], req[t].by - Timeout, 1)'
  <2>1. PICK m \in Nat : m = rec[i].max
    BY <1>6
  <2>2. Until(i, asked)' = Fewer(asked + Grace, m)
    BY <1>0, <1>5, <2>1 DEF Until, Fewer
  <2>3. Fewer(asked + Grace, m) <= Fewer(clock + Grace, m) /\ Fewer(asked + Grace, m) \in Int /\ Fewer(clock + Grace, m) \in Int
    BY <1>0, <1>7 DEF Fewer
  <2>4. i \in byToken' /\ rec'[i].lease[c] >= Until(i, asked)' /\ rec'[i].count[c] >= 1
    BY <1>4, <1>6, <1>i, <2>1, <2>2, <2>3
  <2>5. req'[t].rec = i /\ req'[t].by - Timeout' = asked
    BY <1>0, <1>1, <1>2, <1>i, <1>7
  <2> QED BY <1>c, <2>4, <2>5 DEF HeldFor, Until
<1>9. ASSUME Sole(t)', token'[t] # 0 PROVE HeldFor(token[t], ClientOf[t], seen[t], Consumers(t))'
  <2>1. /\ token'[t] = token[t] /\ seen'[t] = seen[t] /\ token[t] \in Slots /\ seen[t] \in Int
    BY <1>0 DEF CacheTypeOK
  <2>2. PICK j \in Ids : j = token[t]
    BY <1>9, <2>1 DEF Slots
  <2>3. PICK z \in Int : z = seen[t]
    BY <2>1
  <2>4. HeldFor(j, c, z, 1)
    BY <1>0, <1>9, <1>c, <2>1, <2>2, <2>3 DEF Answer, Sole, Consumers, At
  <2>5. CASE j = i
    <3>1. PICK m \in Nat : m = rec[i].max
      BY <1>6
    <3>2. Until(i, z)' = Fewer(z + Grace, m) /\ Until(i, z) = Fewer(z + Grace, m)
      BY <1>0, <1>5, <3>1 DEF Until, Fewer
    <3>3. PICK u \in Int : u = Fewer(z + Grace, m)
      BY <1>0 DEF Fewer
    <3>4. HeldFor(i, c, z, 2)'
      <4>1. SUFFICES ASSUME clock < u PROVE i \in byToken' /\ rec'[i].lease[c] >= u /\ rec'[i].count[c] >= 2
        BY <1>0, <3>2, <3>3 DEF HeldFor
      <4>2. rec[i].lease[c] >= u /\ rec[i].count[c] >= 1
        BY <4>1, <2>4, <2>5, <3>2, <3>3 DEF HeldFor
      <4>3. rec'[i].lease[c] >= rec[i].lease[c]
        BY <4>1, <4>2, <1>0, <1>4, <1>i, LeaseParts DEF Preserved
      <4>4. rec[i].lease[c] \in Nat
        BY LeaseParts
      <4> QED BY <4>2, <4>3, <4>4, <1>4, <1>6, <1>i
    <3>5. Consumers(t)' = 2
      BY <1>1, <1>2, <1>i, <2>1, <2>2, <2>5 DEF Consumers, At
    <3> QED BY <1>c, <2>1, <2>2, <2>3, <2>5, <3>4, <3>5 DEF HeldFor, Until
  <2>6. CASE j # i
    <3>1. rec'[j].max = rec[j].max
      BY <1>0, <1>3, <2>6, PinnedRecord
    <3>2. HeldFor(j, c, z, 1)'
      BY <1>0, <1>4, <2>4, <3>1, HeldStays
    <3>3. Consumers(t)' = 1
      BY <1>1, <1>2, <1>i, <2>1, <2>2, <2>6 DEF Consumers, At
    <3> QED BY <1>c, <2>1, <2>2, <2>3, <3>2, <3>3 DEF HeldFor, Until
  <2> QED BY <2>5, <2>6
<1>10. Answer(t)'
  <2>1. Timeout <= req'[t].by /\ req'[t].by <= clock' + Timeout
    BY <1>0, <1>1, <1>2 DEF Answer, At
  <2>2. req'[t].rec # 0 /\ rec'[req'[t].rec].digest = req'[t].digest
    BY <1>1, <1>2, <1>5, <1>i
  <2>3. req'[t].step = "answer"
    BY <1>1, <1>2
  <2> QED BY <1>0, <1>8, <1>9, <2>1, <2>2, <2>3 DEF Answer, At
<1>11. ClientOf[t] \in Clients
  BY <1>c
<1> QED BY <1>0, <1>2, <1>4, <1>10, <1>11, StepLeases DEF LeasesKept, CacheTypeOK

(* The steps of a POST keep the leases.                                    *)
LEMMA LookupLeases == ASSUME CacheAssumption, LeaseInv, CacheTypeOK', NEW t \in Tabs, Lookup(t) PROVE LeasesKept
<1>0. req[t].step = "lookup" /\ UNCHANGED <<clock, byDigest, byToken, token, seen>>
  BY DEF Lookup, At, cache, tabs
<1>1. CASE Hit(t)
  BY <1>0, <1>1, HitLeases
<1>2. CASE Refused(t)
  <2>1. End(t) /\ rec' = rec
    BY <1>2 DEF Refused
  <2> QED BY <1>0, <2>1, StillLeases, EndLeases
<1>3. CASE Goto(t, "wait") /\ rec' = rec
  BY <1>0, <1>3, StillLeases, GotoLeases DEF Steps, Settling
<1> QED BY <1>1, <1>2, <1>3 DEF Lookup

LEMMA AcquireLeases == ASSUME CacheAssumption, LeaseInv, CacheTypeOK', NEW t \in Tabs, Acquire(t) PROVE LeasesKept
<1>0. req[t].step = "wait" /\ UNCHANGED <<clock, rec, byDigest, byToken, token, seen>> /\ Goto(t, "admit")
  BY DEF Acquire, At, cache, tabs
<1> QED BY <1>0, StillLeases, GotoLeases DEF Steps, BuildSteps, Settling

LEMMA GiveUpLeases == ASSUME CacheAssumption, LeaseInv, CacheTypeOK', NEW t \in Tabs, GiveUp(t) PROVE LeasesKept
<1>0. UNCHANGED <<clock, rec, byDigest, byToken, token, seen>> /\ End(t)
  BY DEF GiveUp, At, cache, tabs
<1> QED BY <1>0, StillLeases, EndLeases

LEMMA AdmitLeases == ASSUME CacheAssumption, LeaseInv, CacheTypeOK', NEW t \in Tabs, Admit(t) PROVE LeasesKept
<1>0. req[t].step = "admit" /\ UNCHANGED <<clock, byDigest, byToken, token, seen>> /\ req[t] \in Requests
      /\ req \in [Tabs -> Requests] /\ CacheTypeOK
  BY LeaseParts DEF Admit, At, cache, tabs, CacheTypeOK
<1>1. CASE Hit(t)
  BY <1>0, <1>1, HitLeases
<1>2. CASE End(t) /\ rec' = rec
  BY <1>0, <1>2, StillLeases, EndLeases
<1>3. ASSUME rec' = rec,
             NEW fresh \in BOOLEAN, NEW max \in Nat,
             req' = [req EXCEPT ![t].step = "reserve", ![t].fresh = fresh, ![t].max = max]
      PROVE  LeasesKept
  <2> DEFINE q == [req[t] EXCEPT !.step = "reserve", !.fresh = fresh, !.max = max]
  <2>1. req' = [req EXCEPT ![t] = q]
    BY <1>0, <1>3
  <2>2. q.step = "reserve" /\ q.by = req[t].by
    BY <1>0 DEF Requests
  <2> HIDE DEF q
  <2> QED BY <1>0, <1>3, <2>1, <2>2, StillLeases, SparingStep DEF Settling
<1>4. CASE OwnWindow(t) /\ rec' = rec
  <2>1. CASE End(t)
    BY <1>2, <1>4, <2>1
  <2>2. CASE req' = [req EXCEPT ![t].step = "reserve", ![t].fresh = FALSE, ![t].max = windows[req[t].digest].max]
    <3>1. windows[req[t].digest].max \in Nat
      BY <1>0 DEF CacheTypeOK, At, Windows
    <3> QED BY <1>3, <1>4, <2>2, <3>1
  <2> QED BY <1>4, <2>1, <2>2 DEF OwnWindow
<1>5. CASE NewWindow(t) /\ rec' = rec
  <2>1. CASE End(t)
    BY <1>2, <1>5, <2>1
  <2>2. CASE req' = [req EXCEPT ![t].step = "reserve", ![t].fresh = TRUE, ![t].max = clock + MaxPin]
    <3>1. clock + MaxPin \in Nat
      BY <1>0 DEF CacheTypeOK, CacheAssumption
    <3> QED BY <1>3, <1>5, <2>2, <3>1
  <2> QED BY <1>5, <2>1, <2>2 DEF NewWindow
<1>6. CASE Refused(t)
  BY <1>2, <1>6 DEF Refused
<1> QED BY <1>1, <1>4, <1>5, <1>6 DEF Admit

LEMMA ReserveLeases == ASSUME CacheAssumption, LeaseInv, CacheTypeOK', NEW t \in Tabs, Reserve(t) PROVE LeasesKept
<1> DEFINE S == Counted(Cached, req[t].old, ClientOf[t])
<1>0. /\ CacheTypeOK /\ req[t].step = "reserve" /\ UNCHANGED <<clock, rec, token, seen>>
      /\ req[t] \in Requests /\ req \in [Tabs -> Requests]
  BY LeaseParts DEF Reserve, At, tabs, CacheTypeOK
<1>1. PICK V \in Evictions(S, Unpinnable(S, 0), 1, BundleMax) :
             Forget(V) /\ (End(t) \/ req' = [req EXCEPT ![t].step = "mkdir", ![t].victims = V])
  BY DEF Reserve
<1>2. S \subseteq Cached
  BY CountedIn
<1> HIDE DEF S
<1>3. V \subseteq Cached /\ \A i \in V : ~Pinned(i)
  BY <1>1, <1>2, EvictionsIn
<1>4. RecordsStay /\ LeasesBounded' /\ \A c \in Clients : Preserved(c)
  BY <1>0, <1>1, <1>3, ForgottenLeases
<1>5. CASE End(t)
  BY <1>0, <1>4, <1>5, EndLeases
<1>6. CASE req' = [req EXCEPT ![t].step = "mkdir", ![t].victims = V]
  <2> DEFINE q == [req[t] EXCEPT !.step = "mkdir", !.victims = V]
  <2>1. req' = [req EXCEPT ![t] = q] /\ q.step = "mkdir" /\ q.by = req[t].by
    BY <1>0, <1>6 DEF Requests
  <2> HIDE DEF q
  <2> QED BY <1>0, <1>4, <2>1, SparingStep DEF Settling
<1> QED BY <1>1, <1>5, <1>6

LEMMA MkdirLeases == ASSUME CacheAssumption, LeaseInv, CacheTypeOK', NEW t \in Tabs, Mkdir(t) PROVE LeasesKept
<1>0. /\ CacheTypeOK /\ req[t].step = "mkdir" /\ UNCHANGED <<clock, rec, byToken, token, seen>>
      /\ req[t] \in Requests /\ req \in [Tabs -> Requests]
  BY LeaseParts DEF Mkdir, At, tabs, CacheTypeOK
<1>1. RecordsStay /\ LeasesBounded' /\ \A c \in Clients : Preserved(c)
  BY <1>0, StillLeases
<1>2. PICK b : b = built'
  OBVIOUS
<1> DEFINE q == [req[t] EXCEPT !.step = "render", !.rec = b, !.victims = {}]
<1>3. req' = [req EXCEPT ![t] = q] /\ q.step = "render" /\ q.by = req[t].by
  BY <1>0, <1>2 DEF Mkdir, Requests
<1> HIDE DEF q
<1> QED BY <1>0, <1>1, <1>3, SparingStep DEF Settling

LEMMA RenderLeases == ASSUME CacheAssumption, LeaseInv, CacheTypeOK', NEW t \in Tabs, Render(t) PROVE LeasesKept
<1>0. req[t].step = "render" /\ UNCHANGED <<clock, rec, byToken, token, seen>>
  BY DEF Render, At, tabs
<1>1. CASE End(t)
  BY <1>0, <1>1, StillLeases, EndLeases
<1>2. CASE Goto(t, "register")
  BY <1>0, <1>2, StillLeases, GotoLeases DEF Steps, BuildSteps, Settling
<1> QED BY <1>1, <1>2 DEF Render, DropTarget

LEMMA UnregistrableLeases ==
  ASSUME CacheAssumption, LeaseInv, CacheTypeOK', NEW t \in Tabs, Unregistrable(t) PROVE LeasesKept
<1>0. UNCHANGED <<clock, rec, byToken, token, seen>> /\ End(t)
  BY DEF Unregistrable, DropTarget, tabs
<1> QED BY <1>0, StillLeases, EndLeases

LEMMA RegisterLeases ==
  ASSUME CacheAssumption, LeaseInv, CacheTypeOK', NEW t \in Tabs, Register(t) PROVE LeasesKept
<1>0. /\ CacheInv /\ CacheTypeOK /\ DirectoriesHeld /\ Answer(t) /\ Building(t) /\ req[t].step = "register"
      /\ UNCHANGED <<clock, token, seen>> /\ clock' = clock /\ token'[t] = token[t] /\ seen'[t] = seen[t]
      /\ token[t] \in Slots /\ seen[t] \in Int /\ clock \in Nat /\ Timeout' = Timeout
  BY LeaseParts DEF AnswersHeld, Register, At, Building, tabs, CacheTypeOK
<1>1. /\ req[t].rec \in Ids /\ rec'[req[t].rec].digest = req[t].digest
      /\ \A s \in Tabs \ {t} : req'[s] = req[s]
      /\ req'[t].step = "trim" /\ req'[t].digest = req[t].digest /\ req'[t].rec = req[t].rec /\ req'[t].by = req[t].by
  BY <1>0, RegisterIs
<1>2. /\ RecordsStay /\ LeasesBounded' /\ \A e \in Clients : Preserved(e)
      /\ HeldFor(req[t].rec, ClientOf[t], req[t].by - Timeout, 1)'
  BY RegisteredLeases
<1>3. req[t].rec # 0 /\ token[t] # req[t].rec
  BY <1>0, <1>1 DEF DirectoriesHeld, Ids
<1>4. ASSUME Sole(t)', token'[t] # 0 PROVE HeldFor(token[t], ClientOf[t], seen[t], Consumers(t))'
  <2>1. PICK c \in Clients : c = ClientOf[t]
    BY DEF CacheAssumption
  <2>2. PICK j \in Ids : j = token[t]
    BY <1>0, <1>4 DEF Slots
  <2>3. PICK z \in Int : z = seen[t]
    BY <1>0
  <2>4. HeldFor(j, c, z, 1)
    BY <1>0, <1>4, <2>1, <2>2, <2>3 DEF Answer, Sole, Consumers, At
  <2>5. rec'[j].max = rec[j].max
    BY <1>0, <1>3, <2>2, RegisterIs
  <2>6. HeldFor(j, c, z, 1)'
    BY <1>0, <1>2, <2>1, <2>4, <2>5, HeldStays
  <2>7. Consumers(t)' = 1
    BY <1>1 DEF Consumers, At
  <2> QED BY <1>0, <2>1, <2>2, <2>3, <2>6, <2>7 DEF HeldFor, Until
<1>5. Answer(t)'
  <2>1. Timeout <= req'[t].by /\ req'[t].by <= clock' + Timeout
    BY <1>0, <1>1 DEF Answer
  <2> QED BY <1>0, <1>1, <1>2, <1>3, <1>4, <2>1 DEF Answer, At
<1>6. ClientOf[t] \in Clients
  BY DEF CacheAssumption
<1> QED BY <1>0, <1>1, <1>2, <1>5, <1>6, StepLeases DEF LeasesKept, CacheTypeOK

LEMMA TrimLeases == ASSUME CacheAssumption, LeaseInv, CacheTypeOK', NEW t \in Tabs, Trim(t) PROVE LeasesKept
<1> DEFINE S == Counted(Cached, req[t].old, ClientOf[t])
<1>0. /\ CacheTypeOK /\ req[t].step = "trim" /\ UNCHANGED <<clock, rec, token, seen>>
      /\ req[t] \in Requests /\ req \in [Tabs -> Requests]
  BY LeaseParts DEF Trim, At, tabs, CacheTypeOK
<1>1. PICK V \in Evictions(S, Unpinnable(S, req[t].rec), 0, 0) :
             Forget(V) /\ (End(t) \/ req' = [req EXCEPT ![t].step = "finish", ![t].victims = @ \cup V])
  BY DEF Trim
<1>2. S \subseteq Cached
  BY CountedIn
<1> HIDE DEF S
<1>3. V \subseteq Cached /\ \A i \in V : ~Pinned(i)
  BY <1>1, <1>2, EvictionsIn
<1>4. RecordsStay /\ LeasesBounded' /\ \A c \in Clients : Preserved(c)
  BY <1>0, <1>1, <1>3, ForgottenLeases
<1>5. CASE End(t)
  BY <1>0, <1>4, <1>5, EndLeases
<1>6. CASE req' = [req EXCEPT ![t].step = "finish", ![t].victims = @ \cup V]
  <2> DEFINE q == [req[t] EXCEPT !.step = "finish", !.victims = req[t].victims \cup V]
  <2>1. /\ req' = [req EXCEPT ![t] = q] /\ q.step = "finish" /\ q.by = req[t].by
        /\ q.rec = req[t].rec /\ q.digest = req[t].digest
    BY <1>0, <1>6 DEF Requests
  <2> HIDE DEF q
  <2> QED BY <1>0, <1>4, <2>1, SparingStep DEF Settling
<1> QED BY <1>1, <1>5, <1>6

LEMMA FinishLeases == ASSUME CacheAssumption, LeaseInv, CacheTypeOK', NEW t \in Tabs, Finish(t) PROVE LeasesKept
<1>0. /\ CacheTypeOK /\ req[t].step = "finish" /\ UNCHANGED <<clock, rec, byToken, token, seen>>
      /\ req[t] \in Requests /\ req \in [Tabs -> Requests]
  BY LeaseParts DEF Finish, At, tabs, CacheTypeOK
<1>1. RecordsStay /\ LeasesBounded' /\ \A c \in Clients : Preserved(c)
  BY <1>0, StillLeases
<1> DEFINE q == [req[t] EXCEPT !.step = "answer", !.victims = {}]
<1>2. /\ req' = [req EXCEPT ![t] = q] /\ q.step = "answer" /\ q.by = req[t].by
      /\ q.rec = req[t].rec /\ q.digest = req[t].digest
  BY <1>0 DEF Finish, Requests
<1> HIDE DEF q
<1> QED BY <1>0, <1>1, <1>2, SparingStep DEF Settling

LEMMA PruneLeases == ASSUME CacheAssumption, LeaseInv, CacheTypeOK', NEW t \in Tabs, Prune(t) PROVE LeasesKept
<1>0. /\ CacheTypeOK /\ req[t].step = "prune" /\ UNCHANGED <<clock, rec, token, seen>>
      /\ req[t] \in Requests /\ req \in [Tabs -> Requests]
  BY LeaseParts DEF Prune, At, tabs, CacheTypeOK
<1>1. PICK V \in Evictions(Cached, Unpinnable(Cached, req[t].rec), 0, 0) :
             Forget(V) /\ (End(t) \/ req' = [req EXCEPT ![t].step = "sweep", ![t].victims = V])
  BY DEF Prune
<1>3. V \subseteq Cached /\ \A i \in V : ~Pinned(i)
  BY <1>1, EvictionsIn
<1>4. RecordsStay /\ LeasesBounded' /\ \A c \in Clients : Preserved(c)
  BY <1>0, <1>1, <1>3, ForgottenLeases
<1>5. CASE End(t)
  BY <1>0, <1>4, <1>5, EndLeases
<1>6. CASE req' = [req EXCEPT ![t].step = "sweep", ![t].victims = V]
  <2> DEFINE q == [req[t] EXCEPT !.step = "sweep", !.victims = V]
  <2>1. req' = [req EXCEPT ![t] = q] /\ q.step = "sweep" /\ q.by = req[t].by
    BY <1>0, <1>6 DEF Requests
  <2> HIDE DEF q
  <2> QED BY <1>0, <1>4, <2>1, SparingStep DEF Settling
<1> QED BY <1>1, <1>5, <1>6

LEMMA SweepLeases == ASSUME CacheAssumption, LeaseInv, CacheTypeOK', NEW t \in Tabs, Sweep(t) PROVE LeasesKept
<1>0. UNCHANGED <<clock, rec, byToken, token, seen>> /\ End(t)
  BY DEF Sweep, tabs
<1> QED BY <1>0, StillLeases, EndLeases

LEMMA DeliverLeases == ASSUME CacheAssumption, LeaseInv, CacheTypeOK', NEW t \in Tabs, Deliver(t) PROVE LeasesKept
<1>0. /\ CacheTypeOK /\ Answer(t) /\ req[t].step = "answer" /\ UNCHANGED <<clock, rec, byToken>> /\ req \in [Tabs -> Requests]
      /\ seen' = [seen EXCEPT ![t] = req[t].by - Timeout] /\ Goto(t, "settle") /\ CacheInv /\ Timeout' = Timeout
      /\ token \in [Tabs -> Slots] /\ seen \in [Tabs -> Int]
  BY LeaseParts DEF Deliver, At, cache, CacheTypeOK, AnswersHeld
<1>1. RecordsStay /\ LeasesBounded' /\ \A c \in Clients : Preserved(c)
  BY <1>0, StillLeases
<1>2. PICK k \in {req[t].rec, 0} : token' = [token EXCEPT ![t] = k]
  BY DEF Deliver
<1>3. PICK q \in Requests :
              /\ req' = [req EXCEPT ![t] = q] /\ q.step = "settle" /\ q.by = req[t].by
              /\ q.rec = req[t].rec /\ q.digest = req[t].digest
  BY <1>0, GotoIs DEF Steps
<1>4. /\ req'[t] = q /\ token'[t] = k /\ seen'[t] = req[t].by - Timeout
      /\ \A s \in Tabs \ {t} : req'[s] = req[s] /\ token'[s] = token[s] /\ seen'[s] = seen[s]
  BY <1>0, <1>2, <1>3
<1>5. ASSUME Sole(t)', token'[t] # 0 PROVE HeldFor(token[t], ClientOf[t], seen[t], Consumers(t))'
  <2>1. HeldFor(req[t].rec, ClientOf[t], req[t].by - Timeout, 1)
    BY <1>0, <1>5 DEF Answer, Sole, Settling
  <2>2. k = req[t].rec /\ Consumers(t)' = 1
    BY <1>2, <1>3, <1>4, <1>5 DEF Consumers, At
  <2> QED BY <1>0, <1>4, <2>1, <2>2 DEF HeldFor, Until
<1>6. Answer(t)'
  <2>1. req[t].rec # 0 /\ rec[req[t].rec].digest = req[t].digest
    BY <1>0 DEF Answer, Settling
  <2>2. Timeout <= req'[t].by /\ req'[t].by <= clock' + Timeout
    BY <1>0, <1>3, <1>4 DEF Answer
  <2>3. At(t, "settle")' /\ token'[t] # 0 => token'[t] = req'[t].rec /\ rec'[token'[t]].digest = req'[t].digest
    BY <1>0, <1>2, <1>3, <1>4, <2>1
  <2> QED BY <1>0, <1>3, <1>4, <1>5, <2>2, <2>3 DEF Answer, Settling
<1>7. ClientOf[t] \in Clients
  BY DEF CacheAssumption
<1> QED BY <1>0, <1>1, <1>4, <1>6, <1>7, StepLeases DEF LeasesKept

(* A consumer of the tab's own client goes, from a record that is not its  *)
(* answer's or has another.                                                *)
Releases(t, c, i, r, q) ==
  /\ ClientOf[t] = c /\ rec' = [rec EXCEPT ![i] = r] /\ r.digest = rec[i].digest /\ r.max = rec[i].max
  /\ \A e \in Clients \ {c} : r.lease[e] = rec[i].lease[e] /\ r.count[e] = rec[i].count[e]
  /\ r.lease[c] \in {0, rec[i].lease[c]}
  /\ token[t] = i => rec[i].count[c] < Consumers(t) \/ (r.lease[c] = rec[i].lease[c] /\ r.count[c] >= 1)
  /\ req[t].step \in {"answer", "settle"}
  /\ req' = [req EXCEPT ![t] = q] /\ q.step \in {"idle", "prune"} /\ (q.step = "prune" => q.by = req[t].by)

LEMMA OwnRelease ==
  ASSUME CacheAssumption, LeaseInv, CacheTypeOK', UNCHANGED <<clock, byToken, token, seen>>,
         NEW t \in Tabs, NEW c \in Clients, NEW i \in Ids, NEW r, NEW q, Releases(t, c, i, r, q)
  PROVE  LeasesKept
<1>a. /\ rec' = [rec EXCEPT ![i] = r] /\ r.digest = rec[i].digest /\ r.max = rec[i].max
      /\ \A e \in Clients \ {c} : r.lease[e] = rec[i].lease[e] /\ r.count[e] = rec[i].count[e]
      /\ r.lease[c] \in {0, rec[i].lease[c]}
      /\ token[t] = i => rec[i].count[c] < Consumers(t) \/ (r.lease[c] = rec[i].lease[c] /\ r.count[c] >= 1)
  BY DEF Releases
<1>b. /\ req[t].step \in {"answer", "settle"}
      /\ req' = [req EXCEPT ![t] = q] /\ q.step \in {"idle", "prune"} /\ (q.step = "prune" => q.by = req[t].by)
  BY DEF Releases
<1>c. c = ClientOf[t]
  BY DEF Releases
<1>r. rec'[i] = r /\ \A j \in Ids \ {i} : rec'[j] = rec[j]
  BY <1>a, LeaseParts DEF CacheTypeOK
<1>k. DigestsKept
  BY <1>a, <1>r DEF DigestsKept
<1>0. /\ CacheTypeOK /\ Answer(t) /\ clock' = clock /\ req \in [Tabs -> Requests]
      /\ token' = token /\ seen' = seen /\ token[t] \in Slots /\ seen[t] \in Int /\ clock \in Nat /\ Timeout' = Timeout
      /\ rec' \in [Ids -> Records] /\ Grace \in Nat /\ Grace' = Grace
  BY LeaseParts DEF CacheTypeOK, AnswersHeld, CacheAssumption
<1>1. /\ req'[t] = q /\ \A s \in Tabs \ {t} : req'[s] = req[s]
  BY <1>0, <1>b
<1>2. RecordsStay /\ LeasesBounded' /\ \A e \in Clients \ {c} : Preserved(e)
  <2>1. \A j \in Ids : rec'[j].lease[c] \in {0, rec[j].lease[c]}
    BY <1>a, <1>r
  <2>2. \A j \in Ids, e \in Clients \ {c} : rec'[j].lease[e] = rec[j].lease[e] /\ rec'[j].count[e] = rec[j].count[e]
    BY <1>a, <1>r
  <2> QED BY <1>0, <1>k, <2>1, <2>2, ReleasedLeases
<1>3. \A j \in Ids : rec'[j].max = rec[j].max
  BY <1>k DEF DigestsKept
<1>4. ASSUME Sole(t)', token'[t] # 0 PROVE HeldFor(token[t], ClientOf[t], seen[t], Consumers(t))'
  <2>1. PICK j \in Ids : j = token[t]
    BY <1>0, <1>4 DEF Slots
  <2>2. PICK z \in Int : z = seen[t]
    BY <1>0
  <2>3. PICK n \in {1, 2} : n = Consumers(t)
    BY DEF Consumers
  <2>4. HeldFor(j, c, z, n)
    BY <1>0, <1>4, <1>c, <2>1, <2>2, <2>3 DEF Answer, Sole
  <2>5. PICK m \in Nat : m = rec[j].max /\ m = rec'[j].max
    BY <1>3, LeaseParts
  <2>6. PICK u \in Int : u = Fewer(z + Grace, m)
    BY <1>0 DEF Fewer
  <2>7. Until(j, z) = u /\ Until(j, z)' = u
    BY <2>5, <2>6 DEF Until, Fewer
  <2>8. HeldFor(j, c, z, 1)'
    <3>1. SUFFICES ASSUME clock < u PROVE j \in byToken' /\ rec'[j].lease[c] >= u /\ rec'[j].count[c] >= 1
      BY <1>0, <2>7 DEF HeldFor
    <3>2. j \in byToken /\ rec[j].lease[c] >= u /\ rec[j].count[c] >= n /\ rec[j].count[c] \in Nat /\ rec[j].lease[c] \in Nat
      BY <3>1, <2>4, <2>7, LeaseParts DEF HeldFor
    <3>3. CASE j = i
      BY <1>a, <1>r, <2>1, <2>3, <3>2, <3>3
    <3>4. CASE j # i
      BY <1>r, <2>3, <3>2, <3>4
    <3> QED BY <3>3, <3>4
  <2>9. Consumers(t)' = 1
    BY <1>1, <1>b DEF Consumers, At
  <2> QED BY <1>0, <1>c, <2>1, <2>2, <2>8, <2>9 DEF HeldFor, Until
<1>5. Answer(t)'
  <2>1. req'[t].step # "idle" => Timeout <= req'[t].by /\ req'[t].by <= clock' + Timeout
    BY <1>0, <1>1, <1>b DEF Answer
  <2> QED BY <1>1, <1>4, <1>b, <2>1 DEF Answer, Settling, At
<1>6. req'[t] # req[t]
  BY <1>1, <1>b
<1> QED BY <1>0, <1>1, <1>2, <1>5, <1>6, <1>c, StepLeases DEF LeasesKept

LEMMA AbandonLeases == ASSUME CacheAssumption, LeaseInv, CacheTypeOK', NEW t \in Tabs, Abandon(t) PROVE LeasesKept
<1>0. /\ CacheTypeOK /\ CacheInv /\ req[t].step = "answer" /\ UNCHANGED <<clock, byToken, token, seen>> /\ End(t)
      /\ rec \in [Ids -> Records]
  BY LeaseParts DEF Abandon, At, cache, tabs, CacheTypeOK
<1>1. CASE req[t].rec \in Cached
  <2>1. PICK i \in Ids : i = req[t].rec
    BY <1>1, LeaseParts
  <2>2. PICK c \in Clients : c = ClientOf[t]
    BY DEF CacheAssumption
  <2> DEFINE r == Unpinned(rec[i], c)
  <2>3. /\ r \in Records /\ r.digest = rec[i].digest /\ r.max = rec[i].max
        /\ \A e \in Clients \ {c} : r.lease[e] = rec[i].lease[e] /\ r.count[e] = rec[i].count[e]
        /\ r.lease[c] = IF rec[i].count[c] <= 1 THEN 0 ELSE rec[i].lease[c]
        /\ r.count[c] = IF rec[i].count[c] <= 1 THEN 0 ELSE rec[i].count[c] - 1
    BY <1>0, UnpinnedRecord
  <2>4. rec' = [rec EXCEPT ![i] = r]
    BY <1>0, <1>1, <2>1, <2>2 DEF Abandon
  <2> HIDE DEF r
  <2>7. token[t] = i => rec[i].count[c] < Consumers(t) \/ (r.lease[c] = rec[i].lease[c] /\ r.count[c] >= 1)
    <3> HAVE token[t] = i
    <3>1. Consumers(t) = 2 /\ rec[i].count[c] \in Nat
      BY <1>0, <2>1, LeaseParts DEF Consumers, At
    <3> QED BY <2>3, <3>1
  <2>8. PICK q : req' = [req EXCEPT ![t] = q] /\ q.step = "idle"
    BY <1>0, EndIs
  <2>9. r.lease[c] \in {0, rec[i].lease[c]}
    BY <2>3
  <2>5. r \in Records /\ r.digest = rec[i].digest /\ r.max = rec[i].max
    BY <2>3
  <2>6. \A e \in Clients \ {c} : r.lease[e] = rec[i].lease[e] /\ r.count[e] = rec[i].count[e]
    BY <2>3
  <2>10. Releases(t, c, i, r, q)
    BY <1>0, <2>2, <2>4, <2>5, <2>6, <2>7, <2>8, <2>9 DEF Releases
  <2> QED BY <1>0, <2>10, OwnRelease
<1>2. CASE req[t].rec \notin Cached
  <2>1. rec' = rec
    BY <1>2 DEF Abandon
  <2> QED BY <1>0, <2>1, StillLeases, EndLeases
<1> QED BY <1>1, <1>2

LEMMA ReleaseOldLeases == ASSUME CacheAssumption, LeaseInv, CacheTypeOK', NEW t \in Tabs, ReleaseOld(t) PROVE LeasesKept
<1>0. /\ CacheTypeOK /\ CacheInv /\ req[t].step = "settle" /\ UNCHANGED <<clock, byToken, token, seen>>
      /\ rec \in [Ids -> Records] /\ Goto(t, "prune") /\ Answer(t)
  <2>1. req[t].step = "settle" /\ UNCHANGED <<clock, byToken, token, seen>> /\ Goto(t, "prune")
    BY DEF ReleaseOld, At, cache, tabs
  <2> QED BY <2>1, LeaseParts DEF CacheTypeOK, AnswersHeld
<1>2. PICK c \in Clients : c = ClientOf[t]
  BY DEF CacheAssumption
<1>1. PICK i \in Ids : i = Superseded(req[t].sent, c, req[t].digest) /\ i \in byToken /\ rec[i].digest # req[t].digest
  <2>1. Superseded(req[t].sent, c, req[t].digest) # 0
    BY <1>2 DEF ReleaseOld
  <2>2. Superseded(req[t].sent, c, req[t].digest) \in byToken /\ rec[Superseded(req[t].sent, c, req[t].digest)].digest # req[t].digest
    BY <2>1, SupersededIn
  <2> QED BY <2>2, LeaseParts
<1> DEFINE r == Unpinned(rec[i], c)
<1>3. /\ r \in Records /\ r.digest = rec[i].digest /\ r.max = rec[i].max
      /\ \A e \in Clients \ {c} : r.lease[e] = rec[i].lease[e] /\ r.count[e] = rec[i].count[e]
      /\ r.lease[c] = IF rec[i].count[c] <= 1 THEN 0 ELSE rec[i].lease[c]
  BY <1>0, UnpinnedRecord
<1>4. rec' = [rec EXCEPT ![i] = r]
  BY <1>1, <1>2 DEF ReleaseOld
<1> HIDE DEF r
<1>7. token[t] # i
  <2>1. i # 0
    BY DEF Ids
  <2> QED BY <1>0, <1>1, <2>1 DEF Answer, At
<1>8. PICK q : req' = [req EXCEPT ![t] = q] /\ q.step = "prune" /\ q.by = req[t].by
  <2>1. "prune" \in Steps
    BY DEF Steps
  <2> QED BY <1>0, <2>1, GotoIs
<1>9. r.lease[c] \in {0, rec[i].lease[c]}
  BY <1>3
<1>5. r \in Records /\ r.digest = rec[i].digest /\ r.max = rec[i].max
  BY <1>3
<1>6. \A e \in Clients \ {c} : r.lease[e] = rec[i].lease[e] /\ r.count[e] = rec[i].count[e]
  BY <1>3
<1>10. Releases(t, c, i, r, q)
  BY <1>0, <1>2, <1>4, <1>5, <1>6, <1>7, <1>8, <1>9 DEF Releases
<1> QED BY <1>0, <1>10, OwnRelease

LEMMA KeepOldLeases == ASSUME CacheAssumption, LeaseInv, CacheTypeOK', NEW t \in Tabs, KeepOld(t) PROVE LeasesKept
<1>0. /\ CacheTypeOK /\ CacheInv /\ req[t].step = "settle" /\ UNCHANGED <<clock, byToken, token, seen>> /\ End(t)
      /\ rec \in [Ids -> Records] /\ clock \in Nat
  BY LeaseParts DEF KeepOld, At, cache, tabs, CacheTypeOK
<1> DEFINE i == req[t].rec
           c == ClientOf[t]
<1>1. \/ rec' = rec
      \/ /\ i \in Cached /\ rec[i].count[c] > 1
         /\ rec' = [rec EXCEPT ![i].count[c] = @ - 1, ![i].used = clock]
  BY DEF KeepOld
<1>2. CASE rec' = rec
  BY <1>0, <1>2, StillLeases, EndLeases
<1>3. CASE /\ i \in Cached /\ rec[i].count[c] > 1
           /\ rec' = [rec EXCEPT ![i].count[c] = @ - 1, ![i].used = clock]
  <2>1. PICK k \in Ids : k = i
    BY <1>3, LeaseParts
  <2>2. PICK f \in Clients : f = c
    BY DEF CacheAssumption
  <2>q. PICK q : req' = [req EXCEPT ![t] = q] /\ q.step = "idle"
    BY <1>0, EndIs
  <2>r. ClientOf[t] = f
    BY <2>2
  <2> HIDE DEF i, c
  <2> DEFINE m == rec[k].count[f] - 1
             count == [rec[k].count EXCEPT ![f] = m]
             r == [rec[k] EXCEPT !.count = count, !.used = clock]
  <2>3. rec[k] \in Records
    BY <1>0
  <2>4. m \in Nat /\ m >= 1
    <3>1. rec[k].count[f] \in Nat /\ rec[k].count[f] > 1
      BY <1>3, <2>1, <2>2, <2>3 DEF Records
    <3> QED BY <3>1
  <2>5. rec' = [rec EXCEPT ![k] = r]
    BY <1>3, <2>1, <2>2, <2>3, <1>0
  <2> HIDE DEF m
  <2>6. count \in [Clients -> Nat] /\ count[f] = m /\ \A e \in Clients \ {f} : count[e] = rec[k].count[e]
    BY <2>3, <2>4 DEF Records
  <2> HIDE DEF count
  <2>7. r \in Records /\ r.digest = rec[k].digest /\ r.max = rec[k].max /\ r.lease = rec[k].lease /\ r.count = count
    BY <1>0, <2>3, <2>6 DEF Records
  <2> HIDE DEF r
  <2>8. r.lease[f] \in {0, rec[k].lease[f]} /\ (r.lease[f] = rec[k].lease[f] /\ r.count[f] >= 1)
        /\ \A e \in Clients \ {f} : r.lease[e] = rec[k].lease[e] /\ r.count[e] = rec[k].count[e]
    BY <2>4, <2>6, <2>7
  <2>9. Releases(t, f, k, r, q)
    BY <1>0, <2>q, <2>r, <2>5, <2>7, <2>8 DEF Releases
  <2> QED BY <1>0, <2>9, OwnRelease
<1> QED BY <1>1, <1>2, <1>3

(* A step of no POST.                                                      *)
LEMMA UnservedLeases ==
  ASSUME CacheAssumption, LeaseInv, CacheTypeOK', clock <= clock', UNCHANGED <<req, token, seen>>,
         RecordsStay, LeasesBounded', \A c \in Clients : Preserved(c)
  PROVE  LeasesKept
<1>1. \A t \in Tabs : ClientOf[t] \in Clients
  BY DEF CacheAssumption
<1>2. \A t \in Tabs : Answer(t)'
  BY <1>1, AnswerKept DEF Settling
<1>3. ForeignLeasesKept
  BY DEF ForeignLeasesKept, Preserved
<1> QED BY <1>2, <1>3 DEF LeasesKept, AnswersHeld

LEMMA GetLeases == ASSUME CacheAssumption, LeaseInv, CacheTypeOK', NEW t \in Tabs, Get(t) PROVE LeasesKept
<1>0. UNCHANGED <<clock, byToken, req, token, seen>> /\ clock <= clock'
  BY LeaseParts DEF Get, cache, tabs
<1>1. PICK i \in Ids : i = token[t]
  BY LeaseParts DEF Get
<1>2. PICK c \in Clients : c = ClientOf[t]
  BY DEF CacheAssumption
<1>3. PinRecord(i, c, 0)
  BY <1>1, <1>2 DEF Get
<1> QED BY <1>0, <1>3, PinnedLeases, UnservedLeases

LEMMA TickLeases == ASSUME CacheAssumption, LeaseInv, CacheTypeOK', Tick PROVE LeasesKept
<1>0. /\ CacheTypeOK /\ clock' = clock + 1 /\ rec' = [i \in Ids |-> Expired(rec[i])]
      /\ UNCHANGED <<byToken, req, token, seen>> /\ clock \in Nat /\ clock <= clock'
  BY LeaseParts DEF Tick, cache, tabs
<1>1. ASSUME NEW i \in Ids
      PROVE  /\ rec'[i].digest = rec[i].digest /\ rec'[i].max = rec[i].max
             /\ \A c \in Clients : /\ rec'[i].lease[c] <= rec'[i].max
                                   /\ rec[i].lease[c] > clock' =>
                                        rec'[i].lease[c] >= rec[i].lease[c] /\ rec'[i].count[c] >= rec[i].count[c]
  <2> DEFINE r == Expired(rec[i])
  <2>1. rec'[i] = r
    BY <1>0
  <2>2. /\ r.digest = rec[i].digest /\ r.max = rec[i].max
        /\ \A c \in Clients : /\ r.lease[c] = IF rec[i].lease[c] <= clock' THEN 0 ELSE rec[i].lease[c]
                              /\ r.count[c] = IF rec[i].lease[c] <= clock' THEN 0 ELSE rec[i].count[c]
    BY <1>0, ExpiredRecord
  <2>3. \A c \in Clients : rec[i].lease[c] \in Nat /\ rec[i].count[c] \in Nat /\ rec[i].max \in Nat
                           /\ rec[i].lease[c] <= rec[i].max
    BY LeaseParts DEF LeasesBounded
  <2> HIDE DEF r
  <2> QED BY <1>0, <2>1, <2>2, <2>3
<1>2. RecordsStay /\ LeasesBounded'
  BY <1>1 DEF RecordsStay, LeasesBounded
<1>3. \A c \in Clients : Preserved(c)
  <2>1. byToken \subseteq Ids
    BY LeaseParts
  <2> QED BY <1>0, <1>1, <2>1 DEF Preserved
<1> QED BY <1>0, <1>2, <1>3, UnservedLeases

LEMMA ReloadLeases == ASSUME CacheAssumption, LeaseInv, CacheTypeOK', NEW t \in Tabs, Reload(t) PROVE LeasesKept
<1>0. /\ CacheTypeOK /\ Answer(t) /\ req[t].step = "idle" /\ UNCHANGED <<clock, rec, byToken, req, seen>>
      /\ token' = [token EXCEPT ![t] = 0] /\ token \in [Tabs -> Slots] /\ ClientOf[t] \in Clients
  BY LeaseParts DEF Reload, At, cache, CacheTypeOK, AnswersHeld, CacheAssumption
<1>1. RecordsStay /\ LeasesBounded' /\ \A c \in Clients : Preserved(c)
  BY <1>0, StillLeases
<1>2. token'[t] = 0 /\ \A s \in Tabs \ {t} : token'[s] = token[s]
  BY <1>0
<1>3. Answer(t)'
  BY <1>0, <1>2 DEF Answer, At, Settling
<1> QED BY <1>0, <1>1, <1>2, <1>3, StepLeases DEF LeasesKept

LEMMA PostLeases ==
  ASSUME CacheAssumption, LeaseInv, CacheTypeOK', NEW t \in Tabs, NEW d \in Digests, Post(t, d) PROVE LeasesKept
<1>0. /\ CacheTypeOK /\ Answer(t) /\ req[t].step = "idle" /\ UNCHANGED <<clock, rec, byToken, token, seen>>
      /\ req \in [Tabs -> Requests] /\ ClientOf[t] \in Clients /\ clock \in Nat /\ clock' = clock
      /\ Timeout \in Nat /\ Timeout' = Timeout /\ token[t] \in Slots /\ seen[t] \in Int /\ clock <= clock'
  BY LeaseParts DEF Post, At, cache, tabs, CacheTypeOK, AnswersHeld, CacheAssumption
<1>1. RecordsStay /\ LeasesBounded' /\ \A c \in Clients : Preserved(c)
  BY <1>0, StillLeases
<1>2. PICK old : old = Superseded(token[t], ClientOf[t], d)
  OBVIOUS
<1>3. PICK by \in Nat : by = clock + Timeout
  BY <1>0
<1> DEFINE q == [Idle EXCEPT !.step = "lookup", !.digest = d, !.sent = token[t], !.old = old, !.by = by]
<1>4. req' = [req EXCEPT ![t] = q]
  BY <1>2, <1>3 DEF Post
<1>5. q.step = "lookup" /\ q.by = by
  BY DEF Idle
<1> HIDE DEF q
<1>6. req'[t] = q /\ \A s \in Tabs \ {t} : req'[s] = req[s]
  BY <1>0, <1>4
<1>7. ASSUME Sole(t)', token'[t] # 0 PROVE HeldFor(token[t], ClientOf[t], seen[t], Consumers(t))'
  <2>1. HeldFor(token[t], ClientOf[t], seen[t], 1)
    BY <1>0, <1>7 DEF Answer, Sole, Consumers, At
  <2>2. Consumers(t)' = 1
    BY <1>5, <1>6 DEF Consumers, At
  <2> QED BY <1>0, <2>1, <2>2 DEF HeldFor, Until
<1>8. Answer(t)'
  <2>1. Timeout <= req'[t].by /\ req'[t].by <= clock' + Timeout
    BY <1>0, <1>3, <1>5, <1>6
  <2> QED BY <1>5, <1>6, <1>7, <2>1 DEF Answer, Settling, At
<1> QED BY <1>0, <1>1, <1>6, <1>8, StepLeases DEF LeasesKept

(* The invariant holds at first, and with every step.                      *)
LEMMA LeasesStart == ASSUME CacheAssumption, Init PROVE LeaseInv
<1>1. CacheInv /\ CacheTypeOK
  BY CacheStarts, InvParts
<1>2. /\ \A t \in Tabs : req[t] = Idle /\ token[t] = 0
      /\ \A i \in Ids : rec[i] = NoRecord
  BY DEF Init
<1>3. Idle.step = "idle" /\ NoRecord.lease = NoLease /\ NoRecord.max = 0
  BY DEF Idle, NoRecord
<1>4. LeasesBounded
  BY <1>2, <1>3 DEF LeasesBounded, NoLease
<1>5. AnswersHeld
  BY <1>2, <1>3 DEF AnswersHeld, Answer, Settling, At
<1> QED BY <1>1, <1>4, <1>5 DEF LeaseInv

LEMMA LeaseSteps == ASSUME CacheAssumption, LeaseInv, [Next]_vars PROVE LeaseInv' /\ LeasesKept
<1>0. CacheInv' /\ CacheTypeOK'
  <2>1. CacheInv'
    BY LeaseParts, CacheSteps
  <2> QED BY <2>1 DEF CacheInv
<1>1. CASE Tick
  BY <1>0, <1>1, TickLeases DEF LeasesKept, LeaseInv
<1>2. CASE \E t \in Tabs : Serve(t) \/ Get(t) \/ Reload(t) \/ \E d \in Digests : Post(t, d)
  <2>1. PICK t \in Tabs : Serve(t) \/ Get(t) \/ Reload(t) \/ \E d \in Digests : Post(t, d)
    BY <1>2
  <2>2. CASE Get(t) \/ Reload(t) \/ \E d \in Digests : Post(t, d)
    BY <1>0, <2>2, GetLeases, ReloadLeases, PostLeases DEF LeasesKept, LeaseInv
  <2>3. CASE Lookup(t) \/ Acquire(t) \/ GiveUp(t) \/ Admit(t) \/ Reserve(t) \/ Mkdir(t) \/ Render(t)
    BY <1>0, <2>3, LookupLeases, AcquireLeases, GiveUpLeases, AdmitLeases, ReserveLeases, MkdirLeases, RenderLeases
       DEF LeasesKept, LeaseInv
  <2>4. CASE Register(t) \/ Unregistrable(t) \/ Trim(t) \/ Finish(t) \/ Deliver(t)
    BY <1>0, <2>4, RegisterLeases, UnregistrableLeases, TrimLeases, FinishLeases, DeliverLeases DEF LeasesKept, LeaseInv
  <2>5. CASE Abandon(t) \/ ReleaseOld(t) \/ KeepOld(t) \/ Prune(t) \/ Sweep(t)
    BY <1>0, <2>5, AbandonLeases, ReleaseOldLeases, KeepOldLeases, PruneLeases, SweepLeases DEF LeasesKept, LeaseInv
  <2> QED BY <2>1, <2>2, <2>3, <2>4, <2>5 DEF Serve
<1>3. CASE UNCHANGED vars
  <2>1. UNCHANGED <<clock, rec, byToken, req, token, seen>>
    BY <1>3 DEF vars
  <2>2. clock <= clock'
    BY <2>1, LeaseParts
  <2> QED BY <1>0, <2>1, <2>2, StillLeases, UnservedLeases DEF LeasesKept, LeaseInv
<1> QED BY <1>1, <1>2, <1>3 DEF Next

(* What is held for a tab that is its client's only one can be read.       *)
LEMMA HeldIsReadable == ASSUME CacheAssumption, LeaseInv PROVE ShownReadable
<1> SUFFICES ASSUME NEW t \in Tabs, Sole(t), token[t] # 0, clock < Fewer(seen[t] + Grace, rec[token[t]].max)
             PROVE  token[t] \in byToken /\ Leased(token[t], ClientOf[t])
  BY DEF ShownReadable
<1>1. PICK c \in Clients : c = ClientOf[t]
  BY DEF CacheAssumption
<1>2. CacheTypeOK /\ Answer(t) /\ clock \in Nat /\ Grace \in Nat
  BY LeaseParts DEF AnswersHeld, CacheAssumption
<1>3. PICK i \in Ids : i = token[t]
  BY <1>2 DEF CacheTypeOK, Slots
<1>4. PICK z \in Int : z = seen[t]
  BY <1>2 DEF CacheTypeOK
<1>5. PICK n \in {1, 2} : n = Consumers(t)
  BY DEF Consumers
<1>6. HeldFor(i, c, z, n)
  BY <1>1, <1>2, <1>3, <1>4, <1>5 DEF Answer
<1>7. i \in byToken /\ rec[i].lease[c] >= Fewer(z + Grace, rec[i].max)
  BY <1>3, <1>4, <1>6 DEF HeldFor, Until
<1>8. rec[i].lease[c] \in Nat /\ Fewer(z + Grace, rec[i].max) \in Int
  BY <1>2, LeaseParts DEF Fewer
<1>9. Leased(i, c)
  BY <1>2, <1>3, <1>4, <1>7, <1>8 DEF Leased
<1> QED BY <1>1, <1>3, <1>7, <1>9

(* What a tab shows can be read again for the whole grace period since it  *)
(* asked for it, and no request revokes another client's lease or evicts what*)
(* it protects, whatever the threads of other tabs answer, prune, supersede,*)
(* release or abandon.                                                     *)
THEOREM LeasesAreHeld == Spec => LeasesHold
<1>1. Init => LeaseInv
  BY LeasesStart, CacheAssumption
<1>2. LeaseInv /\ [Next]_vars => LeaseInv'
  BY LeaseSteps, CacheAssumption
<1>3. LeaseInv => ShownReadable
  BY HeldIsReadable, CacheAssumption
<1>4. LeaseInv /\ [Next]_vars => ForeignLeasesKept
  BY LeaseSteps, CacheAssumption DEF LeasesKept
<1> QED BY <1>1, <1>2, <1>3, <1>4, PTL DEF Spec, LeasesHold
=============================================================================
