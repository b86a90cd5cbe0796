--------------------------- MODULE ViewerPointers ---------------------------
(***************************************************************************)
(* Pointers on a canvas in the viewer's frame (app.js of                   *)
(* resources/native_viewer/assets.py, hosted by the editor).  One pointer  *)
(* drags a node, pans, or picks the ends of an edge; two pinch; a drag     *)
(* that is cancelled, or becomes a pinch, or is cut off by the observation *)
(* mode goes back to where it began.  What is dragged is posted to the tab *)
(* when it is dropped (EditorTab is about what becomes of it).  The view   *)
(* fits the layout by itself until the user chooses one.                   *)
(*                                                                         *)
(* What is abstracted.  A position is one of a few spots, a view is known  *)
(* by whether it fits.  Of the edits that need a new picture only that     *)
(* they are posted is kept; labels and the text dialog are left out.       *)
(***************************************************************************)
EXTENDS Naturals, FiniteSets

CONSTANTS
  Pointers,   \* fingers, or the mouse
  Nodes,      \* nodes of the canvas
  Spots,      \* bound: positions of a node, one of them 0
  MidGesture  \* whether documents are edited from the keyboard while a pointer is down

ASSUME PointerAssumption == 0 \in Spots /\ MidGesture \in BOOLEAN

VARIABLES
  down,       \* the pointers that are down
  active,     \* those the viewer follows (activePointers)
  gesture,    \* what they are doing
  shown,      \* where the picture has the nodes
  home,       \* where the picture was rendered with them (sourceModel)
  sent,       \* where the document posted last has them
  fit,        \* autoFitActive, what it was before the pointers, and whether the view fits
  own,        \* history: what the user has done since the view was fitted
  observing,  \* observationMode
  selected,   \* the node or the edge that is selected, if any
  picking,    \* the end of an edge the next node is picked for, if any
  frame       \* "live", or inert while the tab has a picture rendered

viewerVars == <<down, active, gesture, shown, home, sent, fit, own, observing, selected, picking, frame>>
positions == <<shown, home, sent>>
editing == <<observing, selected, picking, frame>>

NoGesture == [kind |-> "none", pointer |-> {}, node |-> {}, from |-> 0, moved |-> FALSE]
Tracking(kind, p) == [NoGesture EXCEPT !.kind = kind, !.pointer = {p}]
Dragging(p, n) == [Tracking("drag", p) EXCEPT !.node = {n}, !.from = shown[n]]

Fitted == [auto |-> TRUE, before |-> FALSE, changed |-> FALSE, moved |-> FALSE, pending |-> FALSE,
           fits |-> TRUE]

\* A frame that has just started, with a canvas from the server.
Opened ==
  /\ active = {} /\ gesture = NoGesture
  /\ fit = Fitted /\ own = "nothing"
  /\ observing = FALSE /\ selected = "none" /\ picking = "none" /\ frame = "live"

ViewerInit ==
  /\ Opened
  /\ down = {}
  /\ home = [n \in Nodes |-> 0] /\ shown = home /\ sent = home

-----------------------------------------------------------------------------
(* What the handlers share.                                                *)

\* The drag under way is taken back.
RolledBack ==
  [n \in Nodes |-> IF n \in gesture.node THEN gesture.from ELSE shown[n]]

\* releasePointerAutoFitIfIdle: after mere taps the view fits by itself as before.
Released(f, pointers, doing) ==
  LET taps == f.before /\ ~f.changed /\ ~f.moved
  IN  IF pointers # {} \/ doing.kind # "none" THEN f
      ELSE [auto |-> f.auto \/ taps, before |-> FALSE, changed |-> FALSE, moved |-> FALSE,
            pending |-> FALSE, fits |-> f.fits \/ (taps /\ f.pending)]

\* The first pointer suspends the fit.
Suspended ==
  IF active = {}
  THEN [fit EXCEPT !.auto = FALSE, !.before = fit.auto, !.changed = FALSE, !.moved = FALSE,
                   !.pending = FALSE]
  ELSE [fit EXCEPT !.auto = FALSE]

\* The user has changed the view.
Chosen(f) == [f EXCEPT !.auto = FALSE, !.fits = FALSE, !.changed = active # {}]

\* A pointer that has come down is followed.
Comes(p) ==
  /\ frame = "live"
  /\ p \notin down
  /\ down' = down \cup {p}

Follow(p) == active' = active \cup {p}

-----------------------------------------------------------------------------
(* Pointers.                                                               *)

PressNode(p, n) ==
  /\ Comes(p) /\ active = {}
  /\ ~observing /\ picking = "none"
  /\ Follow(p)
  /\ selected' = n
  /\ gesture' = Dragging(p, n)
  /\ fit' = Suspended
  /\ UNCHANGED <<positions, own, observing, picking, frame>>

\* Elsewhere, or anywhere in observation mode, one pointer pans.
PressElsewhere(p) ==
  /\ Comes(p) /\ active = {}
  /\ Follow(p)
  /\ selected' = IF observing THEN selected ELSE "none"
  /\ gesture' = Tracking("pan", p)
  /\ fit' = Suspended
  /\ UNCHANGED <<positions, own, observing, picking, frame>>

PressEdge(p) ==
  /\ Comes(p) /\ active = {}
  /\ ~observing
  /\ selected' = "edge"
  /\ gesture' = NoGesture
  /\ fit' = Released(Suspended, active, NoGesture)
  /\ UNCHANGED <<active, positions, own, observing, picking, frame>>

\* rebuildDocument: the document is posted, as it is shown.
Rebuild ==
  /\ sent' = shown /\ home' = shown
  /\ frame' = "rebuild"
  /\ UNCHANGED shown

\* The end of an edge is picked: the pointer is let go before the document is posted,
\* unless it has no room for another edge.
PickEnd(p) ==
  /\ Comes(p) /\ active = {}
  /\ ~observing /\ picking # "none"
  /\ picking' = "none"
  /\ fit' = Released(Suspended, active, gesture)
  /\ Rebuild \/ (picking = "create" /\ UNCHANGED <<positions, frame>>)
  /\ UNCHANGED <<active, gesture, own, observing, selected>>

\* MUTANT of StartPinch: the drag that becomes a pinch stays where it is.
PinchInPlace(p) ==
  /\ Comes(p) /\ Cardinality(active) = 1
  /\ Follow(p)
  /\ gesture' = [NoGesture EXCEPT !.kind = "pinch"]
  /\ fit' = [Suspended EXCEPT !.moved = IF gesture.kind = "drag" /\ gesture.moved THEN FALSE ELSE @]
  /\ UNCHANGED <<positions, own, editing>>

\* A second pointer, away from the first, makes it a pinch.
StartPinch(p) ==
  /\ Comes(p) /\ Cardinality(active) = 1
  /\ Follow(p)
  /\ gesture' = [NoGesture EXCEPT !.kind = "pinch"]
  /\ shown' = IF gesture.moved THEN RolledBack ELSE shown
  /\ fit' = [Suspended EXCEPT !.moved = IF gesture.kind = "drag" /\ gesture.moved THEN FALSE ELSE @]
  /\ UNCHANGED <<home, sent, own, editing>>

\* A third one, or a second one at the same point, is only followed.
PressMore(p) ==
  /\ Comes(p) /\ active # {}
  /\ Follow(p)
  /\ fit' = Suspended
  /\ UNCHANGED <<gesture, positions, own, editing>>

\* The node goes to another spot, or is kept on the canvas.
Drag ==
  /\ frame = "live"
  /\ gesture.kind = "drag"
  /\ \E n \in gesture.node, spot \in Spots : shown' = [shown EXCEPT ![n] = spot]
  /\ gesture' = [gesture EXCEPT !.moved = TRUE]
  /\ fit' = [fit EXCEPT !.moved = TRUE]
  /\ UNCHANGED <<down, active, home, sent, own, editing>>

\* A pan or a pinch of two pointers that is more than a tap.
MoveView ==
  /\ frame = "live"
  /\ gesture.kind = "pan" \/ (gesture.kind = "pinch" /\ Cardinality(active) = 2)
  /\ gesture' = [gesture EXCEPT !.moved = TRUE]
  /\ fit' = Chosen(fit)
  /\ own' = "view"
  /\ UNCHANGED <<down, active, positions, editing>>

\* What is left when p has gone: a pinch turns into a pan of the other pointer.
Remaining(p) ==
  LET others == active \ {p}
  IN  IF gesture.pointer = {p} THEN NoGesture
      ELSE IF gesture.kind = "pinch" /\ Cardinality(others) < 2
      THEN IF others = {} THEN NoGesture ELSE [Tracking("pan", p) EXCEPT !.pointer = others]
      ELSE gesture

\* A drag that ends is posted.
LiftPointer(p) ==
  /\ p \in down /\ frame = "live"
  /\ down' = down \ {p}
  /\ active' = active \ {p}
  /\ gesture' = Remaining(p)
  /\ LET dropped == gesture.kind = "drag" /\ gesture.pointer = {p} /\ gesture.moved
     IN  /\ sent' = IF dropped THEN shown ELSE sent
         /\ own' = IF dropped /\ own = "nothing" THEN "other" ELSE own
  /\ fit' = Released(fit, active', gesture')
  /\ UNCHANGED <<shown, home, editing>>

CancelPointer(p) ==
  /\ p \in down /\ frame = "live"
  /\ down' = down \ {p}
  /\ active' = active \ {p}
  /\ gesture' = Remaining(p)
  /\ LET dragged == gesture.kind = "drag" /\ gesture.pointer = {p} /\ gesture.moved
     IN  /\ shown' = IF dragged THEN RolledBack ELSE shown
         /\ fit' = Released([fit EXCEPT !.moved = @ /\ ~dragged], active', gesture')
  /\ UNCHANGED <<home, sent, own, editing>>

-----------------------------------------------------------------------------
(* Buttons and keys.                                                       *)

Editable == frame = "live" /\ ~observing /\ (MidGesture \/ active = {})

ResetLayout ==
  /\ Editable
  /\ shown' = home /\ sent' = home
  /\ UNCHANGED <<down, active, gesture, home, fit, own, editing>>

\* A node is added, or the selection deleted or given another text.
EditDocument ==
  /\ Editable
  /\ Rebuild
  /\ selected' \in {selected, "none"}
  /\ UNCHANGED <<down, active, gesture, fit, own, observing, picking>>

\* An edge is begun at the selected node, or the selected edge is to get another end.
BeginPicking ==
  /\ frame = "live" /\ ~observing
  /\ selected # "none"
  /\ picking' = IF selected = "edge" THEN "reattach" ELSE "create"
  /\ UNCHANGED <<down, active, gesture, positions, fit, own, observing, selected, frame>>

Escape ==
  /\ frame = "live"
  /\ picking' = "none" /\ selected' = "none"
  /\ UNCHANGED <<down, active, gesture, positions, fit, own, observing, frame>>

\* setObservationMode lets go of all pointers; the fit they have suspended stays off.
ToggleObservation ==
  /\ frame = "live"
  /\ observing' = ~observing
  /\ shown' = RolledBack
  /\ active' = {} /\ gesture' = NoGesture
  /\ picking' = "none" /\ selected' = "none"
  /\ fit' = [fit EXCEPT !.before = FALSE, !.changed = FALSE, !.moved = FALSE, !.pending = FALSE]
  /\ own' = IF active # {} /\ own = "nothing" THEN "other" ELSE own
  /\ UNCHANGED <<down, home, sent, frame>>

PressFit ==
  /\ frame = "live"
  /\ fit' = [fit EXCEPT !.auto = TRUE, !.fits = TRUE]
  /\ own' = IF active = {} THEN "nothing" ELSE "other"
  /\ UNCHANGED <<down, active, gesture, positions, editing>>

\* The wheel and the zoom buttons.
Zoom ==
  /\ frame = "live"
  /\ fit' = Chosen(fit)
  /\ own' = "view"
  /\ UNCHANGED <<down, active, gesture, positions, editing>>

\* fitAfterLayoutChange
LayoutChanges ==
  /\ fit' = [fit EXCEPT !.fits = fit.auto,
                        !.pending = @ \/ (~fit.auto /\ active # {} /\ fit.before)]
  /\ UNCHANGED <<down, active, gesture, positions, own, editing>>

-----------------------------------------------------------------------------
(* The tab.                                                                *)

\* An undo or redo is rendered; one that fails gives the frame back.
RenderHistory ==
  /\ frame = "live" /\ (MidGesture \/ active = {})
  /\ frame' = "history"
  /\ UNCHANGED <<down, active, gesture, positions, fit, own, observing, selected, picking>>

HistoryFails ==
  /\ frame = "history"
  /\ frame' = "live"
  /\ UNCHANGED <<down, active, gesture, positions, fit, own, observing, selected, picking>>

\* The frame is replaced by one with the new picture, in which nodes that leave the canvas
\* are moved and the result is posted.  It takes over a view that does not fit by itself,
\* unless it has come too late or another document is opened.
ReplaceFrame ==
  /\ frame # "live"
  /\ active' = {} /\ gesture' = NoGesture
  /\ observing' = FALSE /\ selected' = "none" /\ picking' = "none" /\ frame' = "live"
  /\ home' \in IF frame = "rebuild" THEN {sent} ELSE [Nodes -> Spots]
  /\ shown' \in [Nodes -> Spots] /\ sent' = shown'
  /\ \/ /\ ~fit.auto
        /\ fit' = [Fitted EXCEPT !.auto = FALSE, !.fits = FALSE]
        /\ UNCHANGED own
     \/ fit' = Fitted /\ own' = "nothing"
  /\ UNCHANGED down

ViewerNext ==
  \/ \E p \in Pointers :
       \/ \E n \in Nodes : PressNode(p, n)
       \/ PressElsewhere(p) \/ PressEdge(p) \/ PickEnd(p) \/ StartPinch(p) \/ PressMore(p)
       \/ LiftPointer(p) \/ CancelPointer(p)
  \/ Drag \/ MoveView
  \/ ResetLayout \/ EditDocument \/ BeginPicking \/ Escape \/ ToggleObservation
  \/ PressFit \/ Zoom \/ LayoutChanges
  \/ RenderHistory \/ HistoryFails \/ ReplaceFrame

ViewerSpec == ViewerInit /\ [][ViewerNext]_viewerVars

-----------------------------------------------------------------------------

\* A node is not where the document posted last has it only while it is being dragged;
\* however a drag ends, is cancelled, becomes a pinch or is cut off, nothing else differs.
\* While observing nothing is dragged or picked.
PictureSent ==
  /\ \A n \in Nodes : shown[n] # sent[n] =>
       gesture.kind = "drag" /\ gesture.moved /\ gesture.node = {n} /\ gesture.pointer \subseteq active
  /\ observing => gesture.kind # "drag" /\ picking = "none"

\* With no pointer on the canvas, the view fits by itself if the user has done nothing but
\* tap since it was fitted, then it does fit, and a view the user has chosen stays.
ViewKept ==
  active = {} /\ frame = "live" =>
    /\ gesture = NoGesture
    /\ own = "nothing" => fit.auto
    /\ own = "view" => ~fit.auto
    /\ fit.auto => fit.fits

\* The frame is settled: picture, document and view agree whenever nobody touches it.
ViewerSettled == PictureSent /\ ViewKept
=============================================================================
