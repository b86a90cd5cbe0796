------------------------------- MODULE MCPages -------------------------------
(***************************************************************************)
(* One run for what people are shown: the page of a review (ReviewSession),*)
(* the page behind the stable link of a publication (PublicationStore) and *)
(* the labels of a drawing (BidiProjection, CanvasLabels).  They share no  *)
(* state: a behaviour is of one of them, and the others stay as they are.  *)
(***************************************************************************)
EXTENDS MCRegie, MCPublicationStore, CanvasLabels

CONSTANTS q1, q2   \* processes that release or withdraw

VARIABLE page  \* whose behaviour it is

(* Boxes from a letter wide to a few, and one too low for a line.          *)
Boxes == {[width |-> 9, height |-> 50], [width |-> 20, height |-> 60],
          [width |-> 34, height |-> 60], [width |-> 34, height |-> 20]}

reviewVars == <<vars, sessionVars, calm>>

PagesInit ==
  /\ page \in {"review", "publication", "bidi", "canvas"}
  /\ ReviewInit /\ StoreInit /\ BidiInit /\ CanvasInit
  /\ page # "review" => calm
  /\ page # "canvas" => total = 1

OfReview == page = "review" /\ UNCHANGED <<page, publicationVars, text, canvasVars>>
OfPublication == page = "publication" /\ UNCHANGED <<page, reviewVars, text, canvasVars>>
OfBidi == page = "bidi" /\ UNCHANGED <<page, reviewVars, publicationVars, canvasVars>>
OfCanvas == page = "canvas" /\ UNCHANGED <<page, reviewVars, publicationVars, text>>

PagesNext ==
  \/ OfReview /\ ReviewNext
  \/ OfPublication /\ StoreNext
  \/ OfBidi /\ BidiNext
  \/ OfCanvas /\ CanvasNext

PagesSpec ==
  PagesInit /\ [][PagesNext]_<<page, publicationVars, reviewVars, text, canvasVars>>
=============================================================================
