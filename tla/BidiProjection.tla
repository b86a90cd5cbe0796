--------------------------- MODULE BidiProjection ---------------------------
(***************************************************************************)
(* Wrapping text of two directions (visual/native_diagram.py,              *)
(* _canvas_project_bidi_wrapped_lines).  A wrapped label becomes one SVG   *)
(* text element per line, and each of them is laid out as a paragraph of   *)
(* its own: the scopes that are open where a line ends are closed there    *)
(* and opened again on the next line, and an opener that takes its         *)
(* direction from the text that follows (FSI) is replaced by the one it    *)
(* stands for, read off the text before it was wrapped and cut.            *)
(*                                                                         *)
(* What is abstracted.  A character is its class: "E" opens an embedding   *)
(* or override, "L" and "R" open isolates, "F" is FSI, "pdf" and "pdi"     *)
(* close, "l" and "r" are letters, "B" ends a paragraph; "/" is where the  *)
(* text is wrapped.  Texts hold "R" only where an FSI stands for it.       *)
(***************************************************************************)
EXTENDS Naturals, SequencesExt

CONSTANTS
  MaxDepth,  \* scopes that may be open at once
  MaxScan,   \* characters that may be looked at to resolve FSI, over a text
  MaxText    \* bound: characters of a text

ASSUME BidiAssumption == MaxDepth \in Nat \ {0} /\ MaxScan \in Nat /\ MaxText \in Nat

VARIABLE text  \* the text so far, wrapped

Characters == {"E", "L", "F", "pdf", "pdi", "l", "r", "B", "/"}
Openers == {"E", "L", "R"}
Isolates == {"L", "R"}
Letters == {"l", "r"}

BidiInit == text = <<>>
BidiNext == Len(text) < MaxText /\ \E c \in Characters : text' = Append(text, c)

-----------------------------------------------------------------------------
(* The projection.                                                         *)

Unwrapped(s) == SelectSeq(s, LAMBDA c : c # "/")

\* Looking ahead from an FSI, as the code does with its counter of nested isolates.
Look1(seen, c) ==
  IF seen.found # "none" THEN seen
  ELSE LET next == [seen EXCEPT !.scanned = @ + 1]
       IN  CASE c = "B" -> [next EXCEPT !.found = "L"]
             [] c \in Isolates \cup {"F"} -> [next EXCEPT !.nested = @ + 1]
             [] c = "pdi" -> IF seen.nested > 0
                             THEN [next EXCEPT !.nested = @ - 1]
                             ELSE [next EXCEPT !.found = "L"]
             [] c = "l" /\ seen.nested = 0 -> [next EXCEPT !.found = "L"]
             [] c = "r" /\ seen.nested = 0 -> [next EXCEPT !.found = "R"]
             [] OTHER -> next

ResolveFsi(source, start) ==
  LET end == FoldLeft(Look1, [nested |-> 0, scanned |-> 0, found |-> "none"],
                      SubSeq(source, start + 1, Len(source)))
  IN  [direction |-> IF end.found = "none" THEN "L" ELSE end.found, scanned |-> end.scanned]

Closer(opener) == IF opener = "E" THEN "pdf" ELSE "pdi"
Closers(stack) == [i \in DOMAIN stack |-> Closer(stack[Len(stack) + 1 - i])]

\* The positions of the FSIs of the source, in order.
Fsis(source) == SetToSortSeq({i \in DOMAIN source : source[i] = "F"}, <)

\* Mutant: a PDI closes the innermost scope if it is an isolate.
ClosePdiTop(stack) ==
  IF stack # <<>> /\ Last(stack) \in Isolates THEN Front(stack) ELSE stack

\* A PDI closes the innermost isolate, and what has been opened inside it.
ClosePdi(stack) ==
  LET isolates == {i \in DOMAIN stack : stack[i] \in Isolates}
  IN  IF isolates = {} THEN stack
      ELSE SubSeq(stack, 1, (CHOOSE i \in isolates : \A j \in isolates : j <= i) - 1)

ClosePdf(stack) == IF stack # <<>> /\ Last(stack) = "E" THEN Front(stack) ELSE stack

\* One character of a wrapped text, or the end of a line.
Project1(source, state, c) ==
  IF state.failed THEN state
  ELSE IF c = "/"
  THEN [state EXCEPT !.lines = Append(@, state.line \o Closers(state.stack)),
                     !.line = state.stack]
  ELSE IF c \in Openers \cup {"F"} /\ Len(state.stack) >= MaxDepth
  THEN [state EXCEPT !.failed = TRUE]
  ELSE IF c = "F"
  THEN LET number == state.fsis + 1
           resolved == ResolveFsi(source, Fsis(source)[number])
       IN  IF resolved.scanned > state.budget
           THEN [state EXCEPT !.failed = TRUE]
           ELSE [state EXCEPT !.fsis = number, !.budget = @ - resolved.scanned,
                              !.line = Append(@, resolved.direction),
                              !.stack = Append(@, resolved.direction)]
  ELSE IF c = "B"
  THEN [state EXCEPT !.line = @ \o Closers(state.stack) \o <<c>>, !.stack = <<>>]
  ELSE [state EXCEPT !.line = Append(@, c),
                     !.stack = IF c \in Openers THEN Append(@, c)
                               ELSE IF c = "pdf" THEN ClosePdf(@)
                               ELSE IF c = "pdi" THEN ClosePdi(@) ELSE @]

\* The lines of a text whose FSIs are those of the source.
Project(wrapped, source) ==
  LET Project2(state, c) == Project1(source, state, c)
  IN  FoldLeft(Project2,
               [lines |-> <<>>, line |-> <<>>, stack |-> <<>>, fsis |-> 0, budget |-> MaxScan,
                failed |-> FALSE],
               Append(wrapped, "/"))

-----------------------------------------------------------------------------
(* Reading a line: the scopes each letter is in, by the definitions of the *)
(* Unicode bidirectional algorithm (BD9, BD11, P2), without a stack.       *)

\* No paragraph ends between a and b.
SameParagraph(s, a, b) == \A i \in a+1..b-1 : s[i] # "B"

\* The PDI that matches the isolate opened at a: the first one behind it with as many
\* isolates as PDIs in between.
Count(s, a, b, classes) == Cardinality({i \in a+1..b-1 : s[i] \in classes})
MatchesPdi(s, a, b) ==
  /\ a < b /\ s[a] \in Isolates \cup {"F"} /\ s[b] = "pdi"
  /\ SameParagraph(s, a, b)
  /\ Count(s, a, b, Isolates \cup {"F"}) = Count(s, a, b, {"pdi"})
  /\ \A k \in a+1..b-1 :
       s[k] = "pdi" => Count(s, a, k, Isolates \cup {"F"}) # Count(s, a, k, {"pdi"})

\* The isolate a is still open at b.
IsolateOpen(s, a, b) ==
  /\ a < b /\ s[a] \in Isolates \cup {"F"}
  /\ SameParagraph(s, a, b)
  /\ ~ \E k \in a+1..b-1 : MatchesPdi(s, a, k)

\* What is directly inside the same isolates as a.
SameLevel(s, a, b) ==
  \A i \in 1..b-1 : IsolateOpen(s, i, b) <=> i < a /\ IsolateOpen(s, i, a)

\* The embedding a is still open at b: neither has its isolate been closed nor has a
\* PDF on its own level matched it.
Before(s, level, k, class) == Cardinality({i \in level : i < k /\ s[i] = class})
MatchesPdf(s, level, k) == s[k] = "pdf" /\ Before(s, level, k, "E") = Before(s, level, k, "pdf")
Unmatched(s, level) == \A k \in level : ~MatchesPdf(s, level, k)

EmbeddingOpen(s, a, b) ==
  /\ a < b /\ s[a] = "E"
  /\ SameParagraph(s, a, b)
  /\ \A i \in 1..a-1 : IsolateOpen(s, i, a) => IsolateOpen(s, i, b)
  /\ Unmatched(s, {i \in a+1..b-1 : SameLevel(s, a, i)})

\* The direction of the isolate at a: that of the first of its own letters.
DirectionOf(s, strong) ==
  IF strong # {} /\ s[CHOOSE i \in strong : \A j \in strong : i <= j] = "r" THEN "R" ELSE "L"

Direction(s, a) ==
  IF s[a] # "F" THEN s[a]
  ELSE DirectionOf(s, {i \in a+1..Len(s) :
                         /\ s[i] \in Letters /\ IsolateOpen(s, a, i)
                         /\ \A j \in a+1..i-1 : ~IsolateOpen(s, j, i)})

\* The scopes the character at b is in, from the outside.
Directions(s, order) == [i \in DOMAIN order |-> Direction(s, order[i])]
Scopes(s, b) ==
  Directions(s, SetToSortSeq({a \in 1..b-1 : IsolateOpen(s, a, b) \/ EmbeddingOpen(s, a, b)}, <))

\* The letters of a text, each with its scopes.
ReadLetters(s, letters) ==
  [i \in DOMAIN letters |-> [letter |-> s[letters[i]], scopes |-> Scopes(s, letters[i])]]
Reading(s) == ReadLetters(s, SetToSortSeq({i \in DOMAIN s : s[i] \in Letters}, <))
Readings(texts) == FlattenSeq([i \in DOMAIN texts |-> Reading(texts[i])])

\* One reading begins the other.
Begins(read, whole) == read = SubSeq(whole, 1, Len(read))

-----------------------------------------------------------------------------

\* A line stays as it is when it is projected once more.
LineStays(line, again) == ~again.failed /\ again.lines = <<line>>

LinesKept(lines, whole) ==
  /\ Begins(Readings(lines), whole)
  /\ \A i \in DOMAIN lines :
       /\ Scopes(lines[i], Len(lines[i]) + 1) = <<>>
       /\ LineStays(lines[i], Project(lines[i], lines[i]))

CutKept(projected, whole) == ~projected.failed => LinesKept(projected.lines, whole)
CutsKept(source, whole) ==
  \A cut \in 1..Len(text) : CutKept(Project(SubSeq(text, 1, cut), source), whole)

\* However a text is wrapped, and wherever it is cut, each line read by itself shows
\* every letter in the scopes it has in the whole text, leaves no scope open for
\* what the line is set into, and stays as it is when it is projected once more, which
\* _canvas_limit_text_layout_bytes and _canvas_fit_single_line do.
ScopesKept == CutsKept(Unwrapped(text), Reading(Unwrapped(text)))
=============================================================================
