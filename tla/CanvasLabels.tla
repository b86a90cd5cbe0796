---------------------------- MODULE CanvasLabels ----------------------------
(***************************************************************************)
(* The labels of a JSON canvas (visual/native_diagram.py,                  *)
(* render_native_editing_document): every label is fitted into the box it  *)
(* belongs to, by smaller type, by wrapping and by cutting, and the whole  *)
(* drawing has a budget of lines and of bytes that its labels share.       *)
(*                                                                         *)
(* What is abstracted.  A character is its class: "l" is a letter, "W" one *)
(* that is wide and is escaped, "B" ends a line, and the controls are      *)
(* those of BidiProjection.  Each is a grapheme cluster by itself, none is *)
(* forbidden in XML, and tabs are spaces.  Widths are in hundredths of an  *)
(* em, without the rounding of floating point; the absolute limits of the  *)
(* probe (32,768 clusters, 65,536 characters) are out of reach.            *)
(***************************************************************************)
EXTENDS BidiProjection

CONSTANTS
  LabelChars,   \* the characters labels are made of
  MaxLabel,     \* bound: characters of a label
  NodeBoxes,    \* the nodes' boxes: [width, height] in pixels, the width that of the text
  CanvasLines,  \* lines of text a drawing may have
  CanvasBytes,  \* bytes of text it may have
  Labelled,     \* bound: how many items have a visible label
  MinFragment   \* letters of a broken word that should stay together

ASSUME CanvasAssumption ==
  /\ LabelChars \subseteq {"l", "W", " ", "B", "E", "pdf"}
  /\ MaxLabel \in Nat /\ CanvasLines \in Nat /\ CanvasBytes \in Nat
  /\ Labelled \subseteq Nat \ {0} /\ MinFragment \in Nat \ {0}
  /\ \A box \in NodeBoxes : box.width \in Nat /\ box.height \in Nat

VARIABLES
  total,  \* items with a visible label
  left,   \* what is left: lines, bytes and items with a visible label
  drawn   \* the item being drawn: its label, its limits, and its lines

canvasVars == <<total, left, drawn>>

SmallSize == 12
LargeSize == 16
Ellipsis == <<"...">>
Blanks == {" "}
LineBlanks == {" ", "B"}

-----------------------------------------------------------------------------
(* Widths and bytes.                                                       *)

CharWidth(c) ==
  CASE c = "l" -> 70 [] c = "W" -> 112 [] c = " " -> 35 [] c = "..." -> 105 [] OTHER -> 0

CharBytes(c) ==
  CASE c \in {"l", " ", "B"} -> 1 [] c = "W" -> 5 [] OTHER -> 3

Bytes(s) == FoldLeft(LAMBDA sum, c : sum + CharBytes(c), 0, s)

\* The width of a line; a run of blanks is as wide as a single space.
Width(s, blanks) ==
  FoldLeft(LAMBDA acc, c : IF c \in blanks
                           THEN [sum |-> acc.sum + (IF acc.blank THEN 0 ELSE 35), blank |-> TRUE]
                           ELSE [sum |-> acc.sum + CharWidth(c), blank |-> FALSE],
           [sum |-> 0, blank |-> FALSE], s).sum

Fits(s, size, width) == Width(s, Blanks) * size <= width * 100
FitsSingle(s, size, width) == Width(s, LineBlanks) * size <= width * 100

StripRight(s) == SubSeq(s, 1, Max({0} \cup {i \in DOMAIN s : s[i] # " "}))
Strip(s) == LET t == StripRight(s)
            IN  SubSeq(t, Min({Len(t) + 1} \cup {i \in DOMAIN t : t[i] # " "}), Len(t))

Collapse(s) ==
  FoldLeft(LAMBDA t, c : IF c = " " /\ t # <<>> /\ Last(t) = " " THEN t ELSE Append(t, c), <<>>, s)

HasContent(s) == \E i \in DOMAIN s : s[i] \notin LineBlanks

Plain(s) == \A i \in DOMAIN s : s[i] \notin {"E", "pdf"}

SourceLines(s) ==
  FoldLeft(LAMBDA t, c : IF c = "B" THEN Append(t, <<>>)
                         ELSE [t EXCEPT ![Len(t)] = Append(@, c)], << <<>> >>, s)

\* As much of s as fits in front of an ellipsis; nothing where not even that has a place.
Ellipsized(s, size, width, bytes, blanks) ==
  IF Width(Ellipsis, blanks) * size > width * 100 \/ Bytes(Ellipsis) > bytes THEN <<>>
  ELSE LET body == StripRight(s)
           taken == {k \in 0..Len(body) :
                       LET t == SubSeq(body, 1, k)
                       IN  /\ (Width(t, blanks) + Width(Ellipsis, blanks)) * size <= width * 100
                           /\ Bytes(t) + Bytes(Ellipsis) <= bytes}
       IN  StripRight(SubSeq(body, 1, Max(taken))) \o Ellipsis

OrEllipsis(p) ==
  [lines |-> IF p.failed THEN <<Ellipsis>> ELSE p.lines, failed |-> p.failed]

\* The lines of a wrapped text, each a paragraph of its own.
Projected(lines, source) ==
  IF lines = <<>> THEN [lines |-> <<>>, failed |-> FALSE]
  ELSE OrEllipsis(Project(Tail(FlattenSeq([i \in DOMAIN lines |-> <<"/">> \o lines[i]])), source))

-----------------------------------------------------------------------------
(* The historical wrapping: a fixed number of characters.                  *)

\* Words and the spaces between them.
Chunks(s) ==
  FoldLeft(LAMBDA t, c : IF t = <<>> \/ c = " " \/ Last(t) = <<" ">> THEN Append(t, <<c>>)
                         ELSE [t EXCEPT ![Len(t)] = Append(@, c)], <<>>, s)

\* Python's textwrap.wrap.
TextWrap(s, chars) ==
  LET Place(acc, chunk) ==
        LET joined == acc.line \o chunk
            pieces == (Len(joined) - 1) \div chars
        IN  IF chunk = <<" ">> /\ acc.line = <<>> /\ acc.lines # <<>> THEN acc
            ELSE IF Len(joined) <= chars THEN [acc EXCEPT !.line = joined]
            ELSE IF Len(chunk) > chars
            THEN [lines |-> acc.lines \o [i \in 1..pieces |->
                              SubSeq(joined, (i - 1) * chars + 1, i * chars)],
                  line |-> SubSeq(joined, pieces * chars + 1, Len(joined))]
            ELSE [lines |-> IF StripRight(acc.line) = <<>> THEN acc.lines
                            ELSE Append(acc.lines, StripRight(acc.line)),
                  line |-> IF chunk = <<" ">> THEN <<>> ELSE chunk]
      end == FoldLeft(Place, [lines |-> <<>>, line |-> <<>>], Chunks(s))
      rest == StripRight(end.line)
  IN  IF rest = <<>> THEN end.lines ELSE Append(end.lines, rest)

AddLegacy(acc, wrapped, remaining, cut) ==
  [lines |-> acc.lines \o SubSeq(wrapped, 1, Min({remaining, Len(wrapped)})),
   truncated |-> Len(wrapped) > remaining \/ cut]

LegacyLines(s, width, maxLines) ==
  LET chars == Max({4, width \div 8})
      Paragraph(acc, paragraph) ==
        LET remaining == maxLines - Len(acc.lines)
            sample == SubSeq(paragraph, 1, Min({Len(paragraph), chars * (remaining + 1)}))
        IN  IF acc.truncated THEN acc
            ELSE IF remaining <= 0 THEN [acc EXCEPT !.truncated = TRUE]
            ELSE AddLegacy(acc, IF Strip(sample) = <<>> THEN << <<>> >> ELSE TextWrap(sample, chars),
                           remaining, Len(sample) < Len(paragraph))
  IN  FoldLeft(Paragraph, [lines |-> <<>>, truncated |-> FALSE], SourceLines(s))

-----------------------------------------------------------------------------
(* Wrapping by width.                                                      *)

\* The line is full: it is broken at its last space, or else where it ends.
BreakAt(state, at, maxLines) ==
  LET emitted == Strip(SubSeq(state.line, 1, at - 1))
  IN  [lines |-> IF emitted = <<>> THEN state.lines ELSE Append(state.lines, emitted),
       truncated |-> emitted # <<>> /\ Len(state.lines) + 1 >= maxLines,
       line |-> Strip(SubSeq(state.line, at + 1, Len(state.line)))]

BreakLine(state, c, size, width, maxLines) ==
  LET spaces == {i \in DOMAIN state.line : state.line[i] = " "}
  IN  IF state.truncated \/ state.line = <<>> \/ Fits(Append(state.line, c), size, width) THEN state
      ELSE BreakAt(state, IF spaces = {} THEN Len(state.line) + 1 ELSE Max(spaces), maxLines)

PutChar(state, c, size, width) ==
  IF state.truncated \/ (state.line = <<>> /\ c = " ") THEN state
  ELSE IF state.line = <<>> /\ ~Fits(<<c>>, size, width)
  THEN [state EXCEPT !.lines = Append(@, <<c>>), !.truncated = TRUE]
  ELSE [state EXCEPT !.line = Append(@, c)]

\* Mutant: the letters are given and kept.
RebalancedTwice(lines, size, width) ==
  Front(lines) \o << <<Last(Last(Front(lines)))>> \o Last(lines)>>

\* The last line of a single word takes letters from the line before it.
Rebalanced(lines, size, width) ==
  LET donor == Last(Front(lines))
      fragment == Last(lines)
      Moved(k) == SubSeq(donor, Len(donor) - k + 1, Len(donor)) \o fragment
      taken == Max({k \in 0..Len(donor) :
                      \/ k = 0
                      \/ /\ Len(fragment) + k <= MinFragment
                         /\ Len(donor) - k >= MinFragment
                         /\ Fits(Moved(k), size, width)})
  IN  Front(Front(lines))
        \o <<SubSeq(donor, 1, Len(donor) - taken), Moved(taken)>>

\* What the first break carries over has no space: a second one empties the line.
FillLines(value, size, width, maxLines) ==
  FoldLeft(LAMBDA state, c :
             PutChar(BreakLine(BreakLine(state, c, size, width, maxLines),
                               c, size, width, maxLines), c, size, width),
           [lines |-> <<>>, line |-> <<>>, truncated |-> FALSE], value)

LastLine(end) ==
  IF end.truncated \/ Strip(end.line) = <<>> THEN end.lines ELSE Append(end.lines, Strip(end.line))

EvenedOut(lines, single, size, width) ==
  IF single /\ Len(lines) >= 2 THEN Rebalanced(lines, size, width) ELSE lines

Wrapped(end, single, size, width) ==
  [lines |-> EvenedOut(LastLine(end), single /\ ~end.truncated, size, width),
   truncated |-> end.truncated]

WrapValue(value, size, width, maxLines) ==
  Wrapped(FillLines(value, size, width, maxLines), \A i \in DOMAIN value : value[i] # " ", size, width)

WrapSourceLine(s, size, width, maxLines) == WrapValue(Strip(Collapse(s)), size, width, maxLines)

AddProjected(acc, projected, truncated) ==
  [lines |-> acc.lines \o
     [i \in DOMAIN projected.lines |-> [text |-> projected.lines[i], gap |-> acc.gap /\ i = 1]],
   gap |-> FALSE,
   truncated |-> truncated \/ projected.failed]

AddWrapped(acc, wrapped, source) ==
  AddProjected(acc, Projected(wrapped.lines, source), wrapped.truncated)

AdaptiveLines(s, size, width, maxLines) ==
  FoldLeft(
    LAMBDA acc, source :
      IF acc.truncated THEN acc
      ELSE IF Len(acc.lines) >= maxLines THEN [acc EXCEPT !.truncated = TRUE]
      ELSE IF Strip(source) = <<>> THEN [acc EXCEPT !.gap = @ \/ acc.lines # <<>>]
      ELSE AddWrapped(acc, WrapSourceLine(source, size, width, maxLines - Len(acc.lines)), source),
    [lines |-> <<>>, gap |-> FALSE, truncated |-> FALSE], SourceLines(s))

Position(lines, size) ==
  [i \in DOMAIN lines |->
     [text |-> lines[i].text,
      y |-> size + 12 + (i - 1) * (size + 4)
              + Max({6, size \div 2}) * Cardinality({j \in 2..i : lines[j].gap})]]

-----------------------------------------------------------------------------
(* The layout of a node's label.                                           *)

\* As much of s as could show: by the bytes, and by what the box could hold if everything
\* were as narrow as a space, controls not counted.
ProbePrefix(s, width, maxLines, maxBytes) ==
  LET perLine == Max({1, (10 * width + 41) \div 42 + 1})
      work == Max({1, maxBytes + 1})
      geometry == Min({Max({1, maxLines * perLine + maxLines + 1}), work})
      Bounded(n) == [text |-> SubSeq(s, 1, Min({n, Len(s)})), cut |-> Len(s) > n]
      wide == {i \in DOMAIN Bounded(work).text : CharWidth(s[i]) > 0}
      beyond == {i \in wide : Cardinality({j \in wide : j < i}) >= geometry}
  IN  IF \A i \in DOMAIN Bounded(geometry).text : CharWidth(s[i]) > 0 THEN Bounded(geometry)
      ELSE IF beyond # {} THEN [text |-> SubSeq(s, 1, Min(beyond) - 1), cut |-> TRUE]
      ELSE Bounded(work)

TruncatedLines(lines, size, width) ==
  LET last == Last(lines)
      marker == Ellipsized(last.text, size, width, Bytes(last.text \o Ellipsis), Blanks)
  IN  IF lines = <<>> THEN <<>>
      ELSE IF last.text = Ellipsis
      THEN IF Fits(last.text, size, width) THEN lines ELSE Front(lines)
      ELSE IF marker = <<>> THEN Front(lines)
      ELSE Append(Front(lines), [last EXCEPT !.text = marker])

\* The marker alone, where the text has no place at all.
MarkerLine(width, bottom) ==
  IF SmallSize + 12 > bottom \/ ~Fits(Ellipsis, SmallSize, width) THEN <<>>
  ELSE <<[text |-> Ellipsis, y |-> SmallSize + 12]>>

Layout(size, lines, truncated) == [size |-> size, lines |-> lines, truncated |-> truncated]

\* One size: everything has its place in it, or a smaller one is tried.
Attempt(size, adaptive, cut, bottom) ==
  LET lines == Position(adaptive.lines, size)
  IN  [size |-> size, lines |-> lines, truncated |-> adaptive.truncated \/ cut,
       complete |-> /\ ~adaptive.truncated /\ ~cut
                    /\ lines # <<>> => Last(lines).y <= bottom]

\* From the largest size down, until everything has its place.
Sized(value, cut, width, most, bottom) ==
  FoldLeft(LAMBDA acc, size :
             IF acc.complete THEN acc
             ELSE Attempt(size, AdaptiveLines(value, size, width, most), cut, bottom),
           [complete |-> FALSE],
           IF cut THEN <<SmallSize>>
           ELSE [i \in 1..LargeSize - SmallSize + 1 |-> LargeSize + 1 - i])

\* The lines below the bottom are left out, and the last that stays says so.
Placed(found, visible, width, bottom) ==
  IF found.complete THEN Layout(found.size, found.lines, FALSE)
  ELSE IF visible = <<>> THEN Layout(SmallSize, MarkerLine(width, bottom), TRUE)
  ELSE IF found.truncated \/ Len(visible) < Len(found.lines)
  THEN Layout(SmallSize, TruncatedLines(visible, SmallSize, width), TRUE)
  ELSE Layout(SmallSize, visible, FALSE)

AdaptiveLayout(found, width, bottom) ==
  Placed(found, SelectSeq(found.lines, LAMBDA line : line.y <= bottom), width, bottom)

\* The historical layout, where its lines fit, or else the adaptive one.
BestLayout(value, cut, wrapped, width, most, bottom) ==
  LET legacy == [i \in DOMAIN wrapped.lines |-> [text |-> wrapped.lines[i], y |-> 8 + i * 20]]
  IN  IF /\ Collapse(value) = value /\ Plain(value)
         /\ ~wrapped.truncated /\ legacy # <<>>
         /\ \A i \in DOMAIN legacy : Fits(legacy[i].text, LargeSize, width)
         /\ Last(legacy).y <= bottom
      THEN Layout(LargeSize, IF cut THEN TruncatedLines(legacy, LargeSize, width) ELSE legacy, cut)
      ELSE AdaptiveLayout(Sized(value, cut, width, most, bottom), width, bottom)

ProbedLayout(s, value, cut, width, most, bottom) ==
  IF HasContent(value)
  THEN BestLayout(value, cut, LegacyLines(value, width, most), width, most, bottom)
  ELSE IF HasContent(s) THEN Layout(SmallSize, MarkerLine(width, bottom), TRUE)
  ELSE Layout(LargeSize, <<>>, FALSE)

TextLayout(s, box, maxLines, maxBytes) ==
  LET width == Max({1, box.width})
      bottom == Max({1, box.height - 5})
      most == Min({maxLines, Max({1, box.height \div (SmallSize + 4) + 2})})
      collapsed == Collapse(s)
      probe == ProbePrefix(collapsed, width, most, maxBytes)
  IN  IF most <= 0 \/ maxBytes <= 0 THEN Layout(LargeSize, <<>>, HasContent(s))
      ELSE ProbedLayout(s, IF collapsed = s \/ probe.cut THEN probe.text ELSE s, probe.cut,
                        width, most, bottom)

\* Mutant: what is cut in two is not projected again.
CutLineOpen(s, size, width, bytes) == Ellipsized(s, size, width, bytes, Blanks)

\* The scopes a cut has to close may take the bytes it has won, and then the ellipsis
\* stands alone.
CutClosed(cut, size, width, bytes) ==
  IF Bytes(cut) <= bytes THEN cut
  ELSE IF Bytes(Ellipsis) <= bytes /\ Fits(Ellipsis, size, width) THEN Ellipsis
  ELSE <<>>

CutMarked(marker, size, width, bytes) ==
  IF marker = <<>> THEN <<>>
  ELSE CutClosed(Projected(<<marker>>, marker).lines[1], size, width, bytes)

\* What is cut in two is projected again.
CutLine(s, size, width, bytes) ==
  CutMarked(Ellipsized(s, size, width, bytes, Blanks), size, width, bytes)

LimitLine(acc, line, whole, size, width) ==
  IF Bytes(whole.lines[1]) <= acc.bytes
  THEN [acc EXCEPT !.lines = Append(@, [line EXCEPT !.text = whole.lines[1]]),
                   !.bytes = @ - Bytes(whole.lines[1]),
                   !.truncated = @ \/ whole.failed]
  ELSE [acc EXCEPT !.lines = @ \o SelectSeq(<<[line EXCEPT !.text =
                                                 CutLine(@, size, width, acc.bytes)]>>,
                                            LAMBDA cut : cut.text # <<>>),
                   !.truncated = TRUE, !.stopped = TRUE]

Limited(layout, end) == Layout(layout.size, end.lines, layout.truncated \/ end.truncated)

\* The lines within the bytes, each projected once more, by itself.
LimitBytes(layout, width, maxBytes) ==
  Limited(layout, FoldLeft(
    LAMBDA acc, line :
      IF acc.stopped THEN acc
      ELSE LimitLine(acc, line, Projected(<<line.text>>, line.text), layout.size, width),
    [lines |-> <<>>, bytes |-> maxBytes, truncated |-> FALSE, stopped |-> FALSE], layout.lines))

-----------------------------------------------------------------------------
(* The layout of an edge's label: one line, in a box made for it.          *)

EdgeSize == 14
EdgeWidth(s) == Max({42, Min({260, (Width(s, LineBlanks) * EdgeSize + 99) \div 100 + 20})}) - 20

FitUnprojected(s, width, maxBytes) ==
  LET prefix == SubSeq(s, 1, Min({Len(s), Max({1, maxBytes + 1})}))
      whole == prefix = s /\ FitsSingle(s, EdgeSize, width) /\ Bytes(s) <= maxBytes
  IN  [text |-> IF whole THEN s ELSE Ellipsized(prefix, EdgeSize, width, maxBytes, LineBlanks),
       truncated |-> ~whole]

Within(t, width, maxBytes) == FitsSingle(t, EdgeSize, width) /\ Bytes(t) <= maxBytes

\* Projected again after a second cut, or else the ellipsis.
FitAgain(refitted, again, width, maxBytes) ==
  IF refitted # <<>> /\ ~again.failed /\ Within(again.lines[1], width, maxBytes)
  THEN again.lines[1]
  ELSE IF Within(Ellipsis, width, maxBytes) THEN Ellipsis ELSE <<>>

FitRefitted(refitted, width, maxBytes) ==
  FitAgain(refitted, Projected(<<refitted>>, refitted), width, maxBytes)

\* A cut text is projected; the scopes it has to close may take it out of its box.
FitProjected(fitted, width, maxBytes) ==
  IF ~fitted.failed /\ Within(fitted.lines[1], width, maxBytes) THEN fitted.lines[1]
  ELSE FitRefitted(IF fitted.failed THEN <<>>
                   ELSE Ellipsized(fitted.lines[1], EdgeSize, width, maxBytes, LineBlanks),
                   width, maxBytes)

Single(best, truncated) ==
  Layout(EdgeSize, IF best = <<>> THEN <<>> ELSE <<[text |-> best, y |-> 5]>>, truncated)

FitCut(first, s, width, maxBytes) ==
  Single(IF first.truncated THEN FitProjected(Projected(<<first.text>>, s), width, maxBytes)
         ELSE first.text, first.truncated)

FitSingleLine(s, width, maxBytes) ==
  FitCut(FitUnprojected(s, width, maxBytes), s, width, maxBytes)

-----------------------------------------------------------------------------
(* Drawing the items, in any order, with what is left for them.            *)

LayoutBytes(layout) == FoldLeft(LAMBDA sum, line : sum + Bytes(line.text), 0, layout.lines)

Nothing == [label |-> <<>>, width |-> 1, bottom |-> 1, bytes |-> 0,
            layout |-> Layout(LargeSize, <<>>, FALSE)]

\* Mutant: the first label may take every line.
LineBudgetGreedy(s) == left.lines

\* The lines and bytes an item may take without taking the others'.
LineBudget(s) == Max({0, left.lines - Max({0, left.items - (IF HasContent(s) THEN 1 ELSE 0)})})

\* Mutant: the first label may take everything.
ByteBudgetGreedy(s) == IF HasContent(s) THEN left.bytes ELSE 0

ByteBudget(s) ==
  IF ~HasContent(s) \/ left.bytes <= 0 \/ left.items <= 0 THEN 0 ELSE left.bytes \div left.items

Draw(s, width, bottom, bytes, layout) ==
  /\ HasContent(s) => left.items > 0  \* they are counted before the first is drawn
  /\ drawn' = [label |-> s, width |-> width, bottom |-> bottom, bytes |-> bytes, layout |-> layout]
  /\ left' = [lines |-> Max({0, left.lines - Len(layout.lines)}),
              bytes |-> Max({0, left.bytes - LayoutBytes(layout)}),
              items |-> IF HasContent(s) THEN Max({0, left.items - 1}) ELSE left.items]
  /\ UNCHANGED total

DrawNode(s, box) ==
  LET bytes == ByteBudget(s)
      width == Max({1, box.width})
  IN  Draw(s, width, Max({1, box.height - 5}), bytes,
           LimitBytes(TextLayout(s, box, LineBudget(s), bytes), width, bytes))

DrawEdge(s) ==
  LET bytes == ByteBudget(s)
  IN  Draw(s, EdgeWidth(s), 28, bytes,
           IF HasContent(s) /\ LineBudget(s) > 0 THEN FitSingleLine(s, EdgeWidth(s), bytes)
           ELSE Layout(EdgeSize, <<>>, HasContent(s)))

\* The item is written out, and the loop goes on to the next.
WriteOut == drawn # Nothing /\ drawn' = Nothing /\ UNCHANGED <<total, left>>

Labels == UNION {[1..n -> LabelChars] : n \in 0..MaxLabel}

CanvasInit ==
  /\ total \in Labelled
  /\ left = [lines |-> CanvasLines, bytes |-> CanvasBytes, items |-> total]
  /\ drawn = Nothing

CanvasNext ==
  \/ /\ drawn = Nothing
     /\ \E s \in Labels : DrawEdge(s) \/ \E box \in NodeBoxes : DrawNode(s, box)
  \/ WriteOut

-----------------------------------------------------------------------------
(* Properties.                                                             *)

Visible(s) == SelectSeq(s, LAMBDA c : c \in {"l", "W"})
ShownLetters(lines) == FlattenSeq([i \in DOMAIN lines |-> Visible(lines[i].text)])

\* No label takes what the others are promised: their even share of the bytes, and a line.
SharesKept ==
  /\ left.bytes >= left.items * (CanvasBytes \div total)
  /\ CanvasLines >= total => left.lines >= left.items

\* The label being drawn stays inside its box and its bytes, line under line.
InsideBox ==
  LET layout == drawn.layout
      lines == layout.lines
  IN  /\ \A i \in DOMAIN lines :
           /\ FitsSingle(lines[i].text, layout.size, drawn.width) /\ lines[i].y <= drawn.bottom
           /\ i > 1 => lines[i].y >= lines[i - 1].y + layout.size
      /\ LayoutBytes(layout) <= drawn.bytes

\* What it shows is the beginning of its text, every letter in the scopes it has there, and
\* no line leaves a scope open for the next; what it does not show it says is missing.
HonestLetters(shown, letters) ==
  /\ Begins(shown, letters)
  /\ shown # letters => drawn.layout.truncated
  \* (With controls it may be controls that are missing, and where the lines run out a
  \* blank line at the end counts as cut.)
  /\ drawn.layout.truncated /\ Plain(drawn.label) /\ "B" \notin ToSet(drawn.label) =>
       shown # letters

HonestText ==
  LET lines == drawn.layout.lines
      texts == [i \in DOMAIN lines |-> lines[i].text]
  IN  /\ HonestLetters(ShownLetters(lines), Visible(drawn.label))
      /\ drawn.layout.truncated /\ lines # <<>> =>
           \/ "..." \in ToSet(Last(lines).text)
           \/ LayoutBytes(drawn.layout) + Bytes(Ellipsis) > drawn.bytes
           \/ ~Fits(Ellipsis, drawn.layout.size, drawn.width)
      /\ Begins(Readings(texts), Readings(SourceLines(drawn.label)))
      /\ Len(lines) > 1 => \A i \in DOMAIN texts : Scopes(texts[i], Len(texts[i]) + 1) = <<>>

\* However many labels share a drawing, and whatever they are made of, each keeps its
\* share, stays in its box and is honest about its text.
LabelsKept == SharesKept /\ (drawn # Nothing => InsideBox /\ HonestText)
=============================================================================
