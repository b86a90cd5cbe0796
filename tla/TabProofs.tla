----------------------------- MODULE TabProofs -----------------------------
(***************************************************************************)
(* Theorems about a browser tab of the editor (EditorTab), for any number  *)
(* of documents, launches, messages and steps back.                        *)
(***************************************************************************)
EXTENDS EditorTab, SequenceTheorems, TLAPS

-----------------------------------------------------------------------------
(* The tab.                                                                *)

Numbers == 0..MaxDocs
FrameStates ==
  [doc : Numbers, picture : Numbers, started : BOOLEAN, synced : BOOLEAN, inert : BOOLEAN,
   unheard : BOOLEAN]
EditPairs == [previous : Numbers, incoming : Numbers]
TabStates ==
  [view : {"start", "native", "legacy"}, doc : Numbers, url : Numbers, ready : BOOLEAN,
   stale : BOOLEAN, valid : Numbers, retry : BOOLEAN, busy : BOOLEAN, undo : Seq(Docs),
   redo : Seq(Docs), pending : EditPairs, exporting : Numbers, download : Numbers,
   frame : FrameStates]
LaunchStates ==
  [load : Numbers, kind : {"open", "content", "undo", "redo", "rebuild", "retry"},
   preserve : BOOLEAN, recovery : BOOLEAN, fallback : Numbers, current : BOOLEAN, doc : Numbers,
   url : Numbers, valid : Numbers]
FrameMessages == [event : {"startup", "change", "rebuild", "undo", "redo"}, doc : Numbers]

TabTypeOK ==
  /\ tab \in TabStates /\ launches \in Seq(LaunchStates) /\ mail \in Seq(FrameMessages)
  /\ draft \in [doc : Numbers, valid : Numbers] /\ reading \in Numbers /\ asked \in Numbers
  /\ content \subseteq Docs /\ rendered \subseteq Docs /\ refused \subseteq Docs
  /\ line \in [Docs -> SUBSET Docs]

Made(d) == d \in Docs /\ line[d] # {}
Canvas(d) == Made(d) /\ d \notin content

(* Documents are made one after another, each of one of its kind.          *)
LinesOK ==
  /\ \A d \in Docs : line[d] # {} => d \in line[d] /\ \A e \in 1..d : line[e] # {}
  /\ \A d \in Docs : \A e \in line[d] :
       e <= d /\ line[e] # {} /\ line[e] \subseteq line[d] /\ (e \in content <=> d \in content)
  /\ \A d \in content : line[d] # {}

KeptOK ==
  /\ draft.doc # 0 => Made(draft.doc)
  /\ draft.valid # 0 => Made(draft.valid)
  /\ DraftOpens /\ (\A x \in refused : Made(x))
  /\ reading # 0 => tab.view = "start" /\ asked = reading /\ Made(reading)
  /\ \A i \in 1..(Len(launches) - 1) : ~launches[i].current

Awaited == launches[Len(launches)]
Waiting == launches # <<>> /\ Awaited.current

(* No document has been edited in the frame that is shown.                 *)
Plain ==
  /\ ~tab.busy /\ tab.pending = NoEdit /\ tab.undo = <<>> /\ tab.redo = <<>>
  /\ mail = <<>> /\ ~tab.frame.started

NoExport == tab.exporting = 0 /\ tab.download = 0
OneOf(x) == Made(x) /\ asked \in line[x]

Away == tab.view # "native" /\ ~tab.ready /\ ~Waiting /\ Plain /\ tab.frame.doc = 0

Opening ==
  /\ tab.view = "native" /\ ~tab.ready /\ ~tab.stale /\ tab.frame.doc = 0
  /\ Waiting /\ Plain /\ NoExport
  /\ ~Awaited.preserve /\ Awaited.kind \in {"open", "content"}
  /\ Awaited.load = tab.doc /\ OneOf(tab.doc)
  /\ Awaited.fallback # 0 => Made(Awaited.fallback)

(* A representation.                                                       *)
Shows(d) == d \in content /\ d \in rendered /\ OneOf(d)
Represented ==
  /\ tab.view = "native" /\ tab.ready /\ Plain
  /\ tab.doc \in content /\ OneOf(tab.doc) /\ Shows(tab.url) /\ tab.valid = tab.url
  /\ tab.frame.doc = tab.url /\ tab.frame.picture = tab.url
  /\ Waiting =>
       /\ tab.stale /\ Awaited.kind \in {"content", "retry"} /\ Awaited.preserve
       /\ ~Awaited.recovery /\ Awaited.load = tab.doc
       /\ Awaited.doc \in content /\ Awaited.url = tab.url /\ Awaited.valid = tab.url
  /\ ~Waiting => draft.doc = tab.doc /\ (tab.stale => tab.retry /\ tab.frame.inert)
  /\ tab.stale => NoExport
  /\ ~tab.stale =>
       tab.doc = tab.url /\ tab.exporting \in {0, tab.doc} /\ tab.download \in {0, tab.doc}

-----------------------------------------------------------------------------
(* A canvas.  What can be undone leads to the present document, which      *)
(* leads to what can be redone.                                            *)

Before(a, b) == a \in line[b] /\ a # b
Leads(s, d) ==
  \A i \in 1..Len(s) : OneOf(s[i]) /\ s[i] \notin content
                       /\ Before(s[i], IF i = Len(s) THEN d ELSE s[i + 1])
Follows(s, d) ==
  \A i \in 1..Len(s) : OneOf(s[i]) /\ s[i] \notin content
                       /\ Before(IF i = Len(s) THEN d ELSE s[i + 1], s[i])
HistoryOK(d) ==
  /\ OneOf(d) /\ d \notin content
  /\ Leads(tab.undo, d) /\ Follows(tab.redo, d)
  /\ Len(tab.undo) + Len(tab.redo) <= HistoryMax

(* What the frame has told, and what is on its way, leads from document d  *)
(* to the one the frame has.                                               *)
Carries(m) == m.event \in {"change", "rebuild"}
Known == Range(tab.undo) \cup Range(tab.redo) \cup refused
Leading(d, i) ==
  /\ Canvas(mail[i].doc) /\ Before(d, mail[i].doc) /\ mail[i].doc \in line[tab.frame.doc]
  /\ \A e \in Known : e < mail[i].doc
  /\ \A j \in (i + 1)..Len(mail) : Carries(mail[j]) => Before(mail[i].doc, mail[j].doc)
  /\ (\A j \in (i + 1)..Len(mail) : ~Carries(mail[j])) =>
       /\ mail[i].doc = tab.frame.doc
       /\ mail[i].event = "change" => tab.frame.picture = tab.frame.doc
Told(d) == \A i \in 1..Len(mail) : Carries(mail[i]) => Leading(d, i)
Silent == ~tab.frame.unheard /\ \A i \in 1..Len(mail) : ~Carries(mail[i])

Live(d) ==
  /\ Canvas(tab.frame.doc) /\ d \in line[tab.frame.doc]
  /\ Silent =>
       /\ tab.frame.doc = d /\ tab.frame.picture = d
       /\ tab.exporting \in {0, d} /\ tab.download \in {0, d}
  /\ IF tab.frame.synced
     THEN tab.frame.started /\ Told(d) /\ \A i \in 1..Len(mail) : mail[i].event # "startup"
     ELSE /\ ~tab.frame.unheard /\ tab.frame.inert
          /\ mail = IF tab.frame.started THEN <<[event |-> "startup", doc |-> d]>> ELSE <<>>

AtRest ==
  /\ launches = <<>> /\ ~tab.stale /\ ~tab.busy /\ tab.pending = NoEdit
  /\ HistoryOK(tab.doc) /\ Live(tab.doc)
  /\ tab.frame.synced => draft.doc = tab.doc /\ ~tab.frame.inert

(* An answer is awaited, or there was none.                                *)
Locked == tab.stale /\ tab.frame.inert /\ NoExport
AnswerAwaited ==
  /\ Len(launches) = 1 /\ Waiting /\ Awaited.preserve /\ Awaited.load = tab.doc /\ Awaited.url # 0
  /\ ~tab.retry

InHistory ==
  /\ Locked /\ AnswerAwaited /\ Awaited.kind \in {"undo", "redo"}
  /\ tab.busy /\ tab.pending = NoEdit /\ tab.frame.synced
  /\ OneOf(tab.doc) /\ tab.doc \notin content
  /\ HistoryOK(Awaited.doc) /\ Live(Awaited.doc)
  /\ IF Awaited.recovery THEN tab.doc = Awaited.doc
     ELSE tab[Awaited.kind] # <<>> /\ tab.doc = Last(tab[Awaited.kind])

EditKept ==
  LET edit == tab.pending
  IN  /\ HistoryOK(edit.previous) /\ Canvas(edit.incoming) /\ Before(edit.previous, edit.incoming)
      /\ tab.doc \in {edit.previous, edit.incoming}
      /\ tab.doc = edit.incoming => tab.doc \notin refused

InEdit ==
  /\ Locked /\ AnswerAwaited /\ EditKept
  /\ \/ /\ Awaited.kind = "rebuild" /\ tab.busy /\ Awaited.doc = tab.pending.previous
        /\ Awaited.recovery => tab.doc = Awaited.doc
     \/ Awaited.kind = "retry" /\ ~tab.busy /\ ~Awaited.recovery

EditFailed ==
  /\ Locked /\ launches = <<>> /\ EditKept /\ ~tab.busy /\ tab.retry /\ draft.doc = tab.doc

Drawn ==
  /\ tab.view = "native" /\ tab.ready /\ tab.url # 0 /\ Canvas(tab.doc)
  /\ AtRest \/ InHistory \/ InEdit \/ EditFailed

TabInv ==
  /\ TabTypeOK /\ LinesOK /\ KeptOK
  /\ Away \/ Opening \/ Represented \/ Drawn

-----------------------------------------------------------------------------
(* Numbers, and the parts of the state.                                    *)
LEMMA NumbersAre ==
  /\ 0 \in Numbers /\ 0 \notin Docs /\ Docs \subseteq Numbers
  /\ \A d \in Numbers : d \in Nat /\ (d # 0 => d \in Docs)
  BY EditorTabAssumption DEF Docs, Numbers

(* No edit.                                                                *)
LEMMA NoEditIs == NoEdit \in EditPairs
  BY NumbersAre DEF NoEdit, EditPairs

(* What a tab is made of.                                                  *)
LEMMA TabIs ==
  ASSUME NEW t \in TabStates
  PROVE  /\ t.doc \in Numbers /\ t.url \in Numbers /\ t.valid \in Numbers
         /\ t.undo \in Seq(Docs) /\ t.redo \in Seq(Docs) /\ t.pending \in EditPairs
         /\ t.exporting \in Numbers /\ t.download \in Numbers /\ t.frame \in FrameStates
         /\ t.ready \in BOOLEAN /\ t.stale \in BOOLEAN /\ t.retry \in BOOLEAN /\ t.busy \in BOOLEAN
         /\ t.frame.doc \in Numbers /\ t.frame.picture \in Numbers /\ t.frame.started \in BOOLEAN
         /\ t.frame.synced \in BOOLEAN /\ t.frame.inert \in BOOLEAN /\ t.frame.unheard \in BOOLEAN
         /\ t.pending.previous \in Numbers /\ t.pending.incoming \in Numbers
<1>1. t.frame \in FrameStates /\ t.pending \in EditPairs
  BY DEF TabStates
<1> QED
  BY <1>1 DEF TabStates, FrameStates, EditPairs

(* A new frame.                                                            *)
LEMMA ReplacedFrame ==
  ASSUME NEW t \in TabStates, NEW d \in Numbers
  PROVE  LET r == ReplaceEditorFrame(t, d)
         IN  /\ r \in TabStates
             /\ r.view = t.view /\ r.doc = t.doc /\ r.url = t.url /\ r.valid = t.valid
             /\ r.ready = t.ready /\ r.stale = t.stale /\ r.retry = t.retry /\ r.busy = t.busy
             /\ r.undo = t.undo /\ r.redo = t.redo /\ r.pending = t.pending
             /\ r.exporting = t.exporting /\ r.download = t.download
             /\ r.frame.doc = d /\ r.frame.picture = d /\ ~r.frame.started /\ ~r.frame.synced
             /\ ~r.frame.unheard /\ (r.frame.inert <=> t.doc \notin content)
<1>1. PICK f : f = [doc |-> d, picture |-> d, started |-> FALSE, synced |-> FALSE,
                    inert |-> t.doc \notin content, unheard |-> FALSE]
  OBVIOUS
<1>2. f \in FrameStates
  BY <1>1 DEF FrameStates
<1>3. ReplaceEditorFrame(t, d) = [t EXCEPT !.frame = f]
  BY <1>1 DEF ReplaceEditorFrame
<1>4. /\ f.doc = d /\ f.picture = d /\ ~f.started /\ ~f.synced
      /\ ~f.unheard /\ (f.inert <=> t.doc \notin content)
  BY <1>1
<1> QED
  BY <1>2, <1>3, <1>4 DEF TabStates

(* A history that begins.                                                  *)
LEMMA ResetIs ==
  ASSUME NEW t \in TabStates
  PROVE  LET r == ResetNativeHistory(ClearExports(t))
         IN  /\ r \in TabStates /\ ~r.busy /\ r.pending = NoEdit /\ r.undo = <<>> /\ r.redo = <<>>
             /\ r.exporting = 0 /\ r.download = 0
<1>1. PICK c : c = ClearExports(t)
  OBVIOUS
<1>2. c \in TabStates /\ c.exporting = 0 /\ c.download = 0
  BY <1>1, NumbersAre DEF TabStates, ClearExports
<1>3. PICK p \in EditPairs : p = NoEdit
  BY NoEditIs
<1>4. PICK none \in Seq(Docs) : none = <<>>
  BY EmptySeq
<1>5. PICK r : r = ResetNativeHistory(ClearExports(t))
  OBVIOUS
<1>6. r = [c EXCEPT !.undo = none, !.redo = none, !.pending = p, !.busy = FALSE]
  BY <1>1, <1>3, <1>4, <1>5 DEF ResetNativeHistory
<1>7. /\ r \in TabStates /\ ~r.busy /\ r.pending = NoEdit /\ r.undo = <<>> /\ r.redo = <<>>
      /\ r.exporting = 0 /\ r.download = 0
  BY <1>2, <1>3, <1>4, <1>6 DEF TabStates
<1> QED
  BY <1>5, <1>7

(* A launch that shows nothing meanwhile.                                  *)
LEMMA StagedFresh ==
  ASSUME NEW t \in TabStates, NEW load \in Numbers, NEW kind, ~Preserves(t, kind)
  PROVE  LET r == StagedLaunch(t, load, kind)
         IN  /\ r \in TabStates /\ r.view = "native" /\ r.doc = load /\ ~r.ready /\ ~r.stale
             /\ ~r.busy /\ r.pending = NoEdit /\ r.undo = <<>> /\ r.redo = <<>>
             /\ r.exporting = 0 /\ r.download = 0 /\ r.frame.doc = 0 /\ ~r.frame.started
<1>1. PICK a : a = ResetNativeHistory(ClearExports(t))
  OBVIOUS
<1>2. /\ a \in TabStates /\ ~a.busy /\ a.pending = NoEdit /\ a.undo = <<>> /\ a.redo = <<>>
      /\ a.exporting = 0 /\ a.download = 0
  BY <1>1, ResetIs
<1>3. PICK b : b = [a EXCEPT !.view = "native", !.doc = load, !.url = 0, !.valid = 0,
                              !.ready = FALSE, !.stale = FALSE, !.retry = FALSE]
  OBVIOUS
<1>4. /\ b \in TabStates /\ ~b.busy /\ b.pending = NoEdit /\ b.undo = <<>> /\ b.redo = <<>>
      /\ b.exporting = 0 /\ b.download = 0 /\ b.view = "native" /\ b.doc = load
      /\ ~b.ready /\ ~b.stale
  BY <1>2, <1>3, NumbersAre DEF TabStates
<1>5. StagedLaunch(t, load, kind) = ReplaceEditorFrame(b, 0)
  BY <1>1, <1>3 DEF StagedLaunch
<1> QED
  BY <1>4, <1>5, ReplacedFrame, NumbersAre

(* A launch that keeps the picture, locked.                                *)
LEMMA StagedKept ==
  ASSUME NEW t \in TabStates, NEW load \in Numbers, NEW kind, Preserves(t, kind)
  PROVE  LET r == StagedLaunch(t, load, kind)
         IN  /\ r \in TabStates /\ r.view = t.view /\ r.doc = load /\ r.ready /\ r.url = t.url
             /\ r.stale /\ ~r.retry /\ r.valid = t.valid /\ r.busy = t.busy
             /\ r.undo = t.undo /\ r.redo = t.redo /\ r.pending = t.pending
             /\ r.exporting = 0 /\ r.download = 0 /\ r.frame.inert
             /\ r.frame.doc = t.frame.doc /\ r.frame.picture = t.frame.picture
             /\ r.frame.started = t.frame.started /\ r.frame.synced = t.frame.synced
             /\ r.frame.unheard = t.frame.unheard
<1>1. PICK f : f = [t.frame EXCEPT !.inert = TRUE]
  OBVIOUS
<1>2. /\ f \in FrameStates /\ f.inert /\ f.doc = t.frame.doc /\ f.picture = t.frame.picture
      /\ f.started = t.frame.started /\ f.synced = t.frame.synced
      /\ f.unheard = t.frame.unheard
  BY <1>1, TabIs DEF FrameStates
<1>3. PICK a : a = ClearExports(t)
  OBVIOUS
<1>4. /\ a \in TabStates /\ a.view = t.view /\ a.ready = t.ready /\ a.url = t.url
      /\ a.valid = t.valid /\ a.busy = t.busy /\ a.undo = t.undo /\ a.redo = t.redo
      /\ a.pending = t.pending /\ a.exporting = 0 /\ a.download = 0 /\ a.frame = t.frame
  BY <1>3, NumbersAre DEF TabStates, ClearExports
<1>5. StagedLaunch(t, load, kind) =
        [a EXCEPT !.doc = load, !.stale = TRUE, !.retry = FALSE, !.frame = f]
  BY <1>1, <1>3, <1>4 DEF StagedLaunch
<1>6. t.ready
  BY DEF Preserves
<1>7. PICK r : r = [a EXCEPT !.doc = load, !.stale = TRUE, !.retry = FALSE, !.frame = f]
  OBVIOUS
<1>8. r \in TabStates
  BY <1>2, <1>4, <1>7 DEF TabStates
<1>9. /\ r.view = a.view /\ r.doc = load /\ r.ready = a.ready /\ r.url = a.url
      /\ r.stale /\ ~r.retry /\ r.valid = a.valid /\ r.busy = a.busy
      /\ r.undo = a.undo /\ r.redo = a.redo /\ r.pending = a.pending
      /\ r.exporting = a.exporting /\ r.download = a.download /\ r.frame = f
  BY <1>4, <1>7 DEF TabStates
<1>10. StagedLaunch(t, load, kind) = r
  BY <1>5, <1>7
<1> HIDE <1>5
<1> QED
  BY <1>2, <1>4, <1>6, <1>8, <1>9, <1>10

(* Launches.                                                               *)
LaunchKinds == {"open", "content", "undo", "redo", "rebuild", "retry"}

(* What a launch remembers.                                                *)
LEMMA LaunchedIs ==
  ASSUME NEW t \in TabStates, NEW load \in Numbers, NEW kind \in LaunchKinds,
         NEW recovery \in BOOLEAN, NEW fallback \in Numbers,
         NEW l, l = Launched(t, load, kind, recovery, fallback)
  PROVE  l \in LaunchStates /\ l.current
<1>1. /\ t.doc \in Numbers /\ t.url \in Numbers /\ t.valid \in Numbers
      /\ Preserves(t, kind) \in BOOLEAN
  BY TabIs DEF Preserves
<1> QED
  BY <1>1 DEF Launched, LaunchStates, LaunchKinds

(* No launch that waits is heeded any more.                                *)
LEMMA Invalidated ==
  ASSUME launches \in Seq(LaunchStates)
  PROVE  /\ InvalidateLoadIntents \in Seq(LaunchStates)
         /\ Len(InvalidateLoadIntents) = Len(launches)
         /\ \A i \in 1..Len(launches) : ~InvalidateLoadIntents[i].current
<1>1. \A l \in LaunchStates : Outdated(l) \in LaunchStates /\ ~Outdated(l).current
  BY NumbersAre DEF LaunchStates, Outdated
<1>2. \A i \in 1..Len(launches) : launches[i] \in LaunchStates
  BY ElementOfSeq
<1>3. DOMAIN launches = 1..Len(launches) /\ Len(launches) \in Nat
  BY LenProperties
<1>4. InvalidateLoadIntents = [i \in 1..Len(launches) |-> Outdated(launches[i])]
  BY <1>3 DEF InvalidateLoadIntents
<1>5. InvalidateLoadIntents \in [1..Len(launches) -> LaunchStates]
  BY <1>1, <1>2, <1>4
<1>6. InvalidateLoadIntents \in Seq(LaunchStates) /\ Len(InvalidateLoadIntents) = Len(launches)
  BY <1>3, <1>4, <1>5, SeqDef, LenProperties
<1> QED
  BY <1>1, <1>2, <1>4, <1>6

(* The launch that is sent last is the one awaited.                        *)
LEMMA Appended ==
  ASSUME NEW q \in Seq(LaunchStates), \A i \in 1..Len(q) : ~q[i].current,
         NEW l \in LaunchStates, NEW r, r = Append(q, l)
  PROVE  /\ r \in Seq(LaunchStates) /\ Len(r) = Len(q) + 1 /\ r[Len(r)] = l /\ r # <<>>
         /\ \A i \in 1..(Len(r) - 1) : ~r[i].current
<1>1. /\ r \in Seq(LaunchStates) /\ Len(r) = Len(q) + 1 /\ Len(q) \in Nat
      /\ \A i \in 1..Len(q) : r[i] = q[i]
      /\ r[Len(q) + 1] = l
  BY AppendProperties, LenProperties
<1>2. r # <<>>
  BY <1>1, EmptySeq
<1>3. 1..(Len(r) - 1) = 1..Len(q)
  BY <1>1
<1> QED
  BY <1>1, <1>2, <1>3

(* What LaunchNative does to the queue and the tab.                        *)
LEMMA LaunchIs ==
  ASSUME launches \in Seq(LaunchStates), NEW t \in TabStates, NEW load \in Numbers,
         NEW kind \in LaunchKinds, NEW fallback \in Numbers, LaunchNative(t, load, kind, fallback)
  PROVE  /\ tab' = StagedLaunch(t, load, kind) /\ tab' \in TabStates /\ reading' = 0
         /\ launches' \in Seq(LaunchStates) /\ Len(launches') = Len(launches) + 1
         /\ Waiting' /\ Awaited' = Launched(t, load, kind, FALSE, fallback)
         /\ \A i \in 1..(Len(launches') - 1) : ~launches'[i].current
<1>a. PICK l : l = Launched(t, load, kind, FALSE, fallback)
  OBVIOUS
<1>b. PICK r \in BOOLEAN : r = FALSE
  OBVIOUS
<1>1. l \in LaunchStates /\ l.current
  BY <1>a, <1>b, LaunchedIs
<1>2. tab' = StagedLaunch(t, load, kind) /\ reading' = 0
      /\ launches' = Append(InvalidateLoadIntents, l)
  BY <1>a DEF LaunchNative
<1>3. /\ InvalidateLoadIntents \in Seq(LaunchStates)
      /\ Len(InvalidateLoadIntents) = Len(launches)
      /\ \A i \in 1..Len(InvalidateLoadIntents) : ~InvalidateLoadIntents[i].current
  BY Invalidated
<1>4. /\ launches' \in Seq(LaunchStates) /\ Len(launches') = Len(launches) + 1
      /\ launches'[Len(launches')] = l /\ launches' # <<>>
      /\ \A i \in 1..(Len(launches') - 1) : ~launches'[i].current
  BY <1>1, <1>2, <1>3, Appended
<1>5. tab' \in TabStates
  BY <1>2, StagedFresh, StagedKept
<1>6. Awaited' = l /\ Waiting'
  BY <1>1, <1>4 DEF Awaited, Waiting
<1> QED
  BY <1>a, <1>2, <1>4, <1>5, <1>6

(* A launch that shows nothing meanwhile.                                  *)
LEMMA LaunchOpens ==
  ASSUME launches \in Seq(LaunchStates), tab \in TabStates, NEW load \in Numbers,
         NEW kind \in {"open", "content"}, NEW fallback \in Numbers, ~Preserves(tab, kind),
         LaunchNative(tab, load, kind, fallback), mail' = <<>>, OneOf(load)',
         fallback # 0 => Made(fallback)'
  PROVE  Opening'
<1>1. kind \in LaunchKinds
  BY DEF LaunchKinds
<1>2. PICK l : l = Launched(tab, load, kind, FALSE, fallback)
  OBVIOUS
<1>3. tab' = StagedLaunch(tab, load, kind) /\ Waiting' /\ Awaited' = l
  BY <1>1, <1>2, LaunchIs
<1>4. /\ tab'.view = "native" /\ tab'.doc = load /\ ~tab'.ready /\ ~tab'.stale
      /\ ~tab'.busy /\ tab'.pending = NoEdit /\ tab'.undo = <<>> /\ tab'.redo = <<>>
      /\ tab'.exporting = 0 /\ tab'.download = 0 /\ tab'.frame.doc = 0 /\ ~tab'.frame.started
  BY <1>3, StagedFresh
<1>5. l.load = load /\ l.kind = kind /\ ~l.preserve /\ l.fallback = fallback
  BY <1>2 DEF Launched
<1> QED
  BY <1>3, <1>4, <1>5 DEF Opening, Plain, NoExport

-----------------------------------------------------------------------------
(* A document more.                                                        *)
LineGrown(d) ==
  /\ LinesOK' /\ line' \in [Docs -> SUBSET Docs] /\ content' \subseteq Docs
  /\ Made(d)' /\ d \notin content
  /\ \A x \in Docs : line[x] # {} =>
       line'[x] = line[x] /\ x < d /\ (x \in content' <=> x \in content)
  /\ \A x : Made(x) => Made(x)'

(* A document is made from others: the lines stay lines.                   *)
LEMMA LineGrows ==
  ASSUME TabTypeOK, LinesOK, NEW d \in Docs, d \in Unmade, NEW from \in SUBSET Docs,
         line' = [line EXCEPT ![d] = from \cup {d}], content' \in {content, content \cup {d}},
         \A x \in from : line[x] # {} /\ line[x] \subseteq from /\ (x \in content <=> d \in content')
  PROVE  LineGrown(d)
<1>1. /\ line \in [Docs -> SUBSET Docs] /\ content \subseteq Docs
      /\ line[d] = {} /\ \A e \in 1..(d - 1) : line[e] # {}
  BY DEF TabTypeOK, Unmade
<1>2. d \in Nat /\ \A x \in Docs : x \in Nat /\ x >= 1 /\ x <= MaxDocs
  BY EditorTabAssumption DEF Docs
<1>3. /\ line' \in [Docs -> SUBSET Docs] /\ line'[d] = from \cup {d}
      /\ \A x \in Docs : x # d => line'[x] = line[x]
  BY <1>1
<1>4. d \notin content
  BY <1>1 DEF LinesOK
<1>5. ASSUME NEW x \in Docs, line[x] # {}
      PROVE  line'[x] = line[x] /\ x < d /\ (x \in content' <=> x \in content)
  <2>1. x # d
    BY <1>1, <1>5
  <2>2. ~(d < x)
    <3> SUFFICES ASSUME d < x PROVE FALSE
      OBVIOUS
    <3>1. d \in 1..x
      BY <1>2
    <3> QED
      BY <1>1, <1>5, <3>1 DEF LinesOK
  <2> QED
    BY <1>2, <1>3, <2>1, <2>2
<1>6. content' \subseteq Docs
  BY <1>1
<1>7. ASSUME NEW y \in Docs, line'[y] # {}
      PROVE  y \in line'[y] /\ \A e \in 1..y : line'[e] # {}
  <2>1. CASE y = d
    <3>1. \A e \in 1..y : e = d \/ (e \in 1..(d - 1) /\ e \in Docs)
      BY <1>2, <2>1, EditorTabAssumption DEF Docs
    <3> QED
      BY <1>1, <1>3, <2>1, <3>1
  <2>2. CASE y # d
    <3>1. y \in line[y] /\ \A e \in 1..y : line[e] # {}
      BY <1>3, <1>7, <2>2 DEF LinesOK
    <3>2. \A e \in 1..y : e \in Docs
      BY <1>2, EditorTabAssumption DEF Docs
    <3> QED
      BY <1>3, <2>2, <3>1, <3>2
  <2> QED
    BY <2>1, <2>2
<1>8. ASSUME NEW y \in Docs, NEW e \in line'[y]
      PROVE  e <= y /\ line'[e] # {} /\ line'[e] \subseteq line'[y]
             /\ (e \in content' <=> y \in content')
  <2>1. CASE y = d /\ e = d
    BY <1>2, <1>3, <2>1
  <2>2. CASE y = d /\ e # d
    <3>1. e \in from /\ e \in Docs /\ line[e] # {}
      BY <1>3, <1>8, <2>2
    <3>2. e < d /\ line'[e] = line[e]
      BY <1>5, <3>1
    <3> QED
      BY <1>2, <1>3, <2>2, <3>1, <3>2
  <2>3. CASE y # d
    <3>1. e \in line[y] /\ e \in Docs
      BY <1>1, <1>3, <1>8, <2>3
    <3>2. e <= y /\ line[e] # {} /\ line[e] \subseteq line[y] /\ (e \in content <=> y \in content)
      BY <3>1 DEF LinesOK
    <3>3. line'[e] = line[e] /\ (e \in content' <=> e \in content)
      BY <1>5, <3>1, <3>2
    <3>4. line[y] # {}
      BY <3>1
    <3>5. line'[y] = line[y] /\ (y \in content' <=> y \in content)
      BY <1>5, <3>4
    <3> QED
      BY <3>2, <3>3, <3>5
  <2> QED
    BY <2>1, <2>2, <2>3
<1>9. \A y \in content' : line'[y] # {}
  <2>1. line'[d] # {}
    BY <1>3
  <2>2. \A y \in content : y \in Docs /\ line[y] # {}
    BY <1>1 DEF LinesOK
  <2> QED
    BY <1>5, <2>1, <2>2
<1>10. LinesOK'
  BY <1>7, <1>8, <1>9 DEF LinesOK
<1>11. Made(d)' /\ \A x : Made(x) => Made(x)'
  BY <1>3, <1>5 DEF Made
<1> QED
  BY <1>3, <1>4, <1>5, <1>6, <1>10, <1>11 DEF LineGrown

(* ... of no other.                                                        *)
LEMMA MakeGrows ==
  ASSUME TabTypeOK, LinesOK, NEW d \in Docs, Make(d)
  PROVE  LineGrown(d) /\ line'[d] = {d}
<1>1. d \in Unmade /\ line' = [line EXCEPT ![d] = {d}] /\ content' \in {content, content \cup {d}}
  BY DEF Make
<1>2. line' = [line EXCEPT ![d] = {} \cup {d}]
  BY <1>1
<1>3. PICK from \in SUBSET Docs : from = {}
  OBVIOUS
<1>4. /\ line' = [line EXCEPT ![d] = from \cup {d}] /\ from \cup {d} = {d}
      /\ \A x \in from : line[x] # {} /\ line[x] \subseteq from /\ (x \in content <=> d \in content')
  BY <1>2, <1>3
<1>5. LineGrown(d)
  BY <1>1, <1>3, <1>4, LineGrows
<1>6. line'[d] = {d}
  BY <1>1 DEF TabTypeOK
<1> QED
  BY <1>5, <1>6

(* What was kept stays.                                                    *)
LEMMA KeptGrows ==
  ASSUME TabTypeOK, KeptOK, \A x : Made(x) => Made(x)',
         \A x \in Docs : line[x] # {} => (x \in content' <=> x \in content),
         UNCHANGED <<draft, rendered, refused>>, content' \subseteq Docs
  PROVE  /\ (draft.doc # 0 => Made(draft.doc))'
         /\ (draft.valid # 0 => Made(draft.valid))'
         /\ DraftOpens' /\ (\A x \in refused : Made(x))'
<1>1. /\ draft.doc # 0 => Made(draft.doc)
      /\ draft.valid # 0 => Made(draft.valid)
      /\ draft.doc \in content => {draft.doc, draft.valid} \cap rendered # {}
      /\ \A x \in refused : Made(x)
  BY DEF KeptOK, DraftOpens
<1>2. draft'.doc \in content' => draft.doc \in content
  <2>1. draft' = draft /\ 0 \notin Docs
    BY NumbersAre
  <2> QED
    BY <1>1, <2>1 DEF Made
<1> QED
  BY <1>1, <1>2 DEF DraftOpens

-----------------------------------------------------------------------------
(* The user in the tab.                                                    *)

LinesMove ==
  /\ LinesOK' /\ line' \in [Docs -> SUBSET Docs] /\ content' \subseteq Docs
  /\ \A x \in Docs : line[x] # {} => line'[x] = line[x] /\ (x \in content' <=> x \in content)
  /\ \A x : Made(x) => Made(x)'

(* A document more leaves the others as they are ...                       *)
LEMMA GrownMoves ==
  ASSUME NEW d \in Docs, LineGrown(d)
  PROVE  LinesMove
  BY DEF LineGrown, LinesMove

(* ... and so does a step that makes none.                                 *)
LEMMA LinesRest ==
  ASSUME TabTypeOK, LinesOK, line' = line, content' = content
  PROVE  LinesMove
<1>1. LinesOK' /\ \A x : Made(x) => Made(x)'
  BY DEF LinesOK, Made
<1> QED
  BY <1>1 DEF TabTypeOK, LinesMove

(* Where there is no canvas or representation, nothing was edited.         *)
LEMMA AwayFromNative ==
  ASSUME TabInv, tab.view # "native"
  PROVE  Away /\ ~tab.ready
  BY DEF TabInv, Away, Opening, Represented, Drawn

(* A launch that shows nothing meanwhile keeps the invariant.              *)
LEMMA OpensKeeps ==
  ASSUME TabInv, NEW load \in Numbers, NEW kind \in {"open", "content"}, NEW fallback \in Numbers,
         ~Preserves(tab, kind), LaunchNative(tab, load, kind, fallback), mail' = <<>>,
         OneOf(load)', fallback # 0 => Made(fallback)', LinesMove, asked' \in Numbers,
         UNCHANGED <<draft, rendered, refused>>
  PROVE  TabInv'
<1>1. /\ TabTypeOK /\ LinesOK /\ KeptOK /\ launches \in Seq(LaunchStates) /\ tab \in TabStates
      /\ kind \in LaunchKinds
  BY DEF TabInv, TabTypeOK, LaunchKinds
<1>2. Opening'
  BY <1>1, LaunchOpens
<1>3. /\ tab' \in TabStates /\ reading' = 0 /\ launches' \in Seq(LaunchStates)
      /\ \A i \in 1..(Len(launches') - 1) : ~launches'[i].current
  BY <1>1, LaunchIs
<1>4. /\ LinesOK' /\ line' \in [Docs -> SUBSET Docs] /\ content' \subseteq Docs
      /\ \A x \in Docs : line[x] # {} => (x \in content' <=> x \in content)
      /\ \A x : Made(x) => Made(x)'
  BY DEF LinesMove
<1>5. /\ (draft.doc # 0 => Made(draft.doc))' /\ (draft.valid # 0 => Made(draft.valid))' /\ DraftOpens'
      /\ (\A x \in refused : Made(x))'
  BY <1>1, <1>4, KeptGrows
<1>6. KeptOK'
  BY <1>3, <1>5 DEF KeptOK
<1>7. mail' \in Seq(FrameMessages)
  BY EmptySeq
<1>8. TabTypeOK'
  BY <1>1, <1>3, <1>4, <1>7, NumbersAre DEF TabTypeOK
<1> QED
  BY <1>2, <1>4, <1>6, <1>8 DEF TabInv

(* A new document is opened ...                                            *)
LEMMA OpenPastedKeeps ==
  ASSUME TabInv, NEW d \in Docs, OpenPasted(d)
  PROVE  TabInv'
<1>1. TabTypeOK /\ LinesOK /\ ~tab.ready
  BY AwayFromNative DEF TabInv, OpenPasted
<1>2. Make(d) /\ LaunchNative(tab, d, "open", 0) /\ mail' = <<>> /\ asked' = d
      /\ UNCHANGED <<draft, rendered, refused>>
  BY DEF OpenPasted
<1>3. LineGrown(d) /\ line'[d] = {d}
  BY <1>1, <1>2, MakeGrows
<1>4. OneOf(d)' /\ d \in Numbers /\ 0 \in Numbers /\ asked' \in Numbers
  BY <1>2, <1>3, NumbersAre DEF OneOf, LineGrown
<1>5. ~Preserves(tab, "open") /\ LinesMove
  BY <1>1, <1>3, GrownMoves DEF Preserves
<1> QED
  BY <1>2, <1>4, <1>5, OpensKeeps

(* ... or the one in local storage ...                                     *)
LEMMA RestoreDraftKeeps ==
  ASSUME TabInv, RestoreDraft
  PROVE  TabInv'
<1>1. TabTypeOK /\ LinesOK /\ KeptOK /\ ~tab.ready
  BY AwayFromNative DEF TabInv, RestoreDraft
<1>2. PICK d, v : d = draft.doc /\ v = draft.valid
  OBVIOUS
<1>3. /\ d # 0 /\ LaunchNative(tab, d, "open", v) /\ mail' = <<>> /\ asked' = d
      /\ UNCHANGED <<draft, known>>
  BY <1>2 DEF RestoreDraft
<1>4. d \in Numbers /\ v \in Numbers /\ Made(d) /\ (v # 0 => Made(v))
  BY <1>1, <1>2, <1>3 DEF TabTypeOK, KeptOK
<1>5. LinesMove /\ rendered' = rendered /\ refused' = refused /\ line' = line
  BY <1>1, <1>3, LinesRest DEF known
<1>6. d \in line[d]
  BY <1>1, <1>4 DEF LinesOK, Made
<1>7. OneOf(d)' /\ (v # 0 => Made(v)')
  BY <1>3, <1>4, <1>5, <1>6 DEF OneOf, Made
<1>8. ~Preserves(tab, "open")
  BY DEF Preserves
<1> QED
  BY <1>3, <1>4, <1>5, <1>7, <1>8, OpensKeeps

(* ... or the file that has been read.                                     *)
LEMMA FileReadKeeps ==
  ASSUME TabInv, FileRead
  PROVE  TabInv'
<1>1. TabTypeOK /\ LinesOK /\ KeptOK /\ ~tab.ready
  BY AwayFromNative DEF TabInv, FileRead, KeptOK
<1>2. PICK d : d = reading
  OBVIOUS
<1>3. /\ d # 0 /\ LaunchNative(tab, d, "open", 0) /\ mail' = <<>> /\ asked' = asked
      /\ UNCHANGED <<draft, known>>
  BY <1>2 DEF FileRead
<1>4. d \in Numbers /\ 0 \in Numbers /\ Made(d) /\ asked = d
  BY <1>1, <1>2, <1>3, NumbersAre DEF TabTypeOK, KeptOK
<1>5. LinesMove /\ rendered' = rendered /\ refused' = refused /\ line' = line
  BY <1>1, <1>3, LinesRest DEF known
<1>6. d \in line[d]
  BY <1>1, <1>4 DEF LinesOK, Made
<1>7. OneOf(d)' /\ asked' \in Numbers
  BY <1>3, <1>4, <1>5, <1>6 DEF OneOf, Made
<1>8. ~Preserves(tab, "open")
  BY DEF Preserves
<1> QED
  BY <1>3, <1>4, <1>5, <1>7, <1>8, OpensKeeps

(* What is not open stays as it is when nothing of it changes.             *)
LEMMA AwayStays ==
  ASSUME Away, tab' = tab, mail' = mail, ~Waiting'
  PROVE  Away'
  BY DEF Away, Plain

(* The queue invalidated.                                                  *)
LEMMA NothingAwaited ==
  ASSUME launches \in Seq(LaunchStates), launches' = InvalidateLoadIntents
  PROVE  /\ launches' \in Seq(LaunchStates) /\ ~Waiting'
         /\ \A i \in 1..(Len(launches') - 1) : ~launches'[i].current
<1>1. /\ launches' \in Seq(LaunchStates) /\ Len(launches') \in Nat
      /\ \A i \in 1..Len(launches') : ~launches'[i].current
  BY Invalidated, LenProperties
<1>2. ASSUME launches' # <<>> PROVE ~Awaited'.current
  <2>1. Len(launches') \in 1..Len(launches')
    BY <1>1, <1>2, EmptySeq
  <2> QED
    BY <1>1, <2>1 DEF Awaited
<1> QED
  BY <1>1, <1>2 DEF Waiting

(* A file is picked: what was awaited is not heeded any more.              *)
LEMMA PickFileKeeps ==
  ASSUME TabInv, NEW d \in Docs, PickFile(d)
  PROVE  TabInv'
<1>1. TabTypeOK /\ LinesOK /\ KeptOK /\ Away
  BY AwayFromNative DEF TabInv, PickFile
<1>2. /\ Make(d) /\ launches' = InvalidateLoadIntents /\ reading' = d /\ asked' = d
      /\ tab.view = "start" /\ UNCHANGED <<tab, mail, draft, rendered, refused>>
  BY DEF PickFile
<1>3. LineGrown(d)
  BY <1>1, <1>2, MakeGrows
<1>4. /\ LinesOK' /\ line' \in [Docs -> SUBSET Docs] /\ content' \subseteq Docs /\ Made(d)'
      /\ \A x \in Docs : line[x] # {} => (x \in content' <=> x \in content)
      /\ \A x : Made(x) => Made(x)'
  BY <1>3 DEF LineGrown
<1>5. /\ launches' \in Seq(LaunchStates) /\ ~Waiting'
      /\ \A i \in 1..(Len(launches') - 1) : ~launches'[i].current
  BY <1>1, <1>2, NothingAwaited DEF TabTypeOK
<1>6. /\ (draft.doc # 0 => Made(draft.doc))' /\ (draft.valid # 0 => Made(draft.valid))' /\ DraftOpens'
      /\ (\A x \in refused : Made(x))'
  BY <1>1, <1>2, <1>4, KeptGrows
<1>7. KeptOK'
  BY <1>2, <1>4, <1>5, <1>6 DEF KeptOK
<1>8. TabTypeOK'
  BY <1>1, <1>2, <1>4, <1>5, NumbersAre DEF TabTypeOK
<1>9. Away'
  BY <1>1, <1>2, <1>5, AwayStays
<1> QED
  BY <1>4, <1>7, <1>8, <1>9 DEF TabInv

(* What does not touch lines and drafts.                                   *)
LEMMA KnownStay ==
  ASSUME TabInv, UNCHANGED known
  PROVE  /\ TabTypeOK /\ LinesOK /\ KeptOK /\ LinesOK'
         /\ content' = content /\ line' = line /\ rendered' = rendered /\ refused' = refused
         /\ \A x : Made(x)' <=> Made(x)
         /\ \A x : Canvas(x)' <=> Canvas(x)
<1>1. TabTypeOK /\ LinesOK /\ KeptOK
  BY DEF TabInv
<1>2. content' = content /\ line' = line /\ rendered' = rendered /\ refused' = refused
  BY DEF known
<1>3. LinesOK'
  BY <1>1, <1>2 DEF LinesOK
<1> QED
  BY <1>1, <1>2, <1>3 DEF Made, Canvas

(* A step that makes no document.                                          *)
LEMMA TypesStay ==
  ASSUME TabTypeOK, tab' \in TabStates, launches' \in Seq(LaunchStates),
         mail' \in Seq(FrameMessages), draft' \in [doc : Numbers, valid : Numbers],
         reading' \in {0, reading}, asked' = asked, UNCHANGED known
  PROVE  TabTypeOK'
  BY NumbersAre DEF TabTypeOK, known

(* What was kept stays when nothing of it changes.                         *)
LEMMA KeptStays ==
  ASSUME KeptOK, UNCHANGED known, draft' = draft, asked' = asked,
         reading' = 0 \/ (reading' = reading /\ tab'.view = tab.view),
         \A i \in 1..(Len(launches') - 1) : ~launches'[i].current
  PROVE  KeptOK'
  BY DEF KeptOK, known, Made, DraftOpens

(* The file cannot be opened.                                              *)
LEMMA FileRejectedKeeps ==
  ASSUME TabInv, FileRejected
  PROVE  TabInv'
<1>1. /\ reading # 0 /\ reading' = 0 /\ asked' = asked /\ UNCHANGED known
      /\ tab' = tab /\ launches' = launches /\ mail' = mail /\ draft' = draft
  BY DEF FileRejected
<1>2. TabTypeOK /\ KeptOK /\ Away /\ LinesOK'
  BY <1>1, KnownStay, AwayFromNative DEF TabInv, KeptOK
<1>3. Away'
  BY <1>1, <1>2, AwayStays DEF Away, Waiting, Awaited
<1>4. KeptOK'
  BY <1>1, <1>2, KeptStays DEF KeptOK
<1>5. TabTypeOK'
  BY <1>1, <1>2, TypesStay DEF TabTypeOK
<1> QED
  BY <1>2, <1>3, <1>4, <1>5 DEF TabInv

(* Back to the start, or to the legacy editor.                             *)
LEMMA LeavesKeeps ==
  ASSUME TabInv, NEW t \in TabStates, tab' = ReplaceEditorFrame(t, 0), t.view # "native",
         ~t.ready, ~t.busy, t.pending = NoEdit, t.undo = <<>>, t.redo = <<>>,
         launches' = InvalidateLoadIntents, reading' = 0, mail' = <<>>,
         UNCHANGED <<draft, asked, known>>
  PROVE  TabInv'
<1>1. asked' = asked /\ draft' = draft /\ UNCHANGED known
  OBVIOUS
<1>2. TabTypeOK /\ KeptOK /\ LinesOK'
  BY <1>1, KnownStay
<1>3. PICK r \in TabStates : r = ReplaceEditorFrame(t, 0)
  BY ReplacedFrame, NumbersAre
<1>4. /\ r.view = t.view /\ r.ready = t.ready /\ r.busy = t.busy /\ r.pending = t.pending
      /\ r.undo = t.undo /\ r.redo = t.redo /\ r.frame.doc = 0 /\ ~r.frame.started
  BY <1>3, ReplacedFrame, NumbersAre
<1>5. /\ launches' \in Seq(LaunchStates) /\ ~Waiting'
      /\ \A i \in 1..(Len(launches') - 1) : ~launches'[i].current
  BY <1>2, NothingAwaited DEF TabTypeOK
<1>6. Away'
  BY <1>3, <1>4, <1>5 DEF Away, Plain
<1>7. KeptOK'
  BY <1>1, <1>2, <1>5, KeptStays
<1>8. mail' \in Seq(FrameMessages)
  BY EmptySeq
<1>9. TabTypeOK'
  BY <1>1, <1>2, <1>3, <1>5, <1>8, TypesStay DEF TabTypeOK
<1> QED
  BY <1>2, <1>6, <1>7, <1>9 DEF TabInv

(* The document is closed ...                                              *)
LEMMA ShowStartKeeps ==
  ASSUME TabInv, ShowStart
  PROVE  TabInv'
<1>1. tab \in TabStates
  BY DEF TabInv, TabTypeOK
<1>2. PICK a \in TabStates : a = ResetNativeHistory(ClearExports(tab))
  BY <1>1, ResetIs
<1>3. ~a.busy /\ a.pending = NoEdit /\ a.undo = <<>> /\ a.redo = <<>>
  BY <1>1, <1>2, ResetIs
<1>4. PICK t : t = [a EXCEPT !.view = "start", !.ready = FALSE, !.stale = FALSE, !.retry = FALSE]
  OBVIOUS
<1>5. /\ t \in TabStates /\ t.view # "native" /\ ~t.ready
      /\ ~t.busy /\ t.pending = NoEdit /\ t.undo = <<>> /\ t.redo = <<>>
  BY <1>2, <1>3, <1>4 DEF TabStates
<1>6. /\ tab' = ReplaceEditorFrame(t, 0) /\ launches' = InvalidateLoadIntents /\ reading' = 0
      /\ mail' = <<>> /\ UNCHANGED <<draft, asked, known>>
  BY <1>2, <1>4 DEF ShowStart
<1> QED
  BY <1>5, <1>6, LeavesKeeps

(* ... or the legacy editor is started.                                    *)
LEMMA LaunchLegacyKeeps ==
  ASSUME TabInv, LaunchLegacy
  PROVE  TabInv'
<1>1. tab \in TabStates
  BY DEF TabInv, TabTypeOK
<1>2. PICK a \in TabStates : a = ResetNativeHistory(ClearExports(tab))
  BY <1>1, ResetIs
<1>3. ~a.busy /\ a.pending = NoEdit /\ a.undo = <<>> /\ a.redo = <<>>
  BY <1>1, <1>2, ResetIs
<1>4. PICK t : t = [a EXCEPT !.view = "legacy", !.doc = 0, !.url = 0, !.valid = 0,
                              !.ready = FALSE, !.stale = FALSE, !.retry = FALSE]
  OBVIOUS
<1>5. /\ t \in TabStates /\ t.view # "native" /\ ~t.ready
      /\ ~t.busy /\ t.pending = NoEdit /\ t.undo = <<>> /\ t.redo = <<>>
  BY <1>2, <1>3, <1>4, NumbersAre DEF TabStates
<1>6. /\ tab' = ReplaceEditorFrame(t, 0) /\ launches' = InvalidateLoadIntents /\ reading' = 0
      /\ mail' = <<>> /\ UNCHANGED <<draft, asked, known>>
  BY <1>2, <1>4 DEF LaunchLegacy
<1> QED
  BY <1>5, <1>6, LeavesKeeps

-----------------------------------------------------------------------------
(* What stays while others change.                                         *)

(* What is open does not depend on the launches that are not heeded.       *)
LEMMA ModesStay ==
  ASSUME tab' = tab, mail' = mail, draft' = draft, asked' = asked, UNCHANGED known,
         Waiting' <=> Waiting, Waiting => Awaited' = Awaited
  PROVE  /\ Away => Away'
         /\ Opening => Opening'
         /\ Represented => Represented'
<1>1. content' = content /\ line' = line /\ rendered' = rendered
  BY DEF known
<1>2. Plain' <=> Plain
  BY DEF Plain
<1>3. \A x : (OneOf(x)' <=> OneOf(x)) /\ (Made(x)' <=> Made(x)) /\ (Shows(x)' <=> Shows(x))
  BY <1>1 DEF OneOf, Made, Shows
<1>4. Away => Away'
  BY <1>2 DEF Away
<1>5. Opening => Opening'
  BY <1>2, <1>3 DEF Opening, NoExport
<1>6. Represented => Represented'
  BY <1>1, <1>2, <1>3 DEF Represented, NoExport
<1> QED
  BY <1>4, <1>5, <1>6

(* A history stays one ...                                                 *)
LEMMA HistoryStays ==
  ASSUME NEW d, HistoryOK(d), tab'.undo = tab.undo, tab'.redo = tab.redo, asked' = asked,
         UNCHANGED known
  PROVE  HistoryOK(d)'
  BY DEF HistoryOK, Leads, Follows, OneOf, Made, Before, known

(* ... and a frame stays live ...                                          *)
LEMMA LiveStays ==
  ASSUME NEW d, Live(d), tab'.undo = tab.undo, tab'.redo = tab.redo, tab'.frame = tab.frame,
         mail' = mail, UNCHANGED known,
         Silent => tab'.exporting \in {0, d} /\ tab'.download \in {0, d}
  PROVE  Live(d)'
<1>1. content' = content /\ line' = line /\ refused' = refused
  BY DEF known
<1>2. (Silent' <=> Silent) /\ Known' = Known
  BY <1>1 DEF Silent, Carries, Known
<1>3. (Canvas(tab.frame.doc))' <=> Canvas(tab.frame.doc)
  BY <1>1 DEF Canvas, Made
<1>4. Told(d)' <=> Told(d)
  BY <1>1, <1>2 DEF Told, Leading, Carries, Canvas, Made, Before
<1> QED
  BY <1>1, <1>2, <1>3, <1>4 DEF Live

(* In a frame that is locked for good nothing counts but the lock.         *)
LEMMA EditStays ==
  ASSUME InEdit \/ EditFailed, launches' = launches, draft' = draft, asked' = asked,
         UNCHANGED known,
         tab'.doc = tab.doc, tab'.busy = tab.busy, tab'.undo = tab.undo, tab'.redo = tab.redo,
         tab'.pending = tab.pending, tab'.stale = tab.stale, tab'.retry = tab.retry,
         tab'.exporting = tab.exporting, tab'.download = tab.download,
         tab'.frame.inert = tab.frame.inert
  PROVE  InEdit' \/ EditFailed'
<1>1. content' = content /\ line' = line /\ refused' = refused
  BY DEF known
<1>2. EditKept
  BY DEF InEdit, EditFailed
<1>3. HistoryOK(tab.pending.previous)'
  <2>1. PICK p : p = tab.pending.previous
    OBVIOUS
  <2>2. HistoryOK(p)'
    BY <1>2, <2>1, HistoryStays DEF EditKept
  <2> QED
    BY <2>1, <2>2
<1>4. EditKept'
  BY <1>1, <1>2, <1>3 DEF EditKept, Canvas, Made, Before
<1>5. Locked'
  BY DEF InEdit, EditFailed, Locked, NoExport
<1>6. InEdit => AnswerAwaited' /\ Awaited' = Awaited
  BY DEF InEdit, AnswerAwaited, Awaited, Waiting
<1>7. InEdit => InEdit'
  BY <1>4, <1>5, <1>6 DEF InEdit
<1>8. EditFailed => EditFailed'
  BY <1>4, <1>5 DEF EditFailed
<1> QED
  BY <1>7, <1>8

(* Where the frame shows the canvas.                                       *)
LEMMA RestStays ==
  ASSUME AtRest, Live(tab.doc)', launches' = launches, draft' = draft, asked' = asked,
         UNCHANGED known,
         tab'.doc = tab.doc, tab'.busy = tab.busy, tab'.undo = tab.undo, tab'.redo = tab.redo,
         tab'.pending = tab.pending, tab'.stale = tab.stale,
         tab'.frame.inert = tab.frame.inert, tab'.frame.synced = tab.frame.synced
  PROVE  AtRest'
<1>1. HistoryOK(tab.doc)'
  <2>1. PICK d : d = tab.doc
    OBVIOUS
  <2>2. HistoryOK(d)'
    BY <2>1, HistoryStays DEF AtRest
  <2> QED
    BY <2>1, <2>2
<1> QED
  BY <1>1 DEF AtRest

-----------------------------------------------------------------------------
(* Answers nobody awaits.                                                  *)

(* Where nothing is awaited, no history step and no rebuild is under way.  *)
LEMMA NotBusy ==
  ASSUME NEW t \in TabStates, ~t.busy
  PROVE  [t EXCEPT !.busy = FALSE] = t
  BY DEF TabStates

(* Nothing is settled where nothing was edited.                            *)
LEMMA PlainSettled ==
  ASSUME tab \in TabStates, Plain, NEW l \in LaunchStates
  PROVE  Settled(tab, l, "none") = tab
<1>1. [tab EXCEPT !.busy = FALSE] = tab
  BY NotBusy DEF Plain
<1>2. SettledHistory(tab, l, "none") = tab
  BY <1>1 DEF SettledHistory
<1>3. SettledEdit(tab, "none") = tab
  BY DEF SettledEdit, Plain
<1> QED
  BY <1>1, <1>2, <1>3 DEF Settled

(* An outdated launch leaves the one that is awaited.                      *)
LEMMA TailWaits ==
  ASSUME launches \in Seq(LaunchStates), launches # <<>>, ~Head(launches).current,
         launches' = Tail(launches), \A i \in 1..(Len(launches) - 1) : ~launches[i].current
  PROVE  /\ launches' \in Seq(LaunchStates) /\ (Waiting' <=> Waiting)
         /\ Waiting => Awaited' = Awaited
         /\ \A i \in 1..(Len(launches') - 1) : ~launches'[i].current
<1>1. /\ launches' \in Seq(LaunchStates) /\ Len(launches') = Len(launches) - 1
      /\ Len(launches) \in Nat /\ Len(launches) >= 1 /\ Head(launches) = launches[1]
      /\ \A i \in 1..(Len(launches) - 1) : launches'[i] = launches[i + 1]
  BY HeadTailProperties, LenProperties, EmptySeq
<1>2. \A i \in 1..(Len(launches') - 1) : ~launches'[i].current
  <2>1. \A i \in 1..(Len(launches') - 1) :
          i \in 1..(Len(launches) - 1) /\ i + 1 \in 1..(Len(launches) - 1)
    BY <1>1
  <2> QED
    BY <1>1, <2>1
<1>3. CASE Len(launches) = 1
  <2>1. ~Waiting
    BY <1>1, <1>3 DEF Waiting, Awaited
  <2>2. launches' = <<>>
    BY <1>1, <1>3, EmptySeq
  <2> QED
    BY <1>1, <1>2, <2>1, <2>2 DEF Waiting
<1>4. CASE Len(launches) > 1
  <2>1. launches'[Len(launches')] = launches[Len(launches)]
    BY <1>1, <1>4
  <2>2. launches' # <<>>
    <3>1. PICK q \in Seq(LaunchStates) : q = launches'
      BY <1>1
    <3>2. Len(q) # 0
      BY <1>1, <1>4, <3>1
    <3> QED
      BY <3>1, <3>2, EmptySeq
  <2> QED
    BY <1>1, <1>2, <2>1, <2>2 DEF Waiting, Awaited
<1> QED
  BY <1>1, <1>3, <1>4

(* A launch that is not heeded changes nothing that matters.               *)
LEMMA DropLaunchKeeps ==
  ASSUME TabInv, DropLaunch
  PROVE  TabInv'
<1>1. /\ launches # <<>> /\ ~Head(launches).current /\ launches' = Tail(launches)
      /\ tab' = Settled(tab, Head(launches), "none") /\ mail' = mail /\ draft' = draft
      /\ reading' = reading /\ asked' = asked /\ UNCHANGED known
  BY DEF DropLaunch, Heeds
<1>2. TabTypeOK /\ KeptOK /\ LinesOK' /\ tab \in TabStates /\ launches \in Seq(LaunchStates)
  BY <1>1, KnownStay DEF TabTypeOK
<1>3. Head(launches) \in LaunchStates
  BY <1>1, <1>2, HeadTailProperties
<1>4. /\ launches' \in Seq(LaunchStates) /\ (Waiting' <=> Waiting)
      /\ Waiting => Awaited' = Awaited
      /\ \A i \in 1..(Len(launches') - 1) : ~launches'[i].current
  BY <1>1, <1>2, TailWaits DEF KeptOK
<1>5. ~Drawn
  <2>1. Len(launches) = 1 /\ Waiting => Head(launches).current
    BY <1>1, <1>2, HeadTailProperties DEF Waiting, Awaited
  <2> QED
    BY <1>1, <2>1 DEF Drawn, AtRest, InHistory, InEdit, EditFailed, AnswerAwaited
<1>6. Plain
  BY <1>5 DEF TabInv, Away, Opening, Represented
<1>7. tab' = tab
  BY <1>1, <1>2, <1>3, <1>6, PlainSettled
<1>8. Away' \/ Opening' \/ Represented'
  BY <1>1, <1>4, <1>5, <1>7, ModesStay DEF TabInv
<1>9. KeptOK'
  BY <1>1, <1>2, <1>4, <1>7, KeptStays
<1>10. TabTypeOK'
  BY <1>1, <1>2, <1>4, <1>7, TypesStay DEF TabTypeOK
<1> QED
  BY <1>2, <1>8, <1>9, <1>10 DEF TabInv

-----------------------------------------------------------------------------
(* Exports, and the user in the frame.                                     *)

(* A change of the tab that keeps the queue and the draft.                 *)
LEMMA TabChanges ==
  ASSUME TabInv, tab' \in TabStates, tab'.view = tab.view, launches' = launches, draft' = draft,
         reading' = reading, asked' = asked, mail' \in Seq(FrameMessages), UNCHANGED known,
         Represented' \/ Drawn' \/ Away' \/ Opening'
  PROVE  TabInv'
<1>1. TabTypeOK /\ KeptOK /\ LinesOK'
  BY KnownStay
<1>2. KeptOK'
  BY <1>1, KeptStays DEF KeptOK
<1>3. TabTypeOK'
  BY <1>1, TypesStay DEF TabTypeOK
<1> QED
  BY <1>1, <1>2, <1>3 DEF TabInv

(* Only exports change.                                                    *)
LEMMA ExportsKeep ==
  ASSUME TabInv, NEW e \in Numbers, NEW o \in Numbers,
         tab' = [tab EXCEPT !.exporting = e, !.download = o], mail' = mail,
         launches' = launches, draft' = draft, reading' = reading, asked' = asked, UNCHANGED known,
         tab.view = "native" => ~tab.stale /\ tab.ready,
         tab.view = "native" /\ Represented => {e, o} \subseteq {0, tab.doc},
         tab.view = "native" /\ Live(tab.doc) /\ Silent => {e, o} \subseteq {0, tab.doc}
  PROVE  TabInv'
<1>1. tab \in TabStates /\ TabTypeOK
  BY DEF TabInv, TabTypeOK
<1>2. /\ tab' \in TabStates /\ tab'.view = tab.view /\ tab'.doc = tab.doc /\ tab'.url = tab.url
      /\ tab'.ready = tab.ready /\ tab'.stale = tab.stale /\ tab'.valid = tab.valid
      /\ tab'.retry = tab.retry /\ tab'.busy = tab.busy /\ tab'.undo = tab.undo
      /\ tab'.redo = tab.redo /\ tab'.pending = tab.pending /\ tab'.frame = tab.frame
      /\ tab'.exporting = e /\ tab'.download = o
  BY <1>1 DEF TabStates
<1>3. content' = content /\ line' = line /\ rendered' = rendered /\ refused' = refused
  BY DEF known
<1>4. (Waiting' <=> Waiting) /\ (Waiting => Awaited' = Awaited)
  BY DEF Waiting, Awaited
<1>5. Plain' <=> Plain
  BY <1>2 DEF Plain
<1>6. CASE Away
  BY <1>1, <1>2, <1>4, <1>5, <1>6, TabChanges DEF Away, TabTypeOK
<1>7. CASE Opening
  BY <1>7 DEF Opening
<1>8. CASE Represented
  <2>1. \A x : (OneOf(x)' <=> OneOf(x)) /\ (Shows(x)' <=> Shows(x))
    BY <1>3 DEF OneOf, Made, Shows
  <2>2. Represented'
    BY <1>2, <1>3, <1>4, <1>5, <1>8, <2>1 DEF Represented
  <2> QED
    BY <1>1, <1>2, <2>2, TabChanges DEF TabTypeOK
<1>9. CASE Drawn
  <2>1. AtRest
    BY <1>9 DEF Drawn, InHistory, InEdit, EditFailed, Locked
  <2>2. Live(tab.doc)'
    <3>1. PICK d : d = tab.doc
      OBVIOUS
    <3>2. Live(d)'
      BY <1>2, <1>9, <2>1, <3>1, LiveStays DEF AtRest, Drawn
    <3> QED
      BY <1>2, <3>1, <3>2
  <2>3. AtRest'
    BY <1>2, <2>1, <2>2, RestStays
  <2>4. Drawn'
    BY <1>2, <1>3, <1>9, <2>3 DEF Drawn, Canvas, Made
  <2> QED
    BY <1>1, <1>2, <2>4, TabChanges DEF TabTypeOK
<1> QED
  BY <1>6, <1>7, <1>8, <1>9 DEF TabInv

(* An export is started ...                                                *)
LEMMA ExportRasterKeeps ==
  ASSUME TabInv, ExportRaster
  PROVE  TabInv'
<1>1. PICK e \in Numbers : e = tab.frame.picture
  BY TabIs DEF TabInv, TabTypeOK
<1>2. PICK o \in Numbers : o = 0
  BY NumbersAre
<1>3. /\ tab' = [tab EXCEPT !.exporting = e, !.download = o] /\ mail' = mail
      /\ launches' = launches /\ draft' = draft /\ reading' = reading /\ asked' = asked
      /\ UNCHANGED known /\ ~tab.stale /\ tab.ready
  BY <1>1, <1>2 DEF ExportRaster
<1>4. Represented => {e, o} \subseteq {0, tab.doc}
  BY <1>1, <1>2, <1>3 DEF Represented
<1>5. Live(tab.doc) /\ Silent => {e, o} \subseteq {0, tab.doc}
  BY <1>1, <1>2 DEF Live
<1> QED
  BY <1>3, <1>4, <1>5, ExportsKeep

(* ... and ends, with something to download or without.                    *)
LEMMA ExportEndsKeeps ==
  ASSUME TabInv, ExportEnds
  PROVE  TabInv'
<1>1. PICK old \in Numbers : old = tab.exporting
  BY TabIs DEF TabInv, TabTypeOK
<1>2. PICK o : /\ o \in {0, tab.exporting}
               /\ tab' = [tab EXCEPT !.exporting = 0, !.download = o]
  BY DEF ExportEnds
<1>3. PICK e \in Numbers : e = 0
  BY NumbersAre
<1>4. /\ tab' = [tab EXCEPT !.exporting = e, !.download = o] /\ o \in Numbers
      /\ tab.exporting # 0 /\ mail' = mail /\ launches' = launches /\ draft' = draft
      /\ reading' = reading /\ asked' = asked /\ UNCHANGED known
  BY <1>1, <1>2, <1>3 DEF ExportEnds
<1>5. tab.view = "native" => ~tab.stale /\ tab.ready
  BY <1>4 DEF TabInv, Away, Opening, Represented, Drawn, AtRest, InHistory, InEdit, EditFailed,
          Locked, NoExport
<1>6. Represented => {e, o} \subseteq {0, tab.doc}
  BY <1>2, <1>3, <1>4 DEF Represented, NoExport
<1>7. Live(tab.doc) /\ Silent => {e, o} \subseteq {0, tab.doc}
  BY <1>2, <1>3 DEF Live
<1> QED
  BY <1>4, <1>5, <1>6, <1>7, ExportsKeep

(* The viewer in the frame starts and says so.                             *)
LEMMA ViewerStartsKeeps ==
  ASSUME TabInv, InitializeViewer
  PROVE  TabInv'
<1>1. /\ tab.frame.doc # 0 /\ ~tab.frame.started /\ tab.frame.doc \notin content
      /\ tab' = [tab EXCEPT !.frame.started = TRUE]
      /\ mail' = Append(mail, [event |-> "startup", doc |-> tab.frame.doc])
      /\ launches' = launches /\ draft' = draft /\ reading' = reading /\ asked' = asked
      /\ UNCHANGED known
  BY DEF InitializeViewer, Say
<1>2. tab \in TabStates /\ TabTypeOK /\ mail \in Seq(FrameMessages)
  BY DEF TabInv, TabTypeOK
<1>3. PICK f : f = [tab.frame EXCEPT !.started = TRUE]
  OBVIOUS
<1>4. /\ f \in FrameStates /\ f.started /\ f.doc = tab.frame.doc
      /\ f.picture = tab.frame.picture /\ f.inert = tab.frame.inert
      /\ f.synced = tab.frame.synced /\ f.unheard = tab.frame.unheard
  BY <1>2, <1>3, TabIs DEF FrameStates
<1>5. tab' = [tab EXCEPT !.frame = f]
  BY <1>1, <1>2, <1>3 DEF TabStates
<1>6. /\ tab' \in TabStates /\ tab'.view = tab.view /\ tab'.doc = tab.doc /\ tab'.url = tab.url
      /\ tab'.ready = tab.ready /\ tab'.stale = tab.stale
      /\ tab'.retry = tab.retry /\ tab'.busy = tab.busy /\ tab'.undo = tab.undo
      /\ tab'.redo = tab.redo /\ tab'.pending = tab.pending /\ tab'.frame = f
      /\ tab'.exporting = tab.exporting /\ tab'.download = tab.download
  BY <1>2, <1>4, <1>5 DEF TabStates
<1>7. Drawn
  BY <1>1 DEF TabInv, Away, Opening, Represented, Shows
<1>8. [event |-> "startup", doc |-> tab.frame.doc] \in FrameMessages
  BY <1>2, TabIs DEF FrameMessages
<1>9. mail' \in Seq(FrameMessages)
  BY <1>1, <1>2, <1>8, AppendProperties
<1>10. content' = content /\ line' = line /\ refused' = refused
  BY <1>1 DEF known
<1>11. AtRest' \/ InHistory' \/ InEdit' \/ EditFailed'
  <2>1. CASE AtRest
    <3>1. PICK d : d = tab.doc
      OBVIOUS
    <3>2. Live(d) /\ ~tab.frame.synced /\ mail = <<>>
      BY <1>1, <2>1, <3>1 DEF AtRest, Live
    <3>3. /\ tab.frame.doc = d /\ tab.frame.picture = d
          /\ tab.exporting \in {0, d} /\ tab.download \in {0, d}
          /\ Canvas(tab.frame.doc) /\ d \in line[tab.frame.doc]
          /\ ~tab.frame.unheard /\ tab.frame.inert
      <4>1. Silent
        <5>1. Len(mail) = 0
          BY <3>2
        <5> QED
          BY <3>2, <5>1 DEF Silent, Live
      <4> QED
        BY <3>2, <4>1 DEF Live
    <3>4. mail' = <<[event |-> "startup", doc |-> d]>>
      BY <1>1, <3>2, <3>3
    <3>5. Live(d)'
      BY <1>4, <1>6, <1>10, <3>2, <3>3, <3>4 DEF Live, Canvas, Made
    <3>6. AtRest'
      BY <1>1, <1>4, <1>6, <2>1, <3>1, <3>5, RestStays
    <3> QED
      BY <3>6
  <2>2. CASE InHistory
    <3>1. PICK d : d = Awaited.doc
      OBVIOUS
    <3> QED
      BY <1>1, <2>2, <3>1 DEF InHistory, Live
  <2>3. CASE InEdit \/ EditFailed
    BY <1>1, <1>4, <1>6, <2>3, EditStays
  <2> QED
    BY <1>7, <2>1, <2>2, <2>3 DEF Drawn
<1>12. Drawn'
  BY <1>6, <1>7, <1>10, <1>11 DEF Drawn, Canvas, Made
<1> QED
  BY <1>1, <1>6, <1>9, <1>12, TabChanges

(* The frame can be used where nothing is awaited.                         *)
LEMMA FrameUsed ==
  ASSUME TabInv, tab.frame.started, ~tab.frame.inert
  PROVE  Drawn /\ AtRest /\ tab.frame.synced
<1>1. Drawn
  BY DEF TabInv, Away, Opening, Represented, Plain
<1>2. AtRest
  BY <1>1 DEF Drawn, InHistory, InEdit, EditFailed, Locked
<1>3. PICK d : d = tab.doc
  OBVIOUS
<1> QED
  BY <1>1, <1>2, <1>3 DEF AtRest, Live

(* A key asks for an undo or a redo.                                       *)
LEMMA PressKeyKeeps ==
  ASSUME TabInv, NEW direction \in {"undo", "redo"}, PressKey(direction)
  PROVE  TabInv'
<1>1. /\ tab' = tab /\ mail' = Append(mail, [event |-> direction, doc |-> 0])
      /\ launches' = launches /\ draft' = draft /\ reading' = reading /\ asked' = asked
      /\ UNCHANGED known
  BY DEF PressKey, Say
<1>2. tab \in TabStates /\ TabTypeOK /\ mail \in Seq(FrameMessages)
  BY DEF TabInv, TabTypeOK
<1>3. Drawn /\ AtRest /\ tab.frame.synced
  BY FrameUsed DEF PressKey
<1>4. PICK m \in FrameMessages : m = [event |-> direction, doc |-> 0]
  BY NumbersAre DEF FrameMessages
<1>5. /\ mail' \in Seq(FrameMessages) /\ Len(mail') = Len(mail) + 1 /\ Len(mail) \in Nat
      /\ mail'[Len(mail) + 1] = m /\ \A i \in 1..Len(mail) : mail'[i] = mail[i]
  BY <1>1, <1>2, <1>4, AppendProperties, LenProperties
<1>6. ~Carries(m) /\ m.event # "startup"
  <2>1. m.event = direction
    BY <1>4
  <2> QED
    BY <2>1 DEF Carries
<1>7. PICK d : d = tab.doc
  OBVIOUS
<1>8. content' = content /\ line' = line /\ refused' = refused
  BY <1>1 DEF known
<1>9. Live(d)
  BY <1>3, <1>7 DEF AtRest
<1>10. \A i \in 1..Len(mail') : i \in 1..Len(mail) \/ i = Len(mail) + 1
  BY <1>5
<1>11. Silent' <=> Silent
  <2>1. Silent => Silent'
    BY <1>1, <1>5, <1>6, <1>10 DEF Silent, Carries
  <2>2. Silent' => Silent
    <3>1. \A i \in 1..Len(mail) : i \in 1..Len(mail')
      BY <1>5
    <3> QED
      BY <1>1, <1>5, <3>1 DEF Silent, Carries
  <2> QED
    BY <2>1, <2>2
<1>12. Told(d)'
  <2>1. Told(d) /\ Known' = Known
    BY <1>1, <1>3, <1>8, <1>9 DEF Live, Known
  <2>2. ASSUME NEW i \in 1..Len(mail'), Carries(mail'[i])
        PROVE  Leading(d, i)'
    <3>1. i \in 1..Len(mail) /\ mail'[i] = mail[i] /\ Carries(mail[i])
      BY <1>5, <1>6, <1>10, <2>2 DEF Carries
    <3>2. \A j \in (i + 1)..Len(mail) : j \in (i + 1)..Len(mail') /\ j \in 1..Len(mail)
      BY <1>5, <3>1
    <3>3. \A j \in (i + 1)..Len(mail') : Carries(mail'[j]) =>
            j \in (i + 1)..Len(mail) /\ mail'[j] = mail[j]
      BY <1>5, <1>6, <1>10, <3>1
    <3>4. Leading(d, i)
      BY <2>1, <3>1 DEF Told
    <3>5. (\A j \in (i + 1)..Len(mail') : ~Carries(mail'[j])) =>
            \A j \in (i + 1)..Len(mail) : ~Carries(mail[j])
      BY <1>5, <3>2
    <3>6. \A j \in (i + 1)..Len(mail') :
            Carries(mail'[j]) => Before(mail[i].doc, mail[j].doc)'
      <4> SUFFICES ASSUME NEW j \in (i + 1)..Len(mail'), Carries(mail'[j])
                   PROVE  Before(mail[i].doc, mail[j].doc)'
        OBVIOUS
      <4>1. j \in (i + 1)..Len(mail) /\ mail'[j] = mail[j] /\ Carries(mail[j])
        BY <3>3
      <4> QED
        BY <1>8, <3>1, <3>4, <4>1 DEF Before, Leading
    <3>7. /\ Canvas(mail[i].doc)' /\ Before(d, mail[i].doc)'
          /\ mail'[i].doc \in line'[tab'.frame.doc]
          /\ \A e \in Known' : e < mail'[i].doc
      BY <1>1, <1>8, <2>1, <3>1, <3>4 DEF Canvas, Made, Before, Leading
    <3>8. (\A j \in (i + 1)..Len(mail') : ~Carries(mail'[j])) =>
            /\ mail'[i].doc = tab'.frame.doc
            /\ mail'[i].event = "change" => tab'.frame.picture = tab'.frame.doc
      BY <1>1, <3>1, <3>4, <3>5 DEF Leading
    <3> QED
      BY <3>6, <3>7, <3>8 DEF Leading, Carries
  <2> QED
    BY <2>2 DEF Told
<1>13. \A i \in 1..Len(mail') : mail'[i].event # "startup"
  BY <1>3, <1>5, <1>6, <1>9, <1>10 DEF Live
<1>14. Live(d)'
  BY <1>1, <1>3, <1>8, <1>9, <1>11, <1>12, <1>13 DEF Live, Canvas, Made
<1>15. AtRest'
  BY <1>1, <1>3, <1>7, <1>14, RestStays
<1>16. Drawn'
  BY <1>1, <1>3, <1>8, <1>15 DEF Drawn, Canvas, Made
<1> QED
  BY <1>1, <1>2, <1>5, <1>16, TabChanges

(* What is known has been made.                                            *)
LEMMA KnownMade ==
  ASSUME TabTypeOK, KeptOK, NEW p, HistoryOK(p)
  PROVE  \A e \in Known : Made(e)
<1>1. tab.undo \in Seq(Docs) /\ tab.redo \in Seq(Docs)
  BY TabIs DEF TabTypeOK
<1>2. \A e \in Range(tab.undo) : \E i \in 1..Len(tab.undo) : e = tab.undo[i]
  BY <1>1, LenProperties DEF Range
<1>3. \A e \in Range(tab.redo) : \E i \in 1..Len(tab.redo) : e = tab.redo[i]
  BY <1>1, LenProperties DEF Range
<1> QED
  BY <1>2, <1>3 DEF Known, KeptOK, HistoryOK, Leads, Follows, OneOf

(* A history stays one when a document is made.                            *)
LEMMA HistoryGrows ==
  ASSUME NEW p, HistoryOK(p), LinesMove, tab'.undo = tab.undo, tab'.redo = tab.redo,
         asked' = asked
  PROVE  HistoryOK(p)'
<1>1. \A x : OneOf(x) /\ x \notin content => OneOf(x)' /\ x \notin content' /\ line'[x] = line[x]
  BY DEF LinesMove, OneOf, Made
<1>2. OneOf(p)' /\ p \notin content' /\ line'[p] = line[p]
  BY <1>1 DEF HistoryOK
<1>3. Leads(tab.undo, p)'
  <2>1. \A i \in 1..Len(tab.undo) : OneOf(tab.undo[i]) /\ tab.undo[i] \notin content
    BY DEF HistoryOK, Leads
  <2>2. ASSUME NEW i \in 1..Len(tab.undo) 
        PROVE  Before(tab.undo[i], IF i = Len(tab.undo) THEN p ELSE tab.undo[i + 1])'
    <3>1. PICK y : y = IF i = Len(tab.undo) THEN p ELSE tab.undo[i + 1]
      OBVIOUS
    <3>2. Before(tab.undo[i], y)
      BY <3>1 DEF HistoryOK, Leads
    <3>3. i # Len(tab.undo) => i + 1 \in 1..Len(tab.undo)
      OBVIOUS
    <3>4. line'[y] = line[y]
      BY <1>1, <1>2, <2>1, <3>1, <3>3
    <3> QED
      BY <3>1, <3>2, <3>4 DEF Before
  <2> QED
    BY <1>1, <2>1, <2>2 DEF Leads
<1>4. Follows(tab.redo, p)'
  BY <1>1 DEF HistoryOK, Follows, Before
<1> QED
  BY <1>2, <1>3, <1>4 DEF HistoryOK

(* In an open document the lines can move, too.                            *)
LEMMA LinesGrow ==
  ASSUME TabInv, LinesMove, tab.ready, tab' \in TabStates,
         launches' \in Seq(LaunchStates), mail' \in Seq(FrameMessages), reading' \in {0, reading},
         \A i \in 1..(Len(launches') - 1) : ~launches'[i].current,
         UNCHANGED <<draft, asked, rendered, refused>>, Represented' \/ Drawn'
  PROVE  TabInv'
<1>1. TabTypeOK /\ LinesOK /\ KeptOK /\ tab.view = "native"
  BY DEF TabInv, Away, Opening, Represented, Drawn
<1>2. /\ LinesOK' /\ line' \in [Docs -> SUBSET Docs] /\ content' \subseteq Docs
      /\ \A x \in Docs : line[x] # {} => (x \in content' <=> x \in content)
      /\ \A x : Made(x) => Made(x)'
  BY DEF LinesMove
<1>3. /\ (draft.doc # 0 => Made(draft.doc))' /\ (draft.valid # 0 => Made(draft.valid))' /\ DraftOpens'
      /\ (\A x \in refused : Made(x))'
  BY <1>1, <1>2, KeptGrows
<1>4. reading' = 0
  BY <1>1 DEF KeptOK
<1>5. KeptOK'
  BY <1>3, <1>4 DEF KeptOK
<1>6. TabTypeOK'
  BY <1>1, <1>2, <1>4, NumbersAre DEF TabTypeOK
<1> QED
  BY <1>2, <1>5, <1>6 DEF TabInv

(* An edit in the frame makes a document and tells of it.                  *)
LEMMA EditInFrameKeeps ==
  ASSUME TabInv, NEW event \in {"change", "rebuild"}, NEW d \in Docs, EditInFrame(event, d)
  PROVE  TabInv'
<1>1. /\ tab.frame.started /\ ~tab.frame.inert /\ d \in Unmade
      /\ line' = [line EXCEPT ![d] = line[tab.frame.doc] \cup {d}]
      /\ mail' = Append(mail, [event |-> event, doc |-> d])
      /\ launches' = launches /\ draft' = draft /\ reading' = reading /\ asked' = asked
      /\ content' = content /\ rendered' = rendered /\ refused' = refused
  BY DEF EditInFrame, Say
<1>2. /\ TabTypeOK /\ LinesOK /\ KeptOK /\ tab \in TabStates /\ mail \in Seq(FrameMessages)
      /\ launches \in Seq(LaunchStates) /\ line \in [Docs -> SUBSET Docs]
  BY DEF TabInv, TabTypeOK
<1>3. Drawn /\ AtRest /\ tab.frame.synced
  BY <1>1, <1>2, FrameUsed
<1>4. PICK g : g = tab.frame.doc
  OBVIOUS
<1>5. PICK p : p = tab.doc
  OBVIOUS
<1>6. /\ HistoryOK(p) /\ Live(p) /\ g \in Docs /\ line[g] # {} /\ g \notin content
      /\ p \in line[g]
  BY <1>3, <1>4, <1>5 DEF AtRest, Live, Canvas, Made
<1>7. LineGrown(d) /\ LinesMove
  <2>1. PICK from \in SUBSET Docs : from = line[g]
    BY <1>2, <1>6
  <2>2. d \notin content
    BY <1>1, <1>2 DEF Unmade, LinesOK
  <2>3. \A x \in from : line[x] # {} /\ line[x] \subseteq from /\ (x \in content <=> d \in content')
    BY <1>1, <1>2, <1>6, <2>1, <2>2 DEF LinesOK
  <2>4. line' = [line EXCEPT ![d] = from \cup {d}] /\ content' \in {content, content \cup {d}}
    BY <1>1, <1>4, <2>1
  <2>5. d \in Unmade
    BY <1>1
  <2>6. LineGrown(d)
    BY <1>2, <2>1, <2>3, <2>4, <2>5, LineGrows
  <2> QED
    BY <2>6, GrownMoves
<1>8. line'[d] = line[g] \cup {d}
  BY <1>1, <1>2, <1>4, <1>6
<1>a. PICK picture : picture = IF event = "change" THEN d ELSE tab.frame.picture
  OBVIOUS
<1>b. picture \in Numbers /\ (event = "change" => picture = d)
  BY <1>a, <1>2, NumbersAre, TabIs
<1>9. PICK f : f = [tab.frame EXCEPT !.doc = d, !.picture = picture]
  OBVIOUS
<1>10. /\ f \in FrameStates /\ f.doc = d /\ (event = "change" => f.picture = d)
       /\ f.started = tab.frame.started /\ f.synced = tab.frame.synced
       /\ f.inert = tab.frame.inert /\ f.unheard = tab.frame.unheard
  BY <1>2, <1>9, <1>b, NumbersAre, TabIs DEF FrameStates
<1>11. tab' = [tab EXCEPT !.frame = f]
  BY <1>9, <1>a DEF EditInFrame
<1>12. /\ tab' \in TabStates /\ tab'.view = tab.view /\ tab'.doc = tab.doc /\ tab'.url = tab.url
       /\ tab'.ready = tab.ready /\ tab'.stale = tab.stale
       /\ tab'.retry = tab.retry /\ tab'.busy = tab.busy /\ tab'.undo = tab.undo
       /\ tab'.redo = tab.redo /\ tab'.pending = tab.pending /\ tab'.frame = f
  BY <1>2, <1>10, <1>11 DEF TabStates
<1>13. PICK m \in FrameMessages : m = [event |-> event, doc |-> d]
  BY NumbersAre DEF FrameMessages
<1>14. /\ mail' \in Seq(FrameMessages) /\ Len(mail') = Len(mail) + 1 /\ Len(mail) \in Nat
       /\ mail'[Len(mail) + 1] = m /\ \A i \in 1..Len(mail) : mail'[i] = mail[i]
  BY <1>1, <1>2, <1>13, AppendProperties, LenProperties
<1>15. Carries(m) /\ m.event # "startup" /\ m.event = event /\ m.doc = d
  <2>1. m.event = event /\ m.doc = d
    BY <1>13
  <2> QED
    BY <2>1 DEF Carries
<1>16. /\ d \in line'[d] /\ d \notin content' /\ Made(d)' /\ d \in Nat
       /\ \A x \in Docs : line[x] # {} => line'[x] = line[x] /\ x < d
  BY <1>1, <1>7, <1>8, NumbersAre DEF LineGrown
<1>17. HistoryOK(p)'
  BY <1>1, <1>6, <1>7, <1>12, HistoryGrows
<1>18. \A e \in Known' : e < d
  <2>1. Known' = Known
    BY <1>1, <1>12 DEF Known
  <2> QED
    BY <1>2, <1>6, <1>16, <2>1, KnownMade DEF Made
<1>19. Told(p) /\ \A i \in 1..Len(mail) : mail[i].event # "startup"
  BY <1>3, <1>6 DEF Live
<1>20. p \in Docs /\ line[p] # {} /\ p < d
  BY <1>6, <1>16 DEF HistoryOK, OneOf, Made
<1>21. ASSUME NEW i \in 1..Len(mail'), Carries(mail'[i])
       PROVE  Leading(p, i)'
  <2>1. CASE i = Len(mail) + 1
    <3>1. mail'[i] = m /\ (i + 1)..Len(mail') = {}
      BY <1>14, <2>1
    <3>2. Canvas(d)' /\ Before(p, d)' /\ d \in line'[tab'.frame.doc]
      BY <1>6, <1>8, <1>10, <1>12, <1>16, <1>20 DEF Canvas, Made, Before
    <3>3. mail'[i].event = "change" => tab'.frame.picture = tab'.frame.doc
      BY <1>10, <1>12, <1>15, <3>1
    <3>4. mail'[i].doc = d /\ tab'.frame.doc = d
      BY <1>10, <1>12, <1>15, <3>1
    <3> QED
      BY <1>18, <3>1, <3>2, <3>3, <3>4 DEF Leading
  <2>2. CASE i \in 1..Len(mail)
    <3>1. mail'[i] = mail[i] /\ Carries(mail[i]) /\ Leading(p, i)
      BY <1>14, <1>19, <1>21, <2>2 DEF Told, Carries
    <3>2. PICK c : c = mail[i].doc
      OBVIOUS
    <3>3. /\ c \in Docs /\ line[c] # {} /\ c \notin content /\ p \in line[c] /\ p # c
          /\ c \in line[g] /\ \A e \in Known : e < c
      BY <1>4, <3>1, <3>2 DEF Leading, Canvas, Made, Before
    <3>4. line'[c] = line[c] /\ c < d
      BY <1>16, <3>3
    <3>5. Canvas(c)' /\ Before(p, c)' /\ c \in line'[tab'.frame.doc]
      BY <1>1, <1>8, <1>10, <1>12, <3>3, <3>4 DEF Canvas, Made, Before
    <3>6. \A e \in Known' : e < c
      BY <1>1, <1>12, <3>3 DEF Known
    <3>7. ASSUME NEW j \in (i + 1)..Len(mail'), Carries(mail'[j])
          PROVE  Before(c, mail[j].doc)'
      <4>1. CASE j = Len(mail) + 1
        <5>1. mail'[j].doc = d
          BY <1>14, <1>15, <4>1
        <5>2. c # d
          BY <3>4, <1>16
        <5> QED
          BY <1>8, <3>3, <5>1, <5>2 DEF Before
      <4>2. CASE j \in (i + 1)..Len(mail)
        <5>1. mail'[j] = mail[j] /\ Carries(mail[j]) /\ j \in 1..Len(mail)
          BY <1>14, <2>2, <3>7, <4>2 DEF Carries
        <5>2. Before(c, mail[j].doc) /\ Leading(p, j)
          BY <1>19, <3>1, <3>2, <4>2, <5>1 DEF Leading, Told
        <5>3. line'[mail[j].doc] = line[mail[j].doc]
          BY <1>16, <5>2 DEF Leading, Canvas, Made
        <5> QED
          BY <5>1, <5>2, <5>3 DEF Before
      <4> QED
        BY <1>14, <2>2, <4>1, <4>2
    <3>8. Len(mail) + 1 \in (i + 1)..Len(mail') /\ Carries(mail'[Len(mail) + 1])
      BY <1>14, <1>15, <2>2 DEF Carries
    <3>9. ~\A j \in (i + 1)..Len(mail') : ~Carries(mail'[j])
      BY <3>8
    <3>10. mail'[i].doc = c
      BY <3>1, <3>2
    <3> QED
      BY <3>5, <3>6, <3>7, <3>9, <3>10 DEF Leading, Carries
  <2> QED
    BY <1>14, <2>1, <2>2
<1>22. Told(p)'
  BY <1>21 DEF Told, Carries
<1>23. ~Silent'
  <2>1. Len(mail) + 1 \in 1..Len(mail') /\ Carries(mail'[Len(mail) + 1])
    BY <1>14, <1>15 DEF Carries
  <2> QED
    BY <2>1 DEF Silent, Carries
<1>24. \A i \in 1..Len(mail') : mail'[i].event # "startup"
  <2>1. \A i \in 1..Len(mail') : i \in 1..Len(mail) \/ i = Len(mail) + 1
    BY <1>14
  <2> QED
    BY <1>14, <1>15, <1>19, <2>1
<1>25. Live(p)'
  <2>1. Canvas(d)' /\ p \in line'[d]
    BY <1>6, <1>8, <1>16 DEF Canvas, Made
  <2> QED
    BY <1>1, <1>3, <1>10, <1>12, <1>22, <1>23, <1>24, <2>1 DEF Live
<1>26. AtRest'
  BY <1>1, <1>3, <1>5, <1>10, <1>12, <1>17, <1>25 DEF AtRest
<1>27. Drawn'
  <2>1. Canvas(p)'
    BY <1>17 DEF HistoryOK, OneOf, Canvas
  <2> QED
    BY <1>3, <1>5, <1>12, <1>26, <2>1 DEF Drawn
<1> QED
  <2>1. tab.ready /\ \A i \in 1..(Len(launches') - 1) : ~launches'[i].current
    BY <1>1, <1>2, <1>3 DEF Drawn, KeptOK
  <2> QED
    BY <1>1, <1>2, <1>7, <1>12, <1>14, <1>27, <2>1, LinesGrow

-----------------------------------------------------------------------------
(* Launches that keep the picture.                                         *)

(* A launch with what it leaves in the tab.                                *)
Kept(load, kind, recovery) ==
  /\ Waiting' /\ Awaited'.load = load /\ Awaited'.kind = kind /\ Awaited'.preserve
  /\ (Awaited'.recovery <=> recovery) /\ tab' \in TabStates
  /\ tab'.doc = load /\ tab'.ready /\ tab'.stale /\ ~tab'.retry
  /\ tab'.exporting = 0 /\ tab'.download = 0 /\ tab'.frame.inert

SameFrame ==
  /\ tab'.frame.doc = tab.frame.doc /\ tab'.frame.picture = tab.frame.picture
  /\ tab'.frame.started = tab.frame.started /\ tab'.frame.synced = tab.frame.synced
  /\ tab'.frame.unheard = tab.frame.unheard

(* What a launch leaves that keeps the picture.                            *)
LEMMA LaunchKeeps ==
  ASSUME launches \in Seq(LaunchStates), NEW t \in TabStates, NEW load \in Numbers,
         NEW kind \in LaunchKinds, kind # "open", t.ready, t.url # 0,
         LaunchNative(t, load, kind, 0)
  PROVE  /\ Kept(load, kind, FALSE) /\ reading' = 0 /\ launches' \in Seq(LaunchStates)
         /\ Len(launches') = Len(launches) + 1
         /\ \A i \in 1..(Len(launches') - 1) : ~launches'[i].current
         /\ Awaited'.doc = t.doc /\ Awaited'.url = t.url /\ Awaited'.valid = t.valid
         /\ tab'.view = t.view /\ tab'.url = t.url /\ tab'.valid = t.valid
         /\ tab'.busy = t.busy /\ tab'.undo = t.undo /\ tab'.redo = t.redo
         /\ tab'.pending = t.pending
         /\ t.frame = tab.frame => SameFrame
<1>1. Preserves(t, kind)
  BY DEF Preserves
<1>2. PICK fallback \in Numbers : fallback = 0
  BY NumbersAre
<1>3. PICK r \in BOOLEAN : r = FALSE
  OBVIOUS
<1>4. PICK l : l = Launched(t, load, kind, FALSE, 0)
  OBVIOUS
<1>5. LaunchNative(t, load, kind, fallback)
  BY <1>2
<1>6. /\ tab' = StagedLaunch(t, load, kind) /\ tab' \in TabStates /\ reading' = 0
      /\ launches' \in Seq(LaunchStates) /\ Len(launches') = Len(launches) + 1
      /\ Waiting' /\ Awaited' = l
      /\ \A i \in 1..(Len(launches') - 1) : ~launches'[i].current
  BY <1>2, <1>4, <1>5, LaunchIs
<1>7. /\ tab'.view = t.view /\ tab'.doc = load /\ tab'.ready /\ tab'.url = t.url
      /\ tab'.stale /\ ~tab'.retry /\ tab'.valid = t.valid /\ tab'.busy = t.busy
      /\ tab'.undo = t.undo /\ tab'.redo = t.redo /\ tab'.pending = t.pending
      /\ tab'.exporting = 0 /\ tab'.download = 0 /\ tab'.frame.inert
      /\ tab'.frame.doc = t.frame.doc /\ tab'.frame.picture = t.frame.picture
      /\ tab'.frame.started = t.frame.started /\ tab'.frame.synced = t.frame.synced
      /\ tab'.frame.unheard = t.frame.unheard
  BY <1>1, <1>6, StagedKept
<1>8. /\ l.load = load /\ l.kind = kind /\ l.preserve /\ (l.recovery <=> FALSE) /\ l.doc = t.doc
      /\ l.url = t.url /\ l.valid = t.valid
  BY <1>1, <1>4 DEF Launched
<1>9. Kept(load, kind, FALSE)
  BY <1>6, <1>7, <1>8 DEF Kept
<1>10. t.frame = tab.frame => SameFrame
  BY <1>7 DEF SameFrame
<1> QED
  BY <1>6, <1>7, <1>8, <1>9, <1>10

(* A representation is rendered anew.                                      *)
LEMMA RepresentationLaunched ==
  ASSUME TabInv, Represented, NEW load \in Numbers, NEW kind \in {"content", "retry"},
         LaunchNative(tab, load, kind, 0), LinesMove, mail' = <<>>, OneOf(load)',
         load \in content', UNCHANGED <<draft, asked, rendered, refused>>
  PROVE  TabInv'
<1>1. /\ tab \in TabStates /\ launches \in Seq(LaunchStates) /\ tab.ready /\ tab.view = "native"
      /\ content \subseteq Docs
  BY DEF TabInv, TabTypeOK, Represented
<1>2. kind \in LaunchKinds /\ kind # "open" /\ tab.url # 0
  BY NumbersAre DEF LaunchKinds, Represented, Shows, OneOf, Made
<1>3. /\ Kept(load, kind, FALSE) /\ reading' = 0 /\ launches' \in Seq(LaunchStates)
      /\ \A i \in 1..(Len(launches') - 1) : ~launches'[i].current
      /\ Awaited'.doc = tab.doc /\ Awaited'.url = tab.url /\ Awaited'.valid = tab.valid
      /\ tab'.view = tab.view /\ tab'.url = tab.url /\ tab'.valid = tab.valid
      /\ tab'.busy = tab.busy /\ tab'.undo = tab.undo /\ tab'.redo = tab.redo
      /\ tab'.pending = tab.pending /\ SameFrame
  BY <1>1, <1>2, LaunchKeeps
<1>4. \A x \in content : Made(x) /\ OneOf(x) => OneOf(x)' /\ x \in content'
  BY DEF LinesMove, OneOf, Made
<1>a. PICK u : u = tab.url
  OBVIOUS
<1>5. tab.doc \in content' /\ Shows(u)'
  BY <1>4, <1>a DEF Represented, Shows, OneOf
<1>6. Plain'
  BY <1>3 DEF Represented, Plain, SameFrame
<1>7. Represented'
  BY <1>1, <1>3, <1>5, <1>6, <1>a DEF Represented, Kept, SameFrame, NoExport
<1>8. mail' \in Seq(FrameMessages) /\ tab' \in TabStates
  BY <1>3, EmptySeq DEF Kept
<1> QED
  BY <1>1, <1>3, <1>7, <1>8, LinesGrow

(* An edit of a representation.                                            *)
LEMMA SaveContentKeeps ==
  ASSUME TabInv, NEW d \in Docs, SaveContent(d)
  PROVE  TabInv'
<1>1. /\ tab.view = "native" /\ tab.doc \in content /\ d \in Unmade
      /\ line' = [line EXCEPT ![d] = line[tab.doc] \cup {d}] /\ content' = content \cup {d}
      /\ LaunchNative(tab, d, "content", 0) /\ mail' = <<>>
      /\ UNCHANGED <<draft, asked, rendered, refused>>
  BY DEF SaveContent
<1>2. /\ TabTypeOK /\ LinesOK /\ KeptOK /\ tab \in TabStates
      /\ content \subseteq Docs /\ line \in [Docs -> SUBSET Docs]
  BY DEF TabInv, TabTypeOK
<1>3. PICK g : g = tab.doc
  OBVIOUS
<1>4. g \in Docs /\ g \in content /\ line[g] # {}
  BY <1>1, <1>2, <1>3 DEF LinesOK
<1>5. PICK from \in SUBSET Docs : from = line[g]
  BY <1>2, <1>4
<1>6. \A x \in from : line[x] # {} /\ line[x] \subseteq from /\ (x \in content <=> d \in content')
  BY <1>1, <1>2, <1>4, <1>5 DEF LinesOK
<1>7. line' = [line EXCEPT ![d] = from \cup {d}] /\ content' \in {content, content \cup {d}}
  BY <1>1, <1>3, <1>5
<1>8. d \in Unmade
  BY <1>1
<1>9. LineGrown(d)
  BY <1>2, <1>5, <1>6, <1>7, <1>8, LineGrows
<1>10. LinesMove /\ Made(d)'
  BY <1>9, GrownMoves DEF LineGrown
<1>11. ~Away /\ ~Drawn
  BY <1>1 DEF Away, Drawn, Canvas
<1>12. OneOf(g) /\ (Opening => ~tab.ready)
  BY <1>3, <1>11 DEF TabInv, Opening, Represented
<1>13. OneOf(d)'
  BY <1>1, <1>2, <1>5, <1>7, <1>10, <1>12 DEF OneOf
<1>14. d \in content' /\ d \in Numbers /\ 0 \in Numbers /\ asked' \in Numbers
  BY <1>1, <1>2, NumbersAre DEF TabTypeOK
<1>15. CASE Opening
  <2>1. ~Preserves(tab, "content")
    BY <1>12, <1>15 DEF Preserves
  <2> QED
    BY <1>1, <1>10, <1>13, <1>14, <2>1, OpensKeeps
<1>16. CASE Represented
  BY <1>1, <1>10, <1>13, <1>14, <1>16, RepresentationLaunched
<1> QED
  BY <1>11, <1>15, <1>16 DEF TabInv

(* A retry.                                                                *)
LEMMA RetryKeeps ==
  ASSUME TabInv, RetryNativeRender
  PROVE  TabInv'
<1>1. /\ tab.retry /\ tab.stale /\ tab.ready /\ tab.url # 0
      /\ LaunchNative(tab, tab.doc, "retry", 0)
      /\ mail' = mail /\ draft' = draft /\ asked' = asked /\ UNCHANGED known
      /\ rendered' = rendered /\ refused' = refused
  BY DEF RetryNativeRender, known
<1>2. /\ TabTypeOK /\ LinesOK /\ KeptOK /\ tab \in TabStates /\ launches \in Seq(LaunchStates)
      /\ line' = line /\ content' = content
  BY <1>1, KnownStay DEF TabTypeOK
<1>3. LinesMove
  BY <1>2, LinesRest
<1>4. PICK load \in Numbers : load = tab.doc
  BY <1>2, TabIs
<1>5. CASE Represented
  <2>1. OneOf(load)' /\ load \in content' /\ mail' = <<>>
    BY <1>1, <1>2, <1>4, <1>5 DEF Represented, OneOf, Made, Plain
  <2> QED
    BY <1>1, <1>3, <1>4, <1>5, <2>1, RepresentationLaunched
<1>6. CASE Drawn
  <2>1. EditFailed
    BY <1>1, <1>6 DEF Drawn, AtRest, InHistory, InEdit, AnswerAwaited
  <2>2. /\ Kept(load, "retry", FALSE) /\ reading' = 0 /\ launches' \in Seq(LaunchStates)
        /\ Len(launches') = Len(launches) + 1
        /\ \A i \in 1..(Len(launches') - 1) : ~launches'[i].current
        /\ Awaited'.doc = tab.doc /\ Awaited'.url = tab.url /\ Awaited'.valid = tab.valid
        /\ tab'.view = tab.view /\ tab'.url = tab.url /\ tab'.valid = tab.valid
        /\ tab'.busy = tab.busy /\ tab'.undo = tab.undo /\ tab'.redo = tab.redo
        /\ tab'.pending = tab.pending /\ SameFrame
    BY <1>1, <1>2, <1>4, LaunchKeeps DEF LaunchKinds
  <2>3. PICK p : p = tab.pending.previous
    OBVIOUS
  <2>4. HistoryOK(p)'
    BY <1>1, <2>1, <2>2, <2>3, HistoryStays DEF EditFailed, EditKept
  <2>5. EditKept'
    BY <1>1, <1>2, <1>4, <2>1, <2>2, <2>3, <2>4 DEF EditKept, EditFailed, Kept, Canvas, Made, Before
  <2>6. Len(launches') = 1
    BY <2>1, <2>2 DEF EditFailed
  <2>7. InEdit'
    BY <1>1, <1>4, <2>1, <2>2, <2>5, <2>6
       DEF InEdit, EditFailed, Kept, Locked, NoExport, AnswerAwaited
  <2>8. Drawn'
    BY <1>1, <1>2, <1>4, <1>6, <2>2, <2>7 DEF Drawn, Kept, Canvas, Made
  <2>9. mail' \in Seq(FrameMessages) /\ tab' \in TabStates
    BY <1>1, <1>2, <2>2 DEF Kept, TabTypeOK
  <2> QED
    BY <1>1, <1>3, <2>2, <2>8, <2>9, LinesGrow
<1> QED
  BY <1>1, <1>5, <1>6 DEF TabInv, Away, Opening

-----------------------------------------------------------------------------
(* Messages arrive.                                                        *)

(* What a message was leaves the rest as they are.                         *)
LEMMA ToldPops ==
  ASSUME mail \in Seq(FrameMessages), mail # <<>>, mail' = Tail(mail), NEW d, Told(d), NEW p,
         tab'.frame.doc = tab.frame.doc, tab'.frame.picture = tab.frame.picture,
         line' = line, content' = content,
         \A i \in 2..Len(mail) : Carries(mail[i]) => Before(p, mail[i].doc),
         \A e \in Known' : \A i \in 2..Len(mail) : Carries(mail[i]) => e < mail[i].doc
  PROVE  Told(p)'
<1>1. /\ mail' \in Seq(FrameMessages) /\ Len(mail') = Len(mail) - 1
      /\ Len(mail) \in Nat /\ Len(mail) >= 1
      /\ \A i \in 1..Len(mail') : mail'[i] = mail[i + 1]
  BY HeadTailProperties, LenProperties, EmptySeq
<1>2. ASSUME NEW i \in 1..Len(mail'), Carries(mail'[i])
      PROVE  Leading(p, i)'
  <2>1. PICK k : k = i + 1
    OBVIOUS
  <2>2. k \in 2..Len(mail) /\ k \in 1..Len(mail) /\ mail'[i] = mail[k] /\ k = i + 1
    BY <1>1, <2>1
  <2>3. PICK c : c = mail[k].doc
    OBVIOUS
  <2>4. Carries(mail[k]) /\ Leading(d, k)
    BY <1>2, <2>2 DEF Told, Carries
  <2>5. Canvas(c) /\ c \in line[tab.frame.doc] /\ Before(p, c) /\ \A e \in Known' : e < c
    BY <2>2, <2>3, <2>4 DEF Leading
  <2>6. Canvas(c)' /\ c \in line'[tab'.frame.doc] /\ Before(p, c)'
    BY <2>5 DEF Canvas, Made, Before
  <2>7. \A j \in (i + 1)..Len(mail') :
          j + 1 \in (k + 1)..Len(mail) /\ j \in 1..Len(mail') /\ mail'[j] = mail[j + 1]
    BY <1>1, <2>2
  <2>8. \A j \in (k + 1)..Len(mail) :
          j - 1 \in (i + 1)..Len(mail') /\ mail'[j - 1] = mail[j]
    <3>1. \A j \in (k + 1)..Len(mail) :
            j - 1 \in (i + 1)..Len(mail') /\ j - 1 \in 1..Len(mail') /\ (j - 1) + 1 = j
      BY <1>1, <2>2
    <3> QED
      BY <1>1, <3>1
  <2>9. \A j \in (k + 1)..Len(mail) : Carries(mail[j]) => Before(c, mail[j].doc)
    BY <2>3, <2>4 DEF Leading
  <2>10. \A j \in (i + 1)..Len(mail') : Carries(mail'[j]) => Before(c, mail[j].doc)'
    BY <2>7, <2>9 DEF Before, Carries
  <2>11. (\A j \in (i + 1)..Len(mail') : ~Carries(mail'[j])) =>
           \A j \in (k + 1)..Len(mail) : ~Carries(mail[j])
    BY <2>8 DEF Carries
  <2>12. (\A j \in (k + 1)..Len(mail) : ~Carries(mail[j])) =>
           /\ c = tab.frame.doc
           /\ mail[k].event = "change" => tab.frame.picture = tab.frame.doc
    BY <2>3, <2>4 DEF Leading
  <2>13. mail'[i].doc = c /\ mail'[i].event = mail[k].event
    BY <2>2, <2>3
  <2> QED
    BY <2>6, <2>5, <2>10, <2>11, <2>12, <2>13 DEF Leading, Carries
<1> QED
  BY <1>2 DEF Told, Carries

(* The messages after the first.                                           *)
LEMMA SilentPops ==
  ASSUME mail \in Seq(FrameMessages), mail # <<>>, mail' = Tail(mail), ~Carries(Head(mail)),
         tab'.frame.unheard = tab.frame.unheard
  PROVE  Silent' => Silent
<1>1. /\ Len(mail') = Len(mail) - 1 /\ Len(mail) \in Nat /\ Len(mail) >= 1
      /\ \A i \in 1..Len(mail') : mail'[i] = mail[i + 1]
      /\ Head(mail) = mail[1]
  BY HeadTailProperties, LenProperties, EmptySeq
<1>2. \A i \in 1..Len(mail) : i = 1 \/ (i - 1 \in 1..Len(mail') /\ mail'[i - 1] = mail[i])
  <2>1. \A i \in 1..Len(mail) : i = 1 \/ (i - 1 \in 1..Len(mail') /\ (i - 1) + 1 = i)
    BY <1>1
  <2> QED
    BY <1>1, <2>1
<1> QED
  BY <1>1, <1>2 DEF Silent, Carries

(* Where the frame is heard, nothing it tells is its first message.        *)
LEMMA NoStartupPops ==
  ASSUME mail \in Seq(FrameMessages), mail # <<>>, mail' = Tail(mail),
         \A i \in 1..Len(mail) : mail[i].event # "startup"
  PROVE  /\ mail' \in Seq(FrameMessages) /\ Head(mail) \in FrameMessages
         /\ Head(mail) = mail[1] /\ 1 \in 1..Len(mail) /\ Head(mail).event # "startup"
         /\ \A i \in 1..Len(mail') : mail'[i].event # "startup"
<1>1. /\ mail' \in Seq(FrameMessages) /\ Head(mail) \in FrameMessages
      /\ Len(mail') = Len(mail) - 1 /\ Len(mail) \in Nat /\ Len(mail) >= 1
      /\ \A i \in 1..Len(mail') : mail'[i] = mail[i + 1]
      /\ Head(mail) = mail[1]
  BY HeadTailProperties, LenProperties, EmptySeq
<1>2. \A i \in 1..Len(mail') : i + 1 \in 1..Len(mail)
  BY <1>1
<1> QED
  BY <1>1, <1>2

(* A message that carries no document, or is not heard.                    *)
LEMMA LiveHears ==
  ASSUME NEW d, Live(d), tab.frame.synced, SameFrame,
         tab'.undo = tab.undo, tab'.redo = tab.redo, UNCHANGED known,
         mail \in Seq(FrameMessages),
         mail' = mail \/ (mail # <<>> /\ mail' = Tail(mail) /\ ~Carries(Head(mail))),
         Silent => tab'.exporting \in {0, d} /\ tab'.download \in {0, d}
  PROVE  Live(d)'
<1>1. content' = content /\ line' = line /\ refused' = refused
  BY DEF known
<1>2. Known' = Known
  BY <1>1 DEF Known
<1>3. Told(d) /\ \A i \in 1..Len(mail) : mail[i].event # "startup"
  BY DEF Live
<1>4. CASE mail' = mail
  <2>1. Told(d)'
    BY <1>1, <1>2, <1>3, <1>4 DEF Told, Leading, Carries, Canvas, Made, Before, SameFrame
  <2>2. Silent' <=> Silent
    BY <1>4 DEF Silent, Carries, SameFrame
  <2> QED
    BY <1>1, <1>3, <1>4, <2>1, <2>2 DEF Live, Canvas, Made, SameFrame
<1>5. CASE mail # <<>> /\ mail' = Tail(mail) /\ ~Carries(Head(mail))
  <2>1. \A i \in 2..Len(mail) : i \in 1..Len(mail)
    BY LenProperties
  <2>2. \A i \in 2..Len(mail) : Carries(mail[i]) => Before(d, mail[i].doc)
    BY <1>3, <2>1 DEF Told, Leading
  <2>3. \A e \in Known' : \A i \in 2..Len(mail) : Carries(mail[i]) => e < mail[i].doc
    BY <1>2, <1>3, <2>1 DEF Told, Leading
  <2>4. Told(d)'
    BY <1>1, <1>3, <1>5, <2>2, <2>3, ToldPops DEF SameFrame
  <2>5. Silent' => Silent
    BY <1>5, SilentPops DEF SameFrame
  <2>6. \A i \in 1..Len(mail') : mail'[i].event # "startup"
    BY <1>3, <1>5, NoStartupPops
  <2> QED
    BY <1>1, <1>3, <2>4, <2>5, <2>6 DEF Live, Canvas, Made, SameFrame
<1> QED
  BY <1>4, <1>5

(* An undo or a redo is sent.                                              *)
LEMMA HistoryLaunched ==
  ASSUME TabInv, NEW direction \in {"undo", "redo"}, MoveNativeHistory(direction),
         mail' = mail \/ (mail # <<>> /\ mail' = Tail(mail) /\ ~Carries(Head(mail))),
         UNCHANGED <<draft, asked, known>>
  PROVE  TabInv'
<1>1. PICK t : t = [tab EXCEPT !.busy = TRUE]
  OBVIOUS
<1>2. PICK stack : stack = tab[direction]
  OBVIOUS
<1>3. PICK load : load = Last(stack)
  OBVIOUS
<1>4. /\ tab.ready /\ tab.frame.synced /\ ~tab.busy /\ ~tab.stale /\ stack # <<>>
      /\ LaunchNative(t, load, direction, 0) /\ UNCHANGED known
      /\ draft' = draft /\ asked' = asked /\ rendered' = rendered /\ refused' = refused
  BY <1>1, <1>2, <1>3 DEF MoveNativeHistory, Movable, known
<1>5. /\ TabTypeOK /\ LinesOK /\ KeptOK /\ tab \in TabStates /\ launches \in Seq(LaunchStates)
      /\ line' = line /\ content' = content /\ mail \in Seq(FrameMessages)
  BY <1>4, KnownStay DEF TabTypeOK
<1>6. /\ t \in TabStates /\ t.doc = tab.doc /\ t.ready = tab.ready /\ t.url = tab.url
      /\ t.view = tab.view /\ t.busy /\ t.undo = tab.undo /\ t.redo = tab.redo
      /\ t.pending = tab.pending /\ t.frame = tab.frame
  BY <1>1, <1>5 DEF TabStates
<1>7. (stack = tab.undo /\ direction = "undo") \/ (stack = tab.redo /\ direction = "redo")
  BY <1>2
<1>8. Drawn /\ AtRest
  BY <1>4, <1>7 DEF TabInv, Away, Opening, Represented, Plain, Drawn, InHistory, InEdit,
                    EditFailed, Locked
<1>9. PICK p : p = tab.doc
  OBVIOUS
<1>10. HistoryOK(p) /\ Live(p) /\ tab.url # 0 /\ launches = <<>> /\ tab.pending = NoEdit
  BY <1>8, <1>9 DEF AtRest, Drawn
<1>11. OneOf(load) /\ load \notin content /\ load \in Numbers
  <2>1. stack \in Seq(Docs)
    BY <1>5, <1>7, TabIs
  <2>2. Len(stack) \in 1..Len(stack)
    BY <1>4, <2>1, EmptySeq, LenProperties
  <2>3. load = stack[Len(stack)]
    BY <1>3 DEF Last
  <2>4. OneOf(load) /\ load \notin content
    BY <1>7, <1>10, <2>2, <2>3 DEF HistoryOK, Leads, Follows
  <2> QED
    BY <2>4, NumbersAre DEF OneOf, Made
<1>12. direction \in LaunchKinds /\ direction # "open" /\ t.url # 0 /\ t.ready
  BY <1>4, <1>6, <1>10 DEF LaunchKinds
<1>13. /\ Kept(load, direction, FALSE) /\ reading' = 0 /\ launches' \in Seq(LaunchStates)
       /\ Len(launches') = Len(launches) + 1
       /\ \A i \in 1..(Len(launches') - 1) : ~launches'[i].current
       /\ Awaited'.doc = t.doc /\ Awaited'.url = t.url /\ Awaited'.valid = t.valid
       /\ tab'.view = t.view /\ tab'.url = t.url /\ tab'.valid = t.valid
       /\ tab'.busy = t.busy /\ tab'.undo = t.undo /\ tab'.redo = t.redo
       /\ tab'.pending = t.pending
       /\ t.frame = tab.frame => SameFrame
  BY <1>4, <1>5, <1>6, <1>11, <1>12, LaunchKeeps
<1>14. SameFrame /\ tab'.undo = tab.undo /\ tab'.redo = tab.redo
  BY <1>6, <1>13
<1>15. HistoryOK(p)'
  BY <1>4, <1>10, <1>14, HistoryStays
<1>16. Live(p)'
  BY <1>4, <1>5, <1>10, <1>13, <1>14, LiveHears DEF Kept
<1>17. OneOf(load)' /\ load \notin content'
  BY <1>4, <1>5, <1>11 DEF OneOf, Made
<1>18. Len(launches') = 1
  BY <1>10, <1>13
<1>19. Locked' /\ AnswerAwaited'
  BY <1>6, <1>12, <1>13, <1>18 DEF Locked, NoExport, AnswerAwaited, Kept
<1>20. tab'[direction] = stack
  BY <1>7, <1>14
<1>21. /\ Awaited'.kind = direction /\ ~Awaited'.recovery /\ Awaited'.doc = p /\ tab'.doc = load
       /\ tab'.busy /\ tab'.pending = NoEdit /\ tab'.frame.synced
  BY <1>4, <1>6, <1>9, <1>10, <1>13, <1>14 DEF Kept, SameFrame
<1>22. InHistory'
  BY <1>3, <1>4, <1>15, <1>16, <1>17, <1>19, <1>20, <1>21 DEF InHistory
<1>23. Drawn'
  BY <1>6, <1>8, <1>13, <1>17, <1>21, <1>22 DEF Drawn, OneOf, Canvas, Kept
<1>24. LinesMove
  BY <1>5, LinesRest
<1>25. mail' \in Seq(FrameMessages)
  BY <1>5, HeadTailProperties
<1>26. tab' \in TabStates
  BY <1>13 DEF Kept
<1> QED
  BY <1>4, <1>13, <1>23, <1>24, <1>25, <1>26, LinesGrow

(* It is asked for by a button ...                                         *)
LEMMA PressHistoryKeeps ==
  ASSUME TabInv, NEW direction \in {"undo", "redo"}, PressHistory(direction)
  PROVE  TabInv'
<1>1. MoveNativeHistory(direction) /\ mail' = mail /\ UNCHANGED <<draft, asked, known>>
  BY DEF PressHistory
<1> QED
  BY <1>1, HistoryLaunched

(* A message goes unheard while an edit is under way or has failed.        *)
LEMMA UnusedKeeps ==
  ASSUME TabInv, NEW direction \in {"undo", "redo"}, Receive(direction),
         UNCHANGED <<tab, launches, reading, draft, asked, known>>
  PROVE  TabInv'
<1>1. /\ mail # <<>> /\ mail' = Tail(mail) /\ ~Carries(Head(mail))
      /\ Head(mail).event # "startup"
      /\ tab' = tab /\ launches' = launches /\ draft' = draft /\ reading' = reading
      /\ asked' = asked /\ UNCHANGED known
  BY DEF Receive, Carries
<1>2. TabTypeOK /\ tab \in TabStates /\ mail \in Seq(FrameMessages)
  BY DEF TabInv, TabTypeOK
<1>3. mail' \in Seq(FrameMessages)
  BY <1>1, <1>2, HeadTailProperties
<1>4. Drawn
  BY <1>1 DEF TabInv, Away, Opening, Represented, Plain
<1>5. content' = content /\ line' = line /\ SameFrame
  BY <1>1 DEF known, SameFrame
<1>6. ASSUME NEW d, Live(d)
      PROVE  Live(d)'
  <2>1. tab.frame.synced
    <3>1. CASE ~tab.frame.synced
      <4>1. mail = <<[event |-> "startup", doc |-> d]>>
        BY <1>1, <1>6, <3>1 DEF Live
      <4>2. Head(mail).event = "startup"
        BY <4>1
      <4> QED
        BY <1>1, <4>2
    <3> QED
      BY <3>1
  <2>2. Silent => tab'.exporting \in {0, d} /\ tab'.download \in {0, d}
    BY <1>1, <1>6 DEF Live
  <2> QED
    BY <1>1, <1>2, <1>5, <1>6, <2>1, <2>2, LiveHears
<1>7. CASE AtRest
  <2>1. PICK d : d = tab.doc
    OBVIOUS
  <2>2. Live(d)'
    BY <1>6, <1>7, <2>1 DEF AtRest
  <2> QED
    <3>1. AtRest'
      BY <1>1, <1>7, <2>1, <2>2, RestStays
    <3>2. Drawn'
      BY <1>1, <1>4, <1>5, <3>1 DEF Drawn, Canvas, Made
    <3> QED
      BY <1>1, <1>2, <1>3, <3>2, TabChanges
<1>8. CASE InHistory
  <2>1. PICK d : d = Awaited.doc
    OBVIOUS
  <2>2. HistoryOK(d) /\ Live(d)
    BY <1>8, <2>1 DEF InHistory
  <2>3. HistoryOK(d)' /\ Live(d)'
    BY <1>1, <1>6, <2>2, HistoryStays
  <2>4. Awaited' = Awaited /\ Waiting' = Waiting
    BY <1>1 DEF Awaited, Waiting
  <2>5. InHistory'
    BY <1>1, <1>5, <1>8, <2>1, <2>3, <2>4
       DEF InHistory, Locked, NoExport, AnswerAwaited, OneOf, Made
  <2>6. Drawn'
    BY <1>1, <1>4, <1>5, <2>5 DEF Drawn, Canvas, Made
  <2> QED
    BY <1>1, <1>2, <1>3, <2>6, TabChanges
<1>9. CASE InEdit \/ EditFailed
  <2>1. InEdit' \/ EditFailed'
    BY <1>1, <1>9, EditStays
  <2>2. Drawn'
    BY <1>1, <1>4, <1>5, <2>1 DEF Drawn, Canvas, Made
  <2> QED
    BY <1>1, <1>2, <1>3, <2>2, TabChanges
<1> QED
  BY <1>4, <1>7, <1>8, <1>9 DEF Drawn

(* ... or by a message.                                                    *)
LEMMA ReceiveHistoryKeeps ==
  ASSUME TabInv, NEW direction \in {"undo", "redo"}, ReceiveHistory(direction)
  PROVE  TabInv'
<1>1. /\ Receive(direction) /\ UNCHANGED <<draft, asked, known>>
      /\ \/ MoveNativeHistory(direction)
         \/ UNCHANGED <<tab, launches, reading>>
  BY DEF ReceiveHistory
<1>2. mail # <<>> /\ mail' = Tail(mail) /\ ~Carries(Head(mail))
  BY <1>1 DEF Receive, Carries
<1> QED
  BY <1>1, <1>2, HistoryLaunched, UnusedKeeps

(* The draft can be opened.                                                *)
DraftKept ==
  /\ draft \in [doc : Numbers, valid : Numbers]
  /\ draft.doc # 0 => Made(draft.doc)
  /\ draft.valid # 0 => Made(draft.valid)
  /\ DraftOpens

(* The draft stays ...                                                     *)
LEMMA DraftStays ==
  ASSUME TabInv, line' = line, content' = content, rendered \subseteq rendered', draft' = draft
  PROVE  DraftKept'
  BY DEF TabInv, TabTypeOK, KeptOK, DraftOpens, DraftKept, Made

(* ... or another one is stored.                                           *)
LEMMA DraftStored ==
  ASSUME TabInv, line' = line, content' = content, NEW x \in Numbers, NEW v \in Numbers,
         draft' = Stored(x, v), Made(x), v # 0 => Made(v),
         x \in content => x \in rendered' \/ v \in rendered'
  PROVE  DraftKept'
<1>1. draft' \in [doc : Numbers, valid : Numbers] /\ draft'.doc = x /\ draft'.valid = v
  BY DEF Stored
<1> QED
  BY <1>1 DEF DraftOpens, DraftKept, Made

(* What the steps of an open document leave.                               *)
LEMMA NativeSteps ==
  ASSUME TabInv, tab.view = "native", tab' \in TabStates, launches' \in Seq(LaunchStates),
         \A i \in 1..(Len(launches') - 1) : ~launches'[i].current,
         mail' \in Seq(FrameMessages), reading' \in {0, reading}, asked' \in Numbers,
         line' = line, content' = content, rendered' \subseteq Docs,
         \A x \in refused' : x \in refused \/ Made(x), DraftKept',
         Away' \/ Opening' \/ Represented' \/ Drawn'
  PROVE  TabInv'
<1>1. TabTypeOK /\ LinesOK /\ KeptOK
  BY DEF TabInv
<1>2. \A x : Made(x)' <=> Made(x)
  BY DEF Made
<1>3. LinesOK'
  BY <1>1 DEF LinesOK
<1>4. reading' = 0
  BY <1>1 DEF KeptOK
<1>5. KeptOK'
  BY <1>1, <1>2, <1>4 DEF KeptOK, DraftKept
<1>6. refused' \subseteq Docs
  BY <1>1 DEF TabTypeOK, Made
<1>7. TabTypeOK'
  BY <1>1, <1>4, <1>6, NumbersAre DEF TabTypeOK, DraftKept
<1> QED
  BY <1>3, <1>5, <1>7 DEF TabInv

(* What is pending is an edit of a document to another.                    *)
LEMMA Pending ==
  ASSUME EditKept
  PROVE  tab.pending # NoEdit
<1>1. tab.pending.previous # 0
  BY NumbersAre DEF EditKept, HistoryOK, OneOf, Made
<1> QED
  BY <1>1 DEF NoEdit

(* The frame takes a locked tab's messages without effect.                 *)
LEMMA EditHears ==
  ASSUME TabInv, tab.view = "native", InEdit \/ EditFailed, Drawn,
         mail # <<>>, mail' = Tail(mail),
         tab' = tab \/ tab' = [tab EXCEPT !.frame = [@ EXCEPT !.unheard = TRUE]],
         UNCHANGED <<launches, draft, reading, asked, known>>
  PROVE  TabInv'
<1>1. /\ tab \in TabStates /\ TabTypeOK /\ mail \in Seq(FrameMessages)
      /\ launches' = launches /\ draft' = draft /\ reading' = reading
      /\ asked' = asked /\ UNCHANGED known /\ line' = line /\ content' = content
  BY DEF TabInv, TabTypeOK, known
<1>2. mail' \in Seq(FrameMessages)
  BY <1>1, HeadTailProperties
<1>3. PICK f : f = [tab.frame EXCEPT !.unheard = TRUE]
  OBVIOUS
<1>4. f \in FrameStates /\ f.inert = tab.frame.inert
  BY <1>1, <1>3, TabIs DEF FrameStates
<1>5. tab' = tab \/ tab' = [tab EXCEPT !.frame = f]
  BY <1>3
<1>6. /\ tab' \in TabStates /\ tab'.view = tab.view /\ tab'.doc = tab.doc /\ tab'.url = tab.url
      /\ tab'.ready = tab.ready /\ tab'.stale = tab.stale
      /\ tab'.retry = tab.retry /\ tab'.busy = tab.busy /\ tab'.undo = tab.undo
      /\ tab'.redo = tab.redo /\ tab'.pending = tab.pending
      /\ tab'.exporting = tab.exporting /\ tab'.download = tab.download
      /\ tab'.frame.inert = tab.frame.inert
  BY <1>1, <1>4, <1>5 DEF TabStates
<1>7. InEdit' \/ EditFailed'
  BY <1>1, <1>6, EditStays
<1>8. Drawn'
  BY <1>1, <1>6, <1>7 DEF Drawn, Canvas, Made
<1> QED
  BY <1>1, <1>2, <1>6, <1>8, TabChanges

(* The viewer has started: the picture can be edited.                      *)
LEMMA ReceiveStartupKeeps ==
  ASSUME TabInv, ReceiveStartup
  PROVE  TabInv'
<1>1. /\ mail # <<>> /\ Head(mail).event = "startup" /\ mail' = Tail(mail)
      /\ launches' = launches /\ reading' = reading /\ asked' = asked /\ UNCHANGED known
  BY DEF ReceiveStartup, Receive
<1>2. /\ TabTypeOK /\ tab \in TabStates /\ mail \in Seq(FrameMessages) /\ rendered \subseteq Docs
      /\ launches \in Seq(LaunchStates) /\ asked \in Numbers /\ KeptOK
      /\ line' = line /\ content' = content /\ rendered' = rendered /\ refused' = refused
  BY <1>1 DEF TabInv, TabTypeOK, known
<1>3. Drawn
  BY <1>1 DEF TabInv, Away, Opening, Represented, Plain
<1>4. PICK d : d = Head(mail).doc
  OBVIOUS
<1>5. PICK f : f = [tab.frame EXCEPT !.synced = TRUE, !.inert = FALSE]
  OBVIOUS
<1>6. /\ f \in FrameStates /\ f.synced /\ ~f.inert /\ f.doc = tab.frame.doc
      /\ f.picture = tab.frame.picture /\ f.started = tab.frame.started
      /\ f.unheard = tab.frame.unheard
  BY <1>2, <1>5, TabIs DEF FrameStates
<1>7. CASE AtRest
  <2>1. PICK p : p = tab.doc
    OBVIOUS
  <2>2. HistoryOK(p) /\ Live(p) /\ launches = <<>> /\ ~tab.stale /\ ~tab.busy /\ tab.pending = NoEdit
    BY <1>7, <2>1 DEF AtRest
  <2>3. ~tab.frame.synced
    BY <1>1, <1>2, <2>2, NoStartupPops DEF Live
  <2>4. mail = <<[event |-> "startup", doc |-> p]>> /\ tab.frame.started /\ ~tab.frame.unheard
    BY <1>1, <2>2, <2>3 DEF Live
  <2>5. d = p /\ mail' = <<>>
    BY <1>1, <1>4, <2>4
  <2>6. tab.frame.doc = p /\ tab.frame.picture = p /\ tab.exporting \in {0, p} /\ tab.download \in {0, p}
    <3>1. Len(mail) = 1 /\ mail[1].event = "startup"
      BY <2>4
    <3>2. Silent
      BY <2>4, <3>1 DEF Silent, Carries
    <3> QED
      BY <2>2, <3>2 DEF Live
  <2>7. tab' = [[tab EXCEPT !.frame = f] EXCEPT !.doc = d] /\ draft' = Stored(d, 0)
    BY <1>4, <1>5, <2>2 DEF ReceiveStartup, Deaf
  <2>8. PICK t : t = [tab EXCEPT !.frame = f]
    OBVIOUS
  <2>9. t \in TabStates /\ t.doc = d /\ tab' = [t EXCEPT !.doc = d]
    BY <1>2, <1>6, <2>1, <2>5, <2>7, <2>8 DEF TabStates
  <2>10. tab' = t
    BY <2>9 DEF TabStates
  <2>11. /\ tab' \in TabStates /\ tab'.view = tab.view /\ tab'.doc = tab.doc /\ tab'.url = tab.url
         /\ tab'.ready = tab.ready /\ tab'.stale = tab.stale
         /\ tab'.retry = tab.retry /\ tab'.busy = tab.busy /\ tab'.undo = tab.undo
         /\ tab'.redo = tab.redo /\ tab'.pending = tab.pending /\ tab'.frame = f
         /\ tab'.exporting = tab.exporting /\ tab'.download = tab.download
    BY <1>2, <1>6, <2>8, <2>10 DEF TabStates
  <2>12. HistoryOK(p)'
    BY <1>1, <2>2, <2>11, HistoryStays
  <2>13. p \in Docs /\ p \notin content /\ Made(p) /\ p \in line[p] /\ Canvas(p)'
    BY <1>2, <2>2 DEF HistoryOK, OneOf, Made, Canvas, TabInv, LinesOK
  <2>14. Len(mail') = 0
    BY <2>5
  <2>15. Live(p)'
    <3>1. 1..Len(mail') = {}
      BY <2>14
    <3>2. Told(p)' /\ \A i \in 1..Len(mail') : mail'[i].event # "startup"
      BY <3>1 DEF Told
    <3>3. Canvas(tab.frame.doc)' /\ p \in line'[tab'.frame.doc]
      BY <1>2, <1>6, <2>6, <2>11, <2>13 DEF Canvas
    <3> QED
      BY <1>6, <2>4, <2>6, <2>11, <3>2, <3>3 DEF Live
  <2>16. draft'.doc = p
    BY <2>5, <2>7 DEF Stored
  <2>17. AtRest'
    BY <1>1, <1>6, <2>1, <2>2, <2>11, <2>12, <2>15, <2>16 DEF AtRest
  <2>18. Drawn'
    BY <1>3, <2>1, <2>11, <2>13, <2>17 DEF Drawn
  <2>19. DraftKept'
    <3>1. PICK v \in Numbers : v = 0
      BY NumbersAre
    <3>2. draft' = Stored(p, v) /\ p \in Numbers
      BY <2>5, <2>7, <2>13, <3>1, NumbersAre
    <3> QED
      BY <1>2, <2>13, <3>1, <3>2, DraftStored
  <2>20. mail' \in Seq(FrameMessages)
    BY <2>5, EmptySeq
  <2>21. tab.view = "native" /\ \A i \in 1..(Len(launches') - 1) : ~launches'[i].current
    BY <1>1, <1>2, <1>3 DEF Drawn, KeptOK
  <2> QED
    BY <1>1, <1>2, <2>11, <2>18, <2>19, <2>20, <2>21, NativeSteps
<1>8. ~InHistory
  <2>1. PICK p : p = Awaited.doc
    OBVIOUS
  <2> QED
    BY <1>1, <1>2, <2>1, NoStartupPops DEF InHistory, Live
<1>9. CASE InEdit \/ EditFailed
  <2>1. Deaf /\ tab.stale
    BY <1>9, Pending DEF InEdit, EditFailed, Deaf, Locked
  <2>2. tab' = tab /\ draft' = draft
    BY <2>1 DEF ReceiveStartup
  <2> QED
    BY <1>1, <1>3, <1>9, <2>2, EditHears DEF Drawn
<1> QED
  BY <1>3, <1>7, <1>8, <1>9 DEF Drawn

-----------------------------------------------------------------------------
(* Histories.                                                              *)

(* A history depends on what can be undone and redone only.                *)
LEMMA HistoryFrom ==
  ASSUME NEW u, NEW r, NEW d, Leads(u, d), Follows(r, d), OneOf(d), d \notin content,
         Len(u) + Len(r) <= HistoryMax, tab'.undo = u, tab'.redo = r,
         line' = line, content' = content, asked' = asked
  PROVE  HistoryOK(d)'
<1>1. Leads(u, d)' /\ Follows(r, d)' /\ OneOf(d)'
  BY DEF Leads, Follows, OneOf, Made, Before
<1> QED
  BY <1>1 DEF HistoryOK

(* Where an entry of a history that has been added to comes from.          *)
From(s, r, i, j) ==
  /\ r[i] = s[j]
  /\ i = Len(r) - 1 => j = Len(s)
  /\ i # Len(r) - 1 => j + 1 \in 1..Len(s) /\ r[i + 1] = s[j + 1]

Pushed(s, d, r) ==
  /\ r \in Seq(Docs) /\ r # <<>> /\ Len(r) >= 1 /\ r[Len(r)] = d
  /\ Len(s) <= HistoryMax => Len(r) <= HistoryMax
  /\ Len(s) < HistoryMax => Len(r) = Len(s) + 1
  /\ \A i \in 1..(Len(r) - 1) : \E j \in 1..Len(s) : From(s, r, i, j)

(* What a history entry more leaves.                                       *)
LEMMA PushIs ==
  ASSUME NEW s \in Seq(Docs), NEW d \in Docs, NEW r, r = PushNativeHistory(s, d)
  PROVE  Pushed(s, d, r)
<1>1. HistoryMax \in Nat /\ HistoryMax >= 1 /\ Len(s) \in Nat
  BY EditorTabAssumption, LenProperties
<1>2. CASE Len(s) < HistoryMax
  <2>1. r = Append(s, d)
    BY <1>2 DEF PushNativeHistory
  <2>2. /\ r \in Seq(Docs) /\ Len(r) = Len(s) + 1 /\ r[Len(s) + 1] = d
        /\ \A i \in 1..Len(s) : r[i] = s[i]
    BY <2>1, AppendProperties
  <2>3. ASSUME NEW i \in 1..(Len(r) - 1)
        PROVE  i \in 1..Len(s) /\ From(s, r, i, i)
    <3>1. i \in 1..Len(s) /\ (i # Len(s) => i + 1 \in 1..Len(s))
      BY <1>1, <2>2
    <3> QED
      BY <1>1, <2>2, <3>1 DEF From
  <2>4. r # <<>>
    BY <1>1, <2>2
  <2> QED
    BY <1>1, <1>2, <2>2, <2>3, <2>4 DEF Pushed
<1>3. CASE Len(s) >= HistoryMax
  <2>1. s # <<>>
    BY <1>1, <1>3
  <2>2. PICK q : q = Tail(s)
    OBVIOUS
  <2>3. /\ q \in Seq(Docs) /\ Len(q) = Len(s) - 1 /\ Len(q) \in Nat
        /\ \A i \in 1..Len(q) : q[i] = s[i + 1]
    BY <1>1, <2>1, <2>2, HeadTailProperties, LenProperties
  <2>4. r = Append(q, d)
    BY <1>1, <1>3, <2>2 DEF PushNativeHistory
  <2>5. /\ r \in Seq(Docs) /\ Len(r) = Len(q) + 1 /\ r[Len(q) + 1] = d
        /\ \A i \in 1..Len(q) : r[i] = q[i]
    BY <2>3, <2>4, AppendProperties
  <2>6. ASSUME NEW i \in 1..(Len(r) - 1)
        PROVE  i + 1 \in 1..Len(s) /\ From(s, r, i, i + 1)
    <3>1. i \in 1..Len(q) /\ (i # Len(q) => i + 1 \in 1..Len(q) /\ (i + 1) + 1 \in 1..Len(s))
      BY <1>1, <2>3, <2>5
    <3>2. i + 1 \in 1..Len(s)
      BY <1>1, <2>3, <3>1
    <3> QED
      BY <1>1, <2>3, <2>5, <3>1, <3>2 DEF From
  <2>7. r # <<>>
    BY <2>3, <2>5
  <2> QED
    BY <1>1, <1>3, <2>3, <2>5, <2>6, <2>7 DEF Pushed
<1> QED
  BY <1>1, <1>2, <1>3

(* What was added leads to what it led to.                                 *)
LEMMA LeadsPush ==
  ASSUME NEW s \in Seq(Docs), NEW p \in Docs, NEW d, Leads(s, p), OneOf(p), p \notin content,
         Before(p, d), NEW r, r = PushNativeHistory(s, p)
  PROVE  Leads(r, d) /\ \A e \in Range(r) : e = p \/ e \in Range(s)
<1>1. /\ r \in Seq(Docs) /\ Len(r) >= 1 /\ r[Len(r)] = p
      /\ \A i \in 1..(Len(r) - 1) : \E j \in 1..Len(s) : From(s, r, i, j)
  BY PushIs DEF Pushed
<1>n. Len(r) \in Nat /\ Len(s) \in Nat
  BY <1>1, LenProperties
<1>2. DOMAIN r = 1..Len(r) /\ DOMAIN s = 1..Len(s)
  BY <1>1, LenProperties
<1>3. \A i \in 1..Len(r) : i = Len(r) \/ i \in 1..(Len(r) - 1)
  BY <1>n
<1>4. ASSUME NEW i \in 1..(Len(r) - 1)
      PROVE  /\ OneOf(r[i]) /\ r[i] \notin content /\ Before(r[i], r[i + 1])
             /\ r[i] \in Range(s)
  <2>1. PICK j \in 1..Len(s) : From(s, r, i, j)
    BY <1>1
  <2>2. /\ OneOf(s[j]) /\ s[j] \notin content
        /\ Before(s[j], IF j = Len(s) THEN p ELSE s[j + 1])
    BY DEF Leads
  <2>3. s[j] \in Range(s)
    BY <1>2 DEF Range
  <2>4. CASE i = Len(r) - 1
    <3>1. i + 1 = Len(r)
      BY <1>n, <2>4
    <3> QED
      BY <1>1, <2>1, <2>2, <2>3, <2>4, <3>1 DEF From
  <2>5. CASE i # Len(r) - 1
    <3>1. j # Len(s)
      BY <1>n, <2>1, <2>5 DEF From
    <3> QED
      BY <2>1, <2>2, <2>3, <2>5, <3>1 DEF From
  <2> QED
    BY <2>4, <2>5
<1>5. Leads(r, d)
  BY <1>1, <1>n, <1>3, <1>4 DEF Leads
<1>6. \A e \in Range(r) : e = p \/ e \in Range(s)
  BY <1>1, <1>2, <1>3, <1>4 DEF Range
<1> QED
  BY <1>5, <1>6

(* ... and so does one that can be redone.                                 *)
LEMMA FollowsPush ==
  ASSUME NEW s \in Seq(Docs), NEW p \in Docs, NEW d, Follows(s, p), OneOf(p), p \notin content,
         Before(d, p), NEW r, r = PushNativeHistory(s, p)
  PROVE  Follows(r, d) /\ \A e \in Range(r) : e = p \/ e \in Range(s)
<1>1. /\ r \in Seq(Docs) /\ Len(r) >= 1 /\ r[Len(r)] = p
      /\ \A i \in 1..(Len(r) - 1) : \E j \in 1..Len(s) : From(s, r, i, j)
  BY PushIs DEF Pushed
<1>n. Len(r) \in Nat /\ Len(s) \in Nat
  BY <1>1, LenProperties
<1>2. DOMAIN r = 1..Len(r) /\ DOMAIN s = 1..Len(s)
  BY <1>1, LenProperties
<1>3. \A i \in 1..Len(r) : i = Len(r) \/ i \in 1..(Len(r) - 1)
  BY <1>n
<1>4. ASSUME NEW i \in 1..(Len(r) - 1)
      PROVE  /\ OneOf(r[i]) /\ r[i] \notin content /\ Before(r[i + 1], r[i])
             /\ r[i] \in Range(s)
  <2>1. PICK j \in 1..Len(s) : From(s, r, i, j)
    BY <1>1
  <2>2. /\ OneOf(s[j]) /\ s[j] \notin content
        /\ Before(IF j = Len(s) THEN p ELSE s[j + 1], s[j])
    BY DEF Follows
  <2>3. s[j] \in Range(s)
    BY <1>2 DEF Range
  <2>4. CASE i = Len(r) - 1
    <3>1. i + 1 = Len(r)
      BY <1>n, <2>4
    <3> QED
      BY <1>1, <2>1, <2>2, <2>3, <2>4, <3>1 DEF From
  <2>5. CASE i # Len(r) - 1
    <3>1. j # Len(s)
      BY <1>n, <2>1, <2>5 DEF From
    <3> QED
      BY <2>1, <2>2, <2>3, <2>5, <3>1 DEF From
  <2> QED
    BY <2>4, <2>5
<1>5. Follows(r, d)
  BY <1>1, <1>n, <1>3, <1>4 DEF Follows
<1>6. \A e \in Range(r) : e = p \/ e \in Range(s)
  BY <1>1, <1>2, <1>3, <1>4 DEF Range
<1> QED
  BY <1>5, <1>6

(* All but the last.                                                       *)
LEMMA FrontIs ==
  ASSUME NEW s \in Seq(Docs), s # <<>>, NEW q, q = Front(s)
  PROVE  /\ q \in Seq(Docs) /\ Len(s) \in Nat /\ Len(s) >= 1 /\ Len(q) = Len(s) - 1
         /\ Last(s) = s[Len(s)] /\ \A i \in 1..(Len(s) - 1) : q[i] = s[i]
         /\ \A e \in Range(q) : e \in Range(s)
         /\ Last(s) \in Range(s)
<1>1. Len(s) \in Nat /\ Len(s) >= 1 /\ DOMAIN s = 1..Len(s)
  BY EmptySeq, LenProperties
<1>2. q = SubSeq(s, 1, Len(s) - 1) /\ Last(s) = s[Len(s)]
  BY DEF Front, Last
<1>3. /\ q \in Seq(Docs) /\ Len(q) = Len(s) - 1
      /\ \A i \in 1..(Len(s) - 1) : q[i] = s[i]
  <2>1. \A i \in 1..(Len(s) - 1) : s[i] \in Docs
    BY <1>1, ElementOfSeq
  <2>2. q = [i \in 1..(Len(s) - 1) |-> s[i]]
    <3>1. \A i \in 1..(Len(s) - 1) : i + 1 - 1 = i
      BY <1>1
    <3> QED
      BY <1>1, <1>2, <3>1
  <2>3. Len(s) - 1 \in Nat
    BY <1>1
  <2>4. q \in [1..(Len(s) - 1) -> Docs]
    BY <2>1, <2>2
  <2> QED
    BY <2>2, <2>3, <2>4, SeqDef, LenProperties
<1>4. DOMAIN q = 1..(Len(s) - 1)
  BY <1>3, LenProperties
<1> QED
  BY <1>1, <1>2, <1>3, <1>4 DEF Range

(* An entry less at the end of what can be undone ...                      *)
LEMMA LeadsFront ==
  ASSUME NEW s \in Seq(Docs), s # <<>>, NEW p, Leads(s, p)
  PROVE  /\ Leads(Front(s), Last(s)) /\ OneOf(Last(s)) /\ Last(s) \notin content
         /\ Before(Last(s), p)
<1>1. PICK q : q = Front(s)
  OBVIOUS
<1>2. /\ Len(s) \in Nat /\ Len(s) >= 1 /\ Len(q) = Len(s) - 1
      /\ Last(s) = s[Len(s)] /\ \A i \in 1..(Len(s) - 1) : q[i] = s[i]
  BY <1>1, FrontIs
<1>3. ASSUME NEW i \in 1..Len(q)
      PROVE  /\ OneOf(q[i]) /\ q[i] \notin content
             /\ Before(q[i], IF i = Len(q) THEN Last(s) ELSE q[i + 1])
  <2>1. i \in 1..Len(s) /\ i # Len(s) /\ q[i] = s[i]
    BY <1>2
  <2>2. OneOf(s[i]) /\ s[i] \notin content /\ Before(s[i], s[i + 1])
    BY <2>1 DEF Leads
  <2>3. (IF i = Len(q) THEN Last(s) ELSE q[i + 1]) = s[i + 1]
    BY <1>2
  <2> QED
    BY <2>1, <2>2, <2>3
<1>4. Leads(q, Last(s))
  BY <1>3 DEF Leads
<1>5. Len(s) \in 1..Len(s)
  BY <1>2
<1> QED
  BY <1>1, <1>2, <1>4, <1>5 DEF Leads

(* ... and of what can be redone.                                          *)
LEMMA FollowsFront ==
  ASSUME NEW s \in Seq(Docs), s # <<>>, NEW p, Follows(s, p)
  PROVE  /\ Follows(Front(s), Last(s)) /\ OneOf(Last(s)) /\ Last(s) \notin content
         /\ Before(p, Last(s))
<1>1. PICK q : q = Front(s)
  OBVIOUS
<1>2. /\ Len(s) \in Nat /\ Len(s) >= 1 /\ Len(q) = Len(s) - 1
      /\ Last(s) = s[Len(s)] /\ \A i \in 1..(Len(s) - 1) : q[i] = s[i]
  BY <1>1, FrontIs
<1>3. ASSUME NEW i \in 1..Len(q)
      PROVE  /\ OneOf(q[i]) /\ q[i] \notin content
             /\ Before(IF i = Len(q) THEN Last(s) ELSE q[i + 1], q[i])
  <2>1. i \in 1..Len(s) /\ i # Len(s) /\ q[i] = s[i]
    BY <1>2
  <2>2. OneOf(s[i]) /\ s[i] \notin content /\ Before(s[i + 1], s[i])
    BY <2>1 DEF Follows
  <2>3. (IF i = Len(q) THEN Last(s) ELSE q[i + 1]) = s[i + 1]
    BY <1>2
  <2> QED
    BY <2>1, <2>2, <2>3
<1>4. Follows(q, Last(s))
  BY <1>3 DEF Follows
<1>5. Len(s) \in 1..Len(s)
  BY <1>2
<1> QED
  BY <1>1, <1>2, <1>4, <1>5 DEF Follows

(* An edit is recorded.                                                    *)
LEMMA RecordIs ==
  ASSUME NEW t \in TabStates, NEW p \in Docs, NEW r, r = RecordEdit(t, p)
  PROVE  /\ r \in TabStates /\ r.undo = PushNativeHistory(t.undo, p) /\ r.redo = <<>>
         /\ r.view = t.view /\ r.doc = t.doc /\ r.url = t.url /\ r.valid = t.valid
         /\ r.ready = t.ready /\ r.stale = t.stale /\ r.retry = t.retry /\ r.busy = t.busy
         /\ r.pending = t.pending /\ r.exporting = t.exporting /\ r.download = t.download
         /\ r.frame = t.frame
<1>1. PICK none \in Seq(Docs) : none = <<>>
  BY EmptySeq
<1>2. t.undo \in Seq(Docs)
  BY TabIs
<1>3. PICK u : u = PushNativeHistory(t.undo, p)
  OBVIOUS
<1>4. u \in Seq(Docs)
  BY <1>2, <1>3, PushIs DEF Pushed
<1>5. r = [t EXCEPT !.undo = u, !.redo = none]
  BY <1>1, <1>3 DEF RecordEdit
<1> QED
  BY <1>1, <1>3, <1>4, <1>5 DEF TabStates

(* An entry more, and none that can be redone, is within the limit.        *)
LEMMA NoMore ==
  ASSUME NEW a \in Nat, NEW b \in Nat, NEW c \in Nat, a + b <= c
  PROVE  a <= c
  OBVIOUS

(* What the record of an edit keeps.                                       *)
LEMMA RecordedHistory ==
  ASSUME TabTypeOK, LinesOK, NEW p, HistoryOK(p), NEW d, Canvas(d), Before(p, d),
         line' = line, content' = content, asked' = asked,
         tab'.undo = PushNativeHistory(tab.undo, p), tab'.redo = <<>>
  PROVE  /\ HistoryOK(d)' /\ Canvas(d)'
         /\ \A e \in Range(tab'.undo) \cup Range(tab'.redo) : e = p \/ e \in Known
<1>1. tab.undo \in Seq(Docs) /\ Len(tab.undo) \in Nat /\ Len(tab.redo) \in Nat
  BY TabIs, LenProperties DEF TabTypeOK
<1>2. p \in Docs /\ OneOf(p) /\ p \notin content /\ Leads(tab.undo, p)
  BY DEF HistoryOK, OneOf, Made
<1>3. PICK u : u = PushNativeHistory(tab.undo, p)
  OBVIOUS
<1>4. u \in Seq(Docs) /\ Len(u) <= HistoryMax
  <2>1. Len(tab.undo) <= HistoryMax
    <3>1. Len(tab.undo) + Len(tab.redo) <= HistoryMax
      BY DEF HistoryOK
    <3>2. HistoryMax \in Nat
      BY EditorTabAssumption
    <3> QED
      BY <1>1, <3>1, <3>2, NoMore
  <2> QED
    BY <1>1, <1>2, <1>3, <2>1, PushIs DEF Pushed
<1>5. Leads(u, d) /\ \A e \in Range(u) : e = p \/ e \in Range(tab.undo)
  BY <1>1, <1>2, <1>3, LeadsPush
<1>6. PICK none \in Seq(Docs) : none = <<>>
  BY EmptySeq
<1>7. Len(none) = 0 /\ Follows(none, d) /\ Range(none) = {}
  <2>1. Len(none) = 0 /\ DOMAIN none = {}
    BY <1>6
  <2>2. 1..Len(none) = {}
    BY <2>1
  <2> QED
    BY <2>1, <2>2 DEF Follows, Range
<1>8. OneOf(d) /\ d \notin content
  <2>1. d \in Docs /\ p \in line[d]
    BY DEF Canvas, Made, Before
  <2>2. line[p] \subseteq line[d]
    BY <2>1 DEF LinesOK
  <2> QED
    BY <1>2, <2>2 DEF Canvas, OneOf
<1>9. Len(u) + Len(none) <= HistoryMax
  <2>1. Len(u) \in Nat
    BY <1>4, LenProperties
  <2> QED
    BY <1>4, <1>7, <2>1
<1>10. tab'.undo = u /\ tab'.redo = none
  BY <1>3, <1>6
<1>11. HistoryOK(d)'
  BY <1>5, <1>7, <1>8, <1>9, <1>10, HistoryFrom
<1>12. Canvas(d)'
  BY DEF Canvas, Made
<1> QED
  BY <1>5, <1>7, <1>10, <1>11, <1>12 DEF Known

(* An edit in the frame is taken over ...                                  *)
LEMMA ChangeTaken ==
  ASSUME TabInv, Drawn, AtRest, mail # <<>>, mail' = Tail(mail), Head(mail).event = "change",
         ReceiveChange
  PROVE  TabInv'
<1>1. PICK d : d = Head(mail).doc
  OBVIOUS
<1>2. PICK p : p = tab.doc
  OBVIOUS
<1>3. /\ TabTypeOK /\ LinesOK /\ KeptOK /\ tab \in TabStates /\ mail \in Seq(FrameMessages)
      /\ launches \in Seq(LaunchStates) /\ asked \in Numbers /\ rendered \subseteq Docs
  BY DEF TabInv, TabTypeOK
<1>4. /\ HistoryOK(p) /\ Live(p) /\ launches = <<>> /\ ~tab.stale /\ ~tab.busy
      /\ tab.pending = NoEdit /\ (tab.frame.synced => ~tab.frame.inert)
  BY <1>2 DEF AtRest
<1>5. ~Deaf
  BY <1>4 DEF Deaf
<1>6. PICK f : f = [tab.frame EXCEPT !.unheard = FALSE]
  OBVIOUS
<1>7. PICK c : c = ClearExports(tab)
  OBVIOUS
<1>8. PICK r : r = RecordEdit(c, p)
  OBVIOUS
<1>9. /\ launches' = launches /\ reading' = reading /\ asked' = asked /\ UNCHANGED known
      /\ draft' = Stored(d, 0)
  BY <1>1, <1>5 DEF ReceiveChange
<1>10. /\ c \in TabStates /\ c.view = tab.view /\ c.doc = tab.doc /\ c.url = tab.url
       /\ c.ready = tab.ready /\ c.stale = tab.stale /\ c.busy = tab.busy
       /\ c.undo = tab.undo /\ c.redo = tab.redo /\ c.pending = tab.pending
       /\ c.frame = tab.frame /\ c.exporting = 0 /\ c.download = 0
  BY <1>3, <1>7, NumbersAre DEF TabStates, ClearExports
<1>11. p \in Docs /\ Made(p)
  BY <1>4 DEF HistoryOK, OneOf, Made
<1>12. /\ r \in TabStates /\ r.undo = PushNativeHistory(c.undo, p) /\ r.redo = <<>>
       /\ r.view = c.view /\ r.url = c.url /\ r.ready = c.ready /\ r.stale = c.stale
       /\ r.busy = c.busy /\ r.pending = c.pending /\ r.exporting = c.exporting
       /\ r.download = c.download /\ r.frame = c.frame
  BY <1>8, <1>10, <1>11, RecordIs
<1>13. tab' = [r EXCEPT !.doc = d, !.frame = f]
  <2>1. tab' = [r EXCEPT !.doc = d, !.frame = [r.frame EXCEPT !.unheard = FALSE]]
    BY <1>1, <1>2, <1>5, <1>7, <1>8 DEF ReceiveChange
  <2> QED
    BY <1>6, <1>10, <1>12, <2>1
<1>14. /\ f \in FrameStates /\ ~f.unheard /\ f.doc = tab.frame.doc
       /\ f.picture = tab.frame.picture /\ f.started = tab.frame.started
       /\ f.synced = tab.frame.synced /\ f.inert = tab.frame.inert
  BY <1>3, <1>6, TabIs DEF FrameStates
<1>15. /\ Len(mail) \in Nat /\ Len(mail) >= 1 /\ Head(mail) = mail[1]
       /\ Len(mail') = Len(mail) - 1 /\ mail' \in Seq(FrameMessages)
       /\ \A i \in 1..Len(mail') : mail'[i] = mail[i + 1]
  BY <1>3, HeadTailProperties, LenProperties, EmptySeq
<1>16. tab.frame.synced
  <2>1. CASE ~tab.frame.synced
    <3>1. mail = <<[event |-> "startup", doc |-> p]>>
      BY <1>4, <2>1 DEF Live
    <3>2. Head(mail).event = "startup"
      BY <3>1
    <3> QED
      BY <3>2
  <2> QED
    BY <2>1
<1>17. Told(p) /\ tab.frame.started /\ \A i \in 1..Len(mail) : mail[i].event # "startup"
  BY <1>4, <1>16 DEF Live
<1>18. Leading(p, 1) /\ Carries(mail[1]) /\ mail[1].doc = d
  <2>1. 1 \in 1..Len(mail) /\ Carries(mail[1])
    BY <1>15 DEF Carries
  <2> QED
    BY <1>1, <1>15, <1>17, <2>1 DEF Told
<1>19. Canvas(d) /\ Before(p, d) /\ d \in line[tab.frame.doc] /\ d \in Docs
  BY <1>18 DEF Leading, Canvas, Made
<1>20. /\ tab' \in TabStates /\ tab'.view = tab.view /\ tab'.doc = d /\ tab'.url = tab.url
       /\ tab'.ready = tab.ready /\ tab'.stale = tab.stale /\ tab'.busy = tab.busy
       /\ tab'.undo = PushNativeHistory(tab.undo, p) /\ tab'.redo = <<>>
       /\ tab'.pending = tab.pending /\ tab'.frame = f
       /\ tab'.exporting = 0 /\ tab'.download = 0
  <2>1. d \in Numbers
    BY <1>19, NumbersAre
  <2> QED
    BY <1>10, <1>12, <1>13, <1>14, <2>1 DEF TabStates
<1>21. line' = line /\ content' = content /\ rendered' = rendered /\ refused' = refused
  BY <1>9 DEF known
<1>22. /\ HistoryOK(d)' /\ Canvas(d)'
       /\ \A e \in Range(tab'.undo) \cup Range(tab'.redo) : e = p \/ e \in Known
  BY <1>3, <1>4, <1>9, <1>19, <1>20, <1>21, RecordedHistory
<1>23. \A e \in Known' : e = p \/ e \in Known
  BY <1>21, <1>22 DEF Known
<1>24. \A i \in 2..Len(mail) : i \in 1..Len(mail) /\ i \in (1 + 1)..Len(mail)
  BY <1>15
<1>25. \A i \in 2..Len(mail) : Carries(mail[i]) => Before(d, mail[i].doc)
  BY <1>18, <1>24 DEF Leading
<1>26. \A e \in Known' : \A i \in 2..Len(mail) : Carries(mail[i]) => e < mail[i].doc
  <2> SUFFICES ASSUME NEW e \in Known', NEW i \in 2..Len(mail), Carries(mail[i])
               PROVE  e < mail[i].doc
    OBVIOUS
  <2>1. Leading(p, i)
    BY <1>17, <1>24 DEF Told
  <2>2. p < mail[i].doc
    <3>1. mail[i].doc \in Docs /\ p \in line[mail[i].doc] /\ p # mail[i].doc
      BY <2>1 DEF Leading, Canvas, Made, Before
    <3>2. p <= mail[i].doc
      BY <1>3, <3>1 DEF LinesOK
    <3> QED
      BY <1>11, <3>1, <3>2, NumbersAre
  <2> QED
    BY <1>23, <2>1, <2>2 DEF Leading
<1>27. Told(d)'
  BY <1>3, <1>14, <1>17, <1>20, <1>21, <1>25, <1>26, ToldPops
<1>28. Silent' => tab.frame.doc = d /\ tab.frame.picture = d
  <2>1. ASSUME Silent' PROVE \A j \in (1 + 1)..Len(mail) : ~Carries(mail[j])
    <3>1. \A j \in (1 + 1)..Len(mail) : j - 1 \in 1..Len(mail') /\ (j - 1) + 1 = j
      BY <1>15
    <3>2. \A j \in (1 + 1)..Len(mail) : mail'[j - 1] = mail[j]
      BY <1>15, <3>1
    <3> QED
      BY <2>1, <3>1, <3>2 DEF Silent, Carries
  <2>2. mail[1].event = "change"
    BY <1>15
  <2> QED
    BY <1>18, <2>1, <2>2 DEF Leading
<1>29. \A i \in 1..Len(mail') : mail'[i].event # "startup"
  BY <1>3, <1>17, NoStartupPops
<1>30. Canvas(tab.frame.doc)' /\ d \in line'[tab'.frame.doc]
  BY <1>4, <1>14, <1>19, <1>20, <1>21 DEF Live, Canvas, Made
<1>31. Live(d)'
  BY <1>14, <1>16, <1>17, <1>20, <1>27, <1>28, <1>29, <1>30 DEF Live
<1>32. draft'.doc = d
  BY <1>9 DEF Stored
<1>33. AtRest'
  BY <1>4, <1>9, <1>14, <1>16, <1>20, <1>22, <1>31, <1>32 DEF AtRest
<1>34. Drawn'
  BY <1>20, <1>22, <1>33 DEF Drawn
<1>35. DraftKept'
  <2>1. PICK v \in Numbers : v = 0
    BY NumbersAre
  <2>2. draft' = Stored(d, v) /\ d \in Numbers /\ Made(d) /\ d \notin content
    BY <1>9, <1>19, <2>1, NumbersAre DEF Canvas
  <2> QED
    BY <1>21, <2>1, <2>2, DraftStored
<1>36. tab.view = "native" /\ \A i \in 1..(Len(launches') - 1) : ~launches'[i].current
  BY <1>3, <1>9 DEF Drawn, KeptOK
<1> QED
  BY <1>3, <1>9, <1>15, <1>20, <1>21, <1>34, <1>35, <1>36, NativeSteps

(* ... unless nothing is taken over now.                                   *)
LEMMA ChangeUnheard ==
  ASSUME TabInv, tab.view = "native", Drawn, InHistory, mail # <<>>, mail' = Tail(mail),
         tab' = [tab EXCEPT !.frame = [@ EXCEPT !.unheard = TRUE]],
         UNCHANGED <<launches, draft, reading, asked, known>>
  PROVE  TabInv'
<1>1. /\ tab \in TabStates /\ TabTypeOK /\ mail \in Seq(FrameMessages)
      /\ launches' = launches /\ draft' = draft /\ reading' = reading
      /\ asked' = asked /\ UNCHANGED known /\ line' = line /\ content' = content
      /\ refused' = refused
  BY DEF TabInv, TabTypeOK, known
<1>2. mail' \in Seq(FrameMessages)
  BY <1>1, HeadTailProperties
<1>3. PICK f : f = [tab.frame EXCEPT !.unheard = TRUE]
  OBVIOUS
<1>4. /\ f \in FrameStates /\ f.unheard /\ f.doc = tab.frame.doc
      /\ f.picture = tab.frame.picture /\ f.started = tab.frame.started
      /\ f.synced = tab.frame.synced /\ f.inert = tab.frame.inert
  BY <1>1, <1>3, TabIs DEF FrameStates
<1>5. tab' = [tab EXCEPT !.frame = f]
  BY <1>3
<1>6. /\ tab' \in TabStates /\ tab'.view = tab.view /\ tab'.doc = tab.doc /\ tab'.url = tab.url
      /\ tab'.ready = tab.ready /\ tab'.stale = tab.stale
      /\ tab'.retry = tab.retry /\ tab'.busy = tab.busy /\ tab'.undo = tab.undo
      /\ tab'.redo = tab.redo /\ tab'.pending = tab.pending
      /\ tab'.exporting = tab.exporting /\ tab'.download = tab.download
      /\ tab'.frame = f
  BY <1>1, <1>4, <1>5 DEF TabStates
<1>7. PICK p : p = Awaited.doc
  OBVIOUS
<1>8. HistoryOK(p) /\ Live(p) /\ tab.frame.synced
  BY <1>7 DEF InHistory
<1>9. HistoryOK(p)'
  BY <1>1, <1>6, <1>8, HistoryStays
<1>10. Told(p) /\ tab.frame.started /\ \A i \in 1..Len(mail) : mail[i].event # "startup"
  BY <1>8 DEF Live
<1>11. \A i \in 1..Len(mail') : mail'[i].event # "startup"
  BY <1>1, <1>10, NoStartupPops
<1>12. Told(p)'
  <2>1. \A i \in 2..Len(mail) : i \in 1..Len(mail)
    BY <1>1, LenProperties
  <2>2. Known' = Known
    BY <1>1, <1>6 DEF Known
  <2>3. \A i \in 2..Len(mail) : Carries(mail[i]) => Before(p, mail[i].doc)
    BY <1>10, <2>1 DEF Told, Leading
  <2>4. \A e \in Known' : \A i \in 2..Len(mail) : Carries(mail[i]) => e < mail[i].doc
    BY <1>10, <2>1, <2>2 DEF Told, Leading
  <2> QED
    BY <1>1, <1>4, <1>6, <1>10, <2>3, <2>4, ToldPops
<1>13. Canvas(tab.frame.doc)' /\ p \in line'[tab'.frame.doc]
  <2>1. PICK g : g = tab.frame.doc
    OBVIOUS
  <2>2. Canvas(g) /\ p \in line[g]
    BY <1>8, <2>1 DEF Live
  <2>3. tab'.frame.doc = g
    BY <1>4, <1>6, <2>1
  <2>4. Canvas(g)' /\ p \in line'[g]
    BY <1>1, <2>2 DEF Canvas, Made
  <2> QED
    BY <2>3, <2>4 DEF Canvas
<1>14. Live(p)'
  BY <1>4, <1>6, <1>8, <1>10, <1>11, <1>12, <1>13 DEF Live, Silent
<1>15. Awaited' = Awaited /\ Waiting' = Waiting
  BY <1>1 DEF Awaited, Waiting
<1>16. InHistory'
  <2>1. Locked' /\ AnswerAwaited'
    BY <1>1, <1>4, <1>6, <1>15 DEF InHistory, Locked, NoExport, AnswerAwaited
  <2>2. tab'["undo"] = tab["undo"] /\ tab'["redo"] = tab["redo"]
    BY <1>6
  <2>3. IF Awaited'.recovery THEN tab'.doc = Awaited'.doc
        ELSE tab'[Awaited'.kind] # <<>> /\ tab'.doc = Last(tab'[Awaited'.kind])
    BY <1>6, <1>15, <2>2 DEF InHistory
  <2>4. OneOf(tab.doc)' /\ tab'.doc \notin content'
    BY <1>1, <1>6 DEF InHistory, OneOf, Made
  <2> QED
    BY <1>4, <1>6, <1>7, <1>9, <1>14, <1>15, <2>1, <2>3, <2>4 DEF InHistory
<1>17. Drawn'
  BY <1>1, <1>6, <1>16 DEF Drawn, Canvas, Made
<1> QED
  BY <1>1, <1>2, <1>6, <1>17, TabChanges

(* An edit that is shown at once arrives.                                  *)
LEMMA ReceiveChangeKeeps ==
  ASSUME TabInv, ReceiveChange
  PROVE  TabInv'
<1>1. /\ mail # <<>> /\ Head(mail).event = "change" /\ mail' = Tail(mail)
      /\ UNCHANGED <<launches, reading, asked, known>>
  BY DEF ReceiveChange, Receive
<1>2. Drawn /\ tab.view = "native"
  BY <1>1 DEF TabInv, Away, Opening, Represented, Plain, Drawn
<1>3. CASE AtRest
  BY <1>1, <1>2, <1>3, ChangeTaken
<1>4. CASE ~AtRest
  <2>1. Deaf
    BY <1>2, <1>4, Pending DEF Drawn, InHistory, InEdit, EditFailed, Deaf, Locked
  <2>2. tab' = [tab EXCEPT !.frame = [@ EXCEPT !.unheard = TRUE]] /\ draft' = draft
    BY <2>1 DEF ReceiveChange
  <2>3. CASE InHistory
    BY <1>1, <1>2, <2>2, <2>3, ChangeUnheard
  <2>4. CASE InEdit \/ EditFailed
    BY <1>1, <1>2, <2>2, <2>4, EditHears
  <2> QED
    BY <1>2, <1>4, <2>3, <2>4 DEF Drawn
<1> QED
  BY <1>3, <1>4

(* An edit is sent to be rendered.                                         *)
LEMMA RebuildSent ==
  ASSUME TabInv, Drawn, AtRest, ReceiveRebuild
  PROVE  TabInv'
<1>1. PICK d : d = Head(mail).doc
  OBVIOUS
<1>2. PICK p : p = tab.doc
  OBVIOUS
<1>3. PICK edit : edit = [previous |-> p, incoming |-> d]
  OBVIOUS
<1>4. PICK t : t = [tab EXCEPT !.pending = edit, !.busy = TRUE]
  OBVIOUS
<1>5. /\ TabTypeOK /\ LinesOK /\ KeptOK /\ tab \in TabStates /\ mail \in Seq(FrameMessages)
      /\ launches \in Seq(LaunchStates)
  BY DEF TabInv, TabTypeOK
<1>6. /\ HistoryOK(p) /\ Live(p) /\ launches = <<>> /\ ~tab.stale /\ ~tab.busy
      /\ tab.ready /\ tab.url # 0 /\ tab.view = "native"
  BY <1>2 DEF AtRest, Drawn
<1>7. /\ mail # <<>> /\ mail' = Tail(mail) /\ Head(mail).event = "rebuild"
      /\ draft' = draft /\ asked' = asked /\ UNCHANGED known
      /\ line' = line /\ content' = content /\ rendered' = rendered /\ refused' = refused
  BY DEF ReceiveRebuild, Receive, known
<1>8. LaunchNative(t, d, "rebuild", 0)
  <2>1. edit.incoming = d
    BY <1>3
  <2> QED
    BY <1>1, <1>2, <1>3, <1>4, <1>6, <2>1 DEF ReceiveRebuild
<1>9. /\ Len(mail) \in Nat /\ Len(mail) >= 1 /\ Head(mail) = mail[1]
      /\ mail' \in Seq(FrameMessages)
  BY <1>5, <1>7, HeadTailProperties, LenProperties, EmptySeq
<1>10. tab.frame.synced
  <2>1. CASE ~tab.frame.synced
    <3>1. mail = <<[event |-> "startup", doc |-> p]>>
      BY <1>6, <1>7, <2>1 DEF Live
    <3>2. Head(mail).event = "startup"
      BY <3>1
    <3> QED
      BY <1>7, <3>2
  <2> QED
    BY <2>1
<1>11. Leading(p, 1) /\ mail[1].doc = d
  <2>1. 1 \in 1..Len(mail) /\ Carries(mail[1])
    BY <1>7, <1>9 DEF Carries
  <2> QED
    BY <1>1, <1>6, <1>9, <1>10, <2>1 DEF Live, Told
<1>12. Canvas(d) /\ Before(p, d) /\ (\A e \in Known : e < d) /\ d \in Docs /\ p \in Docs
  BY <1>6, <1>11 DEF Leading, Canvas, HistoryOK, OneOf, Made
<1>13. d \notin refused
  <2>1. d \in Nat /\ (d \in refused => d < d)
    BY <1>12, NumbersAre DEF Known
  <2> QED
    BY <2>1
<1>14. edit \in EditPairs /\ edit.previous = p /\ edit.incoming = d /\ d \in Numbers
  BY <1>3, <1>12, NumbersAre DEF EditPairs
<1>15. /\ t \in TabStates /\ t.doc = tab.doc /\ t.ready = tab.ready /\ t.url = tab.url
       /\ t.view = tab.view /\ t.busy /\ t.undo = tab.undo /\ t.redo = tab.redo
       /\ t.pending = edit /\ t.frame = tab.frame
  BY <1>4, <1>5, <1>14 DEF TabStates
<1>16. t.ready /\ t.url # 0
  BY <1>6, <1>15
<1>17. /\ Kept(d, "rebuild", FALSE) /\ reading' = 0 /\ launches' \in Seq(LaunchStates)
       /\ Len(launches') = Len(launches) + 1
       /\ \A i \in 1..(Len(launches') - 1) : ~launches'[i].current
       /\ Awaited'.doc = t.doc /\ Awaited'.url = t.url /\ Awaited'.valid = t.valid
       /\ tab'.view = t.view /\ tab'.url = t.url /\ tab'.valid = t.valid
       /\ tab'.busy = t.busy /\ tab'.undo = t.undo /\ tab'.redo = t.redo
       /\ tab'.pending = t.pending
       /\ t.frame = tab.frame => SameFrame
  BY <1>5, <1>8, <1>14, <1>15, <1>16, LaunchKeeps DEF LaunchKinds
<1>18. HistoryOK(p)'
  BY <1>6, <1>7, <1>15, <1>17, HistoryStays
<1>19. Canvas(d)' /\ Before(p, d)' /\ d \notin refused'
  BY <1>7, <1>12, <1>13 DEF Canvas, Made, Before
<1>20. EditKept'
  BY <1>14, <1>15, <1>17, <1>18, <1>19 DEF EditKept, Kept
<1>21. Len(launches') = 1
  BY <1>6, <1>17
<1>22. Locked' /\ AnswerAwaited'
  BY <1>15, <1>16, <1>17, <1>21 DEF Locked, NoExport, AnswerAwaited, Kept
<1>23. InEdit'
  BY <1>2, <1>14, <1>15, <1>17, <1>20, <1>22 DEF InEdit, Kept
<1>24. Drawn'
  BY <1>6, <1>15, <1>17, <1>19, <1>23 DEF Drawn, Kept
<1>25. DraftKept'
  BY <1>7, DraftStays
<1>26. rendered' \subseteq Docs /\ tab' \in TabStates /\ asked' \in Numbers
  BY <1>5, <1>7, <1>17 DEF TabTypeOK, Kept
<1> QED
  BY <1>6, <1>7, <1>9, <1>17, <1>24, <1>25, <1>26, NativeSteps

(* An edit that needs a new picture arrives.                               *)
LEMMA ReceiveRebuildKeeps ==
  ASSUME TabInv, ReceiveRebuild
  PROVE  TabInv'
<1>1. /\ mail # <<>> /\ Head(mail).event = "rebuild" /\ mail' = Tail(mail)
      /\ UNCHANGED <<draft, asked, known>>
  BY DEF ReceiveRebuild, Receive
<1>2. Drawn /\ tab.view = "native"
  BY <1>1 DEF TabInv, Away, Opening, Represented, Plain, Drawn
<1>3. CASE AtRest
  BY <1>2, <1>3, RebuildSent
<1>4. CASE ~AtRest
  <2>1. tab.stale
    BY <1>2, <1>4 DEF Drawn, InHistory, InEdit, EditFailed, Locked
  <2>2. /\ tab' = [tab EXCEPT !.frame = [@ EXCEPT !.unheard = TRUE]]
        /\ UNCHANGED <<launches, reading>>
    BY <2>1 DEF ReceiveRebuild
  <2>3. CASE InHistory
    BY <1>1, <1>2, <2>2, <2>3, ChangeUnheard
  <2>4. CASE InEdit \/ EditFailed
    BY <1>1, <1>2, <2>2, <2>4, EditHears
  <2> QED
    BY <1>2, <1>4, <2>3, <2>4 DEF Drawn
<1> QED
  BY <1>3, <1>4

-----------------------------------------------------------------------------
(* The answers.                                                            *)

(* The only answer that is heeded is the one awaited.                      *)
LEMMA HeadAwaited ==
  ASSUME launches \in Seq(LaunchStates), launches # <<>>, Head(launches).current,
         \A i \in 1..(Len(launches) - 1) : ~launches[i].current
  PROVE  /\ Waiting /\ Awaited = Head(launches) /\ Head(launches) \in LaunchStates
         /\ Len(launches) = 1 /\ Tail(launches) = <<>>
<1>1. /\ Len(launches) \in Nat /\ Len(launches) >= 1 /\ Head(launches) = launches[1]
      /\ Head(launches) \in LaunchStates
      /\ Tail(launches) \in Seq(LaunchStates) /\ Len(Tail(launches)) = Len(launches) - 1
  BY HeadTailProperties, LenProperties, EmptySeq
<1>2. Len(launches) = 1
  BY <1>1
<1>3. Tail(launches) = <<>>
  <2>1. Len(Tail(launches)) = 0
    BY <1>1, <1>2
  <2> QED
    BY <1>1, <2>1, EmptySeq
<1> QED
  BY <1>1, <1>2, <1>3 DEF Waiting, Awaited

(* The tab with what has been rendered.                                    *)
FreshTab(load) ==
  [ReplaceEditorFrame(tab, load) EXCEPT
     !.url = load, !.valid = IF load \in content THEN load ELSE 0, !.stale = FALSE, !.ready = TRUE]

FreshFrame(f, load) ==
  /\ f \in FrameStates /\ f.doc = load /\ f.picture = load /\ ~f.started /\ ~f.synced /\ ~f.unheard
  /\ f.inert <=> tab.doc \notin content

(* What a new picture leaves.                                              *)
LEMMA FreshIs ==
  ASSUME tab \in TabStates, NEW load \in Numbers, NEW r, r = FreshTab(load)
  PROVE  /\ r \in TabStates /\ r.view = tab.view /\ r.doc = tab.doc /\ r.url = load
         /\ r.ready /\ ~r.stale /\ r.retry = tab.retry /\ r.busy = tab.busy
         /\ r.undo = tab.undo /\ r.redo = tab.redo /\ r.pending = tab.pending
         /\ r.exporting = tab.exporting /\ r.download = tab.download
         /\ FreshFrame(r.frame, load) /\ (load \in content => r.valid = load)
<1>1. PICK a : a = ReplaceEditorFrame(tab, load)
  OBVIOUS
<1>2. /\ a \in TabStates /\ a.view = tab.view /\ a.doc = tab.doc /\ a.retry = tab.retry
      /\ a.busy = tab.busy /\ a.undo = tab.undo /\ a.redo = tab.redo /\ a.pending = tab.pending
      /\ a.exporting = tab.exporting /\ a.download = tab.download
      /\ a.frame.doc = load /\ a.frame.picture = load /\ ~a.frame.started /\ ~a.frame.synced
      /\ ~a.frame.unheard /\ (a.frame.inert <=> tab.doc \notin content)
  BY <1>1, ReplacedFrame
<1>3. PICK v : v = IF load \in content THEN load ELSE 0
  OBVIOUS
<1>4. v \in Numbers /\ (load \in content => v = load)
  BY <1>3, NumbersAre
<1>5. r = [a EXCEPT !.url = load, !.valid = v, !.stale = FALSE, !.ready = TRUE]
  BY <1>1, <1>3 DEF FreshTab
<1>6. /\ r \in TabStates /\ r.view = a.view /\ r.doc = a.doc /\ r.url = load /\ r.valid = v
      /\ r.ready /\ ~r.stale /\ r.retry = a.retry /\ r.busy = a.busy
      /\ r.undo = a.undo /\ r.redo = a.redo /\ r.pending = a.pending
      /\ r.exporting = a.exporting /\ r.download = a.download /\ r.frame = a.frame
  BY <1>2, <1>4, <1>5 DEF TabStates
<1>7. a.frame \in FrameStates
  BY <1>2, TabIs
<1>8. FreshFrame(a.frame, load)
  BY <1>2, <1>7 DEF FreshFrame
<1> QED
  BY <1>2, <1>4, <1>6, <1>8

(* A canvas whose frame has not started yet.                               *)
LEMMA FreshRests ==
  ASSUME NEW d, HistoryOK(d)', tab'.doc = d, ~tab'.stale, ~tab'.busy, tab'.pending = NoEdit,
         FreshFrame(tab'.frame, d), d \notin content, content' = content, tab.doc = d,
         LinesOK', tab'.exporting \in {0, d}, tab'.download \in {0, d},
         mail' = <<>>, launches' = <<>>
  PROVE  AtRest' /\ Canvas(d)'
<1>1. PICK f : f = tab'.frame
  OBVIOUS
<1>2. /\ f.doc = d /\ f.picture = d /\ ~f.started /\ ~f.synced /\ ~f.unheard /\ f.inert
  BY <1>1 DEF FreshFrame
<1>3. Canvas(d)' /\ d \in line'[d]
  BY DEF HistoryOK, OneOf, Made, Canvas, LinesOK
<1>4. Live(d)'
  BY <1>1, <1>2, <1>3 DEF Live
<1>5. HistoryOK(tab.doc)' /\ Live(tab.doc)'
  BY <1>4
<1> QED
  BY <1>1, <1>2, <1>3, <1>5 DEF AtRest

RenderedNow(l, t, result) ==
  /\ Waiting /\ l = Awaited /\ l \in LaunchStates /\ Len(launches) = 1 /\ launches' = <<>>
  /\ rendered' = rendered \cup {l.load} /\ t = FreshTab(l.load) /\ tab' = Settled(t, l, result)
  /\ result = IF l.recovery THEN "failed" ELSE "ok"
  /\ draft' = IF l.kind = "open" /\ l.load \notin content THEN draft ELSE Stored(tab.doc, 0)
  /\ mail' = <<>> /\ reading' = reading /\ asked' = asked /\ content' = content /\ line' = line
  /\ refused' = refused

(* A document that was opened is shown ...                                 *)
LEMMA OpeningRendered ==
  ASSUME TabInv, Opening, NEW l, NEW t, NEW result, RenderedNow(l, t, result)
  PROVE  tab' \in TabStates /\ (Represented' \/ Drawn')
<1>1. /\ tab \in TabStates /\ LinesOK /\ l.kind \in {"open", "content"} /\ l.load = tab.doc
      /\ l.load \in Numbers
  BY DEF TabInv, TabTypeOK, Opening, RenderedNow, LaunchStates
<1>2. PICK d : d = tab.doc
  OBVIOUS
<1>3. tab' = t
  BY <1>1 DEF RenderedNow, Settled
<1>4. /\ t \in TabStates /\ t.view = tab.view /\ t.doc = tab.doc /\ t.url = d
      /\ t.ready /\ ~t.stale /\ t.busy = tab.busy
      /\ t.undo = tab.undo /\ t.redo = tab.redo /\ t.pending = tab.pending
      /\ t.exporting = tab.exporting /\ t.download = tab.download
      /\ FreshFrame(t.frame, d) /\ (d \in content => t.valid = d)
  <2>1. l.load = d /\ d \in Numbers /\ t = FreshTab(d)
    BY <1>1, <1>2 DEF RenderedNow
  <2> QED
    BY <1>1, <2>1, FreshIs
<1>5. /\ tab.view = "native" /\ ~tab.busy /\ tab.undo = <<>> /\ tab.redo = <<>>
      /\ tab.pending = NoEdit /\ tab.exporting = 0 /\ tab.download = 0 /\ OneOf(d)
  BY <1>2 DEF Opening, Plain, NoExport
<1>6. /\ content' = content /\ line' = line /\ asked' = asked /\ mail' = <<>> /\ launches' = <<>>
      /\ d \in rendered' /\ refused' = refused
  BY <1>1, <1>2 DEF RenderedNow
<1>7. OneOf(d)' /\ LinesOK' /\ ~Waiting'
  BY <1>1, <1>5, <1>6 DEF OneOf, Made, LinesOK, Waiting
<1>8. CASE d \in content
  <2>1. Plain'
    BY <1>3, <1>4, <1>5, <1>6 DEF Plain, FreshFrame
  <2>2. Shows(d)' /\ draft'.doc = d
    BY <1>1, <1>2, <1>6, <1>7, <1>8 DEF Shows, RenderedNow, Stored
  <2>3. Represented'
    BY <1>2, <1>3, <1>4, <1>5, <1>6, <1>7, <1>8, <2>1, <2>2 DEF Represented, FreshFrame
  <2> QED
    BY <1>3, <1>4, <2>3
<1>9. CASE d \notin content
  <2>1. PICK none \in Seq(Docs) : none = <<>>
    BY EmptySeq
  <2>2. Leads(none, d) /\ Follows(none, d) /\ Len(none) + Len(none) <= HistoryMax
    <3>1. Len(none) = 0 /\ 1..Len(none) = {} /\ HistoryMax \in Nat
      BY <2>1, EditorTabAssumption
    <3> QED
      BY <3>1 DEF Leads, Follows
  <2>3. tab'.undo = none /\ tab'.redo = none
    BY <1>3, <1>4, <1>5, <2>1
  <2>4. HistoryOK(d)'
    BY <1>5, <1>6, <1>9, <2>2, <2>3, HistoryFrom
  <2>5. AtRest' /\ Canvas(d)'
    BY <1>2, <1>3, <1>4, <1>5, <1>6, <1>7, <1>9, <2>4, FreshRests
  <2>6. d # 0
    BY <1>5, NumbersAre DEF OneOf, Made
  <2>7. Drawn'
    BY <1>2, <1>3, <1>4, <1>5, <2>5, <2>6 DEF Drawn
  <2> QED
    BY <1>3, <1>4, <2>7
<1> QED
  BY <1>8, <1>9

(* ... and so is a representation that was changed.                        *)
LEMMA RepresentationRendered ==
  ASSUME TabInv, Represented, NEW l, NEW t, NEW result, RenderedNow(l, t, result)
  PROVE  tab' \in TabStates /\ (Represented' \/ Drawn')
<1>1. /\ tab \in TabStates /\ LinesOK /\ l.kind \in {"content", "retry"} /\ l.load = tab.doc
      /\ l.load \in Numbers
  BY DEF TabInv, TabTypeOK, Represented, RenderedNow, LaunchStates
<1>2. PICK d : d = tab.doc
  OBVIOUS
<1>3. /\ t \in TabStates /\ t.view = tab.view /\ t.doc = tab.doc /\ t.url = d
      /\ t.ready /\ ~t.stale /\ t.busy = tab.busy
      /\ t.undo = tab.undo /\ t.redo = tab.redo /\ t.pending = tab.pending
      /\ t.exporting = tab.exporting /\ t.download = tab.download
      /\ FreshFrame(t.frame, d) /\ (d \in content => t.valid = d)
  <2>1. l.load = d /\ d \in Numbers /\ t = FreshTab(d)
    BY <1>1, <1>2 DEF RenderedNow
  <2> QED
    BY <1>1, <2>1, FreshIs
<1>4. /\ tab.view = "native" /\ ~tab.busy /\ tab.undo = <<>> /\ tab.redo = <<>>
      /\ tab.pending = NoEdit /\ tab.exporting = 0 /\ tab.download = 0 /\ OneOf(d)
      /\ d \in content
  BY <1>2 DEF Represented, Plain, NoExport, RenderedNow
<1>5. tab' = t
  <2>1. SettledEdit(t, result) = t
    BY <1>3, <1>4 DEF SettledEdit
  <2> QED
    BY <1>1, <2>1 DEF RenderedNow, Settled
<1>6. /\ content' = content /\ line' = line /\ asked' = asked /\ mail' = <<>> /\ launches' = <<>>
      /\ d \in rendered' /\ refused' = refused
  BY <1>1, <1>2 DEF RenderedNow
<1>7. OneOf(d)' /\ ~Waiting'
  BY <1>4, <1>6 DEF OneOf, Made, Waiting
<1>8. Plain'
  BY <1>3, <1>4, <1>5, <1>6 DEF Plain, FreshFrame
<1>9. Shows(d)' /\ draft'.doc = d
  BY <1>1, <1>2, <1>4, <1>6, <1>7 DEF Shows, RenderedNow, Stored
<1>10. Represented'
  BY <1>2, <1>3, <1>4, <1>5, <1>6, <1>7, <1>8, <1>9 DEF Represented, FreshFrame
<1> QED
  BY <1>3, <1>5, <1>10

(* An entry moves: the limit is kept.                                      *)
LEMMA OneMoves ==
  ASSUME NEW m \in Nat, NEW n \in Nat, NEW c \in Nat, m >= 1, m + n <= c \/ n + m <= c
  PROVE  n < c /\ (m - 1) + (n + 1) <= c /\ (n + 1) + (m - 1) <= c
  OBVIOUS

(* What was undone can be redone ...                                       *)
LEMMA UndoneHistory ==
  ASSUME TabTypeOK, NEW p, HistoryOK(p), tab.undo # <<>>, NEW d, d = Last(tab.undo),
         line' = line, content' = content, asked' = asked,
         NEW u, u = Front(tab.undo), NEW r, r = PushNativeHistory(tab.redo, p),
         tab'.undo = u, tab'.redo = r
  PROVE  HistoryOK(d)' /\ u \in Seq(Docs) /\ r \in Seq(Docs)
<1>1. tab.undo \in Seq(Docs) /\ tab.redo \in Seq(Docs)
  BY TabIs DEF TabTypeOK
<1>2. /\ p \in Docs /\ OneOf(p) /\ p \notin content /\ Leads(tab.undo, p) /\ Follows(tab.redo, p)
      /\ Len(tab.undo) + Len(tab.redo) <= HistoryMax
  BY DEF HistoryOK, OneOf, Made
<1>3. Leads(u, d) /\ OneOf(d) /\ d \notin content /\ Before(d, p)
  BY <1>1, <1>2, LeadsFront
<1>4. Follows(r, d)
  BY <1>1, <1>2, <1>3, FollowsPush
<1>5. u \in Seq(Docs) /\ Len(tab.undo) \in Nat /\ Len(tab.undo) >= 1 /\ Len(u) = Len(tab.undo) - 1
  BY <1>1, FrontIs
<1>6. Pushed(tab.redo, p, r)
  BY <1>1, <1>2, PushIs
<1>7. Len(tab.redo) \in Nat
  BY <1>1, LenProperties
<1>8. HistoryMax \in Nat
  BY EditorTabAssumption
<1>9. PICK m \in Nat, n \in Nat : m = Len(tab.undo) /\ n = Len(tab.redo)
  BY <1>5, <1>7
<1>10. m >= 1 /\ m + n <= HistoryMax /\ Len(u) = m - 1
  BY <1>2, <1>5, <1>9
<1>11. n < HistoryMax
  BY <1>8, <1>10, OneMoves
<1>12. Len(r) = n + 1
  BY <1>6, <1>9, <1>11 DEF Pushed
<1>13. Len(u) + Len(r) <= HistoryMax
  BY <1>8, <1>10, <1>12, OneMoves
<1>14. HistoryOK(d)'
  BY <1>3, <1>4, <1>13, HistoryFrom
<1> QED
  BY <1>5, <1>6, <1>14 DEF Pushed

(* ... and the other way round.                                            *)
LEMMA RedoneHistory ==
  ASSUME TabTypeOK, NEW p, HistoryOK(p), tab.redo # <<>>, NEW d, d = Last(tab.redo),
         line' = line, content' = content, asked' = asked,
         NEW r, r = Front(tab.redo), NEW u, u = PushNativeHistory(tab.undo, p),
         tab'.undo = u, tab'.redo = r
  PROVE  HistoryOK(d)' /\ u \in Seq(Docs) /\ r \in Seq(Docs)
<1>1. tab.undo \in Seq(Docs) /\ tab.redo \in Seq(Docs)
  BY TabIs DEF TabTypeOK
<1>2. /\ p \in Docs /\ OneOf(p) /\ p \notin content /\ Leads(tab.undo, p) /\ Follows(tab.redo, p)
      /\ Len(tab.undo) + Len(tab.redo) <= HistoryMax
  BY DEF HistoryOK, OneOf, Made
<1>3. Follows(r, d) /\ OneOf(d) /\ d \notin content /\ Before(p, d)
  BY <1>1, <1>2, FollowsFront
<1>4. Leads(u, d)
  BY <1>1, <1>2, <1>3, LeadsPush
<1>5. r \in Seq(Docs) /\ Len(tab.redo) \in Nat /\ Len(tab.redo) >= 1 /\ Len(r) = Len(tab.redo) - 1
  BY <1>1, FrontIs
<1>6. Pushed(tab.undo, p, u)
  BY <1>1, <1>2, PushIs
<1>7. Len(tab.undo) \in Nat
  BY <1>1, LenProperties
<1>8. HistoryMax \in Nat
  BY EditorTabAssumption
<1>9. PICK m \in Nat, n \in Nat : m = Len(tab.redo) /\ n = Len(tab.undo)
  BY <1>5, <1>7
<1>10. m >= 1 /\ n + m <= HistoryMax /\ Len(r) = m - 1
  BY <1>2, <1>5, <1>9
<1>11. n < HistoryMax
  BY <1>8, <1>10, OneMoves
<1>12. Len(u) = n + 1
  BY <1>6, <1>9, <1>11 DEF Pushed
<1>13. Len(u) + Len(r) <= HistoryMax
  BY <1>8, <1>10, <1>12, OneMoves
<1>14. HistoryOK(d)'
  BY <1>3, <1>4, <1>13, HistoryFrom
<1> QED
  BY <1>5, <1>6, <1>14 DEF Pushed

(* An undo or a redo is shown, or what was there before it.                *)
LEMMA HistoryRendered ==
  ASSUME TabInv, Drawn, InHistory, NEW l, NEW t, NEW result, RenderedNow(l, t, result)
  PROVE  tab' \in TabStates /\ (Represented' \/ Drawn')
<1>1. PICK p, d, k : p = l.doc /\ d = tab.doc /\ k = l.kind
  OBVIOUS
<1>2. /\ tab \in TabStates /\ TabTypeOK /\ LinesOK /\ l.load = d /\ d \in Numbers
      /\ k \in {"undo", "redo"} /\ HistoryOK(p) /\ tab.pending = NoEdit
      /\ d \notin content /\ d # 0 /\ tab.exporting = 0 /\ tab.download = 0 /\ tab.view = "native"
      /\ IF l.recovery THEN d = p ELSE tab[k] # <<>> /\ d = Last(tab[k])
  BY <1>1, NumbersAre DEF TabInv, TabTypeOK, InHistory, RenderedNow, LaunchStates, AnswerAwaited, Locked,
          NoExport, OneOf, Made, Drawn
<1>3. /\ t \in TabStates /\ t.view = tab.view /\ t.doc = tab.doc /\ t.url = d
      /\ t.ready /\ ~t.stale /\ t.undo = tab.undo /\ t.redo = tab.redo /\ t.pending = tab.pending
      /\ t.exporting = tab.exporting /\ t.download = tab.download /\ FreshFrame(t.frame, d)
  <2>1. t = FreshTab(d)
    BY <1>2 DEF RenderedNow
  <2> QED
    BY <1>2, <2>1, FreshIs
<1>4. /\ content' = content /\ line' = line /\ asked' = asked /\ mail' = <<>> /\ launches' = <<>>
      /\ LinesOK'
  BY <1>2 DEF RenderedNow, LinesOK
<1>5. tab' = SettledHistory(t, l, result)
  BY <1>1, <1>2 DEF RenderedNow, Settled
<1>6. PICK idle : idle = [t EXCEPT !.busy = FALSE]
  OBVIOUS
<1>7. /\ idle \in TabStates /\ idle.view = "native" /\ idle.doc = d /\ idle.url = d
      /\ idle.ready /\ ~idle.stale /\ ~idle.busy /\ idle.undo = tab.undo /\ idle.redo = tab.redo
      /\ idle.pending = NoEdit /\ idle.exporting = 0 /\ idle.download = 0
      /\ FreshFrame(idle.frame, d)
  BY <1>1, <1>2, <1>3, <1>6 DEF TabStates
<1>8. ASSUME tab' \in TabStates, HistoryOK(d)', tab'.view = idle.view, tab'.doc = d, tab'.url = d,
             tab'.ready, ~tab'.stale, ~tab'.busy, tab'.pending = NoEdit, tab'.exporting = 0,
             tab'.download = 0, tab'.frame = idle.frame
      PROVE  tab' \in TabStates /\ (Represented' \/ Drawn')
  <2>1. AtRest' /\ Canvas(d)'
    BY <1>1, <1>2, <1>4, <1>7, <1>8, FreshRests
  <2> QED
    BY <1>2, <1>7, <1>8, <2>1 DEF Drawn
<1>9. CASE l.recovery
  <2>1. tab' = idle
    BY <1>3, <1>5, <1>6, <1>9 DEF SettledHistory, RenderedNow
  <2>2. HistoryOK(p)'
    BY <1>2, <1>4, <1>7, <2>1, HistoryFrom DEF HistoryOK
  <2> QED
    BY <1>2, <1>7, <1>8, <1>9, <2>1, <2>2
<1>10. CASE ~l.recovery /\ k = "undo"
  <2>1. PICK u, r : u = Front(tab.undo) /\ r = PushNativeHistory(tab.redo, p)
    OBVIOUS
  <2>2. tab' = [idle EXCEPT !.undo = u, !.redo = r]
    <3>1. tab' = [idle EXCEPT !["undo"] = Front(idle.undo), !["redo"] = PushNativeHistory(idle.redo, p)]
      BY <1>1, <1>5, <1>6, <1>10 DEF SettledHistory, RenderedNow
    <3> QED
      BY <1>7, <2>1, <3>1
  <2>3. tab.undo # <<>> /\ d = Last(tab.undo)
    BY <1>2, <1>10
  <2>4. u \in Seq(Docs) /\ r \in Seq(Docs)
    <3>1. tab.undo \in Seq(Docs) /\ tab.redo \in Seq(Docs) /\ p \in Docs
      BY <1>2, TabIs DEF HistoryOK, OneOf, Made
    <3> QED
      BY <2>1, <2>3, <3>1, FrontIs, PushIs DEF Pushed
  <2>5. /\ tab' \in TabStates /\ tab'.view = idle.view /\ tab'.doc = idle.doc /\ tab'.url = idle.url
        /\ tab'.ready = idle.ready /\ tab'.stale = idle.stale /\ tab'.busy = idle.busy
        /\ tab'.undo = u /\ tab'.redo = r /\ tab'.pending = idle.pending
        /\ tab'.exporting = idle.exporting /\ tab'.download = idle.download
        /\ tab'.frame = idle.frame
    BY <1>7, <2>2, <2>4 DEF TabStates
  <2>6. HistoryOK(d)'
    BY <1>2, <1>4, <2>1, <2>3, <2>5, UndoneHistory
  <2> QED
    BY <1>7, <1>8, <2>5, <2>6
<1>11. CASE ~l.recovery /\ k = "redo"
  <2>1. PICK u, r : r = Front(tab.redo) /\ u = PushNativeHistory(tab.undo, p)
    OBVIOUS
  <2>2. tab' = [idle EXCEPT !.redo = r, !.undo = u]
    <3>1. tab' = [idle EXCEPT !["redo"] = Front(idle.redo), !["undo"] = PushNativeHistory(idle.undo, p)]
      BY <1>1, <1>5, <1>6, <1>11 DEF SettledHistory, RenderedNow
    <3> QED
      BY <1>7, <2>1, <3>1
  <2>3. tab.redo # <<>> /\ d = Last(tab.redo)
    BY <1>2, <1>11
  <2>4. u \in Seq(Docs) /\ r \in Seq(Docs)
    <3>1. tab.undo \in Seq(Docs) /\ tab.redo \in Seq(Docs) /\ p \in Docs
      BY <1>2, TabIs DEF HistoryOK, OneOf, Made
    <3> QED
      BY <2>1, <2>3, <3>1, FrontIs, PushIs DEF Pushed
  <2>5. /\ tab' \in TabStates /\ tab'.view = idle.view /\ tab'.doc = idle.doc /\ tab'.url = idle.url
        /\ tab'.ready = idle.ready /\ tab'.stale = idle.stale /\ tab'.busy = idle.busy
        /\ tab'.undo = u /\ tab'.redo = r /\ tab'.pending = idle.pending
        /\ tab'.exporting = idle.exporting /\ tab'.download = idle.download
        /\ tab'.frame = idle.frame
    BY <1>7, <2>2, <2>4 DEF TabStates
  <2>6. HistoryOK(d)'
    BY <1>2, <1>4, <2>1, <2>3, <2>5, RedoneHistory
  <2> QED
    BY <1>7, <1>8, <2>5, <2>6
<1> QED
  BY <1>2, <1>9, <1>10, <1>11

(* An edit is recorded once its picture is there.                          *)
LEMMA EditRendered ==
  ASSUME TabInv, Drawn, InEdit, NEW l, NEW t, NEW result, RenderedNow(l, t, result)
  PROVE  tab' \in TabStates /\ (Represented' \/ Drawn')
<1>1. PICK p, q, d : p = tab.pending.previous /\ q = tab.pending.incoming /\ d = tab.doc
  OBVIOUS
<1>2. /\ tab \in TabStates /\ TabTypeOK /\ LinesOK /\ l.load = d /\ d \in Numbers
      /\ HistoryOK(p) /\ Canvas(q) /\ Before(p, q) /\ d \in {p, q} /\ p \in Docs
      /\ d \notin content /\ d # 0 /\ tab.exporting = 0 /\ tab.download = 0 /\ tab.view = "native"
      /\ (l.recovery => d = p) /\ tab.pending # NoEdit
      /\ (l.kind = "rebuild" \/ (l.kind = "retry" /\ ~tab.busy /\ ~l.recovery))
  <2>1. EditKept /\ tab.pending # NoEdit
    BY Pending DEF InEdit
  <2> QED
    BY <1>1, <2>1, NumbersAre DEF TabInv, TabTypeOK, InEdit, EditKept, HistoryOK, RenderedNow,
       LaunchStates, AnswerAwaited, Locked, NoExport, OneOf, Made, Canvas, Drawn
<1>3. /\ t \in TabStates /\ t.view = tab.view /\ t.doc = tab.doc /\ t.url = d /\ t.busy = tab.busy
      /\ t.ready /\ ~t.stale /\ t.undo = tab.undo /\ t.redo = tab.redo /\ t.pending = tab.pending
      /\ t.exporting = tab.exporting /\ t.download = tab.download /\ FreshFrame(t.frame, d)
  <2>1. t = FreshTab(d)
    BY <1>2 DEF RenderedNow
  <2> QED
    BY <1>2, <2>1, FreshIs
<1>4. /\ content' = content /\ line' = line /\ asked' = asked /\ mail' = <<>> /\ launches' = <<>>
      /\ LinesOK'
  BY <1>2 DEF RenderedNow, LinesOK
<1>5. PICK e : e = SettledEdit(t, result)
  OBVIOUS
<1>6. PICK none \in EditPairs : none = NoEdit
  BY NoEditIs
<1>7. PICK g : g = IF d = q /\ ~l.recovery THEN RecordEdit(t, p) ELSE t
  OBVIOUS
<1>8. e = [g EXCEPT !.pending = none]
  <2>1. t.pending.previous = p /\ t.pending.incoming = q /\ t.doc = d /\ t.pending # NoEdit
    BY <1>1, <1>2, <1>3
  <2>2. CASE l.recovery
    <3>1. result = "failed" /\ g = t
      BY <1>7, <2>2 DEF RenderedNow
    <3> QED
      BY <1>3, <1>5, <1>6, <2>1, <3>1 DEF SettledEdit
  <2>3. CASE ~l.recovery
    <3>1. result = "ok"
      BY <2>3 DEF RenderedNow
    <3> QED
      BY <1>5, <1>6, <1>7, <2>1, <2>3, <3>1 DEF SettledEdit
  <2> QED
    BY <2>2, <2>3
<1>9. /\ g \in TabStates /\ g.view = tab.view /\ g.doc = d /\ g.url = d /\ g.busy = tab.busy
      /\ g.ready /\ ~g.stale /\ g.exporting = 0 /\ g.download = 0 /\ g.frame = t.frame
      /\ IF d = q /\ ~l.recovery
         THEN g.undo = PushNativeHistory(tab.undo, p) /\ g.redo = <<>>
         ELSE g.undo = tab.undo /\ g.redo = tab.redo
  <2>1. CASE d = q /\ ~l.recovery
    BY <1>1, <1>2, <1>3, <1>7, <2>1, RecordIs
  <2>2. CASE ~(d = q /\ ~l.recovery)
    BY <1>1, <1>2, <1>3, <1>7, <2>2
  <2> QED
    BY <2>1, <2>2
<1>10. /\ e \in TabStates /\ e.view = g.view /\ e.doc = g.doc /\ e.url = g.url
       /\ e.busy = g.busy /\ e.ready = g.ready /\ e.stale = g.stale /\ e.exporting = g.exporting
       /\ e.download = g.download /\ e.frame = g.frame /\ e.undo = g.undo /\ e.redo = g.redo
       /\ e.pending = NoEdit
  BY <1>6, <1>8, <1>9 DEF TabStates
<1>11. /\ tab' \in TabStates /\ tab'.view = e.view /\ tab'.doc = e.doc /\ tab'.url = e.url
       /\ ~tab'.busy /\ tab'.ready = e.ready /\ tab'.stale = e.stale
       /\ tab'.exporting = e.exporting /\ tab'.download = e.download /\ tab'.frame = e.frame
       /\ tab'.undo = e.undo /\ tab'.redo = e.redo /\ tab'.pending = e.pending
  <2>1. CASE l.kind = "rebuild"
    <3>1. tab' = [e EXCEPT !.busy = FALSE]
      BY <1>5, <2>1 DEF RenderedNow, Settled
    <3> QED
      BY <1>10, <3>1 DEF TabStates
  <2>2. CASE l.kind = "retry"
    <3>1. tab' = e
      BY <1>5, <2>2 DEF RenderedNow, Settled
    <3> QED
      BY <1>2, <1>9, <1>10, <2>2, <3>1
  <2> QED
    BY <1>2, <2>1, <2>2
<1>12. HistoryOK(d)'
  <2>1. CASE d = q /\ ~l.recovery
    <3>1. tab'.undo = PushNativeHistory(tab.undo, p) /\ tab'.redo = <<>>
      BY <1>9, <1>10, <1>11, <2>1
    <3>2. HistoryOK(q)'
      BY <1>2, <1>4, <3>1, RecordedHistory
    <3> QED
      BY <2>1, <3>2
  <2>2. CASE ~(d = q /\ ~l.recovery)
    <3>1. d = p
      BY <1>2, <2>2
    <3>2. tab'.undo = tab.undo /\ tab'.redo = tab.redo
      BY <1>9, <1>10, <1>11, <2>2
    <3>3. HistoryOK(p)'
      BY <1>2, <1>4, <3>2, HistoryFrom DEF HistoryOK
    <3> QED
      BY <3>1, <3>3
  <2> QED
    BY <2>1, <2>2
<1>13. FreshFrame(tab'.frame, d)
  BY <1>3, <1>9, <1>10, <1>11
<1>14. /\ tab'.view = "native" /\ tab'.doc = d /\ tab'.url = d /\ tab'.ready /\ ~tab'.stale
       /\ tab'.exporting = 0 /\ tab'.download = 0 /\ tab'.pending = NoEdit
  BY <1>2, <1>9, <1>10, <1>11
<1>15. AtRest' /\ Canvas(d)'
  BY <1>1, <1>2, <1>4, <1>11, <1>12, <1>13, <1>14, FreshRests
<1>16. Drawn'
  BY <1>2, <1>14, <1>15 DEF Drawn
<1> QED
  BY <1>11, <1>16

(* An answer is awaited in an open document.                               *)
LEMMA WaitsNative ==
  ASSUME TabInv, Waiting
  PROVE  /\ tab.view = "native" /\ (Opening \/ Represented \/ (Drawn /\ (InHistory \/ InEdit)))
         /\ Awaited.load = tab.doc /\ Made(tab.doc)
<1>1. launches # <<>> /\ ~Away /\ ~AtRest /\ ~EditFailed
  BY DEF Waiting, Away, AtRest, EditFailed
<1>2. CASE Opening
  BY <1>2 DEF Opening, OneOf, Drawn
<1>3. CASE Represented
  BY <1>3 DEF Represented, OneOf, Drawn
<1>4. CASE Drawn
  <2>1. InHistory \/ InEdit
    BY <1>1, <1>4 DEF Drawn
  <2> QED
    BY <1>4, <2>1 DEF Drawn, InHistory, InEdit, AnswerAwaited, Canvas
<1> QED
  BY <1>1, <1>2, <1>3, <1>4 DEF TabInv

(* A document was rendered.                                                *)
LEMMA RenderedKeeps ==
  ASSUME TabInv, Rendered
  PROVE  TabInv'
<1>1. PICK l : l = Head(launches)
  OBVIOUS
<1>2. PICK t : t = FreshTab(l.load)
  OBVIOUS
<1>3. PICK result : result = IF l.recovery THEN "failed" ELSE "ok"
  OBVIOUS
<1>4. /\ TabTypeOK /\ LinesOK /\ KeptOK /\ launches \in Seq(LaunchStates) /\ asked \in Numbers
      /\ rendered \subseteq Docs
  BY DEF TabInv, TabTypeOK
<1>5. launches # <<>> /\ l.current
  BY <1>1 DEF Rendered, Heeds
<1>6. /\ Waiting /\ Awaited = l /\ l \in LaunchStates
      /\ Len(launches) = 1 /\ Tail(launches) = <<>>
  BY <1>1, <1>4, <1>5, HeadAwaited DEF KeptOK
<1>7. RenderedNow(l, t, result)
  BY <1>1, <1>2, <1>3, <1>6 DEF Rendered, RenderedNow, FreshTab
<1>8. /\ tab.view = "native" /\ (Opening \/ Represented \/ (Drawn /\ (InHistory \/ InEdit)))
      /\ l.load = tab.doc /\ Made(tab.doc)
  BY <1>6, WaitsNative
<1>9. tab' \in TabStates /\ (Represented' \/ Drawn')
  BY <1>7, <1>8, OpeningRendered, RepresentationRendered, HistoryRendered, EditRendered
<1>10. /\ content' = content /\ line' = line /\ asked' = asked /\ mail' = <<>> /\ launches' = <<>>
       /\ rendered' = rendered \cup {l.load} /\ refused' = refused /\ reading' = reading
  BY <1>7 DEF RenderedNow
<1>11. DraftKept'
  <2>1. CASE l.kind = "open" /\ l.load \notin content
    BY <1>7, <1>10, <2>1, DraftStays DEF RenderedNow
  <2>2. CASE ~(l.kind = "open" /\ l.load \notin content)
    <3>1. PICK v \in Numbers : v = 0
      BY NumbersAre
    <3>2. PICK x : x = tab.doc
      OBVIOUS
    <3>3. draft' = Stored(x, v) /\ Made(x) /\ x \in Numbers /\ x \in rendered'
      BY <1>7, <1>8, <1>10, <2>2, <3>1, <3>2, NumbersAre DEF RenderedNow, Made
    <3> QED
      BY <1>10, <3>1, <3>3, DraftStored
  <2> QED
    BY <2>1, <2>2
<1>12. /\ launches' \in Seq(LaunchStates) /\ \A i \in 1..(Len(launches') - 1) : ~launches'[i].current
       /\ mail' \in Seq(FrameMessages)
  <2>1. \A i \in 1..(0 - 1) : FALSE
    OBVIOUS
  <2> QED
    BY <1>10, <2>1, EmptySeq
<1>13. rendered' \subseteq Docs
  BY <1>4, <1>8, <1>10 DEF Made
<1> QED
  BY <1>4, <1>8, <1>9, <1>10, <1>11, <1>12, <1>13, NativeSteps

(* A refused document is one that is known, or the present one.            *)
LEMMA LiveRefuses ==
  ASSUME TabTypeOK, LinesOK, NEW d, Live(d), tab.frame.synced, SameFrame,
         tab'.undo = tab.undo, tab'.redo = tab.redo, line' = line, content' = content,
         mail' = mail, \A x \in refused' : x \in Known \/ x = d,
         tab'.exporting \in {0, d}, tab'.download \in {0, d}
  PROVE  Live(d)'
<1>1. \A e \in Known' : e \in Known \/ e = d
  BY DEF Known
<1>2. /\ Told(d) /\ tab.frame.started /\ Canvas(tab.frame.doc) /\ d \in line[tab.frame.doc]
      /\ \A i \in 1..Len(mail) : mail[i].event # "startup"
  BY DEF Live
<1>3. d \in Docs
  BY <1>2 DEF TabTypeOK, Canvas, Made
<1>4. ASSUME NEW i \in 1..Len(mail), Carries(mail[i])
      PROVE  Leading(d, i)'
  <2>1. PICK c : c = mail[i].doc
    OBVIOUS
  <2>2. Leading(d, i)
    BY <1>2, <1>4 DEF Told
  <2>3. /\ Canvas(c) /\ Before(d, c) /\ c \in line[tab.frame.doc] /\ \A e \in Known : e < c
    BY <2>1, <2>2 DEF Leading
  <2>4. d < c
    <3>1. c \in Docs /\ d <= c /\ d # c
      BY <2>3 DEF Canvas, Made, Before, LinesOK
    <3> QED
      BY <1>3, <3>1, NumbersAre
  <2>5. \A e \in Known' : e < c
    BY <1>1, <2>3, <2>4
  <2>6. Canvas(c)' /\ Before(d, c)' /\ c \in line'[tab'.frame.doc]
    BY <2>3 DEF Canvas, Made, Before, SameFrame
  <2>7. \A j \in (i + 1)..Len(mail) : Carries(mail[j]) => Before(c, mail[j].doc)'
    BY <2>1, <2>2 DEF Leading, Before
  <2>8. (\A j \in (i + 1)..Len(mail) : ~Carries(mail[j])) =>
          /\ c = tab'.frame.doc
          /\ mail[i].event = "change" => tab'.frame.picture = tab'.frame.doc
    BY <2>1, <2>2 DEF Leading, SameFrame
  <2> QED
    BY <2>1, <2>5, <2>6, <2>7, <2>8 DEF Leading, Carries
<1>5. Told(d)'
  BY <1>4 DEF Told, Carries
<1>6. Silent' <=> Silent
  BY DEF Silent, Carries, SameFrame
<1>7. PICK g : g = tab.frame.doc
  OBVIOUS
<1>8. Canvas(g)' /\ d \in line'[g]
  BY <1>2, <1>7 DEF Canvas, Made
<1>9. tab'.frame.doc = g /\ tab'.frame.started /\ tab'.frame.synced
  BY <1>2, <1>7 DEF SameFrame
<1>10. Canvas(tab.frame.doc)' /\ d \in line'[tab'.frame.doc]
  BY <1>8, <1>9 DEF Canvas
<1>11. Silent' => tab'.frame.doc = d /\ tab'.frame.picture = d
  BY <1>6 DEF Live, SameFrame
<1> QED
  BY <1>2, <1>5, <1>9, <1>10, <1>11 DEF Live

(* Nothing was rendered, for now or for good.                              *)
FailedNow(l) ==
  /\ Waiting /\ l = Awaited /\ l \in LaunchStates /\ Len(launches) = 1 /\ launches' = <<>>
  /\ NotRendered(l)
  /\ mail' = mail /\ reading' = reading /\ asked' = asked /\ content' = content /\ line' = line
  /\ rendered' = rendered
  /\ \/ refused' = refused
     \/ refused' = refused \cup {l.load} /\ (l.recovery \/ ~l.preserve)

Unrendered(l) ==
  IF l.preserve
  THEN [tab EXCEPT !.url = l.url, !.stale = TRUE, !.ready = TRUE, !.retry = TRUE,
                   !.frame = [@ EXCEPT !.inert = TRUE]]
  ELSE [tab EXCEPT !.view = "start", !.ready = FALSE, !.url = 0]

(* The tab with the old picture, locked.                                   *)
LEMMA UnrenderedKept ==
  ASSUME tab \in TabStates, NEW l \in LaunchStates, l.preserve, NEW r, r = Unrendered(l)
  PROVE  /\ r \in TabStates /\ r.view = tab.view /\ r.doc = tab.doc /\ r.url = l.url
         /\ r.ready /\ r.stale /\ r.retry /\ r.busy = tab.busy /\ r.valid = tab.valid
         /\ r.undo = tab.undo /\ r.redo = tab.redo /\ r.pending = tab.pending
         /\ r.exporting = tab.exporting /\ r.download = tab.download
         /\ r.frame.inert /\ r.frame.doc = tab.frame.doc /\ r.frame.picture = tab.frame.picture
         /\ r.frame.started = tab.frame.started /\ r.frame.synced = tab.frame.synced
         /\ r.frame.unheard = tab.frame.unheard
<1>1. PICK f : f = [tab.frame EXCEPT !.inert = TRUE]
  OBVIOUS
<1>2. /\ f \in FrameStates /\ f.inert /\ f.doc = tab.frame.doc /\ f.picture = tab.frame.picture
      /\ f.started = tab.frame.started /\ f.synced = tab.frame.synced
      /\ f.unheard = tab.frame.unheard
  BY <1>1, TabIs DEF FrameStates
<1>3. PICK u \in Numbers : u = l.url
  BY DEF LaunchStates
<1>4. r = [tab EXCEPT !.url = u, !.stale = TRUE, !.ready = TRUE, !.retry = TRUE, !.frame = f]
  BY <1>1, <1>3 DEF Unrendered
<1>5. r \in TabStates
  <2>1. PICK s : s = [tab EXCEPT !.url = u, !.frame = f]
    OBVIOUS
  <2>2. s \in TabStates
    BY <1>2, <2>1 DEF TabStates
  <2>3. r = [s EXCEPT !.stale = TRUE, !.ready = TRUE, !.retry = TRUE]
    BY <1>4, <2>1 DEF TabStates
  <2> QED
    BY <2>2, <2>3 DEF TabStates
<1>6. /\ r.view = tab.view /\ r.doc = tab.doc /\ r.url = u
      /\ r.ready /\ r.stale /\ r.retry /\ r.busy = tab.busy /\ r.valid = tab.valid
  BY <1>4 DEF TabStates
<1>7. /\ r.undo = tab.undo /\ r.redo = tab.redo /\ r.pending = tab.pending
      /\ r.exporting = tab.exporting /\ r.download = tab.download /\ r.frame = f
  BY <1>4 DEF TabStates
<1> QED
  BY <1>2, <1>3, <1>5, <1>6, <1>7

(* What was to be opened is not ...                                        *)
LEMMA OpeningFails ==
  ASSUME TabInv, Opening, NEW l, FailedNow(l)
  PROVE  tab' \in TabStates /\ Away' /\ DraftKept'
<1>1. /\ tab \in TabStates /\ l.kind \in {"open", "content"} /\ ~l.preserve
  BY DEF TabInv, TabTypeOK, Opening, FailedNow
<1>2. tab' = [tab EXCEPT !.view = "start", !.ready = FALSE, !.url = 0] /\ draft' = draft
  BY <1>1 DEF FailedNow, NotRendered, Settled, FailedDraft
<1>3. PICK z \in Numbers : z = 0
  BY NumbersAre
<1>4. tab' = [tab EXCEPT !.view = "start", !.ready = FALSE, !.url = z]
  BY <1>2, <1>3
<1>5. /\ tab' \in TabStates /\ tab'.view = "start" /\ ~tab'.ready /\ tab'.busy = tab.busy
      /\ tab'.undo = tab.undo /\ tab'.redo = tab.redo /\ tab'.pending = tab.pending
      /\ tab'.frame = tab.frame
  BY <1>1, <1>4 DEF TabStates
<1>6. ~Waiting' /\ mail' = mail
  BY DEF FailedNow, Waiting
<1>7. Away'
  BY <1>5, <1>6 DEF Opening, Away, Plain
<1>8. DraftKept'
  <2>1. line' = line /\ content' = content /\ rendered \subseteq rendered'
    BY DEF FailedNow
  <2> QED
    BY <1>2, <2>1, DraftStays
<1> QED
  BY <1>5, <1>7, <1>8

(* ... a representation stays with its old picture, to be tried again.     *)
LEMMA RepresentationFails ==
  ASSUME TabInv, Represented, NEW l, FailedNow(l)
  PROVE  tab' \in TabStates /\ Represented' /\ DraftKept'
<1>1. /\ tab \in TabStates /\ l.kind \in {"content", "retry"} /\ l.preserve /\ ~l.recovery
      /\ l \in LaunchStates /\ l.url = tab.url /\ l.valid = tab.url /\ tab.pending = NoEdit
  BY DEF TabInv, TabTypeOK, Represented, FailedNow, Plain
<1>2. PICK t : t = Unrendered(l)
  OBVIOUS
<1>3. /\ t \in TabStates /\ t.view = tab.view /\ t.doc = tab.doc /\ t.url = l.url
      /\ t.ready /\ t.stale /\ t.retry /\ t.busy = tab.busy /\ t.valid = tab.valid
      /\ t.undo = tab.undo /\ t.redo = tab.redo /\ t.pending = tab.pending
      /\ t.exporting = tab.exporting /\ t.download = tab.download
      /\ t.frame.inert /\ t.frame.doc = tab.frame.doc /\ t.frame.picture = tab.frame.picture
      /\ t.frame.started = tab.frame.started
  BY <1>1, <1>2, UnrenderedKept
<1>4. Settled(t, l, "failed") = t
  BY <1>1, <1>3 DEF Settled, SettledEdit
<1>5. tab' = t /\ draft' = FailedDraft(t, l)
  BY <1>1, <1>2, <1>4 DEF FailedNow, NotRendered, Unrendered
<1>6. PICK d, u : d = tab.doc /\ u = tab.url
  OBVIOUS
<1>7. d \in content /\ OneOf(d) /\ Shows(u) /\ d \in Numbers /\ u \in Numbers
  BY <1>1, <1>6, TabIs DEF Represented
<1>8. draft' = Stored(d, u)
  BY <1>1, <1>3, <1>5, <1>6, <1>7 DEF FailedDraft
<1>9. /\ mail' = mail /\ asked' = asked /\ content' = content /\ line' = line
      /\ rendered' = rendered /\ ~Waiting' /\ draft'.doc = d
  BY <1>8 DEF FailedNow, Waiting, Stored
<1>10. DraftKept'
  BY <1>7, <1>8, <1>9, DraftStored DEF OneOf, Shows
<1>11. OneOf(d)' /\ Shows(u)'
  BY <1>7, <1>9 DEF OneOf, Made, Shows
<1>12. Plain'
  BY <1>3, <1>5, <1>9 DEF Represented, Plain
<1>13. NoExport'
  BY <1>3, <1>5 DEF Represented, FailedNow, NoExport
<1>14. Represented'
  BY <1>1, <1>3, <1>5, <1>6, <1>7, <1>9, <1>11, <1>12, <1>13 DEF Represented
<1> QED
  BY <1>3, <1>5, <1>10, <1>14

(* An undo or a redo is taken back.                                        *)
LEMMA HistoryFails ==
  ASSUME TabInv, Drawn, InHistory, NEW l, FailedNow(l)
  PROVE  tab' \in TabStates /\ Drawn' /\ DraftKept'
<1>1. PICK p : p = l.doc
  OBVIOUS
<1>2. PICK t : t = Unrendered(l)
  OBVIOUS
<1>3. /\ tab \in TabStates /\ TabTypeOK /\ LinesOK /\ l.kind \in {"undo", "redo"} /\ l.preserve
      /\ l \in LaunchStates /\ l.url # 0 /\ HistoryOK(p) /\ Live(p) /\ tab.pending = NoEdit
      /\ tab.frame.synced /\ tab.exporting = 0 /\ tab.download = 0 /\ tab.view = "native"
      /\ l.load = tab.doc /\ (l.recovery => tab.doc = p)
  BY <1>1 DEF TabInv, TabTypeOK, Drawn, InHistory, FailedNow, AnswerAwaited, Locked, NoExport
<1>4. /\ t \in TabStates /\ t.view = tab.view /\ t.doc = tab.doc /\ t.url = l.url
      /\ t.ready /\ t.stale
      /\ t.undo = tab.undo /\ t.redo = tab.redo /\ t.pending = tab.pending
      /\ t.exporting = tab.exporting /\ t.download = tab.download
      /\ t.frame.doc = tab.frame.doc /\ t.frame.picture = tab.frame.picture
      /\ t.frame.started = tab.frame.started /\ t.frame.synced = tab.frame.synced
      /\ t.frame.unheard = tab.frame.unheard
  <2>1. tab \in TabStates /\ l \in LaunchStates /\ l.preserve /\ t = Unrendered(l)
    BY <1>2, <1>3
  <2> QED
    BY <2>1, UnrenderedKept
<1>5. PICK f : f = [t.frame EXCEPT !.inert = FALSE]
  OBVIOUS
<1>6. /\ f \in FrameStates /\ ~f.inert /\ f.doc = t.frame.doc /\ f.picture = t.frame.picture
      /\ f.started = t.frame.started /\ f.synced = t.frame.synced
      /\ f.unheard = t.frame.unheard
  BY <1>4, <1>5, TabIs DEF FrameStates
<1>7. p \in Docs /\ p \in Numbers /\ Made(p) /\ p \notin content
  BY <1>3, NumbersAre DEF HistoryOK, OneOf, Made
<1>8. PICK idle : idle = [t EXCEPT !.busy = FALSE]
  OBVIOUS
<1>9. /\ idle \in TabStates /\ idle.view = t.view /\ idle.url = t.url /\ idle.ready /\ ~idle.busy
      /\ idle.undo = t.undo /\ idle.redo = t.redo /\ idle.pending = t.pending
      /\ idle.exporting = t.exporting /\ idle.download = t.download /\ idle.frame = t.frame
  BY <1>4, <1>8 DEF TabStates
<1>10. PICK a : a = Settled(t, l, "failed")
  OBVIOUS
<1>11. a = [idle EXCEPT !.doc = p, !.stale = FALSE, !.retry = FALSE, !.frame = f]
  <2>1. a = SettledHistory(t, l, "failed")
    BY <1>3, <1>10 DEF Settled
  <2>2. a = [idle EXCEPT !.doc = p, !.stale = FALSE, !.retry = FALSE,
                         !.frame = [idle.frame EXCEPT !.inert = FALSE]]
    BY <1>1, <1>4, <1>8, <2>1 DEF SettledHistory
  <2> QED
    BY <1>5, <1>9, <2>2
<1>12. tab' = a /\ draft' = FailedDraft(a, l)
  BY <1>2, <1>3, <1>10 DEF FailedNow, NotRendered, Unrendered
<1>13. /\ a \in TabStates /\ a.view = idle.view /\ a.doc = p /\ a.url = idle.url
       /\ a.ready = idle.ready /\ ~a.stale /\ a.busy = idle.busy
       /\ a.undo = idle.undo /\ a.redo = idle.redo /\ a.pending = idle.pending
       /\ a.exporting = idle.exporting /\ a.download = idle.download /\ a.frame = f
  BY <1>6, <1>7, <1>9, <1>11 DEF TabStates
<1>14. /\ tab' \in TabStates /\ tab'.view = "native" /\ tab'.doc = p /\ tab'.url # 0 /\ tab'.ready
       /\ ~tab'.stale /\ ~tab'.busy /\ tab'.undo = tab.undo /\ tab'.redo = tab.redo
       /\ tab'.pending = NoEdit /\ tab'.exporting = 0 /\ tab'.download = 0
       /\ tab'.frame.synced /\ ~tab'.frame.inert /\ SameFrame
  <2>1. /\ tab' \in TabStates /\ tab'.view = "native" /\ tab'.doc = p /\ tab'.url # 0
        /\ tab'.ready /\ ~tab'.stale /\ ~tab'.busy
    BY <1>3, <1>4, <1>9, <1>12, <1>13
  <2>2. /\ tab'.undo = tab.undo /\ tab'.redo = tab.redo /\ tab'.pending = NoEdit
        /\ tab'.exporting = 0 /\ tab'.download = 0
    BY <1>3, <1>4, <1>9, <1>12, <1>13
  <2>3. /\ tab'.frame = f /\ ~f.inert /\ f.synced /\ f.doc = tab.frame.doc
        /\ f.picture = tab.frame.picture /\ f.started = tab.frame.started
        /\ f.synced = tab.frame.synced /\ f.unheard = tab.frame.unheard
    BY <1>3, <1>4, <1>6, <1>12, <1>13
  <2>4. SameFrame
    BY <2>3 DEF SameFrame
  <2> QED
    BY <2>1, <2>2, <2>3, <2>4
<1>15. /\ mail' = mail /\ asked' = asked /\ content' = content /\ line' = line
       /\ launches' = <<>> /\ rendered' = rendered
  BY DEF FailedNow
<1>16. \A x \in refused' : x \in Known \/ x = p
  BY <1>3 DEF FailedNow, Known
<1>17. Live(p)'
  BY <1>3, <1>14, <1>15, <1>16, LiveRefuses
<1>18. HistoryOK(p)'
  BY <1>3, <1>14, <1>15, HistoryFrom DEF HistoryOK
<1>19. PICK v \in Numbers : v = 0
  BY NumbersAre
<1>20. draft' = Stored(p, v)
  BY <1>3, <1>7, <1>12, <1>13, <1>19 DEF FailedDraft
<1>21. DraftKept'
  BY <1>7, <1>15, <1>19, <1>20, DraftStored
<1>22. draft'.doc = p
  BY <1>20 DEF Stored
<1>23. AtRest'
  BY <1>14, <1>15, <1>17, <1>18, <1>22 DEF AtRest
<1>24. Canvas(p)'
  BY <1>7, <1>15 DEF Canvas, Made
<1>25. Drawn'
  BY <1>14, <1>23, <1>24 DEF Drawn
<1> QED
  BY <1>14, <1>21, <1>25

(* An edit is kept, locked, to be tried again.                             *)
LEMMA EditFails ==
  ASSUME TabInv, Drawn, InEdit, NEW l, FailedNow(l)
  PROVE  tab' \in TabStates /\ Drawn' /\ DraftKept'
<1>1. PICK p, q, d : p = tab.pending.previous /\ q = tab.pending.incoming /\ d = tab.doc
  OBVIOUS
<1>2. PICK t : t = Unrendered(l)
  OBVIOUS
<1>3. /\ tab \in TabStates /\ TabTypeOK /\ LinesOK /\ l.preserve /\ l.load = d /\ EditKept
      /\ l \in LaunchStates /\ l.url # 0 /\ tab.view = "native" /\ Canvas(d)
      /\ tab.exporting = 0 /\ tab.download = 0
      /\ \/ l.kind = "rebuild" /\ (l.recovery => d = p)
         \/ l.kind = "retry" /\ ~tab.busy /\ ~l.recovery
  BY <1>1 DEF TabInv, TabTypeOK, Drawn, InEdit, FailedNow, AnswerAwaited, Locked, NoExport
<1>4. HistoryOK(p) /\ Canvas(q) /\ Before(p, q) /\ d \in {p, q} /\ (d = q => d \notin refused)
  BY <1>1, <1>3 DEF EditKept
<1>5. /\ t \in TabStates /\ t.view = tab.view /\ t.doc = tab.doc /\ t.url = l.url
      /\ t.ready /\ t.stale /\ t.retry /\ t.busy = tab.busy
      /\ t.undo = tab.undo /\ t.redo = tab.redo /\ t.pending = tab.pending
      /\ t.exporting = tab.exporting /\ t.download = tab.download /\ t.frame.inert
  BY <1>2, <1>3, UnrenderedKept
<1>6. SettledEdit(t, "failed") = t
  BY <1>5 DEF SettledEdit
<1>7. PICK a : a = Settled(t, l, "failed")
  OBVIOUS
<1>8. tab' = a /\ draft' = FailedDraft(a, l)
  BY <1>2, <1>3, <1>7 DEF FailedNow, NotRendered, Unrendered
<1>9. /\ a \in TabStates /\ a.view = t.view /\ a.doc = t.doc /\ a.url = t.url
      /\ a.ready /\ a.stale /\ a.retry /\ ~a.busy
      /\ a.undo = t.undo /\ a.redo = t.redo /\ a.pending = t.pending
      /\ a.exporting = t.exporting /\ a.download = t.download /\ a.frame = t.frame
  <2>1. CASE l.kind = "rebuild"
    <3>1. a = [t EXCEPT !.busy = FALSE]
      BY <1>6, <1>7, <2>1 DEF Settled
    <3> QED
      BY <1>5, <3>1 DEF TabStates
  <2>2. CASE l.kind = "retry"
    <3>1. a = t
      BY <1>6, <1>7, <2>2 DEF Settled
    <3> QED
      BY <1>3, <1>5, <2>2, <3>1
  <2> QED
    BY <1>3, <2>1, <2>2
<1>10. /\ tab' \in TabStates /\ tab'.view = "native" /\ tab'.doc = d /\ tab'.url # 0 /\ tab'.ready
       /\ tab'.stale /\ tab'.retry /\ ~tab'.busy /\ tab'.undo = tab.undo /\ tab'.redo = tab.redo
       /\ tab'.pending = tab.pending /\ tab'.exporting = 0 /\ tab'.download = 0
       /\ tab'.frame.inert
  BY <1>1, <1>3, <1>5, <1>8, <1>9
<1>11. /\ mail' = mail /\ asked' = asked /\ content' = content /\ line' = line
       /\ launches' = <<>> /\ rendered' = rendered
  BY DEF FailedNow
<1>12. HistoryOK(p)'
  BY <1>4, <1>10, <1>11, HistoryFrom DEF HistoryOK
<1>13. d = q => d \notin refused'
  <2>1. p # q
    BY <1>4 DEF Before
  <2>2. d = q => ~l.recovery
    BY <1>3, <2>1
  <2> QED
    BY <1>3, <1>4, <2>2 DEF FailedNow
<1>14. Canvas(q)' /\ Before(p, q)' /\ Canvas(d)'
  BY <1>3, <1>4, <1>11 DEF Canvas, Made, Before
<1>15. EditKept'
  BY <1>1, <1>4, <1>10, <1>12, <1>13, <1>14 DEF EditKept
<1>16. PICK v \in Numbers : v = 0
  BY NumbersAre
<1>17. d \in Numbers /\ Made(d) /\ d \notin content
  BY <1>3, NumbersAre DEF Canvas, Made
<1>18. draft' = Stored(d, v)
  BY <1>1, <1>3, <1>5, <1>8, <1>9, <1>16, <1>17 DEF FailedDraft
<1>19. DraftKept'
  BY <1>11, <1>16, <1>17, <1>18, DraftStored
<1>20. draft'.doc = d
  BY <1>18 DEF Stored
<1>21. EditFailed'
  BY <1>10, <1>11, <1>15, <1>20 DEF EditFailed, Locked, NoExport
<1>22. Drawn'
  BY <1>10, <1>14, <1>21 DEF Drawn
<1> QED
  BY <1>10, <1>19, <1>22

(* Whatever was awaited has not been rendered.                             *)
LEMMA FailedKeeps ==
  ASSUME TabInv, NEW l, FailedNow(l)
  PROVE  TabInv'
<1>1. /\ TabTypeOK /\ LinesOK /\ KeptOK /\ asked \in Numbers /\ rendered \subseteq Docs
      /\ mail \in Seq(FrameMessages)
  BY DEF TabInv, TabTypeOK
<1>2. /\ tab.view = "native" /\ (Opening \/ Represented \/ (Drawn /\ (InHistory \/ InEdit)))
      /\ l.load = tab.doc /\ Made(tab.doc)
  BY WaitsNative DEF FailedNow
<1>3. tab' \in TabStates /\ DraftKept' /\ (Away' \/ Opening' \/ Represented' \/ Drawn')
  BY <1>2, OpeningFails, RepresentationFails, HistoryFails, EditFails
<1>4. /\ content' = content /\ line' = line /\ asked' = asked /\ mail' = mail /\ launches' = <<>>
      /\ rendered' = rendered /\ reading' = reading
      /\ \A x \in refused' : x \in refused \/ Made(x)
  BY <1>2 DEF FailedNow
<1>5. /\ launches' \in Seq(LaunchStates) /\ \A i \in 1..(Len(launches') - 1) : ~launches'[i].current
  <2>1. \A i \in 1..(0 - 1) : FALSE
    OBVIOUS
  <2> QED
    BY <1>4, <2>1, EmptySeq
<1> QED
  BY <1>1, <1>2, <1>3, <1>4, <1>5, NativeSteps

(* The answer that is heeded.                                              *)
LEMMA HeededIs ==
  ASSUME TabInv, launches # <<>>, Heeds(Head(launches))
  PROVE  /\ Waiting /\ Awaited = Head(launches) /\ Head(launches) \in LaunchStates
         /\ Len(launches) = 1 /\ Tail(launches) = <<>>
  BY HeadAwaited DEF TabInv, TabTypeOK, KeptOK, Heeds

(* It failed for now ...                                                   *)
LEMMA FailsForNowKeeps ==
  ASSUME TabInv, FailsForNow
  PROVE  TabInv'
<1>1. PICK l : l = Head(launches)
  OBVIOUS
<1>2. /\ NotRendered(l) /\ mail' = mail /\ reading' = reading /\ asked' = asked /\ UNCHANGED known
      /\ launches # <<>> /\ Heeds(l)
  BY <1>1 DEF FailsForNow
<1>3. /\ Waiting /\ Awaited = l /\ l \in LaunchStates /\ Len(launches) = 1 /\ Tail(launches) = <<>>
  BY <1>1, <1>2, HeededIs
<1>4. launches' = <<>>
  BY <1>1, <1>2, <1>3 DEF NotRendered
<1>5. FailedNow(l)
  BY <1>2, <1>3, <1>4 DEF FailedNow, known
<1> QED
  BY <1>5, FailedKeeps

(* What a refusal is.                                                      *)
LEMMA RefusalIs ==
  ASSUME TabInv, ~RetryRejects, NEW l, Refusal(l)
  PROVE  /\ Waiting /\ Awaited = l /\ l = Head(launches) /\ l \in LaunchStates
         /\ Len(launches) = 1 /\ Tail(launches) = <<>>
         /\ l.load \notin content => l.kind # "retry" \/ l.recovery
         /\ refused' = refused \cup {l.load} /\ reading' = reading /\ content' = content
         /\ line' = line /\ rendered' = rendered
<1>1. l = Head(launches) /\ launches # <<>> /\ Heeds(l)
  BY DEF Refusal
<1> QED
  BY <1>1, HeededIs DEF Refusal

(* ... or is refused, and there is nothing to go back to.                  *)
LEMMA RefusedAsFailedKeeps ==
  ASSUME TabInv, ~RetryRejects, NEW l, RefusedAsFailed(l)
  PROVE  TabInv'
<1>1. /\ Refusal(l) /\ (l.recovery \/ ~l.preserve) /\ NotRendered(l) /\ mail' = mail
      /\ asked' = asked
  BY DEF RefusedAsFailed
<1>2. /\ Waiting /\ Awaited = l /\ l = Head(launches) /\ l \in LaunchStates
      /\ Len(launches) = 1 /\ Tail(launches) = <<>>
      /\ refused' = refused \cup {l.load} /\ reading' = reading /\ content' = content
      /\ line' = line /\ rendered' = rendered
  BY <1>1, RefusalIs
<1>3. launches' = <<>>
  BY <1>1, <1>2 DEF NotRendered
<1>4. FailedNow(l)
  BY <1>1, <1>2, <1>3 DEF FailedNow
<1> QED
  BY <1>4, FailedKeeps

(* A recovery takes the place of what was refused.                         *)
LEMMA AnewIs ==
  ASSUME NEW q \in Seq(LaunchStates), Len(q) = 0, NEW x \in LaunchStates, x.current,
         launches' = Append(q, x)
  PROVE  launches' \in Seq(LaunchStates) /\ Len(launches') = 1 /\ Awaited' = x /\ Waiting'
<1>1. \A i \in 1..Len(q) : ~q[i].current
  OBVIOUS
<1>2. /\ launches' \in Seq(LaunchStates) /\ Len(launches') = Len(q) + 1
      /\ launches'[Len(launches')] = x /\ launches' # <<>>
  BY <1>1, Appended
<1> QED
  BY <1>2 DEF Awaited, Waiting

Anew(back, d, k) ==
  /\ Kept(d, k, TRUE) /\ launches' \in Seq(LaunchStates) /\ Len(launches') = 1
  /\ Awaited'.doc = d /\ Awaited'.url = back.url
  /\ tab'.view = back.view /\ tab'.url = back.url /\ tab'.busy = back.busy
  /\ tab'.undo = back.undo /\ tab'.redo = back.redo /\ tab'.pending = back.pending
  /\ back.frame = tab.frame => SameFrame

(* It takes over what the tab shows.                                       *)
LEMMA LaunchedAnew ==
  ASSUME NEW back \in TabStates, NEW d \in Numbers, NEW k \in LaunchKinds, k # "open",
         back.ready, back.url # 0, back.doc = d,
         tab' = StagedLaunch(back, d, k), launches' = Append(<<>>, Launched(back, d, k, TRUE, 0))
  PROVE  Anew(back, d, k)
<1>1. Preserves(back, k)
  BY DEF Preserves
<1>2. PICK x : x = Launched(back, d, k, TRUE, 0)
  OBVIOUS
<1>3. x \in LaunchStates /\ x.current
  <2>1. PICK fallback \in Numbers, r \in BOOLEAN : fallback = 0 /\ r = TRUE
    BY NumbersAre
  <2> QED
    BY <1>2, <2>1, LaunchedIs
<1>4. /\ x.load = d /\ x.kind = k /\ x.preserve /\ (x.recovery <=> TRUE) /\ x.doc = d
      /\ x.url = back.url
  BY <1>1, <1>2 DEF Launched
<1>5. PICK none \in Seq(LaunchStates) : none = <<>> /\ Len(none) = 0
  BY EmptySeq
<1>6. launches' \in Seq(LaunchStates) /\ Len(launches') = 1 /\ Awaited' = x /\ Waiting'
  <2>1. launches' = Append(none, x)
    BY <1>2, <1>5
  <2> QED
    BY <1>3, <1>5, <2>1, AnewIs
<1>7. /\ tab' \in TabStates /\ tab'.view = back.view /\ tab'.doc = d /\ tab'.ready
      /\ tab'.url = back.url /\ tab'.stale /\ ~tab'.retry /\ tab'.busy = back.busy
      /\ tab'.undo = back.undo /\ tab'.redo = back.redo /\ tab'.pending = back.pending
      /\ tab'.exporting = 0 /\ tab'.download = 0 /\ tab'.frame.inert
      /\ tab'.frame.doc = back.frame.doc /\ tab'.frame.picture = back.frame.picture
      /\ tab'.frame.started = back.frame.started /\ tab'.frame.synced = back.frame.synced
      /\ tab'.frame.unheard = back.frame.unheard
  BY <1>1, StagedKept
<1>8. Kept(d, k, TRUE)
  BY <1>4, <1>6, <1>7 DEF Kept
<1> QED
  BY <1>4, <1>6, <1>7, <1>8 DEF SameFrame, Anew

(* The document before an edit is rendered again.                          *)
LEMMA RecoveryIs ==
  ASSUME tab \in TabStates, NEW l \in LaunchStates, l.kind # "open", l.url # 0,
         NEW back, back = [tab EXCEPT !.doc = l.doc, !.url = l.url, !.stale = TRUE, !.ready = TRUE],
         tab' = StagedLaunch(back, l.doc, l.kind),
         launches' = Append(<<>>, Launched(back, l.doc, l.kind, TRUE, 0))
  PROVE  /\ Kept(l.doc, l.kind, TRUE) /\ SameFrame
         /\ launches' \in Seq(LaunchStates) /\ Len(launches') = 1
         /\ Awaited'.doc = l.doc /\ Awaited'.url = l.url
         /\ tab'.view = tab.view /\ tab'.url = l.url /\ tab'.busy = tab.busy
         /\ tab'.undo = tab.undo /\ tab'.redo = tab.redo /\ tab'.pending = tab.pending
<1>1. PICK d \in Numbers, u \in Numbers, k \in LaunchKinds : d = l.doc /\ u = l.url /\ k = l.kind
  BY DEF LaunchStates, LaunchKinds
<1>2. back = [tab EXCEPT !.doc = d, !.url = u, !.stale = TRUE, !.ready = TRUE]
  BY <1>1
<1>a. back \in TabStates
  BY <1>2 DEF TabStates
<1>b. /\ back.doc = d /\ back.url = u /\ back.ready /\ back.view = tab.view
      /\ back.busy = tab.busy /\ back.undo = tab.undo /\ back.redo = tab.redo
      /\ back.pending = tab.pending /\ back.frame = tab.frame
  BY <1>2 DEF TabStates
<1>3. /\ back \in TabStates /\ back.doc = d /\ back.url = u /\ back.ready /\ back.view = tab.view
      /\ back.busy = tab.busy /\ back.undo = tab.undo /\ back.redo = tab.redo
      /\ back.pending = tab.pending /\ back.frame = tab.frame
  BY <1>a, <1>b
<1>4. /\ k # "open" /\ u # 0 /\ tab' = StagedLaunch(back, d, k)
      /\ launches' = Append(<<>>, Launched(back, d, k, TRUE, 0))
  BY <1>1
<1>5. /\ Kept(d, k, TRUE) /\ launches' \in Seq(LaunchStates) /\ Len(launches') = 1
      /\ Awaited'.doc = d /\ Awaited'.url = back.url
      /\ tab'.view = back.view /\ tab'.url = back.url /\ tab'.busy = back.busy
      /\ tab'.undo = back.undo /\ tab'.redo = back.redo /\ tab'.pending = back.pending
      /\ SameFrame
  <2>1. Anew(back, d, k)
    BY <1>3, <1>4, LaunchedAnew
  <2> QED
    BY <1>3, <2>1 DEF Anew
<1> QED
  BY <1>1, <1>3, <1>5

(* What a refused edit leaves.                                             *)
GivenUp(l) ==
  /\ Waiting /\ Awaited = l /\ l \in LaunchStates /\ l.preserve /\ ~l.recovery
  /\ l.load = tab.doc /\ l.doc \notin content /\ l.url # 0
  /\ Kept(l.doc, l.kind, TRUE) /\ SameFrame /\ launches' \in Seq(LaunchStates)
  /\ Len(launches') = 1 /\ Awaited'.doc = l.doc /\ Awaited'.url = l.url
  /\ tab'.view = tab.view /\ tab'.url = l.url /\ tab'.busy = tab.busy
  /\ tab'.undo = tab.undo /\ tab'.redo = tab.redo /\ tab'.pending = tab.pending
  /\ mail' = mail /\ draft' = draft /\ asked' = asked /\ reading' = reading
  /\ content' = content /\ line' = line /\ rendered' = rendered
  /\ refused' = refused \cup {l.load}

(* The last of a sequence is one of it.                                    *)
LEMMA LastIn ==
  ASSUME NEW s \in Seq(Docs), s # <<>>
  PROVE  Last(s) \in Range(s)
<1>1. Len(s) \in 1..Len(s) /\ DOMAIN s = 1..Len(s)
  BY LenProperties, EmptySeq
<1> QED
  BY <1>1 DEF Last, Range

(* A history step that is refused ...                                      *)
LEMMA HistoryGivenUp ==
  ASSUME TabInv, Drawn, InHistory, NEW l, GivenUp(l)
  PROVE  Drawn'
<1>1. PICK p : p = l.doc
  OBVIOUS
<1>2. /\ TabTypeOK /\ LinesOK /\ tab \in TabStates /\ l.kind \in {"undo", "redo"}
      /\ HistoryOK(p) /\ Live(p) /\ tab.view = "native" /\ tab.busy /\ tab.pending = NoEdit
      /\ tab.frame.synced /\ tab[l.kind] # <<>> /\ l.load = Last(tab[l.kind])
  BY <1>1 DEF TabInv, TabTypeOK, Drawn, InHistory, GivenUp
<1>3. /\ Waiting' /\ Awaited'.load = p /\ Awaited'.kind = l.kind /\ Awaited'.preserve
      /\ Awaited'.recovery /\ tab' \in TabStates /\ Awaited'.doc = p /\ Awaited'.url # 0
      /\ tab'.doc = p /\ tab'.ready /\ tab'.stale /\ ~tab'.retry /\ tab'.exporting = 0
      /\ tab'.download = 0 /\ tab'.frame.inert /\ tab'.view = "native" /\ tab'.busy
      /\ tab'.undo = tab.undo /\ tab'.redo = tab.redo /\ tab'.pending = NoEdit
      /\ SameFrame /\ tab'.url # 0 /\ Len(launches') = 1
  BY <1>1, <1>2 DEF GivenUp, Kept
<1>4. l.load \in Known
  <2>1. tab.undo \in Seq(Docs) /\ tab.redo \in Seq(Docs)
    BY <1>2, TabIs
  <2>2. CASE l.kind = "undo"
    <3>1. tab.undo # <<>> /\ l.load = Last(tab.undo)
      BY <1>2, <2>2
    <3> QED
      BY <2>1, <3>1, LastIn DEF Known
  <2>3. CASE l.kind = "redo"
    <3>1. tab.redo # <<>> /\ l.load = Last(tab.redo)
      BY <1>2, <2>3
    <3> QED
      BY <2>1, <3>1, LastIn DEF Known
  <2> QED
    BY <1>2, <2>2, <2>3
<1>5. /\ mail' = mail /\ asked' = asked /\ content' = content /\ line' = line
      /\ \A x \in refused' : x \in Known \/ x = p
  BY <1>4 DEF GivenUp, Known
<1>6. Live(p)'
  BY <1>2, <1>3, <1>5, LiveRefuses
<1>7. HistoryOK(p)'
  BY <1>2, <1>3, <1>5, HistoryFrom DEF HistoryOK
<1>8. HistoryOK(Awaited.doc)' /\ Live(Awaited.doc)'
  BY <1>3, <1>6, <1>7
<1>9. OneOf(tab.doc)' /\ tab'.doc \notin content' /\ Canvas(tab.doc)'
  <2>1. OneOf(p)' /\ p \notin content'
    BY <1>7 DEF HistoryOK
  <2> QED
    BY <1>3, <2>1 DEF OneOf, Canvas
<1>10. tab'.frame.synced
  BY <1>2, <1>3 DEF SameFrame
<1>11. Locked' /\ AnswerAwaited'
  BY <1>3 DEF Locked, NoExport, AnswerAwaited
<1>12. InHistory'
  BY <1>2, <1>3, <1>8, <1>9, <1>10, <1>11 DEF InHistory
<1> QED
  BY <1>3, <1>9, <1>12 DEF Drawn

(* ... and an edit that is refused are given up.                           *)
LEMMA EditGivenUp ==
  ASSUME TabInv, Drawn, InEdit, NEW l, GivenUp(l), l.kind = "rebuild"
  PROVE  Drawn'
<1>1. PICK p, q : p = tab.pending.previous /\ q = tab.pending.incoming
  OBVIOUS
<1>2. /\ TabTypeOK /\ LinesOK /\ tab \in TabStates /\ tab.view = "native" /\ tab.busy
      /\ l.doc = p /\ HistoryOK(p) /\ Canvas(q) /\ Before(p, q)
  BY <1>1 DEF TabInv, TabTypeOK, Drawn, InEdit, GivenUp, EditKept
<1>3. /\ Waiting' /\ Awaited'.load = p /\ Awaited'.kind = "rebuild" /\ Awaited'.preserve
      /\ tab' \in TabStates /\ Awaited'.doc = p /\ Awaited'.url # 0
      /\ tab'.doc = p /\ tab'.ready /\ tab'.stale /\ ~tab'.retry /\ tab'.exporting = 0
      /\ tab'.download = 0 /\ tab'.frame.inert /\ tab'.view = "native" /\ tab'.busy
      /\ tab'.undo = tab.undo /\ tab'.redo = tab.redo /\ tab'.pending = tab.pending
      /\ tab'.url # 0 /\ Len(launches') = 1
  BY <1>1, <1>2 DEF GivenUp, Kept
<1>4. mail' = mail /\ asked' = asked /\ content' = content /\ line' = line
  BY DEF GivenUp
<1>5. HistoryOK(p)'
  BY <1>2, <1>3, <1>4, HistoryFrom DEF HistoryOK
<1>6. Canvas(q)' /\ Before(p, q)' /\ p # q
  BY <1>2, <1>4 DEF Canvas, Made, Before
<1>7. EditKept'
  BY <1>1, <1>3, <1>5, <1>6 DEF EditKept
<1>8. Locked' /\ AnswerAwaited'
  BY <1>3 DEF Locked, NoExport, AnswerAwaited
<1>9. InEdit'
  BY <1>1, <1>3, <1>7, <1>8 DEF InEdit
<1>10. Canvas(p)'
  BY <1>5 DEF HistoryOK, OneOf, Canvas
<1> QED
  BY <1>3, <1>9, <1>10 DEF Drawn

(* An edit of a canvas is refused.                                         *)
LEMMA EditRefusedKeeps ==
  ASSUME TabInv, ~RetryRejects, NEW l, EditRefused(l)
  PROVE  TabInv'
<1>1. PICK back : back = [tab EXCEPT !.doc = l.doc, !.url = l.url, !.stale = TRUE, !.ready = TRUE]
  OBVIOUS
<1>2. /\ Refusal(l) /\ l.preserve /\ ~l.recovery /\ l.doc \notin content
      /\ tab' = StagedLaunch(back, l.doc, l.kind)
      /\ launches' = Append(Tail(launches), Launched(back, l.doc, l.kind, TRUE, 0))
      /\ mail' = mail /\ draft' = draft /\ asked' = asked
  BY <1>1 DEF EditRefused
<1>3. /\ Waiting /\ Awaited = l /\ l \in LaunchStates /\ Tail(launches) = <<>>
      /\ l.load \notin content => l.kind # "retry" \/ l.recovery
      /\ refused' = refused \cup {l.load} /\ reading' = reading /\ content' = content
      /\ line' = line /\ rendered' = rendered
  BY <1>2, RefusalIs
<1>4. /\ TabTypeOK /\ LinesOK /\ KeptOK /\ tab \in TabStates /\ mail \in Seq(FrameMessages)
      /\ asked \in Numbers /\ rendered \subseteq Docs
  BY DEF TabInv, TabTypeOK
<1>5. /\ tab.view = "native" /\ (Opening \/ Represented \/ (Drawn /\ (InHistory \/ InEdit)))
      /\ l.load = tab.doc /\ Made(tab.doc)
  BY <1>3, WaitsNative
<1>6. Drawn /\ (InHistory \/ (InEdit /\ l.kind = "rebuild"))
  <2>1. ~Opening /\ ~Represented
    BY <1>2, <1>3 DEF Opening, Represented
  <2>2. Drawn /\ InEdit => l.kind = "rebuild"
    BY <1>2, <1>3, <1>5 DEF Drawn, Canvas, InEdit
  <2> QED
    BY <1>5, <2>1, <2>2
<1>7. l.kind # "open" /\ l.url # 0
  BY <1>3, <1>6 DEF InHistory, InEdit, AnswerAwaited
<1>8. launches' = Append(<<>>, Launched(back, l.doc, l.kind, TRUE, 0))
  BY <1>2, <1>3
<1>9. /\ Kept(l.doc, l.kind, TRUE) /\ SameFrame
      /\ launches' \in Seq(LaunchStates) /\ Len(launches') = 1
      /\ Awaited'.doc = l.doc /\ Awaited'.url = l.url
      /\ tab'.view = tab.view /\ tab'.url = l.url /\ tab'.busy = tab.busy
      /\ tab'.undo = tab.undo /\ tab'.redo = tab.redo /\ tab'.pending = tab.pending
  BY <1>1, <1>2, <1>3, <1>4, <1>7, <1>8, RecoveryIs
<1>10. GivenUp(l)
  BY <1>2, <1>3, <1>5, <1>7, <1>9 DEF GivenUp
<1>11. Drawn'
  BY <1>6, <1>10, HistoryGivenUp, EditGivenUp
<1>12. DraftKept'
  BY <1>2, <1>3, DraftStays
<1>13. \A i \in 1..(Len(launches') - 1) : ~launches'[i].current
  <2>1. \A i \in 1..(1 - 1) : FALSE
    OBVIOUS
  <2> QED
    BY <1>9, <2>1
<1>14. tab' \in TabStates /\ \A x \in refused' : x \in refused \/ Made(x)
  BY <1>3, <1>5, <1>9 DEF Kept
<1> QED
  BY <1>2, <1>3, <1>4, <1>5, <1>9, <1>11, <1>12, <1>13, <1>14, NativeSteps

(* The last representation that was rendered is shown again.               *)
LEMMA ContentRefusedKeeps ==
  ASSUME TabInv, ~RetryRejects, NEW l, ContentRefused(l)
  PROVE  TabInv'
<1>1. PICK back : back = [tab EXCEPT !.doc = l.valid, !.url = l.url, !.stale = FALSE,
                                     !.ready = TRUE, !.retry = FALSE]
  OBVIOUS
<1>2. /\ Refusal(l) /\ l.preserve /\ ~l.recovery /\ l.doc \in content
      /\ tab' = ReplaceEditorFrame(back, l.url) /\ draft' = Stored(l.valid, 0)
      /\ launches' = Tail(launches) /\ mail' = <<>> /\ asked' = asked
  BY <1>1 DEF ContentRefused
<1>3. /\ Waiting /\ Awaited = l /\ l \in LaunchStates /\ Tail(launches) = <<>>
      /\ l.load \notin content => l.kind # "retry" \/ l.recovery
      /\ refused' = refused \cup {l.load} /\ reading' = reading /\ content' = content
      /\ line' = line /\ rendered' = rendered
  BY <1>2, RefusalIs
<1>4. /\ TabTypeOK /\ LinesOK /\ tab \in TabStates /\ asked \in Numbers /\ rendered \subseteq Docs
  BY DEF TabInv, TabTypeOK
<1>5. /\ tab.view = "native" /\ (Opening \/ Represented \/ (Drawn /\ (InHistory \/ InEdit)))
      /\ l.load = tab.doc /\ Made(tab.doc)
  BY <1>3, WaitsNative
<1>6. Represented
  <2>1. ~Opening
    BY <1>2, <1>3 DEF Opening
  <2>2. ~(Drawn /\ InHistory)
    BY <1>2, <1>3 DEF InHistory, HistoryOK
  <2>3. ~(Drawn /\ InEdit)
    BY <1>2, <1>3, <1>5 DEF Drawn, Canvas, InEdit, EditKept, HistoryOK
  <2> QED
    BY <1>5, <2>1, <2>2, <2>3
<1>7. PICK u \in Numbers : u = tab.url
  BY <1>4, TabIs
<1>8. /\ l.url = u /\ l.valid = u /\ tab.valid = u /\ Shows(u) /\ Plain /\ NoExport
      /\ tab.view = "native"
  BY <1>3, <1>6, <1>7 DEF Represented
<1>9. back = [tab EXCEPT !.doc = u, !.url = u, !.stale = FALSE, !.ready = TRUE, !.retry = FALSE]
  BY <1>1, <1>8
<1>10. /\ back \in TabStates /\ back.view = tab.view /\ back.doc = u /\ back.url = u
       /\ back.valid = tab.valid /\ back.ready /\ ~back.stale /\ back.busy = tab.busy
       /\ back.undo = tab.undo /\ back.redo = tab.redo /\ back.pending = tab.pending
       /\ back.exporting = tab.exporting /\ back.download = tab.download
  BY <1>4, <1>9 DEF TabStates
<1>11. tab' = ReplaceEditorFrame(back, u)
  BY <1>2, <1>8
<1>12. /\ tab' \in TabStates /\ tab'.view = back.view /\ tab'.doc = u /\ tab'.url = u
       /\ tab'.valid = back.valid /\ tab'.ready /\ ~tab'.stale /\ tab'.busy = back.busy
       /\ tab'.undo = back.undo /\ tab'.redo = back.redo /\ tab'.pending = back.pending
       /\ tab'.exporting = back.exporting /\ tab'.download = back.download
       /\ tab'.frame.doc = u /\ tab'.frame.picture = u /\ ~tab'.frame.started
  BY <1>10, <1>11, ReplacedFrame
<1>13. Plain'
  BY <1>2, <1>8, <1>10, <1>12 DEF Plain
<1>14. NoExport'
  BY <1>8, <1>10, <1>12 DEF NoExport
<1>15. u \in content' /\ OneOf(u)' /\ Shows(u)'
  BY <1>2, <1>3, <1>8 DEF Shows, OneOf, Made
<1>16. launches' = <<>> /\ ~Waiting'
  BY <1>2, <1>3 DEF Waiting
<1>17. draft' = Stored(u, 0) /\ draft'.doc = u
  BY <1>2, <1>8 DEF Stored
<1>18. tab'.view = "native" /\ tab'.valid = u
  BY <1>8, <1>10, <1>12
<1>19. Represented'
  BY <1>12, <1>13, <1>14, <1>15, <1>16, <1>17, <1>18 DEF Represented, NoExport
<1>20. DraftKept'
  <2>1. PICK v \in Numbers : v = 0
    BY NumbersAre
  <2>2. draft' = Stored(u, v) /\ Made(u) /\ u \in rendered' /\ line' = line /\ content' = content
    BY <1>3, <1>8, <1>17, <2>1 DEF Shows, OneOf
  <2> QED
    BY <2>1, <2>2, DraftStored
<1>21. /\ launches' \in Seq(LaunchStates) /\ \A i \in 1..(Len(launches') - 1) : ~launches'[i].current
  <2>1. \A i \in 1..(0 - 1) : FALSE
    OBVIOUS
  <2> QED
    BY <1>16, <2>1, EmptySeq
<1>22. mail' \in Seq(FrameMessages) /\ \A x \in refused' : x \in refused \/ Made(x)
  BY <1>2, <1>3, <1>5, EmptySeq
<1> QED
  BY <1>2, <1>3, <1>4, <1>5, <1>12, <1>19, <1>20, <1>21, <1>22, NativeSteps

(* The document stored with the draft is opened.                           *)
LEMMA DraftRefusedKeeps ==
  ASSUME TabInv, ~RetryRejects, NEW l, DraftRefused(l)
  PROVE  TabInv'
<1>1. /\ Refusal(l) /\ ~l.preserve /\ l.fallback # 0
      /\ tab' = StagedLaunch(tab, l.fallback, "open")
      /\ launches' = Append(Tail(launches), Launched(tab, l.fallback, "open", TRUE, 0))
      /\ asked' = l.fallback /\ mail' = <<>> /\ draft' = draft
  BY DEF DraftRefused
<1>2. /\ Waiting /\ Awaited = l /\ l \in LaunchStates /\ Tail(launches) = <<>>
      /\ refused' = refused \cup {l.load} /\ reading' = reading /\ content' = content
      /\ line' = line /\ rendered' = rendered
  BY <1>1, RefusalIs
<1>3. /\ TabTypeOK /\ LinesOK /\ tab \in TabStates /\ rendered \subseteq Docs
  BY DEF TabInv, TabTypeOK
<1>4. /\ tab.view = "native" /\ (Opening \/ Represented \/ (Drawn /\ (InHistory \/ InEdit)))
      /\ l.load = tab.doc /\ Made(tab.doc)
  BY <1>2, WaitsNative
<1>5. Opening
  BY <1>1, <1>2, <1>4 DEF Represented, InHistory, InEdit, AnswerAwaited
<1>6. PICK f \in Numbers : f = l.fallback
  BY <1>2 DEF LaunchStates
<1>7. Made(f)
  BY <1>1, <1>2, <1>5, <1>6 DEF Opening
<1>8. ~Preserves(tab, "open")
  BY DEF Preserves
<1>9. PICK x : x = Launched(tab, f, "open", TRUE, 0)
  OBVIOUS
<1>10. /\ x.load = f /\ x.kind = "open" /\ ~x.preserve /\ x.fallback = 0
  BY <1>8, <1>9 DEF Launched
<1>11. x \in LaunchStates /\ x.current
  <2>1. PICK z \in Numbers, r \in BOOLEAN, k \in LaunchKinds : z = 0 /\ r = TRUE /\ k = "open"
    BY NumbersAre DEF LaunchKinds
  <2>2. x = Launched(tab, f, k, r, z)
    BY <1>9, <2>1
  <2> QED
    BY <1>3, <2>2, LaunchedIs
<1>12. launches' \in Seq(LaunchStates) /\ Len(launches') = 1 /\ Awaited' = x /\ Waiting'
  <2>1. PICK none \in Seq(LaunchStates) : none = <<>> /\ Len(none) = 0
    BY EmptySeq
  <2>2. launches' = Append(none, x)
    BY <1>1, <1>2, <1>6, <1>9, <2>1
  <2> QED
    BY <1>11, <2>1, <2>2, AnewIs
<1>13. tab' = StagedLaunch(tab, f, "open")
  BY <1>1, <1>6
<1>14. /\ tab' \in TabStates /\ tab'.view = "native" /\ tab'.doc = f /\ ~tab'.ready /\ ~tab'.stale
       /\ ~tab'.busy /\ tab'.pending = NoEdit /\ tab'.undo = <<>> /\ tab'.redo = <<>>
       /\ tab'.exporting = 0 /\ tab'.download = 0 /\ tab'.frame.doc = 0 /\ ~tab'.frame.started
  BY <1>3, <1>8, <1>13, StagedFresh
<1>15. OneOf(f)'
  BY <1>1, <1>2, <1>3, <1>6, <1>7 DEF OneOf, Made, LinesOK
<1>16. Plain' /\ NoExport'
  BY <1>1, <1>14 DEF Plain, NoExport
<1>17. OneOf(tab.doc)' /\ Awaited'.load = tab'.doc
  <2>1. OneOf(f)' => OneOf(tab.doc)'
    BY <1>14 DEF OneOf
  <2> QED
    BY <1>10, <1>12, <1>14, <1>15, <2>1
<1>18. Opening'
  BY <1>10, <1>12, <1>14, <1>16, <1>17 DEF Opening
<1>19. DraftKept'
  BY <1>1, <1>2, DraftStays
<1>20. \A i \in 1..(Len(launches') - 1) : ~launches'[i].current
  <2>1. \A i \in 1..(1 - 1) : FALSE
    OBVIOUS
  <2> QED
    BY <1>12, <2>1
<1>21. /\ mail' \in Seq(FrameMessages) /\ asked' \in Numbers
       /\ \A y \in refused' : y \in refused \/ Made(y)
  BY <1>1, <1>2, <1>4, <1>6, EmptySeq
<1> QED
  BY <1>2, <1>3, <1>4, <1>12, <1>14, <1>18, <1>19, <1>20, <1>21, NativeSteps

-----------------------------------------------------------------------------
(* What the user finds.                                                    *)

(* A history is a chain.                                                   *)
Chained(chain) ==
  \A i \in 1..(Len(chain) - 1) : chain[i] # chain[i + 1] /\ chain[i] \in line[chain[i + 1]]

(* What can be undone, the present one and what can be redone.             *)
LEMMA ChainIs ==
  ASSUME NEW u \in Seq(Docs), NEW r \in Seq(Docs), NEW p \in Docs, Leads(u, p), Follows(r, p),
         NEW chain, chain = u \o <<p>> \o Reverse(r)
  PROVE  Len(chain) = Len(u) + 1 + Len(r) /\ Chained(chain)
<1>1. PICK n, m : n = Len(u) /\ m = Len(r)
  OBVIOUS
<1>2. n \in Nat /\ m \in Nat
  BY <1>1, LenProperties
<1>3. PICK v : v = Reverse(r)
  OBVIOUS
<1>4. /\ v \in Seq(Docs) /\ Len(v) = m /\ \A j \in 1..m : v[j] = r[(m - j) + 1]
  <2>1. v = [j \in 1..m |-> r[(m - j) + 1]]
    BY <1>1, <1>3 DEF Reverse
  <2>2. \A j \in 1..m : (m - j) + 1 \in 1..m
    BY <1>2
  <2>3. \A j \in 1..m : r[j] \in Docs
    BY <1>1, ElementOfSeq
  <2>4. v \in [1..m -> Docs]
    BY <2>1, <2>2, <2>3
  <2> QED
    BY <1>2, <2>1, <2>4, SeqDef, LenProperties
<1>5. PICK one \in Seq(Docs) : one = <<p>> /\ Len(one) = 1 /\ one[1] = p
  <2>1. <<p>> \in Seq(Docs)
    OBVIOUS
  <2>2. Len(<<p>>) = 1 /\ <<p>>[1] = p
    OBVIOUS
  <2> QED
    BY <2>1, <2>2
<1>6. PICK w : w = u \o one
  OBVIOUS
<1>7. /\ w \in Seq(Docs) /\ Len(w) = n + 1 /\ w[n + 1] = p /\ \A i \in 1..n : w[i] = u[i]
  <2>1. /\ w \in Seq(Docs) /\ Len(w) = Len(u) + Len(one)
        /\ \A i \in 1..(Len(u) + Len(one)) : w[i] = IF i <= Len(u) THEN u[i] ELSE one[i - Len(u)]
    BY <1>6, ConcatProperties
  <2>2. \A i \in 1..n : i \in 1..(n + 1) /\ i <= n
    BY <1>2
  <2>3. n + 1 \in 1..(n + 1) /\ ~(n + 1 <= n) /\ (n + 1) - n = 1
    BY <1>2
  <2> QED
    BY <1>1, <1>5, <2>1, <2>2, <2>3
<1>8. /\ Len(chain) = n + 1 + m
      /\ \A i \in 1..(n + 1) : chain[i] = w[i]
      /\ \A i \in (n + 2)..(n + 1 + m) : chain[i] = v[i - (n + 1)]
  <2>1. chain = w \o v
    BY <1>3, <1>5, <1>6
  <2>2. /\ Len(chain) = Len(w) + Len(v)
        /\ \A i \in 1..(Len(w) + Len(v)) : chain[i] = IF i <= Len(w) THEN w[i] ELSE v[i - Len(w)]
    <3>1. /\ Len(w \o v) = Len(w) + Len(v)
          /\ \A i \in 1..(Len(w) + Len(v)) :
               (w \o v)[i] = IF i <= Len(w) THEN w[i] ELSE v[i - Len(w)]
      <4>1. w \in Seq(Docs) /\ v \in Seq(Docs)
        BY <1>4, <1>7
      <4> QED
        BY <4>1, ConcatProperties
    <3> QED
      BY <2>1, <3>1
  <2>3. \A i \in 1..(n + 1) : i \in 1..((n + 1) + m) /\ i <= n + 1
    BY <1>2
  <2>4. \A i \in (n + 2)..(n + 1 + m) : i \in 1..((n + 1) + m) /\ ~(i <= n + 1)
    BY <1>2
  <2> QED
    BY <1>4, <1>7, <2>2, <2>3, <2>4
<1>9. /\ \A i \in 1..n : Before(u[i], IF i = n THEN p ELSE u[i + 1])
      /\ \A i \in 1..m : Before(IF i = m THEN p ELSE r[i + 1], r[i])
  BY <1>1 DEF Leads, Follows
<1>10. ASSUME NEW i \in 1..(n + m)
       PROVE  Before(chain[i], chain[i + 1])
  <2>1. CASE i < n
    <3>1. i \in 1..n /\ i + 1 \in 1..n /\ i # n /\ i \in 1..(n + 1) /\ i + 1 \in 1..(n + 1)
      BY <1>2, <2>1
    <3>2. chain[i] = u[i] /\ chain[i + 1] = u[i + 1]
      BY <1>7, <1>8, <3>1
    <3> QED
      BY <1>9, <3>1, <3>2
  <2>2. CASE i = n
    <3>1. i \in 1..n /\ i \in 1..(n + 1) /\ i + 1 \in 1..(n + 1)
      BY <1>2, <2>2
    <3>2. chain[i] = u[i] /\ chain[i + 1] = p
      BY <1>7, <1>8, <2>2, <3>1
    <3> QED
      BY <1>9, <2>2, <3>1, <3>2
  <2>3. CASE i = n + 1
    <3>1. /\ i \in 1..(n + 1) /\ i + 1 \in (n + 2)..(n + 1 + m) /\ (i + 1) - (n + 1) = 1
          /\ 1 \in 1..m /\ (m - 1) + 1 = m /\ m \in 1..m
      BY <1>2, <2>3
    <3>2. chain[i] = p /\ chain[i + 1] = r[m]
      <4>1. chain[i] = p
        BY <1>7, <1>8, <2>3, <3>1
      <4>2. chain[i + 1] = v[1]
        BY <1>8, <3>1
      <4>3. v[1] = r[m]
        BY <1>4, <3>1
      <4> QED
        BY <4>1, <4>2, <4>3
    <3> QED
      BY <1>9, <3>1, <3>2
  <2>4. CASE i > n + 1
    <3>1. PICK j : j = i - (n + 1)
      OBVIOUS
    <3>2. /\ i \in (n + 2)..(n + 1 + m) /\ i + 1 \in (n + 2)..(n + 1 + m)
          /\ j \in 1..m /\ j + 1 \in 1..m /\ (i + 1) - (n + 1) = j + 1
          /\ m - j \in 1..m /\ m - j # m /\ (m - (j + 1)) + 1 = m - j
      BY <1>2, <2>4, <3>1
    <3>3. chain[i] = r[(m - j) + 1] /\ chain[i + 1] = r[m - j]
      <4>1. chain[i] = v[j] /\ chain[i + 1] = v[j + 1]
        BY <1>8, <3>1, <3>2
      <4>2. v[j] = r[(m - j) + 1] /\ v[j + 1] = r[m - j]
        BY <1>4, <3>2
      <4> QED
        BY <4>1, <4>2
    <3> QED
      BY <1>9, <3>2, <3>3
  <2>5. i < n \/ i = n \/ i = n + 1 \/ i > n + 1
    BY <1>2
  <2> QED
    BY <2>1, <2>2, <2>3, <2>4, <2>5
<1>11. 1..(Len(chain) - 1) = 1..(n + m) /\ n + 1 + m = Len(u) + 1 + Len(r)
  BY <1>1, <1>2, <1>8
<1> QED
  BY <1>8, <1>10, <1>11 DEF Before, Chained

(* Nothing is awaited.                                                     *)
LEMMA QuietIs ==
  ASSUME TabTypeOK, KeptOK, Quiet
  PROVE  tab.view = "native" /\ ~Waiting
<1>1. launches # <<>> => Len(launches) \in DOMAIN launches
  BY LenProperties, EmptySeq DEF TabTypeOK
<1> QED
  BY <1>1 DEF Quiet, Waiting, Awaited

(* The states of a tab where nothing is awaited.                           *)
LEMMA QuietInv ==
  ASSUME TabInv, Quiet
  PROVE  Represented \/ (Drawn /\ AtRest) \/ (Drawn /\ EditFailed)
<1>1. tab.view = "native" /\ ~Waiting
  BY QuietIs DEF TabInv
<1> QED
  BY <1>1 DEF TabInv, Away, Opening, Drawn, InHistory, InEdit, AnswerAwaited

(* What is shown is the document opened last, or is locked.                *)
Shown ==
  /\ tab.ready /\ ~tab.busy
  /\ asked \in line[tab.doc]
  /\ IF tab.stale
     THEN tab.retry /\ tab.frame.inert /\ draft.doc = tab.doc
     ELSE mail = <<>> /\ (tab.frame.started \/ tab.doc \in content) =>
            /\ tab.frame.started => ~tab.frame.inert /\ tab.frame.synced
            /\ ~tab.frame.unheard => tab.frame.doc = tab.doc /\ draft.doc = tab.doc

(* Where nothing is awaited, the tab is usable.                            *)
LEMMA ShownWhenQuiet ==
  ASSUME TabInv, Quiet
  PROVE  Shown
<1>1. tab.view = "native" /\ ~Waiting /\ TabTypeOK /\ LinesOK
  BY QuietIs DEF TabInv
<1>2. CASE Represented
  BY <1>1, <1>2 DEF Represented, Plain, OneOf, Shown
<1>3. CASE Drawn /\ AtRest
  <2>1. PICK d : d = tab.doc
    OBVIOUS
  <2>2. /\ tab.ready /\ ~tab.busy /\ ~tab.stale /\ OneOf(d) /\ d \notin content /\ Live(d)
        /\ (tab.frame.synced => draft.doc = d /\ ~tab.frame.inert)
    BY <1>3, <2>1 DEF Drawn, AtRest, HistoryOK
  <2>3. ASSUME mail = <<>>, tab.frame.started
        PROVE  /\ ~tab.frame.inert /\ tab.frame.synced
               /\ ~tab.frame.unheard => tab.frame.doc = d /\ draft.doc = d
    <3>1. <<[event |-> "startup", doc |-> d]>> # <<>>
      OBVIOUS
    <3>2. tab.frame.synced
      BY <2>2, <2>3, <3>1 DEF Live
    <3>3. \A i \in 1..Len(mail) : FALSE
      <4>1. Len(mail) = 0
        BY <2>3
      <4> QED
        BY <4>1
    <3>4. ~tab.frame.unheard => Silent
      BY <3>3 DEF Silent
    <3> QED
      BY <2>2, <3>2, <3>4 DEF Live
  <2> QED
    BY <2>1, <2>2, <2>3 DEF OneOf, Shown
<1>4. CASE Drawn /\ EditFailed
  <2>1. PICK p, q : p = tab.pending.previous /\ q = tab.pending.incoming
    OBVIOUS
  <2>2. OneOf(p) /\ Canvas(q) /\ Before(p, q) /\ tab.doc \in {p, q}
    BY <1>4, <2>1 DEF EditFailed, EditKept, HistoryOK
  <2>3. asked \in line[p] /\ asked \in line[q]
    BY <1>1, <2>2 DEF OneOf, Before, Canvas, Made, LinesOK
  <2> QED
    BY <1>4, <2>2, <2>3 DEF Drawn, EditFailed, Locked, Shown
<1> QED
  BY <1>2, <1>3, <1>4, QuietInv

(* The document the history leads to.                                      *)
LEMMA QuietHistory ==
  ASSUME TabInv, Quiet,
         NEW present, present = IF tab.pending = NoEdit THEN tab.doc ELSE tab.pending.previous
  PROVE  /\ present \in Docs /\ Leads(tab.undo, present) /\ Follows(tab.redo, present)
         /\ Len(tab.undo) + Len(tab.redo) <= HistoryMax
<1>1. CASE Represented
  <2>1. present = tab.doc /\ tab.undo = <<>> /\ tab.redo = <<>> /\ present \in Docs
    BY <1>1 DEF Represented, Plain, OneOf, Made
  <2>2. Len(tab.undo) = 0 /\ Len(tab.redo) = 0 /\ \A i \in 1..0 : FALSE
    BY <2>1
  <2>3. 0 + 0 <= HistoryMax
    BY EditorTabAssumption
  <2> QED
    BY <2>1, <2>2, <2>3 DEF Leads, Follows
<1>2. CASE Drawn /\ AtRest
  <2>1. present = tab.doc /\ HistoryOK(tab.doc)
    BY <1>2 DEF AtRest
  <2>2. HistoryOK(present)
    BY <2>1
  <2> QED
    BY <2>2 DEF HistoryOK, OneOf, Made
<1>3. CASE Drawn /\ EditFailed
  <2>1. tab.pending # NoEdit /\ HistoryOK(tab.pending.previous)
    BY <1>3, Pending DEF EditFailed, EditKept
  <2>2. HistoryOK(present)
    BY <2>1
  <2> QED
    BY <2>2 DEF HistoryOK, OneOf, Made
<1> QED
  BY <1>1, <1>2, <1>3, QuietInv

(* Its history is a chain.                                                 *)
LEMMA HistoryIsChained ==
  ASSUME TabInv
  PROVE  HistoryChained
<1> SUFFICES ASSUME Quiet PROVE HistoryChained
  BY DEF HistoryChained
<1>1. PICK present : present = IF tab.pending = NoEdit THEN tab.doc ELSE tab.pending.previous
  OBVIOUS
<1>2. PICK chain : chain = tab.undo \o <<present>> \o Reverse(tab.redo)
  OBVIOUS
<1>3. /\ present \in Docs /\ Leads(tab.undo, present) /\ Follows(tab.redo, present)
      /\ Len(tab.undo) + Len(tab.redo) <= HistoryMax
  BY <1>1, QuietHistory
<1>4. tab.undo \in Seq(Docs) /\ tab.redo \in Seq(Docs)
  BY TabIs DEF TabInv, TabTypeOK
<1>5. Len(chain) = Len(tab.undo) + 1 + Len(tab.redo) /\ Chained(chain)
  <2>1. PICK u \in Seq(Docs), r \in Seq(Docs) : u = tab.undo /\ r = tab.redo
    BY <1>4
  <2>2. Leads(u, present) /\ Follows(r, present) /\ chain = u \o <<present>> \o Reverse(r)
    BY <1>2, <1>3, <2>1
  <2>3. Len(chain) = Len(u) + 1 + Len(r) /\ Chained(chain)
    BY <1>3, <2>2, ChainIs
  <2> QED
    BY <2>1, <2>3
<1>6. Len(chain) <= HistoryMax + 1
  <2>1. PICK n \in Nat, m \in Nat : n = Len(tab.undo) /\ m = Len(tab.redo)
    BY <1>4, LenProperties
  <2>2. n + m <= HistoryMax /\ Len(chain) = n + 1 + m /\ HistoryMax \in Nat
    BY <1>3, <1>5, <2>1, EditorTabAssumption
  <2>3. n + 1 + m <= HistoryMax + 1
    BY <2>2
  <2> QED
    BY <2>2, <2>3
<1> QED
  BY <1>1, <1>2, <1>5, <1>6 DEF HistoryChained, Chained

(* The invariant has what is promised.                                     *)
LEMMA InvUsable ==
  ASSUME TabInv
  PROVE  EditorUsable
<1>1. Quiet => Shown
  BY ShownWhenQuiet
<1>2. HistoryChained
  BY HistoryIsChained
<1>3. RejectedDiscarded
  <2>1. Represented \/ AtRest => tab.pending = NoEdit
    BY DEF Represented, Plain, AtRest
  <2>2. EditFailed => tab.doc # tab.pending.incoming \/ tab.doc \notin refused
    BY DEF EditFailed, EditKept
  <2> QED
    BY <2>1, <2>2, QuietInv DEF RejectedDiscarded
<1>4. DownloadCurrent
  <2> SUFFICES ASSUME tab.view = "native", tab.download # 0, mail = <<>>, ~tab.frame.unheard
               PROVE  ~tab.stale /\ tab.download = tab.doc
    BY DEF DownloadCurrent
  <2>1. ~Away /\ ~Opening
    BY DEF Away, Opening, NoExport
  <2>2. CASE Represented
    BY <2>2 DEF Represented, NoExport
  <2>3. CASE Drawn
    <3>1. AtRest
      BY <2>3 DEF Drawn, InHistory, InEdit, EditFailed, Locked, NoExport
    <3>2. \A i \in 1..Len(mail) : FALSE
      <4>1. Len(mail) = 0
        OBVIOUS
      <4> QED
        BY <4>1
    <3>3. Silent
      BY <3>2 DEF Silent
    <3> QED
      BY <3>1, <3>3 DEF AtRest, Live
  <2> QED
    BY <2>1, <2>2, <2>3 DEF TabInv
<1>5. DraftOpens
  BY DEF TabInv, KeptOK
<1> QED
  BY <1>1, <1>2, <1>3, <1>4, <1>5 DEF EditorUsable, Shown

-----------------------------------------------------------------------------
(* The invariant holds in the tab that has been loaded ...                 *)
LEMMA TabInvInit ==
  ASSUME TabInit
  PROVE  TabInv
<1>1. PICK f, none, e :
        /\ f = [doc |-> 0, picture |-> 0, started |-> FALSE, synced |-> FALSE,
                inert |-> FALSE, unheard |-> FALSE]
        /\ none = <<>> /\ e = NoEdit
  OBVIOUS
<1>2. f \in FrameStates /\ f.doc = 0 /\ ~f.started
  BY <1>1, NumbersAre DEF FrameStates
<1>3. none \in Seq(Docs) /\ e \in EditPairs
  BY <1>1, EmptySeq, NoEditIs
<1>4. tab = [view |-> "start", doc |-> 0, url |-> 0, ready |-> FALSE, stale |-> FALSE,
             valid |-> 0, retry |-> FALSE, busy |-> FALSE, undo |-> none, redo |-> none,
             pending |-> e, exporting |-> 0, download |-> 0, frame |-> f]
  BY <1>1 DEF TabInit
<1>5. /\ tab \in TabStates /\ tab.view = "start" /\ ~tab.ready /\ ~tab.busy
      /\ tab.undo = none /\ tab.redo = none /\ tab.pending = e /\ tab.frame = f
  BY <1>2, <1>3, <1>4, NumbersAre DEF TabStates
<1>6. /\ launches = <<>> /\ mail = <<>> /\ draft = Stored(0, 0) /\ reading = 0 /\ asked = 0
      /\ line = [d \in Docs |-> {}] /\ content = {} /\ rendered = {} /\ refused = {}
  BY DEF TabInit
<1>7. draft \in [doc : Numbers, valid : Numbers] /\ draft.doc = 0 /\ draft.valid = 0
  BY <1>6, NumbersAre DEF Stored
<1>8. TabTypeOK
  <2>1. launches \in Seq(LaunchStates) /\ mail \in Seq(FrameMessages)
    BY <1>6, EmptySeq
  <2>2. line \in [Docs -> SUBSET Docs]
    BY <1>6
  <2> QED
    BY <1>5, <1>6, <1>7, <2>1, <2>2, NumbersAre DEF TabTypeOK
<1>9. LinesOK
  <2>1. \A d \in Docs : line[d] = {}
    BY <1>6
  <2> QED
    BY <1>6, <2>1 DEF LinesOK
<1>10. KeptOK
  <2>1. \A i \in 1..(Len(launches) - 1) : FALSE
    <3>1. Len(launches) = 0
      BY <1>6
    <3> QED
      BY <3>1
  <2> QED
    BY <1>6, <1>7, <2>1 DEF KeptOK, DraftOpens
<1>11. Away
  BY <1>1, <1>2, <1>5, <1>6 DEF Away, Waiting, Plain
<1> QED
  BY <1>8, <1>9, <1>10, <1>11 DEF TabInv

(* ... is kept by every step ...                                           *)
LEMMA TabInvNext ==
  ASSUME TabInv, ~RetryRejects, TabNext
  PROVE  TabInv'
<1>1. CASE \E d \in Docs : OpenPasted(d) \/ PickFile(d) \/ SaveContent(d)
  BY <1>1, OpenPastedKeeps, PickFileKeeps, SaveContentKeeps
<1>2. CASE RestoreDraft \/ FileRead \/ FileRejected \/ ShowStart \/ LaunchLegacy
  BY <1>2, RestoreDraftKeeps, FileReadKeeps, FileRejectedKeeps, ShowStartKeeps, LaunchLegacyKeeps
<1>3. CASE \E direction \in {"undo", "redo"} :
             PressHistory(direction) \/ PressKey(direction) \/ ReceiveHistory(direction)
  BY <1>3, PressHistoryKeeps, PressKeyKeeps, ReceiveHistoryKeeps
<1>4. CASE RetryNativeRender \/ ExportRaster \/ ExportEnds \/ InitializeViewer
  BY <1>4, RetryKeeps, ExportRasterKeeps, ExportEndsKeeps, ViewerStartsKeeps
<1>5. CASE \E event \in {"change", "rebuild"}, d \in Docs : EditInFrame(event, d)
  BY <1>5, EditInFrameKeeps
<1>6. CASE ReceiveStartup \/ ReceiveChange \/ ReceiveRebuild
  BY <1>6, ReceiveStartupKeeps, ReceiveChangeKeeps, ReceiveRebuildKeeps
<1>7. CASE DropLaunch \/ Rendered \/ FailsForNow
  BY <1>7, DropLaunchKeeps, RenderedKeeps, FailsForNowKeeps
<1>8. CASE \E i \in DOMAIN launches :
             \/ EditRefused(launches[i]) \/ ContentRefused(launches[i])
             \/ DraftRefused(launches[i]) \/ RefusedAsFailed(launches[i])
  <2>1. PICK l : EditRefused(l) \/ ContentRefused(l) \/ DraftRefused(l) \/ RefusedAsFailed(l)
    BY <1>8
  <2> QED
    BY <2>1, EditRefusedKeeps, ContentRefusedKeeps, DraftRefusedKeeps, RefusedAsFailedKeeps
<1> QED
  BY <1>1, <1>2, <1>3, <1>4, <1>5, <1>6, <1>7, <1>8 DEF TabNext

(* ... and by none.                                                        *)
LEMMA TabInvStutters ==
  ASSUME TabInv, UNCHANGED tabVars
  PROVE  TabInv'
<1>1. /\ tab' = tab /\ launches' = launches /\ mail' = mail /\ draft' = draft /\ reading' = reading
      /\ asked' = asked /\ content' = content /\ line' = line /\ rendered' = rendered
      /\ refused' = refused
  BY DEF tabVars
<1>2. TabTypeOK'
  BY <1>1 DEF TabInv, TabTypeOK
<1>3. LinesOK'
  BY <1>1 DEF TabInv, LinesOK
<1>4. KeptOK'
  BY <1>1 DEF TabInv, KeptOK, DraftOpens, Made
<1>5. \A x : (OneOf(x)' <=> OneOf(x)) /\ (Canvas(x)' <=> Canvas(x))
  BY <1>1 DEF OneOf, Canvas, Made
<1>6. Away \/ Opening \/ Represented => Away' \/ Opening' \/ Represented'
  BY <1>1, <1>5 DEF Away, Opening, Represented, Waiting, Awaited, Plain, NoExport, Shows, Made,
    OneOf
<1>7. \A d : HistoryOK(d) => HistoryOK(d)'
  BY <1>1 DEF HistoryOK, Leads, Follows, Before, OneOf, Made
<1>8. \A d : Live(d) => Live(d)'
  BY <1>1 DEF Live, Silent, Told, Leading, Carries, Known, Canvas, Made, Before
<1>9. AtRest => AtRest'
  BY <1>1, <1>7, <1>8 DEF AtRest
<1>10. (Locked => Locked') /\ (AnswerAwaited => AnswerAwaited')
  BY <1>1 DEF Locked, NoExport, AnswerAwaited, Waiting, Awaited
<1>11. InHistory => InHistory'
  BY <1>1, <1>7, <1>8, <1>10 DEF InHistory, Awaited, OneOf, Made
<1>12. EditKept => EditKept'
  BY <1>1, <1>7 DEF EditKept, Canvas, Made, Before
<1>13. (InEdit => InEdit') /\ (EditFailed => EditFailed')
  BY <1>1, <1>10, <1>12 DEF InEdit, EditFailed, Awaited
<1>14. Drawn => Drawn'
  BY <1>1, <1>9, <1>11, <1>13 DEF Drawn, Canvas, Made
<1> QED
  BY <1>2, <1>3, <1>4, <1>6, <1>14 DEF TabInv

(* Whatever is opened, edited, undone, redone, retried, exported and       *)
(* closed while answers are late, fail or refuse documents: what the user  *)
(* finds when nothing is being rendered is usable (app.js: launchNative,   *)
(* moveNativeHistory, receiveNativeMessage, retryNativeRender), if a       *)
(* document that failed for now is not refused when it is tried again.     *)
(* Without this the comment in retryNativeRender does not hold (the run    *)
(* editor_retry).                                                          *)
THEOREM EditorIsUsable == ~RetryRejects => (TabSpec => []EditorUsable)
<1> SUFFICES ASSUME ~RetryRejects PROVE TabSpec => []EditorUsable
  OBVIOUS
<1>1. TabInit => TabInv
  BY TabInvInit
<1>2. TabInv /\ [TabNext]_tabVars => TabInv'
  BY TabInvNext, TabInvStutters
<1>3. TabInv => EditorUsable
  BY InvUsable
<1> QED
  BY <1>1, <1>2, <1>3, PTL DEF TabSpec
=============================================================================
