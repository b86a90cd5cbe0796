------------------------------ MODULE EditorTab ------------------------------
(***************************************************************************)
(* One browser tab of the standalone editor (app.js of                     *)
(* resources/standalone_editor/assets.py) and the viewer it shows in a     *)
(* frame (resources/native_viewer/assets.py).  The user edits in the       *)
(* viewer, which reports what it holds by messages; an edit that needs a   *)
(* new picture, an undo and a redo are sent to the server to be rendered,  *)
(* while the old picture stays, locked.  Answers may come late, or refuse  *)
(* the document for good (413, 422) or for now; meanwhile the user closes  *)
(* the document, opens others and goes on.  Besides canvases there are     *)
(* representations (`content'), which are edited in a dialog of the tab.   *)
(*                                                                         *)
(* What is abstracted.  A document is a number, 0 is none; each one fits a *)
(* history entry and can be stored.  loadIntentGeneration is the flag      *)
(* `current' of the launches, and the file being read and the export under *)
(* way are dropped, where the code counts up.  The legacy editor behind    *)
(* its start, vector exports and the observation mode are left out.        *)
(***************************************************************************)
EXTENDS Naturals, Sequences, SequencesExt

CONSTANTS
  MaxDocs,      \* bound: documents opened or made by edits
  MaxQueue,     \* bound: launches waiting for their turn
  MaxMail,      \* bound: messages on their way from the frame
  HistoryMax,   \* NATIVE_HISTORY_MAX_STATES
  RetryRejects  \* whether a document that failed for now may be refused on the retry

ASSUME EditorTabAssumption == MaxDocs \in Nat /\ HistoryMax \in Nat \ {0}

VARIABLES
  tab,       \* the variables of app.js, and its frame
  launches,  \* the launches that await their turn (nativeLaunchTail) or their answer
  mail,      \* messages the frame has posted
  draft,     \* the document in local storage, and a valid one to fall back to
  reading,   \* the file being read that will be opened, if any
  asked,     \* history: the document the user opened last
  content,   \* the documents that are representations
  line,      \* history: what each document was made from, and itself
  rendered,  \* documents the server has rendered
  refused    \* documents it has refused for good

tabVars == <<tab, launches, mail, draft, reading, asked, content, line, rendered, refused>>
known == <<content, line, rendered, refused>>

Docs == 1..MaxDocs
NoEdit == [previous |-> 0, incoming |-> 0]
Stored(d, valid) == [doc |-> d, valid |-> valid]

TabInit ==
  /\ tab = [view |-> "start", doc |-> 0, url |-> 0, ready |-> FALSE, stale |-> FALSE,
            valid |-> 0, retry |-> FALSE, busy |-> FALSE, undo |-> <<>>, redo |-> <<>>,
            pending |-> NoEdit, exporting |-> 0, download |-> 0,
            frame |-> [doc |-> 0, picture |-> 0, started |-> FALSE, synced |-> FALSE,
                       inert |-> FALSE, unheard |-> FALSE]]
  /\ launches = <<>> /\ mail = <<>>
  /\ draft = Stored(0, 0) /\ reading = 0 /\ asked = 0
  /\ line = [d \in Docs |-> {}] /\ content = {}
  /\ rendered = {} /\ refused = {}

\* The next document that does not exist yet, if the bound allows one.
Unmade == {d \in Docs : line[d] = {} /\ \A e \in 1..(d - 1) : line[e] # {}}

-----------------------------------------------------------------------------
(* What the handlers share.                                                *)

\* What an outdated launch remembers is not looked at any more.
Outdated(l) ==
  [l EXCEPT !.current = FALSE, !.load = 0, !.fallback = 0, !.doc = 0, !.url = 0, !.valid = 0]

InvalidateLoadIntents == [i \in DOMAIN launches |-> Outdated(launches[i])]

ResetNativeHistory(t) ==
  [t EXCEPT !.undo = <<>>, !.redo = <<>>, !.pending = NoEdit, !.busy = FALSE]

\* A new frame: its messages come from another window than the old one's.
ReplaceEditorFrame(t, shown) ==
  [t EXCEPT !.frame = [doc |-> shown, picture |-> shown, started |-> FALSE, synced |-> FALSE,
                       inert |-> t.doc \notin content, unheard |-> FALSE]]

ClearExports(t) == [t EXCEPT !.exporting = 0, !.download = 0]

PushNativeHistory(stack, d) ==
  IF Len(stack) < HistoryMax THEN Append(stack, d) ELSE Append(Tail(stack), d)

\* An edit of t.doc has become active.
\* Mutant: what was undone can still be redone.
EditKeepsRedo(t, previous) == [t EXCEPT !.undo = PushNativeHistory(@, previous)]
RecordEdit(t, previous) ==
  [t EXCEPT !.undo = PushNativeHistory(@, previous), !.redo = <<>>]

Preserves(t, kind) == kind # "open" /\ t.ready /\ t.url # 0

\* The first part of launchNative, up to the wait for its turn.
StagedLaunch(t, load, kind) ==
  IF Preserves(t, kind)
  THEN [ClearExports(t) EXCEPT !.doc = load, !.stale = TRUE, !.retry = FALSE,
                               !.frame = [@ EXCEPT !.inert = TRUE]]
  ELSE ReplaceEditorFrame(
         [ResetNativeHistory(ClearExports(t)) EXCEPT
            !.view = "native", !.doc = load, !.url = 0, !.valid = 0, !.ready = FALSE,
            !.stale = FALSE, !.retry = FALSE], 0)

\* What a launch remembers: the state it replaces and what to fall back to.
Launched(t, load, kind, recovery, fallback) ==
  [load |-> load, kind |-> kind, preserve |-> Preserves(t, kind), recovery |-> recovery,
   fallback |-> fallback, current |-> TRUE, doc |-> t.doc, url |-> t.url, valid |-> t.valid]

\* t is the tab as launchNative finds it.
LaunchNative(t, load, kind, fallback) ==
  /\ Len(launches) < MaxQueue
  /\ tab' = StagedLaunch(t, load, kind)
  /\ launches' = Append(InvalidateLoadIntents, Launched(t, load, kind, FALSE, fallback))
  /\ reading' = 0

\* What the callers of launchNative do with its result: "ok", "failed", or "none" when
\* the launch is outdated.  A history step moves one entry, or is rolled back.
SettledHistory(t, l, result) ==
  LET destination == IF l.kind = "undo" THEN "redo" ELSE "undo"
      idle == [t EXCEPT !.busy = FALSE]
  IN  IF result = "ok" THEN
        [idle EXCEPT ![l.kind] = Front(@), ![destination] = PushNativeHistory(@, l.doc)]
      ELSE IF result = "failed" /\ t.stale THEN
        [idle EXCEPT !.doc = l.doc, !.stale = FALSE, !.retry = FALSE,
                     !.frame = [@ EXCEPT !.inert = FALSE]]
      ELSE idle

\* The edit of a rebuild is recorded, forgotten, or kept for a retry.
SettledEdit(t, result) ==
  IF t.pending = NoEdit THEN t
  ELSE IF result = "ok" THEN
    [(IF t.doc = t.pending.incoming THEN RecordEdit(t, t.pending.previous) ELSE t)
       EXCEPT !.pending = NoEdit]
  ELSE IF ~t.stale THEN [t EXCEPT !.pending = NoEdit]
  ELSE t

Settled(t, l, result) ==
  CASE l.kind \in {"undo", "redo"} -> SettledHistory(t, l, result)
    [] l.kind = "rebuild" -> [SettledEdit(t, result) EXCEPT !.busy = FALSE]
    [] l.kind = "retry" -> SettledEdit(t, result)
    [] OTHER -> t

-----------------------------------------------------------------------------
(* The user in the tab.                                                    *)

\* A canvas or a representation that is not an edit of another.
Make(d) ==
  /\ d \in Unmade
  /\ line' = [line EXCEPT ![d] = {d}]
  /\ content' \in {content, content \cup {d}}

\* A pasted input or an empty document is opened.
OpenPasted(d) ==
  /\ tab.view = "start"
  /\ Make(d)
  /\ LaunchNative(tab, d, "open", 0)
  /\ asked' = d
  /\ mail' = <<>>
  /\ UNCHANGED <<draft, rendered, refused>>

RestoreDraft ==
  /\ tab.view = "start"
  /\ draft.doc # 0
  /\ LaunchNative(tab, draft.doc, "open", draft.valid)
  /\ asked' = draft.doc
  /\ mail' = <<>>
  /\ UNCHANGED <<draft, known>>

PickFile(d) ==
  /\ tab.view = "start"
  /\ Make(d)
  /\ launches' = InvalidateLoadIntents
  /\ reading' = d /\ asked' = d
  /\ UNCHANGED <<tab, mail, draft, rendered, refused>>

FileRead ==
  /\ reading # 0
  /\ LaunchNative(tab, reading, "open", 0)
  /\ mail' = <<>>
  /\ UNCHANGED <<draft, asked, known>>

\* Too large, unreadable or of no known format.
FileRejected ==
  /\ reading # 0
  /\ reading' = 0
  /\ UNCHANGED <<tab, launches, mail, draft, asked, known>>

ShowStart ==
  /\ tab.view # "start"
  /\ tab' = ReplaceEditorFrame(
              [ResetNativeHistory(ClearExports(tab)) EXCEPT
                 !.view = "start", !.ready = FALSE, !.stale = FALSE, !.retry = FALSE], 0)
  /\ launches' = InvalidateLoadIntents
  /\ reading' = 0 /\ mail' = <<>>
  /\ UNCHANGED <<draft, asked, known>>

LaunchLegacy ==
  /\ tab.view = "start"
  /\ tab' = ReplaceEditorFrame(
              [ResetNativeHistory(ClearExports(tab)) EXCEPT
                 !.view = "legacy", !.doc = 0, !.url = 0, !.valid = 0, !.ready = FALSE,
                 !.stale = FALSE, !.retry = FALSE], 0)
  /\ launches' = InvalidateLoadIntents
  /\ reading' = 0 /\ mail' = <<>>
  /\ UNCHANGED <<draft, asked, known>>

\* moveNativeHistory, from a button or by a message.
Movable(direction) ==
  /\ tab.ready /\ tab.frame.synced /\ ~tab.busy /\ ~tab.stale
  /\ tab[direction] # <<>>

MoveNativeHistory(direction) ==
  /\ Movable(direction)
  /\ LaunchNative([tab EXCEPT !.busy = TRUE], Last(tab[direction]), direction, 0)

PressHistory(direction) ==
  /\ MoveNativeHistory(direction)
  /\ UNCHANGED <<mail, draft, asked, known>>

RetryNativeRender ==
  /\ tab.retry /\ tab.stale /\ tab.ready /\ tab.url # 0
  /\ LaunchNative(tab, tab.doc, "retry", 0)
  /\ UNCHANGED <<mail, draft, asked, known>>

\* The dialog for representations, whose button stays off until its launch is over.
SaveContent(d) ==
  /\ tab.view = "native" /\ tab.doc \in content
  /\ \A i \in DOMAIN launches : launches[i].kind # "content"
  /\ d \in Unmade
  /\ line' = [line EXCEPT ![d] = line[tab.doc] \cup {d}]
  /\ content' = content \cup {d}
  /\ LaunchNative(tab, d, "content", 0)
  /\ mail' = <<>>
  /\ UNCHANGED <<draft, asked, rendered, refused>>

\* A PDF or PNG is made of the picture in the frame, or of the one at the url.
ExportRaster ==
  /\ tab.view = "native" /\ tab.ready /\ tab.url # 0 /\ ~tab.stale
  /\ tab.frame.started \/ tab.doc \in content
  /\ tab' = [tab EXCEPT !.exporting = tab.frame.picture, !.download = 0]
  /\ UNCHANGED <<launches, mail, draft, reading, asked, known>>

ExportEnds ==
  /\ tab.exporting # 0
  /\ \E offered \in {0, tab.exporting} : tab' = [tab EXCEPT !.exporting = 0, !.download = offered]
  /\ UNCHANGED <<launches, mail, draft, reading, asked, known>>

-----------------------------------------------------------------------------
(* The viewer in the frame.                                                *)

Say(event, d) == mail' = Append(mail, [event |-> event, doc |-> d])

InitializeViewer ==
  /\ tab.frame.doc # 0 /\ ~tab.frame.started
  /\ tab.frame.doc \notin content
  /\ tab' = [tab EXCEPT !.frame = [@ EXCEPT !.started = TRUE]]
  /\ Say("startup", tab.frame.doc)
  /\ UNCHANGED <<launches, draft, reading, asked, known>>

\* The user edits: a "change" is shown at once, a "rebuild" needs a new picture.
EditInFrame(event, d) ==
  /\ tab.frame.started /\ ~tab.frame.inert
  /\ d \in Unmade
  /\ Len(mail) < MaxMail
  /\ LET picture == IF event = "change" THEN d ELSE tab.frame.picture
     IN  tab' = [tab EXCEPT !.frame = [@ EXCEPT !.doc = d, !.picture = picture]]
  /\ line' = [line EXCEPT ![d] = line[tab.frame.doc] \cup {d}]
  /\ Say(event, d)
  /\ UNCHANGED <<launches, draft, reading, asked, content, rendered, refused>>

PressKey(direction) ==
  /\ tab.frame.started /\ ~tab.frame.inert
  /\ Len(mail) < MaxMail
  /\ Say(direction, 0)
  /\ UNCHANGED <<tab, launches, draft, reading, asked, known>>

-----------------------------------------------------------------------------
(* The messages.                                                           *)

Receive(event) ==
  /\ mail # <<>> /\ Head(mail).event = event
  /\ mail' = Tail(mail)

\* Changes while a history step or a rebuild is under way, or has failed, are not taken.
Deaf == tab.busy \/ (tab.pending # NoEdit /\ tab.stale)

ReceiveStartup ==
  /\ Receive("startup")
  /\ LET d == Head(mail).doc
         opened == IF tab.stale THEN tab
                   ELSE [tab EXCEPT !.frame = [@ EXCEPT !.synced = TRUE, !.inert = FALSE]]
     IN  IF Deaf THEN tab' = opened /\ UNCHANGED draft
         ELSE tab' = [opened EXCEPT !.doc = d] /\ draft' = Stored(d, 0)
  /\ UNCHANGED <<launches, reading, asked, known>>

ReceiveChange ==
  /\ Receive("change")
  /\ LET d == Head(mail).doc
     IN  IF Deaf THEN tab' = [tab EXCEPT !.frame = [@ EXCEPT !.unheard = TRUE]] /\ UNCHANGED draft
         ELSE /\ tab' = [RecordEdit(ClearExports(tab), tab.doc)
                           EXCEPT !.doc = d, !.frame = [@ EXCEPT !.unheard = FALSE]]
              /\ draft' = Stored(d, 0)
  /\ UNCHANGED <<launches, reading, asked, known>>

ReceiveRebuild ==
  /\ Receive("rebuild")
  /\ IF tab.busy \/ tab.stale
     THEN tab' = [tab EXCEPT !.frame = [@ EXCEPT !.unheard = TRUE]] /\ UNCHANGED <<launches, reading>>
     ELSE LET edit == [previous |-> tab.doc, incoming |-> Head(mail).doc]
          IN  LaunchNative([tab EXCEPT !.pending = edit, !.busy = TRUE], edit.incoming, "rebuild", 0)
  /\ UNCHANGED <<draft, asked, known>>

ReceiveHistory(direction) ==
  /\ Receive(direction)
  /\ IF Movable(direction) THEN MoveNativeHistory(direction) ELSE UNCHANGED <<tab, launches, reading>>
  /\ UNCHANGED <<draft, asked, known>>

-----------------------------------------------------------------------------
(* The answers, in the order of the launches.                              *)

\* Mutant: an outdated launch is not recognized.
HeedsOutdated(l) == TRUE
Heeds(l) == l.current

\* A launch that has been overtaken is not sent, or its answer is ignored.
DropLaunch ==
  /\ launches # <<>> /\ ~Heeds(Head(launches))
  /\ launches' = Tail(launches)
  /\ tab' = Settled(tab, Head(launches), "none")
  /\ UNCHANGED <<mail, draft, reading, asked, known>>

\* The renderer is deterministic: it does not refuse what it has rendered.  An opened
\* canvas is stored once its frame has reported the document.
Rendered ==
  LET l == Head(launches)
      fresh == [ReplaceEditorFrame(tab, l.load) EXCEPT
                  !.url = l.load, !.valid = IF l.load \in content THEN l.load ELSE 0,
                  !.stale = FALSE, !.ready = TRUE]
  IN  /\ launches # <<>> /\ Heeds(l)
      /\ l.load \notin refused
      /\ rendered' = rendered \cup {l.load}
      /\ launches' = Tail(launches)
      /\ tab' = Settled(fresh, l, IF l.recovery THEN "failed" ELSE "ok")
      /\ draft' = IF l.kind = "open" /\ l.load \notin content THEN draft ELSE Stored(tab.doc, 0)
      /\ mail' = <<>>
      /\ UNCHANGED <<reading, asked, content, line, refused>>

\* A representation that could not be rendered is stored with the last one that was.
FailedDraft(t, l) ==
  IF l.preserve THEN Stored(t.doc, IF t.doc \in content THEN l.valid ELSE 0) ELSE draft

\* Nothing was rendered: the old picture stays, locked, or there is none.
NotRendered(l) ==
  LET t == IF l.preserve
           THEN [tab EXCEPT !.url = l.url, !.stale = TRUE, !.ready = TRUE, !.retry = TRUE,
                            !.frame = [@ EXCEPT !.inert = TRUE]]
           ELSE [tab EXCEPT !.view = "start", !.ready = FALSE, !.url = 0]
      after == Settled(t, l, "failed")
  IN  /\ launches' = Tail(launches)
      /\ tab' = after
      /\ draft' = FailedDraft(after, l)

FailsForNow ==
  /\ launches # <<>> /\ Heeds(Head(launches))
  /\ NotRendered(Head(launches))
  /\ UNCHANGED <<mail, reading, asked, known>>

\* An answer that refuses the document itself.
Refusal(l) ==
  /\ launches # <<>> /\ l = Head(launches) /\ Heeds(l)
  /\ l.load \notin rendered
  /\ l.kind = "retry" /\ l.load \notin content => l.recovery \/ RetryRejects
  /\ refused' = refused \cup {l.load}
  /\ UNCHANGED <<reading, content, line, rendered>>

\* An edit of a canvas is given up and the document before it rendered anew.
EditRefused(l) ==
  LET back == [tab EXCEPT !.doc = l.doc, !.url = l.url, !.stale = TRUE, !.ready = TRUE]
  IN  /\ Refusal(l)
      /\ l.preserve /\ ~l.recovery /\ l.doc \notin content
      /\ tab' = StagedLaunch(back, l.doc, l.kind)
      /\ launches' = Append(Tail(launches), Launched(back, l.doc, l.kind, TRUE, 0))
      /\ UNCHANGED <<mail, draft, asked>>

\* An edit of a representation is given up for the last one rendered, shown again.
ContentRefused(l) ==
  LET back == [tab EXCEPT !.doc = l.valid, !.url = l.url, !.stale = FALSE, !.ready = TRUE,
                          !.retry = FALSE]
  IN  /\ Refusal(l)
      /\ l.preserve /\ ~l.recovery /\ l.doc \in content
      /\ tab' = ReplaceEditorFrame(back, l.url)
      /\ draft' = Stored(l.valid, 0)
      /\ launches' = Tail(launches)
      /\ mail' = <<>>
      /\ UNCHANGED asked

\* A stored draft is given up for the valid one stored with it.
DraftRefused(l) ==
  /\ Refusal(l)
  /\ ~l.preserve /\ ~l.recovery /\ l.fallback # 0
  /\ tab' = StagedLaunch(tab, l.fallback, "open")
  /\ launches' = Append(Tail(launches), Launched(tab, l.fallback, "open", TRUE, 0))
  /\ asked' = l.fallback
  /\ mail' = <<>>
  /\ UNCHANGED draft

\* There is nothing to go back to, or that has been refused as well.
RefusedAsFailed(l) ==
  /\ Refusal(l)
  /\ l.recovery \/ (~l.preserve /\ l.fallback = 0)
  /\ NotRendered(l)
  /\ UNCHANGED <<mail, asked>>

TabNext ==
  \/ \E d \in Docs : OpenPasted(d) \/ PickFile(d) \/ SaveContent(d)
  \/ RestoreDraft \/ FileRead \/ FileRejected \/ ShowStart \/ LaunchLegacy
  \/ \E direction \in {"undo", "redo"} :
       PressHistory(direction) \/ PressKey(direction) \/ ReceiveHistory(direction)
  \/ RetryNativeRender \/ ExportRaster \/ ExportEnds
  \/ InitializeViewer
  \/ \E event \in {"change", "rebuild"}, d \in Docs : EditInFrame(event, d)
  \/ ReceiveStartup \/ ReceiveChange \/ ReceiveRebuild
  \/ DropLaunch \/ Rendered \/ FailsForNow
  \/ \E i \in DOMAIN launches :
       \/ EditRefused(launches[i]) \/ ContentRefused(launches[i])
       \/ DraftRefused(launches[i]) \/ RefusedAsFailed(launches[i])

TabSpec == TabInit /\ [][TabNext]_tabVars

-----------------------------------------------------------------------------

Quiet == tab.view = "native" /\ \A i \in DOMAIN launches : ~launches[i].current

\* Whatever was edited, undone, redone, refused, failed and tried again: when nothing is
\* being rendered, the states to undo, the present one (for an edit that still awaits its
\* picture, the one before it) and the states to redo are each made from the one before.
HistoryChained ==
  LET present == IF tab.pending = NoEdit THEN tab.doc ELSE tab.pending.previous
      chain == tab.undo \o <<present>> \o Reverse(tab.redo)
  IN  Quiet =>
        /\ \A i \in 1..(Len(chain) - 1) :
             chain[i] # chain[i + 1] /\ chain[i] \in line[chain[i + 1]]
        /\ Len(chain) <= HistoryMax + 1

\* "A permanently rejected candidate was already restored by launchNative" (the comment
\* in retryNativeRender): when nothing is being rendered, the edit that is kept for a
\* retry is not one the server has refused.
RejectedDiscarded ==
  Quiet /\ tab.pending # NoEdit => tab.doc # tab.pending.incoming \/ tab.doc \notin refused

\* What is offered for saving is the document as it is now.
DownloadCurrent ==
  tab.view = "native" /\ tab.download # 0 /\ mail = <<>> /\ ~tab.frame.unheard =>
    ~tab.stale /\ tab.download = tab.doc

\* A stored representation can be opened again, or the one stored with it.
DraftOpens ==
  draft.doc \in content => {draft.doc, draft.valid} \cap rendered # {}

\* When nothing is being rendered, the tab shows the document opened last or an edit of
\* it, never an older one whose answer came late.  Either the picture, the document the
\* tab works on and the local draft are one (but for an edit in the frame that no message
\* has brought yet, or whose message was not taken) and the picture can be edited; or the
\* picture is locked, a retry is offered and the draft has what would be retried.  And
\* what can be undone and redone is the history of this document.
EditorUsable ==
  /\ Quiet =>
       /\ tab.ready /\ ~tab.busy
       /\ asked \in line[tab.doc]
       /\ IF tab.stale
          THEN tab.retry /\ tab.frame.inert /\ draft.doc = tab.doc
          ELSE mail = <<>> /\ (tab.frame.started \/ tab.doc \in content) =>
                 /\ tab.frame.started => ~tab.frame.inert /\ tab.frame.synced
                 /\ ~tab.frame.unheard => tab.frame.doc = tab.doc /\ draft.doc = tab.doc
  /\ HistoryChained
  /\ RejectedDiscarded
  /\ DownloadCurrent
  /\ DraftOpens
=============================================================================
