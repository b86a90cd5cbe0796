---------------------------- MODULE EditorCache ----------------------------
(***************************************************************************)
(* The bundle cache of the standalone editor's server                      *)
(* (schauwerk/visual/standalone_editor.py) with the editor tabs that use   *)
(* it.  A tab POSTs a document, naming the bundle it showed before         *)
(* (X-Schauwerk-Native-Supersede); a worker thread looks the document's    *)
(* digest up, pins the cached bundle or builds a new one, answers with its *)
(* token and, once the answer is sent, gives the superseded bundle up.     *)
(*                                                                         *)
(* What is abstracted.  A record, its token and its directory share one    *)
(* number: tokens and directories are fresh for every build.  A lease or a *)
(* pin window that has run out is dropped when the clock reaches it: the   *)
(* code drops it in _refresh_native_record_pin_state and _native_pin_window*)
(* which every reader calls first or whose comparison it repeats; since    *)
(* reacquire_after is max_pinned_until, no digest is ever in a cooldown.   *)
(* A tab has one POST at a time (nativeLaunchTail in                       *)
(* resources/standalone_editor/assets.py), so its thread is named after it.*)
(***************************************************************************)
EXTENDS Naturals, FiniteSets, Functions

CONSTANTS
  Tabs,          \* editor tabs
  Clients,       \* admission keys: network addresses, or "local" alone
  ClientOf,      \* the admission key of each tab
  Proxied,       \* served behind the trusted proxy: the quotas per client apply
  Digests,       \* documents, told apart by their render digest
  NoDigest,      \* the digest of a record or request there is not
  SizeOf,        \* the bytes of each document's bundle
  MaxEntries, MaxBytes, BundleMax,         \* MAX_NATIVE_CACHE_*, MAX_BUNDLE_BYTES
  Grace, MaxPin, Timeout,                  \* NATIVE_CACHE_*_SECONDS, request timeout
  MaxWindows, ClientPins, DigestKeys,      \* MAX_NATIVE_PIN_WINDOWS, ..._PER_CLIENT, ..._PER_DIGEST
  MaxWorkers,    \* NATIVE_SERVER_MAX_WORKERS
  MaxPosts,      \* bound: POSTs in a behaviour, each of which builds at most once
  MaxTime        \* bound: the clock

ASSUME CacheAssumption ==
  /\ IsFiniteSet(Clients) /\ Clients # {} /\ IsFiniteSet(Digests) /\ Digests # {}
  /\ ClientOf \in [Tabs -> Clients]
  /\ Proxied \in BOOLEAN
  /\ SizeOf \in [Digests -> Nat \ {0}]
  /\ {MaxEntries, MaxBytes, BundleMax, Grace, MaxPin, Timeout, MaxWindows, ClientPins,
      DigestKeys, MaxWorkers, MaxPosts} \subseteq Nat \ {0}
  /\ MaxTime \in Nat
  /\ \A d \in Digests : SizeOf[d] <= BundleMax
  /\ BundleMax <= MaxBytes

VARIABLES
  clock,      \* time.monotonic()
  rec,        \* the record objects, which a thread may hold after they were forgotten
  byDigest,   \* _NATIVE_CACHE_BY_DIGEST: the record of a digest, 0 for none
  byToken,    \* _NATIVE_CACHE_BY_TOKEN: the records registered
  dirs,       \* the bundle directories on disk
  windows,    \* _NATIVE_PIN_WINDOWS, max = 0 for none
  builder,    \* the tab whose thread holds _NATIVE_BUILD_LOCK, if any
  req,        \* the thread serving each tab's POST
  token,      \* the tab's nativeSupersedeToken, 0 for none
  seen,       \* when the tab asked for that bundle
  built,      \* directories made so far
  posts       \* POSTs so far

vars == <<clock, rec, byDigest, byToken, dirs, windows, builder, req, token, seen, built, posts>>
cache == <<byDigest, byToken, dirs>>
tabs == <<token, seen>>

Ids == 1..MaxPosts
NoLease == [c \in Clients |-> 0]
NoRecord == [digest |-> NoDigest, used |-> 0, max |-> 0,
             creator |-> CHOOSE c \in Clients : TRUE, lease |-> NoLease, count |-> NoLease]
NoWindow == [max |-> 0, keys |-> {}, released |-> FALSE]
Idle == [step |-> "idle", digest |-> NoDigest, by |-> 0, sent |-> 0, old |-> 0,
         rec |-> 0, created |-> FALSE, fresh |-> FALSE, max |-> 0, victims |-> {}]

-----------------------------------------------------------------------------
(* Leases, pins and capacity.                                              *)

Cached == {byDigest[d] : d \in Digests} \ {0}
Alive(i) == i # 0 /\ clock < rec[i].max
Leased(i, c) == rec[i].lease[c] > clock
Pinned(i) == \E c \in Clients : Leased(i, c)
Size(i) == SizeOf[rec[i].digest]
Bytes(S) == SumFunction([i \in S |-> Size(i)])
Fewer(m, n) == IF m < n THEN m ELSE n

\* The record a POST may give up: the one its tab names, unless it is the same
\* document, gone, past its life, or not this client's.
Superseded(sent, c, d) ==
  IF /\ sent \in byToken /\ rec[sent].digest # d /\ Alive(sent)
     /\ rec[sent].creator = c \/ Leased(sent, c)
  THEN sent ELSE 0

FreesClientPin(old, c) == old # 0 /\ Leased(old, c) /\ rec[old].count[c] = 1
FreesGlobalPin(old, c) == FreesClientPin(old, c) /\ \A e \in Clients \ {c} : ~Leased(old, e)
Counted(S, old, c) == IF FreesGlobalPin(old, c) THEN S \ {old} ELSE S

PinnedOthers(i, old, c) == Counted({j \in Cached \ {i} : Pinned(j)}, old, c)
ClientPinned(i, old, c) ==
  {j \in Cached \ {i} : Leased(j, c)} \ IF FreesClientPin(old, c) THEN {old} ELSE {}

\* A build may start: room for one more pin, for the client too, and the client's other
\* documents of the last MaxPin are few.
BuildAdmitted(t) ==
  LET c == ClientOf[t]  r == req[t]  P == PinnedOthers(0, r.old, c) IN
  /\ Cardinality(P) + 2 <= MaxEntries
  /\ Bytes(P) < MaxBytes - BundleMax
  /\ Proxied => /\ Cardinality(ClientPinned(0, r.old, c)) < ClientPins
                /\ Cardinality({d \in Digests \ {r.digest} :
                      /\ r.old # 0 => d # rec[r.old].digest
                      /\ windows[d].max > clock /\ c \in windows[d].keys}) < ClientPins

\* One more pin, of record i of this many bytes, leaves the reserve for a build.
PinFits(i, size, c, old) ==
  LET P == PinnedOthers(i, old, c) IN
  /\ Cardinality(P) + 2 <= MaxEntries
  /\ Bytes(P) + size <= MaxBytes - BundleMax
  /\ Proxied => Cardinality(ClientPinned(i, old, c)) < ClientPins

\* Seeded fault: a lease is given without asking for capacity.
MayPinAlways(i, c, old) ==
  Leased(i, c) \/ (Proxied => Cardinality({e \in Clients : Leased(i, e)}) < DigestKeys)

MayPin(i, c, old) ==
  Leased(i, c) \/ /\ Proxied => Cardinality({e \in Clients : Leased(i, e)}) < DigestKeys
                  /\ PinFits(i, Size(i), c, old)

\* _pin_native_cache_record, with n = 1 when the request becomes a consumer.
PinRecord(i, c, n) ==
  rec' = [rec EXCEPT ![i].used = clock, ![i].count[c] = @ + n,
                     ![i].lease[c] = Fewer(IF @ > clock + Grace THEN @ ELSE clock + Grace, rec[i].max)]

\* Seeded fault: the record's pin is dropped as a whole.
AllUnpinned(r, c) == [r EXCEPT !.used = clock, !.count = NoLease, !.lease = NoLease]

\* A consumer of the client goes, and its lease with the last one.
Unpinned(r, c) ==
  [r EXCEPT !.used = clock, !.count[c] = IF @ <= 1 THEN 0 ELSE @ - 1,
            !.lease[c] = IF r.count[c] <= 1 THEN 0 ELSE @]

-----------------------------------------------------------------------------
(* _prune_native_cache: unpinned records go, the least recently used first *)
(* (their tokens, which are random, break a tie), until the rest fits.     *)

Fits(S, entries, bytes) == Cardinality(S) + entries <= MaxEntries /\ Bytes(S) + bytes <= MaxBytes

\* The sets of records a prune of S may forget, when those in U are unpinned.
Evictions(S, U, entries, bytes) ==
  {V \in SUBSET U :
     /\ Fits(S \ V, entries, bytes) \/ V = U
     /\ \A v \in V, u \in U \ V : rec[v].used <= rec[u].used
     /\ V # {} => \E v \in V : /\ \A u \in V : rec[u].used <= rec[v].used
                               /\ ~Fits(S \ (V \ {v}), entries, bytes)}

\* Seeded fault: the digest index keeps naming what was evicted.
ForgetToken(V) == byToken' = byToken \ V /\ UNCHANGED byDigest

Forget(V) ==
  /\ byDigest' = [d \in Digests |-> IF byDigest[d] \in V THEN 0 ELSE byDigest[d]]
  /\ byToken' = byToken \ V

\* Seeded fault: the least recently used record goes, pinned or not.
Unkept(S, keep) == S \ {keep}

Unpinnable(S, keep) == {i \in S \ {keep} : ~Pinned(i)}

-----------------------------------------------------------------------------
(* The steps of a POST.                                                    *)

Busy == {t \in Tabs : req[t].step # "idle"}
At(t, step) == req[t].step = step
Goto(t, step) == req' = [req EXCEPT ![t].step = step]
End(t) == req' = [req EXCEPT ![t] = Idle]
Late(t) == clock >= req[t].by

\* process_request and the first half of do_POST: the superseded record is looked up
\* before the build, and held by reference through it.
Post(t, d) ==
  /\ At(t, "idle") /\ posts < MaxPosts /\ Cardinality(Busy) < MaxWorkers
  /\ posts' = posts + 1
  /\ req' = [req EXCEPT ![t] = [Idle EXCEPT !.step = "lookup", !.digest = d, !.sent = token[t],
               !.old = Superseded(token[t], ClientOf[t], d), !.by = clock + Timeout]]
  /\ UNCHANGED <<clock, rec, cache, windows, builder, tabs, built>>

\* The lookup under the cache lock, before the build lock and again under it: a live
\* record is pinned, or else refused; otherwise the build may be admitted.
Hit(t) ==
  LET i == byDigest[req[t].digest] IN
  /\ ~Late(t) /\ Alive(i) /\ MayPin(i, ClientOf[t], req[t].old)
  /\ PinRecord(i, ClientOf[t], 1)
  /\ windows' = [windows EXCEPT ![req[t].digest].released = FALSE]
  /\ req' = [req EXCEPT ![t].step = "answer", ![t].rec = i]

Refused(t) ==
  LET i == byDigest[req[t].digest] IN
  /\ \/ Late(t)
     \/ Alive(i) /\ ~MayPin(i, ClientOf[t], req[t].old)
     \/ ~Alive(i) /\ ~BuildAdmitted(t)
  /\ End(t)
  /\ UNCHANGED <<rec, windows>>

Missed(t) == ~Late(t) /\ ~Alive(byDigest[req[t].digest]) /\ BuildAdmitted(t)

Lookup(t) ==
  /\ At(t, "lookup")
  /\ \/ Hit(t)
     \/ Refused(t)
     \/ Missed(t) /\ Goto(t, "wait") /\ UNCHANGED <<rec, windows>>
  /\ UNCHANGED <<clock, cache, builder, tabs, built, posts>>

\* Seeded fault: the render is not serialised.
AcquireAnyway(t) ==
  /\ At(t, "wait")
  /\ builder' = {t}
  /\ Goto(t, "admit")
  /\ UNCHANGED <<clock, rec, cache, windows, tabs, built, posts>>

\* _NATIVE_BUILD_LOCK.acquire with what is left of the request's time.
Acquire(t) ==
  /\ At(t, "wait") /\ builder = {}
  /\ builder' = {t}
  /\ Goto(t, "admit")
  /\ UNCHANGED <<clock, rec, cache, windows, tabs, built, posts>>

GiveUp(t) ==
  /\ At(t, "wait") /\ builder # {} /\ Late(t)
  /\ End(t)
  /\ UNCHANGED <<clock, rec, cache, windows, builder, tabs, built, posts>>

\* _native_pin_window: the digest's own window, or a new one, for which a window whose
\* last consumer is gone makes room.
LiveWindows == {d \in Digests : windows[d].max > 0}
Spare(d) == windows[d].released /\ \A e \in LiveWindows : windows[e].released => windows[d].max <= windows[e].max

OwnWindow(t) ==
  LET d == req[t].digest  IN
  /\ windows[d].max > 0
  /\ \/ /\ Proxied /\ ClientOf[t] \notin windows[d].keys /\ Cardinality(windows[d].keys) >= DigestKeys
        /\ End(t) /\ builder' = {} /\ UNCHANGED windows
     \/ /\ Proxied /\ ClientOf[t] \notin windows[d].keys => Cardinality(windows[d].keys) < DigestKeys
        /\ windows' = [windows EXCEPT ![d].released = FALSE]
        /\ req' = [req EXCEPT ![t].step = "reserve", ![t].fresh = FALSE, ![t].max = windows[d].max]
        /\ UNCHANGED builder

\* Seeded fault: the history of windows is not bounded.
NewWindowAnyway(t) ==
  /\ windows[req[t].digest].max = 0
  /\ req' = [req EXCEPT ![t].step = "reserve", ![t].fresh = TRUE, ![t].max = clock + MaxPin]
  /\ UNCHANGED <<builder, windows>>

NewWindow(t) ==
  /\ windows[req[t].digest].max = 0
  /\ \/ /\ \/ Cardinality(LiveWindows) < MaxWindows /\ UNCHANGED windows
           \/ /\ Cardinality(LiveWindows) >= MaxWindows
              /\ \E d \in LiveWindows : Spare(d) /\ windows' = [windows EXCEPT ![d] = NoWindow]
        /\ req' = [req EXCEPT ![t].step = "reserve", ![t].fresh = TRUE, ![t].max = clock + MaxPin]
        /\ UNCHANGED builder
     \/ /\ Cardinality(LiveWindows) >= MaxWindows /\ \A d \in LiveWindows : ~windows[d].released
        /\ End(t) /\ builder' = {} /\ UNCHANGED windows

Admit(t) ==
  /\ At(t, "admit")
  /\ \/ (Hit(t) \/ Refused(t)) /\ builder' = {}
     \/ Missed(t) /\ (OwnWindow(t) \/ NewWindow(t)) /\ UNCHANGED rec
  /\ UNCHANGED <<clock, cache, tabs, built, posts>>

\* The prune before the build: room for one bundle of the largest size.  When the rest
\* does not fit the records evicted on the way stay forgotten and their files on disk.
Reserve(t) ==
  LET S == Counted(Cached, req[t].old, ClientOf[t]) IN
  /\ At(t, "reserve")
  /\ \E V \in Evictions(S, Unpinnable(S, 0), 1, BundleMax) :
       /\ Forget(V)
       /\ \/ /\ Fits(S \ V, 1, BundleMax)
             /\ req' = [req EXCEPT ![t].step = "mkdir", ![t].victims = V]
             /\ UNCHANGED builder
          \/ ~Fits(S \ V, 1, BundleMax) /\ End(t) /\ builder' = {}
  /\ UNCHANGED <<clock, rec, dirs, windows, tabs, built, posts>>

Mkdir(t) ==
  /\ At(t, "mkdir")
  /\ built' = built + 1
  /\ dirs' = (dirs \ req[t].victims) \cup {built'}
  /\ req' = [req EXCEPT ![t].step = "render", ![t].rec = built', ![t].victims = {}]
  /\ UNCHANGED <<clock, rec, byDigest, byToken, windows, builder, tabs, posts>>

\* _run_native_viewer_build: the child renders, fails, or is killed at the deadline.
DropTarget(t) ==
  /\ dirs' = dirs \ {req[t].rec}
  /\ End(t)
  /\ builder' = {}

Render(t) ==
  /\ At(t, "render")
  /\ \/ ~Late(t) /\ Goto(t, "register") /\ UNCHANGED <<dirs, builder>>
     \/ DropTarget(t)
  /\ UNCHANGED <<clock, rec, byDigest, byToken, windows, tabs, built, posts>>

\* The registration under the cache lock.  The code's branch for a live record of the
\* digest is never taken (BuildUncontested).
WindowKeys(t) == IF req[t].fresh THEN {} ELSE windows[req[t].digest].keys

Registrable(t) ==
  LET c == ClientOf[t] IN
  /\ ~Late(t) /\ clock < req[t].max
  /\ PinFits(req[t].rec, SizeOf[req[t].digest], c, req[t].old)
  /\ Proxied /\ c \notin WindowKeys(t) => Cardinality(WindowKeys(t)) < DigestKeys

Register(t) ==
  LET c == ClientOf[t]  d == req[t].digest  i == req[t].rec  until == Fewer(clock + Grace, req[t].max)
  IN
  /\ At(t, "register")
  /\ Registrable(t)
  /\ rec' = [rec EXCEPT ![i] = [digest |-> d, used |-> clock, max |-> req[t].max, creator |-> c,
                                lease |-> [NoLease EXCEPT ![c] = until], count |-> [NoLease EXCEPT ![c] = 1]]]
  /\ windows' = [windows EXCEPT ![d] =
                   [max |-> req[t].max, released |-> windows[d].released,
                    keys |-> WindowKeys(t) \cup IF Proxied THEN {c} ELSE {}]]
  /\ byDigest' = [byDigest EXCEPT ![d] = i]
  /\ byToken' = (byToken \ {byDigest[d]}) \cup {i}
  /\ req' = [req EXCEPT ![t].step = "trim", ![t].created = TRUE, ![t].victims = {byDigest[d]} \ {0}]
  /\ UNCHANGED <<clock, dirs, builder, tabs, built, posts>>

Unregistrable(t) ==
  /\ At(t, "register") /\ ~Registrable(t)
  /\ DropTarget(t)
  /\ UNCHANGED <<clock, rec, byDigest, byToken, windows, tabs, built, posts>>

\* The prune after the registration; its failure leaves the new record, its lease and
\* the stale directory behind.
Trim(t) ==
  LET S == Counted(Cached, req[t].old, ClientOf[t]) IN
  /\ At(t, "trim")
  /\ \E V \in Evictions(S, Unpinnable(S, req[t].rec), 0, 0) :
       /\ Forget(V)
       /\ \/ /\ Fits(S \ V, 0, 0)
             /\ req' = [req EXCEPT ![t].step = "finish", ![t].victims = @ \cup V]
             /\ UNCHANGED builder
          \/ ~Fits(S \ V, 0, 0) /\ End(t) /\ builder' = {}
  /\ UNCHANGED <<clock, rec, dirs, windows, tabs, built, posts>>

Finish(t) ==
  /\ At(t, "finish")
  /\ dirs' = dirs \ req[t].victims
  /\ req' = [req EXCEPT ![t].step = "answer", ![t].victims = {}]
  /\ builder' = {}
  /\ UNCHANGED <<clock, rec, byDigest, byToken, windows, tabs, built, posts>>

\* The answer is sent, to a tab that may have been reloaded meanwhile.
Deliver(t) ==
  /\ At(t, "answer") /\ ~Late(t)
  /\ token' \in {[token EXCEPT ![t] = i] : i \in {req[t].rec, 0}}
  /\ seen' = [seen EXCEPT ![t] = req[t].by - Timeout]
  /\ Goto(t, "settle")
  /\ UNCHANGED <<clock, rec, cache, windows, builder, built, posts>>

\* _abandon_native_cache_record: the deadline has passed or the answer cannot be sent.
Abandon(t) ==
  LET i == req[t].rec IN
  /\ At(t, "answer")
  /\ rec' = IF i \in Cached THEN [rec EXCEPT ![i] = Unpinned(@, ClientOf[t])] ELSE rec
  /\ End(t)
  /\ UNCHANGED <<clock, cache, windows, builder, tabs, built, posts>>

\* _release_native_superseded_lease, which looks the record up afresh.
ReleaseOld(t) ==
  LET c == ClientOf[t]  i == Superseded(req[t].sent, c, req[t].digest)  d == rec[i].digest
      r == Unpinned(rec[i], c)
  IN
  /\ At(t, "settle") /\ i # 0
  /\ rec' = [rec EXCEPT ![i] = r]
  /\ windows' = IF windows[d].max > 0 /\ r.count[c] = 0
                THEN [windows EXCEPT ![d].keys = @ \ {c},
                                     ![d].released = @ \/ \A e \in Clients : r.count[e] = 0]
                ELSE windows
  /\ Goto(t, "prune")
  /\ UNCHANGED <<clock, cache, builder, tabs, built, posts>>

\* Nothing to give up, except the second consumer a POST of the shown document made.
KeepOld(t) ==
  LET c == ClientOf[t]  i == req[t].rec
      twice == /\ ~req[t].created /\ req[t].sent = i /\ i \in Cached
               /\ Leased(i, c) /\ rec[i].count[c] > 1
  IN
  /\ At(t, "settle") /\ Superseded(req[t].sent, c, req[t].digest) = 0
  /\ rec' = IF twice THEN [rec EXCEPT ![i].count[c] = @ - 1, ![i].used = clock] ELSE rec
  /\ End(t)
  /\ UNCHANGED <<clock, cache, windows, builder, tabs, built, posts>>

Prune(t) ==
  /\ At(t, "prune")
  /\ \E V \in Evictions(Cached, Unpinnable(Cached, req[t].rec), 0, 0) :
       /\ Forget(V)
       /\ \/ /\ Fits(Cached \ V, 0, 0)
             /\ req' = [req EXCEPT ![t].step = "sweep", ![t].victims = V]
          \/ ~Fits(Cached \ V, 0, 0) /\ End(t)
  /\ UNCHANGED <<clock, rec, dirs, windows, builder, tabs, built, posts>>

Sweep(t) ==
  /\ At(t, "sweep")
  /\ dirs' = dirs \ req[t].victims
  /\ End(t)
  /\ UNCHANGED <<clock, rec, byDigest, byToken, windows, builder, tabs, built, posts>>

-----------------------------------------------------------------------------
(* The frame's GETs, reloads and time.                                     *)

\* _serve_native_bundle, when it serves: the file is opened under the cache lock.
Get(t) ==
  LET i == token[t]  c == ClientOf[t] IN
  /\ Cardinality(Busy) < MaxWorkers
  /\ i \in byToken /\ Alive(i)
  /\ rec[i].creator = c \/ Leased(i, c)
  /\ MayPin(i, c, 0)
  /\ PinRecord(i, c, 0)
  /\ UNCHANGED <<clock, cache, windows, builder, req, tabs, built, posts>>

Reload(t) ==
  /\ At(t, "idle") /\ token[t] # 0
  /\ token' = [token EXCEPT ![t] = 0]
  /\ UNCHANGED <<clock, rec, cache, windows, builder, req, seen, built, posts>>

Expired(r) ==
  LET gone(c) == r.lease[c] <= clock' IN
  [r EXCEPT !.lease = [c \in Clients |-> IF gone(c) THEN 0 ELSE @[c]],
            !.count = [c \in Clients |-> IF gone(c) THEN 0 ELSE @[c]]]

\* No call of a thread blocks past the request's deadline: the build lock is waited for
\* and the renderer killed by it, and the socket is shut down at it.
Prompt == \A t \in Busy : clock < req[t].by

Tick ==
  /\ clock < MaxTime /\ Prompt
  /\ clock' = clock + 1
  /\ rec' = [i \in Ids |-> Expired(rec[i])]
  /\ windows' = [d \in Digests |-> IF windows[d].max <= clock' THEN NoWindow ELSE windows[d]]
  /\ UNCHANGED <<cache, builder, req, tabs, built, posts>>

-----------------------------------------------------------------------------

Init ==
  /\ clock = 0
  /\ rec = [i \in Ids |-> NoRecord]
  /\ byDigest = [d \in Digests |-> 0]
  /\ byToken = {} /\ dirs = {} /\ builder = {}
  /\ windows = [d \in Digests |-> NoWindow]
  /\ req = [t \in Tabs |-> Idle]
  /\ token = [t \in Tabs |-> 0]
  /\ seen = [t \in Tabs |-> 0]
  /\ built = 0 /\ posts = 0

Serve(t) ==
  \/ Lookup(t) \/ Acquire(t) \/ GiveUp(t) \/ Admit(t) \/ Reserve(t) \/ Mkdir(t) \/ Render(t)
  \/ Register(t) \/ Unregistrable(t) \/ Trim(t) \/ Finish(t) \/ Deliver(t) \/ Abandon(t)
  \/ ReleaseOld(t) \/ KeepOld(t) \/ Prune(t) \/ Sweep(t)

Next ==
  \/ \E t \in Tabs : Serve(t) \/ Get(t) \/ Reload(t) \/ \E d \in Digests : Post(t, d)
  \/ Tick

Spec == Init /\ [][Next]_vars

-----------------------------------------------------------------------------
(* Properties.                                                             *)

\* The two indexes name the same records, and each registered record has its directory,
\* whichever thread forgets, supersedes or prunes what between two critical sections.
IndexesAgree ==
  /\ \A d \in Digests : byDigest[d] # 0 => rec[byDigest[d]].digest = d
  /\ byToken = Cached
  /\ byToken \subseteq dirs

\* One thread builds at a time, and when it is about to register it finds no live record
\* of its digest and its pin window, unless new, still in place: the build lock is held
\* across five separate critical sections of the cache lock.
BuildUncontested ==
  /\ builder = {t \in Tabs : req[t].step \in {"admit", "reserve", "mkdir", "render", "register", "trim", "finish"}}
  /\ Cardinality(builder) <= 1
  /\ \A t \in Tabs : At(t, "register") =>
    /\ ~Alive(byDigest[req[t].digest])
    /\ clock < req[t].max /\ ~req[t].fresh => windows[req[t].digest].max = req[t].max

\* The cache holds at most one record more than its limit, and at most one bundle's bytes
\* more: the one a superseding build has replaced and not yet given up.  Pins leave room
\* for a build, again but for the one being superseded.
CacheWithinLimits ==
  /\ Cardinality(Cached) <= MaxEntries + 1
  /\ Bytes(Cached) <= MaxBytes + BundleMax
  /\ Cardinality(LiveWindows) <= MaxWindows
  /\ Cardinality({i \in Cached : Pinned(i)}) <= MaxEntries
  /\ Proxied => \A c \in Clients : Cardinality({i \in Cached : Leased(i, c)}) <= ClientPins + 1

\* What every thread relies on between its critical sections, whatever the others forget,
\* supersede or prune meanwhile.
CacheCoherent == IndexesAgree /\ BuildUncontested /\ CacheWithinLimits

\* What a tab shows can be read again for the whole grace period since it asked for it.
Sole(t) == \A s \in Tabs \ {t} : ClientOf[s] # ClientOf[t]
ShownReadable ==
  \A t \in Tabs : LET i == token[t] IN
    Sole(t) /\ i # 0 /\ clock < Fewer(seen[t] + Grace, rec[i].max) => i \in byToken /\ Leased(i, ClientOf[t])

\* When nothing is in progress no directory is left that no record names.
NoOrphans == Busy = {} => dirs = byToken

\* A lease holds what it promises to the client that has it, whatever others do: what a
\* tab shows stays readable, and no request revokes another client's lease or evicts what
\* it protects.
ForeignLeasesKept ==
  \A c \in Clients :
    (\A t \in Tabs : ClientOf[t] = c => req'[t] = req[t]) =>
      \A i \in byToken : rec[i].lease[c] > clock' =>
        i \in byToken' /\ rec'[i].lease[c] >= rec[i].lease[c]
LeasesHold == [][ShownReadable' /\ ForeignLeasesKept]_vars
=============================================================================
