# Schauwerk: specifications, model checking and proofs

Schauwerk turns reviewed, declarative descriptions of pictures (diagrams,
documents, tables, regions) into artefacts and into changes of shared Miro
boards. Most of it is pure compilation. What is hard is the small part that
*acts*: it changes a board other people work on through a provider whose calls
fail, time out and take effect late, it keeps its evidence in local files, and
it may be killed between any two steps. The architecture document calls the
chain `plan -> preflight -> snapshot -> apply -> verify -> receipt -> optional
restore` (`docs/architecture/schauwerk.md`). This directory holds TLA+ modules
of that part, the TLC runs that check them and the theorems TLAPS proves about
them. Line numbers below refer to `src/src/schauwerk/`; documentation and tests
are under `src/docs/` and `src/tests/`.

Contents: 1 inventory, 2 hard behaviours, 3 modules, 4 runs and bounds,
5 fairness, 6 what the runs found, 7 proofs, 8 what is not modelled, 9 plan.


## 1. Inventory

| Component | State it keeps | Operations | Interacts with | Correct when | Status |
|---|---|---|---|---|---|
| **Live executor** `operator/live_apply.py`, `surfaces/miro/managed_region_runtime.py` | per authorization a reservation directory, `journal.json`, canonical apply, failure, restore and restore-failure receipts; a kill-switch file; the texts on the board | `execute_live_apply`, `restore_live_apply`, `_rollback`, `_recover_after_failed_restore`, `enable/disable_kill_switch` | Miro (layout read, `layout_update`, verified snapshots), Regie, command line | an authorization is used once; a stop stops; receipts tell the truth and stay; a failed apply leaves nothing; a commit can be undone | modelled |
| **Regie** `regie/service.py`, `server.py` | session directory of one review: decision receipt, selected bundle, authorization, live plan, requested apply and restore receipts; a lock in each server's memory | `decide`, `apply`, `restore`, `state` | live executor (in process), a browser page | one decision per review, only its transaction runs, the page shows the truth and offers what will work | modelled |
| **Native bundle executor** `surfaces/miro/native_executor.py`, `native_runtime.py` | one receipt per run (`in_progress`, `failed`, `complete`); a board lock (`flock`) | `execute_native_bundle`, with and without `--resume`; reconciliation of an announced operation | Miro tools (documents, diagrams, tables, comments, layouts), representation delivery | no operation happens twice; nothing happens unannounced; a complete receipt is about what is there; an interrupted bundle can be finished | partly |
| **Publication store** `publication/store.py` | version objects, one stable link per slug, release and withdrawal receipts, the store's lock file | `release_publication`, `withdraw_publication`; read: status, delivery | publication server, previews | the link always names a whole object; objects once shown stay; only the reviewed link is replaced | modelled |
| Publication previews and server `publication/model.py`, `server.py` | none (previews are immutable packages) | compile, validate, serve | the store's read path | digests bind what is shown to what was reviewed | partly (as constants) |
| **Region operations, receipts, closeout** `operator/regions.py`, `receipts.py`, `sw003_closeout.py`, `core.py` and the documents of `operator/live_apply.py` | the files an operator hands from command to command | preflight, scaffold, contract, simulation, postflight, restore, closeouts, claims and packets, gate; bundle, authorization, plan | live executor | a ready receipt is about one region of one board that was checked, whatever files are mixed; an operation begins with what was reviewed, and its texts can be told apart | partly: the wording of receipts and templates without a decision are left out |
| **Managed images** `managed_image_runtime.py`, `managed_image_service.py` | identity files, receipts, board, asset and receipt locks; images on the board | `run_managed_image_replace`, `run_managed_image_delete`, with compensation | REST client, Miro tools, board | the asset is never without an image; a receipt is true (but see section 6); an identity is consumed once | modelled |
| **OAuth credentials** `credentials.py`, `auth.py`, `client.py`, `rest_*.py`, `safe_logout.py` | token state file and its lock; the flow lock | session, refresh, login, logout; deletion of one item over REST | every provider call | a refresh token is presented once and its successor is kept | partly: login and client registration are left out |
| **Board allowlist** `board_registry.py` | one JSON file | add, replace, remove, resolve | every command with a board | an alias in use leads to its board | modelled with the live tests; concurrent changes are not (section 6) |
| **Live tests** `cli_handlers.py`, `live_test_index.py`, `live_test_runtime.py`, `layout_runtime.py` | boards, output directories, the index, retired directories | live test of Visual System v2 (fresh, replacing, reusing, resumed) and of a learning view; prune | Miro, allowlist | a receipt vouches for a board that shows the plan; a prune leaves usable what it keeps | modelled |
| **Snapshots** `snapshot_runtime.py`, `snapshot*.py`, `inspection.py`, `discovery.py` | none besides the output | two paginated reads that must agree | live executor | two equal reads are one state of the board | partly: the extraction of fields is pure |
| **Companion** `companion_*.py`, `web_sdk_companion.py` | generations of evidence, `current.json`, attention receipts, `refresh.lock` | `capture_evidence` by timer and by hand; release, serving | browser, systemd timer | the pointer names a whole generation and each supersedes the one before | partly: evidence only |
| **Representation delivery** `visual/delivery*.py` | frozen bundle, native receipt, delivery receipt, `delivery.lock` | deliver, with and without `--resume` | native executor | a bundle is executed once and its receipt binds this execution | modelled |
| **Standalone editor** `visual/standalone_editor.py`, `resources/standalone_editor/`, `resources/native_viewer/` | server: bundle cache, pin windows, leases, build lock; tab: document, two stacks, draft, retry, launches; frame: pointers, picture, view | POST and GET of bundles; edits, undo, redo, retry, restore, export; pointer gestures | browser, local storage, compilers | what a tab shows can be read; picture, document, draft and stacks stay together | partly: static files, drawing and vector exports are left out |
| **Fundus** `fundus/` | registry, content-addressed builds, previews, decisions, packages | build, preview, accept, reject, inherit, package; inventory, durability status | publications | what is packaged was accepted; an inventory is the tree at one moment | partly: review bundles, earlier schemas, import and doctor are left out |
| Other Miro tooling (audits, planners, layout DSL) | one output file each | compute and write | Miro reads | - | not modelled: no shared state |
| **Diagram compilers and viewers** `visual/native_*.py`, `representation.py`, `system_v2.py`, ... | the output directory of a package | compile, publish a package | others in the same parent directory | deterministic functions over large data; a package is shown whole and failures leave nothing | partly: the output of a package, the labels of a JSON canvas and the projection of bidirectional text |
| **Durable adapters** `durable/` | none | plan moves and backups; hash files | others who change the files | a manifest names contents that were there | partly: adapters, search and plans are pure |
| Overview `overview/` | none | read and render | registry, receipts | - | not modelled: reads only |
| Presentation, education, pilots | none | compile | - | - | not modelled: pure |
| Command line and registry | registry files | parse, dispatch, validate | all | - | not modelled: no rules of its own |

How the acting parts interact: the command line and Regie call
`execute_live_apply` and `restore_live_apply`; both go through
`managed_region_runtime` to Miro and through the state root to each other. The
delivery and the command line call the native executor, which has its own lock
and receipt. The publication server reads what the store's two writers write.
These clusters share no file, so they are models of their own; so are the
smaller components, each of which shares state with itself only: other runs of
the same command, people, and kills. Where a component relies on another one it
relies on what that one's properties say: the delivery on `AtMostOnce` and on
what a complete native receipt means, a live apply on `SnapshotExact`, the
managed images on the OAuth session, the tab on the cache's `LeasesHold`, the
tab on the frame's messages.


## 2. Hard behaviours

`PROJECT.json` lists 40 hazards, each at its line. The themes are:

- *Time of check, time of use.* The live executor takes no lock on a board; it
  compares a snapshot, a layout read and another snapshot taken one after the
  other. The stop is looked at before each operation, not during it. Regie
  looks a decision up and then writes it.
- *A reply is not the effect.* A replacement or a creation can be done and its
  reply lost, not be done, or be done after the caller has given up.
- *Killed between two writes.* Journal, canonical receipt and requested receipt
  are three files; the board and the journal are two systems.
- *Repeating.* An apply, a restore and a resumed run find what an earlier
  attempt left, and must neither do it twice nor refuse for ever.
- *A lock that is not where one thinks.* `delivery.lock` is unlinked by its
  owner, the flow lock is taken by a thread that outlives its task, the build
  lock is released between critical sections, an identity is read before the
  locks, a generation is named before the lock.
- *Reading something that moves.* Pages of a board that people edit; files and
  directories that are written, replaced and removed while they are hashed, walked
  or published.
- *Answers to questions nobody asks any more.* Renderings that were overtaken,
  gestures cut off by another one.
- *Undoing.* Rollbacks and recoveries are themselves interrupted, refused and
  overtaken.


## 3. Modules

### LiveApply (live_apply.py)

State: `board` (the text of every slot an operation may replace, and a revision
`rest` for everything else), the timed-out calls that may still be executed
(`late`), the directories that exist (`reserved`), `journal[a]`, the receipts
kept beside it (`canonical[c][a]`) and those at the path the caller asked for
(`requested[c][a]`), `killSwitch`, `clock`, and for each process its next step
`pc`, its command and authorization, the journal it holds in memory (`mem`), its
progress (`sent`, `todo`) and the receipt it is about to persist (`out`).
`calls` and `overrun` count the replacements sent, for the properties only.

Every provider call and every file write is a step. Named after what the code
does at that point:

| Code | Actions |
|---|---|
| `execute_live_apply` up to the preflight (1404-1526) | `StartApply`, `Reserve`, `AnswerExisting`, `WriteReserved`, `SnapshotBefore`, `ReadBefore`, `WritePreflightFailed`, `WritePrepared` |
| the operation loop (1530-1563) | `CheckOperation`, `ReplaceOperation`, `WriteApplying` |
| verification and commit (1564-1595) | `ReadAfter`, `SnapshotAfter`, `WriteCommitted` |
| `_rollback`, `_recover_after_failed_restore` | `RepairRead`, `RepairReplace`, `RepairVerify`, `RepairSnapshot`, `WriteRepairOutcome` |
| `_persist_receipt` (1336-1348) | `PersistCanonical`, `PersistRequested` |
| `restore_live_apply` | `StartRestore`, `AnswerRestore`, `SnapshotCurrent`, `ReadCurrent`, `InverseOperation`, `ReadRestored`, `SnapshotRestored`, `WriteRestored` |
| the kill switch | `EnableKillSwitch`, `DisableKillSwitch` |
| the surroundings | `Tick` (the authorization expires), `ExternalEdit` (somebody else on the board), `LateEffect` (a timed-out call is executed after all), `Crash` |

A replacement has four replies: `ok`, `lost` (done, reply lost), `refused`, and
`timeout` (not done; with `LateEffects` it may be done later). A killed process
leaves its files and its late call behind and may be started again. The
compilers and digest checks that run before anything is shared are the constant
`Plan`: which slots the plan bound to an authorization replaces.

### RegionReceipts (regions.py, receipts.py, sw003_closeout.py) and LiveOrders (live_apply.py)

`RegionReceipts` follows one line of receipts: `held` is the receipt written
last, `origin` the preflight it goes back to. Each command (`RunPreflight`,
`RunScaffold`, `RunApplyReceipt`, `RunContract`, `RunSimulation`,
`RunPostflight`, `RunRestore`, the closeouts, the chain from `RunEvaluation` to
`RunEvidencePacket`, `RunGate`, `RunCandidateCheck`) decides by the conditions of
the code from the receipt it is given and from files of evidence, which may
belong to another run, region or board. A command trusts what an earlier receipt says
of itself and checks part of it again; which part is what `ReceiptsProven` is about.

`LiveOrders` goes on from the gate: gate, bundle, authorization and plan are
four files (`PlaceGate`, `CompileBundle`, `Authorize`, `WritePlan`), each written
again at any time while `LetTimePass` lets authorizations run out, until
`BeginOperation` compiles the plan again and compares it with the reviewed one. A text is the set of
its words, which is enough to say that one contains the other. `OrdersBound`
is what `LiveApply` assumes of the operation it starts with (`PlanAssumption`).

### ManagedTransaction, LiveApplyRefinement

The abstract promise: for each transaction a phase (`unused`, `running`,
`aborted`, `committed`, `restoring`, `restored`, `unproven`) and what its region
shows (`before`, `mixed`, `after`); a transaction begins once, commits at most
once, and only a running, restoring or unproven one may show anything else than
its phase says. `LiveApplyRefinement` maps the executor on it: the phase is read
off journal and restore under way, the region off the board.

### Regie (service.py)

EXTENDS LiveApply: the executor's actions are the same, started by a server.
Additional state: `decision`, `selected` (the files written beside the
decision), `stored[c]` (whose receipt the session directory holds), and what a
server in the middle of deciding has done (`deciding[p]`, `ready`). Actions: `Decide`, `WriteSelection`, `WriteDecision`, `Apply`,
`Restore`, `Serve` (every step of the executor, including the write of the
requested receipt into the session), `ServerCrash`. `Phase`, `OffersApply`,
`OffersRestore` and `Readable` are what `state()` computes from the files.
`ReviewSession` is a review whose initial state says whether the behaviour is
calm (`calm`): no server is killed and nobody edits the board. What a page
promises is stated there (`OffersServed`).

### NativeExecutor (native_executor.py, native_runtime.py)

State: per operation how often it was executed on the board (`made`) and which
calls may still take effect (`late`), equal and other items that others added
(`foreign`, `items`), the `receipt` on disk, each process's step and `memory`
of the receipt, the board lock `holder`, the number of `runs`. The operations
are a constant `Bundle` of kinds: `document`, `canvas` and `comment` can be
found again after a crash (`PreflightAccepted`, `ReconcileComment`),
`create`, `update` and `delete` cannot, `read` changes nothing. Actions: `Fresh`,
`Resume`, `Preflight` (with the inventory check of a resumed run), `ReadOperation`,
`ReconcileComment`, `Announce` (the checkpoint before the mutation), `Call`,
`PreflightMismatch`, `Verify`, `ReadPostflight`, `Succeed`, `ReadFails`, `WriteFailure`, `Crash`,
`TakeEffect`, `Edit`.

### PublicationStore (store.py), StableLink

State: `object[v]` (the preview whose files version v holds), `link`, receipts,
the lock `holder`, and for each process its step, its `target`, and the notes
the rollback goes by: `created`, `committed` and the link it `replaced`. `shown`
and `visible` record, for the properties, what readers could see. Actions follow
the two commands: `Check`, `PublishObject`, `Exchange`, `NoteCommit`,
`VerifyObject`, `WriteReceipt`, `Return`, and the rollback `PutLinkBack`,
`UnlinkMarker`, `RemoveObject`; `Raise` is an exception between two of them,
`KillPublisher` a kill. `StableLink` is what a reader is promised: one release at a
time, each replacing exactly the link reviewed with it.

### Delivery (delivery_runtime.py)

State: the three output files, the inode of `delivery.lock`, who has locked
which inode (a process may own a file that is no longer in the directory), who
holds the native locks, and how often each operation was executed. Deliveries
with and without `--resume` take the lock, freeze the bundle with exclusive
creation, have it executed under the native locks, publish the receipt, remove
the lock file, and may fail or be killed at any step. Of `NativeExecutor` only
what the delivery relies on is kept.

### OAuthSession (credentials.py, discovery.py, safe_logout.py)

State: sessions, the flow lock and the thread that may hold it for nobody, the
state file (`stored`, `saved`), and at Miro the tokens handed out and accepted.
A session waits for the flow lock in a thread (and may be cancelled while the
thread goes on), reads the tokens, refreshes, stores the answer, and carries an
old refresh token forward by a second write when the answer has none; logouts
take only the file's lock.

### Snapshot (snapshot.py, snapshot_runtime.py)

State: the board's items and comments with versions, and one run: which read,
which page, the cursors and pages it has seen, what the two reads have
collected. Items are paged by cursor, comments by offset, newest first, so that
a new comment shifts every later page; Miro may repeat a page. People add,
change and delete between any two calls.

### CompanionEvidence (companion_evidence.py)

State: the clock that names generations, the files of each generation, the
pointer, attention receipts, the lock. A capture observes the time, takes the
lock, decides whether evidence is due, reads back, writes the four files and the
pointer, or fails; killed anywhere.

### Fundus (fundus/core.py)

State: the registry's manifest and recipe, builds, previews, decisions and
packages, each file whole or half written. `Build`, `Preview`, `Accept`,
`InheritAcceptance`, `Package` run as processes without a lock; people edit the
registry between any two of their steps. A command that finds a build or preview in
part (left by a kill, or being written by another one) completes it, or ends at a file
that was cut off.

### ManagedImage (managed_image_service.py, managed_image_runtime.py, rest_client.py)

State: the place of each image on the board, identity files, receipts, the runs
and the holder of the locks. `Start` .. `PublishReceipt` follow
`replace_managed_image` and `delete_managed_image` call by call, each with its
failures before and after its effect, `Compensate` and `Recheck` the
compensation; `Cancel`, `LoseSession`, `Kill` and `Edit` are the surroundings. What
reaches the receipt is the exception as `_live_mcp` lets it through: a cancellation
of the compensation may come out as the error of the staging read in whose handling
it struck, and a session that ends, wherever the run is, as a connection error. Both
are written with the status "failed", which the model keeps apart as `"broken"`, so that
`ReceiptsTrue` can say what a "failed" of a run that came to its own end means and
`FailedLeavesOne` what the documentation says of all (section 6).

### EditorCache (standalone_editor.py)

State: the record objects and their two indexes, the directories, the pin
windows, the build lock, and for each tab its request and what it shows. A
request is the sequence of critical sections of the server thread: lookup,
admission, build lock, lookup again, window, directory, rendering, registration
and eviction, answer, release of the superseded bundle; between any two of them
other threads go on. `Sweep` and `Get` are the other entry points, `Tick` lets
leases, windows and deadlines run out.

### EditorTab (app.js of the standalone editor) and ViewerPointers (app.js of the native viewer)

`EditorTab` is one tab: `tab` holds the script's variables and the frame,
`launches` the queue of renderings that await their turn or answer, `mail` the
frame's messages, `draft` the local storage. Actions are the handlers: opening,
closing, editing (a change or a rebuild), undo and redo, retry, restoring,
content dialog, raster export, messages, and the answers (rendered, failed for
now, refused for good), each of which may come after it was overtaken.

`ViewerPointers` is what happens inside the frame between two messages: pointers
that press, drag, pan, pinch, lift and are cancelled, picking the ends of an
edge, reset, observation mode, zoom, fit and layout changes, and a frame that is
replaced and hands its view over.

### DirectoryTree, TreeBackup, TreeInventory and TreeReaders (durable/operations.py, fundus/durability.py, fundus/pathio.py)

`DirectoryTree` is a root with files and a folder, and what others do to it:
write a file, put a file or a symbolic link under a name, remove a name, replace
the folder or the root, which whoever has it open keeps. Its two readers share
these variables. `TreeBackup` is `compile_backup_manifest` and, with missing
files allowed, `verify_staged_restore`: descriptors from the root down, each file
read in chunks between two `fstat`s, directories and name looked at again
(`CheckUnchanged`, `CheckRoot`, `CheckFolder`, `CheckName`). `TreeInventory` is
`fundus_inventory`, two walks with identities that must agree, and
`durability_status`, which takes an inventory, reads the evidence and takes the
inventory again. An open and the `fstat` after it are one step: nothing others do
can tell them apart. Each change leaves a time stamp of its own, and what has
been taken out of the tree is not put back. `TreeReaders` composes the two: either
may run while the tree changes under both, and `TreesReadTrue` is what they promise.

### PackageOutput (visual/representation.py)

State: which directory the parent's path leads to, the names in it, the files in
the directories, what the files hold, and the command with the descriptors it
keeps. `MakeStaging` to `RenameNoreplace` prepare and publish, `CheckNames` to
`StatArtifactAgain` are the readback of the artifacts before the renaming, after
it and at the end, `ScrubArtifact` cuts what the command has written when anything
fails (`CallRaises`, `Interrupt`). `Meddlers` are other processes of the same user.

### LiveTests (cli_handlers.py, live_test_index.py, board_registry.py)

State: the boards in Miro with the number of items of each type they show, the
allowlist, the output directories with their snapshots and receipt, what a prune
has moved away, the index, and the command under way. `StartTest` to
`WriteTestReceipt` follow the two live tests call by call, in their six modes;
`StartPrune` to `RewriteIndex` are `prune_live_tests`, `AddBoard` and `RemoveBoard` the
allowlist by hand. `AbandonCommand`, possible at each step, is an error or a kill:
nothing is undone by either.

### BidiProjection (native_diagram.py)

A pure algorithm: `Project` is `_canvas_project_bidi_wrapped_lines` with
`ResolveFsi`, over classes of characters. `Scopes` and `Reading` state the
meaning of a text by the Unicode rules, independently of the code. The
behaviour grows a text by one character at a time, so that the run visits every
text up to its bound.

### CanvasLabels (native_diagram.py)

The labels of a JSON canvas. `TextLayout` is `_canvas_text_layout` with all it
calls: the probe of a long text, the historical wrapping (`LegacyLines`), the
wrapping by width at falling sizes (`WrapSourceLine`, `AdaptiveLines`), the
ellipsis; `LimitBytes` and `FitSingleLine` are the limits on bytes; the projection
of each line is `BidiProjection`'s. State: the lines, bytes and labelled items
the drawing has left, and the item being drawn. `DrawNode` and `DrawEdge` are the
two ways of `render_native_editing_document` to take a share. Widths and bytes
are the code's. The operators were run beside the Python functions on 582,000
texts, boxes and limits and gave the same lines, positions and flags each time.

### Proof modules

`LiveApplyProofs` (about `LiveApply` and `ReviewSession`, which is Regie in front of
it), `NativeExecutorProofs`, `StoreProofs` (about
`PublicationStore` and `TreeReaders`), `MiroProofs` (about `OAuthSession`,
`CompanionEvidence`, `ManagedImage`, `Delivery` and `Snapshot`), `FilesProofs` (about
`LiveTests`, `PackageOutput`, `Fundus`, `RegionReceipts`, `LiveOrders` and
`ManagedTransaction`), `EditorProofs` (about `ViewerPointers` and
`EditorCache`), `TabProofs` (about `EditorTab`), and `SumProofs`, the lemmas on sums over finite sets that
`NativeExecutorProofs` and `EditorProofs` use; section 7. The `MC...` modules
only define plans, bundles, previews, images and sizes for TLC; `MCDesk` puts eight small
components into one run, in which a behaviour is of one of them and the others
stay as they are, `MCStores` seven more, most of which work on files, and `MCPages` the
pages of a review and of a publication and the labels of a drawing. Operators named as a
variant of an action (`ReserveAgain`, `RepairStatusIgnored`, `ResumeAhead`, ...)
and commented as seeded faults or mutants are not part of any `Next`: put in the place of
the action they vary, each makes TLC find a property violated (`mutants` in
`PROJECT.json`).


## 4. Runs and bounds

The passing runs; TLC explores each of them completely.

| Run | Distinct states | Question |
|---|---|---|
| `apply_race` | 1,298,422 | Two processes apply one authorization, one of them also restores it, amid lost and late replies, the kill switch, expiry, an edit and kills: `SingleUse`, `StopBound`, `DeclaredOnly`, `RestoredStays` |
| `transactions` | 231,701 | Two plans for one board, applied by one process and restored by another, see each other's changes as drift: the executor implements `ManagedTransaction`, leaves `NoResidue`, and under fairness `ReservationsSettle` |
| `pages` | 454,450 | One server, killed and restarted anywhere: the decision stays (`DecisionImmutable`, `SelectionDecided`), only its transaction runs (`OneTransaction`), the page is true and moves forward (`PhaseTruthful`, `PhaseAdvances`). In the behaviours without kills and edits, with restores that fail, recover and are tried again: `OffersServed` (`OffersHold` and `RestoreAvailable`). In 208,877 further states the publication store, with exceptions before the exchange is noted and after the receipt, and kills anywhere but in the removal of a first link: it implements `StableLink` (`ImplementsStableLink`); `LinkReadable`. In 210,622 more the wrapped texts (`ScopesKept`) and the labels of a drawing (`LabelsKept`) |
| `native_mixed` | 200,019 | Nine operations of every kind, equal ones among them, two processes, three runs, kills, failed reads, lost and late replies: `AtMostOnce`, `ProgressKept`, `ResultsFound`, and under fairness `RunsEnd` |
| `publication_store` | 1,018,966 | Releases and withdrawals of four previews, failing and killed anywhere (48,451 states): `LinkBacked`, `ObjectsKept`, `ReceiptsShown`. A tree that others change while it is hashed (`EntriesShown`) or walked (`InventoryExact`; both together are `TreesReadTrue`); a package published among others' changes, with failures, interrupts and kills (`PackageHonest`). Live tests and prunes, failing and killed anywhere: `ReceiptBacked`, `KeptUsable`. Receipts about regions, with the files of several runs mixed: `ReceiptsProven`. Gate, bundle, authorization and plan, each replaced at any time before the operation begins: `OrdersBound` |
| `editor_cache` | 2,014,364 (up to the symmetry of documents) | Two tabs of two clients behind the proxy, three documents, two workers, everything at its limit while leases, windows and deadlines run out: `CacheCoherent` (which includes the cache's limits, `CacheWithinLimits`), `LeasesHold` |
| `desk` | 1,900,079 | Eight components, each explored completely: `SnapshotExact`, `EvidenceChained`, `DeliveredOnce`, `LoginKept`, `PackagedReviewed`, `ImagesKept`, `EditorUsable`, `ViewerSettled` |

The inductive invariants and type invariants of the proofs were checked by TLC
on these instances too; since the theorems say more, they are not properties of
the runs. `MCNativeExecutor` also has a bundle for a provider that can only be
searched (`SearchOnly`); what it adds is covered by the theorems.

Why the bounds are enough. *Live executor*: plans of two operations are the
smallest with a state between operations, and the repair loop runs over a
partly applied plan; a third slot appears only for a second plan, since what
matters of another plan is that its change is drift to this one. One edit is
enough to fall between any two reads; one tick is enough for expiry, at any
step. Processes start again without limit, so two appliers are any number of
attempts in pairs. The proofs drop these bounds for what they cover. *Regie*:
two decisions, because only a second one can disagree with the first. *Native
executor*: the bundle contains each kind of operation, so each way of being
retried, between others and next to an equal one, so that a reconciliation can
be wrong about what came before and after; three runs are an interrupted run,
its interrupted resumption and the resumption of that; one edit adds, removes,
changes or equals an item at any step. *Publication store*: four previews are
two rivals for one version, an update and a release after a withdrawal, which
are all relations the store distinguishes; four commands let each of them
follow every other, and the proofs cover longer histories.
*Trees*: one folder with a file and a file beside it, so that there is something
before, in and behind the point a walk has reached; contents of one and two
chunks, and two changes, so that one can hide the other. *Package*: two artifacts,
one of which is being written or read while the other is done, and two changes.
*Receipts*: three declarations, five snapshots and four lists of operations differ from
the right one in one respect each, and so do the files of proofs and claims; a command
that forgets a comparison accepts one of them. *Orders*: four drafts, one right and
each other one wrong in one respect, and three hours, so that an authorization can be
in force, run out and be given again. *Live tests*: three commands are a test that stops somewhere, one that takes up what it left, and a prune or a third test; one kept record makes the prune prune; two types of items
let a layout be half there.
*Editor cache*: two records, two windows and one pin for each client are the
smallest limits at which a superseding build needs the exception the code makes
for it; with three documents a tab can replace its own twice, or post again what the other
one has. Two ticks are a whole life of a record with a lease that ran out before, and
a deadline of two lets an answer come a tick after its lease was given: what a
tab shows is held from the moment it asked, not from the answer on.
*Snapshot*: three records on pages of two, so that a record can slip over the
boundary, and three edits, one in each read and one between. *Evidence*: three
captures, two of them forced, over a lifetime of two seconds, so that names
collide and evidence expires. *Delivery*: two fresh and two resumed deliveries
and three lock files are the fewest for a removed lock, its successor and two
owners. *OAuth*: three sessions, so that two can fail over a third one's token.
*Fundus*: two processes and three manifests, two of which look the same and one
does not. *Images*: two replacements that may hold the same identity and a
deletion, one edit. *Tab*: four documents, two launches waiting, a history of
two. *Pointers*: a third pointer joins a pinch; with one node and two spots
a drag is seen to be kept, taken back or posted. *Bidi*: five characters are an opener, another one
inside, a wrap, a letter and a closer, with a depth of three and six characters
to look ahead, so that both limits are met. *Canvas*: labels of four characters
over five classes in four boxes and on edges, which hold none to three letters in
a line at the smallest size; nine bytes and three lines for one label, so that it may
need more than there are, for three, so that a label that took the lines kept for
those after it would be seen, or for four, so that shares go down to two bytes; of the branches that labels of these characters can take
only the probe's limit by width needs longer ones.

`CHECK_DEADLOCK FALSE` stands in every run because each model may really stop:
authorizations are used up, a journal is final, a bundle is complete, a text has its length, the
bound on runs or commands is reached and nobody is required to do more.

Assumptions on the surroundings that a run needs are its constants: `Crashes`, `LateEffects`, `CitingErrors`, `MaxEdits`, `CrashAt`,
`RaiseAt`, `RetryRejects`, `MidGesture`. Where a property only holds without one of them, the run without it
passes, and section 6 says what happens with it.


## 5. Fairness

`LiveApply!FairSpec`: weak fairness of `Continue(p)`, the steps of a command
once it has begun. The command is sequential code without a wait on another
process, and each of its provider calls returns or times out
(`managed_region_runtime`), so a running command takes its next step. Nothing is
assumed of starts, of the kill switch, of other people, of the clock or of
late effects. Under it `ReservationsSettle` holds while nobody is killed: a killed
process leaves a reservation nobody may take over (a directory without a
journal is refused at 1426).

`NativeExecutor!FairSpec`: weak fairness of `RunStep(p)`. `RunStep` leaves the
failing reads (`ReadFails`) out, so that an end by failure is never assumed.
Kills are allowed and end the run too: the operating system gives the `flock`
back. Starting a run is not fair: `RunsEnd` says of a run that holds the lock
that it gives it back.

The other components have no liveness property: their commands and requests are
started by people or a timer and are sequences of steps that end by themselves;
what could wait for another one (the flow lock, the board lock, the build lock)
is waited for with a deadline or not at all. Their runs state no fairness.


## 6. What the runs found

Five runs show a statement of the documentation, a comment or a test violated
by the code. In each the configuration is the smallest in which it happens.

| Run | Statement | What happens |
|---|---|---|
| `restore_race` | sw010:100 "no further mutation" | a second restore fails on restored texts and its recovery puts the new texts back |
| `editor_orphans` | `tests/visual/test_standalone_editor.py:4621`, one directory for one record | a prune that cannot make enough room forgets records on the way and raises (1306) before it removes their directories, which stay until the server is restarted |
| `live_acceptance` | `docs/operators/visual-system-v2-live.md:44` "an empty before snapshot", `:47` "exact remote [...] item-count conformance" | a test with `--reuse-existing-alias` puts its layout on a board that already shows one: the counts of the plan are minimums (`cli_handlers.py:784`), the before snapshot is not looked at, and the receipt says conforming |
| `image_outcomes` | `docs/operators/miro-managed-image-lifecycle-v1.md:61` "Mehrdeutige Create-, Delete-, Kompensations- oder Postflight-Ausgänge führen zu `manual_reconciliation_required`" | the session ends in `image_create`, the staging read or a compensation: `_live_mcp` makes it a connection error (`managed_image_service.py:326`), and the receipt says failed and `manual_reconciliation_required: false` with both images on the board. The same of a cancellation that strikes the compensation inside `except Exception:` (`managed_image_runtime.py:640`), which `find_nested_miro_error` replaces by the error in its context |
| `editor_retry` | the comment at `resources/standalone_editor/assets.py:3269` | an edit fails for now and its retry is refused for good: the document to go back to was taken from the candidate itself, so the refused candidate stays document, draft and retry |

Each of the following properties holds in its run because of a constant, or an
assumption on the surroundings named here. Without it TLC finds the behaviour
described; they are limits of the code that a reader of the results should know.

| Property and its condition | Without it |
|---|---|
| `RestoredStays` in `apply_race`, one restorer | `restore_race` above |
| `OffersServed` in `pages`, `CitingErrors = FALSE` | the failure receipt of a restore that quotes a provider error with a URL is refused by its own validator, and with it the retry; `docs/operators/sw009-live-executor-v1.md:44` says "restore remains available from a committed receipt" |
| `OffersServed` in `pages`, behaviours without kills | a restore writes nothing before its inverse operations; killed among them it leaves a board that no later restore accepts |
| the same | killed between the canonical receipt and the session's (`_persist_receipt`): committed, but the page never offers the restore |
| `NoResidue` in `transactions`, `LateEffects = FALSE` | a call executed after the rollback's last read stays on the board under `rolled_back` |
| `DecisionImmutable` in `pages`, one server | two servers of one review both find no decision and both write theirs |
| `ResultsFound` in `native_mixed`, comments differ | of two equal comments, the first is taken for a second one that was never made (`_comment_id_for_content` matches by text alone) |
| `NativeExecutor`, receipts of failed runs | a resumed run that fails after verifying a found mutation reports that nothing was mutated, against `tests/miro/test_native_executor.py:1511` |
| `LinkReadable` in `pages`, `"unlink" \notin CrashAt` | killed between the exchange for an empty marker and its removal: the empty file is the link, which no later command can read |
| `LinkBacked` in `publication_store`, `"note" \notin RaiseAt` | an error after the exchange and before `link_committed = True`: the rollback removes the object the link names, against schaufenster-v1:116 |
| `SnapshotExact`, nobody restores an earlier version | a record changed and changed back between the reads is seen twice as the same |
| `EvidenceChained` is about files, not about dates | the time is taken before the lock: a failure that waited for it may be recorded as older than the evidence, and a forced capture that waited may move the pointer to an earlier second |
| `DeliveredOnce` is about safety | a delivery that fails or is killed between the complete native execution and its own receipt cannot be resumed; `delivery.lock` can have two owners, and only the exclusive creation of the bundle and the native locks keep them apart |
| `LoginKept`, no refresh interrupted | killed between Miro's answer and the file: the login is lost. A cancelled wait leaves the flow lock with its thread until the process ends; a logout does not take the flow lock |
| `PackagedReviewed`, rejections seen when the command began | a rejection written during the check is overlooked; an inherited acceptance ignores rejections of its parent; a file cut short by a kill blocks its name for good |
| `ImagesKept`, of a "failed" that hides two images: runs that were not broken off | `image_outcomes` above |
| `ImagesKept` says nothing of a "failed" that hides one image | an error of the inventory after the deletion is reported as "failed" though the old image is gone, against `docs/operators/miro-managed-image-lifecycle-v1.md:61` |
| `LeasesHold`, one tab for each client | of two tabs of one client, a late request or a supersede of the one takes the lease of the other; a GET extends the lease without a consumer |
| `CacheWithinLimits` (in `CacheCoherent`) allows one record more | after a superseding build that was abandoned the cache stays at its limit plus one until the next prune; a failed second prune leaves a registered record until it expires |
| `CacheCoherent`, `Prompt` (a blocking call ends at its request's deadline) | the code has a deadline for each of them, but no thread is interrupted |
| `EditorUsable`, `RetryRejects = FALSE` | `editor_retry` above |
| `EditorUsable`, messages that were not heard | the tab ignores the frame's messages while it renders: an edit made in this window stays in the frame until the next one |
| `ViewerSettled`, `MidGesture = FALSE` | a reset by the keyboard during a drag, followed by a cancel or a pinch, leaves picture and posted document apart until the next change; an edit by the keyboard while a pointer is down hands a merely suspended fit over as a view the user chose |
| `EntriesShown`, `InventoryExact`: each change has a time stamp of its own | a file written twice within one tick of the kernel's clock, or put back as it was with its old inode, is seen as unchanged |
| `PackageHonest`, what a command that fails leaves | an interrupt after `published = True` (1690) ends the command with an error and leaves the whole package at its target; a kill leaves the staging directory with what was written |
| `ReceiptBacked`, one command at a time | each call resolves the alias again, and allowlist and index are read, changed and written without a lock: of two commands at the same time one may continue on the other's board, or its alias or record be lost |
| `ReceiptBacked`, which board a snapshot is of | a resumed test takes any `before.json` in its directory for its own, also one of an earlier board; a board whose alias was taken, or whose creation was not answered, is left without an alias |
| `KeptUsable`, tests that share no directory | without `--output-dir` the directory is named by the alias: pruning an older test of the same alias moves the directory of the kept one away |
| `LabelsKept`, what "truncated" means | with one line left, a label that ends in a line break is marked as cut and gets an ellipsis though nothing is missing; a label cut exactly at the end of a line, with less than an ellipsis of bytes left, is marked as cut in the file but not in the picture |

(sw010 =
`docs/operators/sw010-regie-v1.md`, schaufenster-v1 =
`docs/publications/schaufenster-v1.md`.)


## 7. Proofs

All theorems hold for every value of the constants that meets the modules'
named assumptions.

**LiveApplyProofs.** The invariants the runs check are not inductive. `IInv` adds
what makes them so: `TypeOK`; `IndexOK` (where in the loop or in the repair a
process is, and that its index fits its plan); `Ownership` (an authorization has
at most one process past the reservation, and only if it is reserved, which is
why a process that holds an index has the calls of this authorization to
itself); `Stopping` (after a stop a process has either sent its one more
replacement or has not looked yet); `Evidence` (what a journal or a success in
memory says of the after-layout). `Invariance: Spec => []IInv` has one step per
action; from it follow `TypeCorrect`, `AuthorizationsAreSingleUse` (`calls[a]`
never exceeds the length of the plan), `StopIsBounded`, `SuccessIsDeclared`
and, as an action property, `EvidenceIsKept`. No assumption on kills, edits,
late effects or the number of processes is needed: these are what the executor
guarantees unconditionally.

On top of `IInv` stand three more invariants. `JournalInv` relates the journal, the
two receipts of an apply and the step of the process: while an apply owns its
reservation the journal says how far it is, and where a restore runs, the
canonical receipt says success, so that no apply is at work on the same
authorization. `ResidueInv` says that a transaction whose journal has not got
beyond the preflight, or says rolled back, shows none of its new texts; nobody
sends for it, and a rollback looks at the whole board last. It gives
`NothingIsLeftBehind` under `~LateEffects`, which section 6 shows to be needed.
`RestInv` is about what timed-out replacements may still do: none of an apply
waits before it has failed; in a committed transaction only slots that do not
show the new text wait for one (`Pinned`); so when a restore finds all new texts in
place before its first inverse operation, none is waiting any more (`Quiet`), and
after a verified restore nothing is left that could bring one back. It gives
`RestoredRegionsStay` with late effects, kills and any number of applies, with
one restoring process (`OneRestorer`); `restore_race` shows what two do.

`ExecutorImplementsTransaction: Spec => ImplementsTransaction` is the refinement, for
any number of applies, authorizations, slots and plans. `RegionInv` says what a
region shows whenever its phase is about to change: the old texts before the
reservation, in the preflight, after a repair of an apply and after the reads that
end a restore; the new ones after the reads that end an apply, where a restore
starts, and after its recovery. A process that writes a journal or sends a
replacement works alone on its authorization (`EngagedAlone`), so each of its steps moves
one transaction, and all other steps move none (`RegionFrame`). The theorem
assumes `Undisturbed`, each part of which is needed: plans for different slots
(`PlansApart`, or one transaction would change the region of another),
`OneRestorer` (`restore_race`), no late effects, no edits by others (`MaxEdits = 0`)
and no kills, which leave regions the journals do not know of (section 6).

*Regie*, in the same module: `RegieRunsExecutor: RegieSpec => Spec`: a step of Regie is one of
the executor or leaves its variables alone, for any number of servers; so the
theorems above hold behind Regie. `RegieTypeCorrect` likewise. With one server
at a time (`\A p, q \in Procs : p = q`; restarts of it are included):
`DecisionsStay`, `SelectionsAreDecided` and `OneTransactionPerReview`. Their
invariant says that a server in the middle of deciding has seen no decision and
that its selection is what it will decide, and that a process of the executor
works for the decided authorization. `PhaseInv` adds that the receipts in the
session are those beside the journal, unless the server that is about to copy
them is between the two writes; together with `JournalInv` this gives
`PhasesAreTruthful` and, as an action property, `ReviewsGoForward`. `CalmInv` is
about the calm behaviours: the board is as the journal says from the moment an apply
has read it until a restore has passed its checks and again when a recovery has
read it; a failed restore that says it was recovered binds the journal it left;
and what is reserved has its receipt in the session unless the server is still at
it. `OffersAreServed` follows with `~LateEffects` and `~CitingErrors`, for any
number of restores that fail and are recovered. Section 6 says why the
assumptions are needed.

**NativeExecutorProofs.** `IInv` is `AtMostOnce`, `WriteAhead`, and for the holder of
the lock the agreement of its memory with the receipt on disk: they name the
same progress everywhere but between a change in memory and its checkpoint, and
a call is only reached with its announcement on disk and the operation not yet
executed. The lock is needed exactly once: nobody else changes the receipt in
between. Proved: `ExecutorInvariance`, `ExecutorTypeCorrect`,
`OperationsHappenAtMostOnce`, `ReceiptsAreWrittenAhead`, `ReceiptsKeepProgress`, for
every bundle that meets `BundleAssumption`.

`ResultsInv` adds what reconciliation relies on. A receipt is right about the board
(`Known`): for each verified operation there is an item of its content that no other
verified operation claims (`Backed`), and, while nobody else has edited the board, it is
the operation's own (`Own`) and the board began with the inventory the receipt
names. On such a board the items are those the bundle's operations have made and
not deleted (`Unedited`, a sum over the operations). Write-ahead then says that past the
verified prefix only the pending operation can have happened, so the items
equal to it are those of verified operations and its own (`OwnItems`), and the
excess of the inventory is its own change (`OwnEffect`); what reconciliation finds is
one item more than verified operations claim, and stays so, because the board only
gains items of the bundle's contents. `ResultsAreFound` follows for every bundle in
which no two comments are equal (`CommentsDiffer`; section 6 says what happens otherwise).

**StoreProofs.** *Store*: `StoreInv` is `LinkBacked`, `ObjectsKept`, and for the holder of
the lock what it has noted: which link it replaced, whether the object is its
own and not shown to anybody before, and what the link is at its step
(`InCommand`). Proved under `RaiseAt = {}` (no exception between a step and the
note of it; section 6 says why): `StoreInvariance`,
`StoreTypeCorrect`, `LinksAreBacked`, `ShownObjectsStay`, `ReceiptsAreTrue`.
What readers see through the link needs less: `LinkInv` says only where the link
stands at the step of the lock's holder, which an exception cannot change, because
the rollback goes by what it finds. So `LinksAreReadable` and
`StoreImplementsStableLink`, the refinement, hold with any exceptions and kills
but one in the removal of a first link (`"unlink" \notin CrashAt`, section 6).

*Trees*: an inode is given once and not linked again when it has been taken out, and
each change leaves a new stamp on what it changes. So what is linked under a name
now, and was in the tree before, has been there all the time, and an inode whose
stamp is the one noted has not been written since (`LinkedBefore`, `Unstamped`). For
the backup (`BackupInv`) it follows that the chunks read so far are the beginning of what
the file holds as long as its stamp is the noted one, and after the checks that all of them
were seen under the name. The inventory (`InventoryInv`) is harder: no file is read at the
moment at which the whole tree is right. The ghost `moment` is the tree when the
second walk begins, and the invariant says at each step what an agreement of the
two walks would prove of it: a name that the second walk has found with the identity
the first one noted led to the same bytes at the moment (`FilesFound`); every
name the root had then has been met or is ahead (`RootWas`); and if the folder still has
the stamp of the first walk its names are those of that walk (`FolderListed`, `FolderFound`),
because putting or removing one would have stamped it. At the end both walks agree, and the files noted
are those of the moment (`FilesAreMoment`). Proved: `TreesAreReadTrue`, for any names,
contents, chunks and changes.

**MiroProofs.** *Logins*: the flow lock has one owner, who alone is between
reading and storing (`Exclusive`), and as long as no refresh was interrupted the
stored token, and the one a session has read and not used yet, is accepted by
Miro (`StoreGood`, `SessionGood`). Logouts, which come in between at any time,
only remove. Proved: `LoginInvariance`, `LoginsAreKept`, for any number of
sessions and tokens.

*Evidence*: at most one capture works, in a generation that it has made itself
and nobody else writes to, whose `supersedes` is the pointer as it still is; so
when the pointer moves, the chain grows by one whole generation (`EvidenceInv`).
Proved: `EvidenceInvariance`, `EvidenceIsChained`, for any captures, clock and
kills.

*Managed images*: a run is alone from its inventory to its receipt (`BoardLocked`);
images are numbered as they are created, so one that is gone never comes back
(`Numbers`), and what a run has noted of its own images stays true when others
edit (`RunTrue`); a run deletes the old image only while the new one is in place,
and compensates by deleting the new one only while the old one is (`AssetSafe`); no two
runs work under one identity (`Apart`). Proved: `ImageInvariance`, `ImagesAreKept`,
for any number of runs, edits, cancellations, lost sessions and kills. What is proved of
"failed" receipts is about runs that were not broken off; of those that were,
`image_outcomes` shows the contrary (section 6).

*Deliveries*: the point of the proof is what it does not use:
`delivery.lock` may have several owners, and no step of the invariant looks at
it. What keeps executions apart is that the frozen bundle is created exclusively
by one fresh delivery, which alone may execute it from the start, that resumed
ones go on from the native receipt under the native locks, and that this receipt
counts exactly what was executed, except between an operation and its record,
when the executing delivery knows (`Counted`). Proved: `DeliveryInvariance`,
`BundlesAreDeliveredOnce`, for any number of deliveries, operations and lock
files.

*Snapshots*: neither of the two reads is what was on the board at any moment, and a
page boundary that shifts can hide a record from both. `SnapInv` rests on records that
never come back: an identity is given once, and a version only grows (`Past`, `Gone`).
The first read has every item that stays up to each cursor it has had (`ItemsRead`),
whichever pages come twice. Comments are read by offset, and nothing is said of an offset:
as long as what was read is distinct and still there, a comment that stays was read or
is older than all that was, and then it stands behind them on the board, because there are no
more newer ones than its position allows, so it is in the next page or behind it
(`CommentsRead`, `CommentPageIs`). Where that fails, something the first read has is gone, and
the second one cannot have it: so when the two agree, the first has missed nothing
(`SecondRead`). `SnapshotsAreExact` holds for any numbers of records, edits and pages.

**FilesProofs.** *Live tests*: `TestInv` says what a command has done up to its
step (which board its alias leads to, which snapshots are in its directory, what
has been moved away), that boards only gain items, and that the index is in the order of
its tests, of which a prune takes only those older than the ones it keeps.
`ReceiptsAreBacked` and `KeptTestsStayUsable` follow for any number of aliases,
directories, item types, tests and tests to keep.

*Packages*: `PackageInv` rests on numbers that are never used again: a file or
directory that others put in the place of another one can be told from it, so
what is in place and unchanged at the last readback has been there since the renaming, and
was complete at the readback before it. A command that fails cuts what it has
written through its own descriptors, wherever the names lead by then.
`PackagesAreHonest` holds for any artifacts and any number of changes by others.

*Fundus*: there is no lock, so what a command has read may be old when it uses it.
`DecisionInv` rests on what cannot become old: decisions and previews that are
whole stay as they are (files are created exclusively), an inheritance names a
parent that was accepted and whole, and a packaging command that has passed its
check has seen an admitted decision of its build, and no rejection among those
that existed when it began. `PackagesAreReviewed` follows for any manifests,
recipes, commands, kills and edits of the registry.

*Receipts and orders*: `ReceiptInv` says for each kind of receipt what is known of
the run it goes back to. Commands check different parts again, so the invariant carries
through what none of the later ones looks at: that the snapshot of the preflight was
sound and of an allowlisted board, and that the operations are of the region.
`ReceiptsAreProven` needs no assumption on declarations, snapshots, evidence or
on which files are mixed. `OrderInv` (the gate in place stands on a ready packet and a
sound snapshot, the bundle in place is valid) gives `OrdersAreBound`: that the
authorization is of this gate and bundle is only checked when the plan is
compiled, which is why it is compiled again before the operation begins.
*The transaction's promise*, `PromiseIsAllOrNothing`: every behaviour of `ManagedTransaction` has the regions its
phases say, so `ExecutorImplementsTransaction` gives all-or-nothing.

**EditorProofs.** `ViewerInv` ties the pointers that are followed to the gesture they
make: a drag knows where the document posted last has its node, so taking it back
shows that document again (`GestureHeld`, `PictureHeld`), no pointer survives a
replacement of the picture (`Untouched`), and what a fit was suspended with tells,
while the pointers are still down, what it will be after the last one (`FitHeld`).
`FramesSettle` follows for any number of pointers, nodes and spots, for
`~MidGesture`; section 6 says what happens otherwise.

*The bundle cache*: between the critical sections of one thread every other one may
go on, so `CacheInv` says what nobody can take away. Only the POST that has the build
lock is between its admission and its registration (`OneBuilder`); the directory it
fills is on disk, in no index and among nobody's victims (`DirectoriesHeld`); what
the admission found, no live record of the digest and a free place for its pin window or
the digest's own one, stays so until it registers (`AdmissionHeld`); and the room
made for it stays (`RoomHeld`), since a hit only pins what is cached. Directories
are new for every build because no more are made than there were POSTs
(`BuildsCounted`). The bytes of the cache are a sum over its records, of which the
proof needs that a part has no larger sum and one more record adds its own bytes.
`CacheIsCoherent` holds for any numbers of tabs, clients and documents, any sizes
and any limits that `CacheAssumption` allows.

`LeaseInv` adds the leases: a record is held for a tab, with a consumer of its own, for
the answer that is on its way and for what is shown (`AnswersHeld`); a tab that
posts what it shows has both with the same record, which then has two consumers
(`Consumers`), so neither giving the answer up nor taking the second consumer back
ends the first one's lease. `LeasesAreHeld` follows for tabs that are their clients' only
one (`Sole`, section 6); that no client touches another's lease has no such
condition. An earlier form of the property counted the grace period from the answer
and held only because answers came within one tick of the model's clock; the lease is
taken before the answer is sent, so it is the request that starts it.

**TabProofs.** What a tab promises when it is quiet, `EditorUsable`, depends on what every
launch, message and answer on the way may still do to it. `TabInv` distinguishes by what
the tab shows. Nothing that is open (`Away`), or a first document on its
way (`Opening`). A representation (`Represented`): the picture is always one that was
rendered, and what may still be awaited leads back to it. Or a canvas (`Drawn`), which
is at rest, awaits an undo or redo (`InHistory`) or an edit (`InEdit`), or has an edit that
failed for now (`EditFailed`). Documents are numbered as they are made, and each has a
`line`, the documents it was made from; the history is a chain in these lines
(`HistoryOK`): what can be undone leads to the present document, and this to what can be redone. The
frame may be ahead of the tab: each message on its way tells of a document between the
tab's and the frame's (`Told`), so that what arrives late still fits, and an edit
the tab did not hear is never mistaken for one it shows (`Silent`). While an answer is
awaited the frame is locked, and what the launch remembers is the state to go back to. This
is where `~RetryRejects` is needed: a retried edit that is then refused finds the refused document
among what it would go back to (`editor_retry`). `EditorIsUsable` follows for any number of
documents, waiting launches, messages and steps back.

Before it was proved, each inductive invariant was checked by TLC on the run of its
component; several were wrong at first, and the counterexamples say why a clause is there.

*Induction over data.* The library's induction rules take an operator as a parameter
and cannot be used here. Its theorem on well-founded relations can: a set of
finite sets, if it is not empty, has a least one (`LeastSet`), so the sets for which a
claim fails have none. That a sum over a finite set is what one thinks it is, that it
can be taken apart at any element or part, grows with its terms and counts ones, all
of `SumProofs`, comes from this; the bytes of the cache and the items of a board are such sums.

Only model-checked: the liveness properties `ReservationsSettle` and `RunsEnd`
(fairness and ENABLED are outside this prover); and `ScopesKept` and `LabelsKept`, which are
about recursive functions over sequences.


## 8. What is not modelled

- *Pure code*: compilers, validators, renderers, digests. A digest is the value
  it is the digest of; that a validator refuses what it should is not shown
  here. One validator is modelled by what it does, because it decides: the
  `_safe_text` check of stored errors (`CitingErrors`).
- *The provider*: what Miro does inside a call, its paging and rate limits, and
  the retries of one layout call, whose possible outcomes are the four replies.
- *Disks*: a file is replaced whole or not at all (`write_private_json` and the
  store's exchange write and rename); losing power below that is out of scope, as
  `schaufenster-v1.md` says of the store.
- *Browsers*: the order in which a page delivers its own events is the
  language's; a handler runs to its first `await` without interruption.
- *Native executor*: several calls of one operation are one (a table is created,
  filled and viewed), reads of one phase are one step, the resolution of
  provider capabilities is left out. Hence the status "partly".
- *Steps that no property tells apart*: the failed attempt to put a link back that
  could not be removed (`store.py:242`), which leaves the empty marker as a kill there does; a
  snapshot before the apply whose number of items is not a number, with which the
  closeout of a simulation does not compare the restored one's (`receipts.py:1375`); an answer of the editor's
  server that is written and lost before the tab reads it, which ends like a tab that is
  reloaded at this moment; and the tab's test that the canvas edit which settles is the
  pending one (`assets.py:3739`): launches wait their turn, so an edit that was overtaken settles while
  the later one's picture is still stale, which keeps the later one pending anyway.
- *Parts of components marked "partly"* in section 1, as said there, and the
  components marked "not modelled".


## 9. Plan

What exists was written in the order in which the code does most harm when
wrong: the live executor, its abstract transaction and Regie; the native
executor; the publication store; then the components around them (delivery,
OAuth, snapshots, companion evidence, Fundus, managed images), and the editor
from its server to its pointers. What is left:

1. Native executor: the calls of a table and a layout as separate steps with the
   partial failure between them.
2. An abstract specification of the editor (a document with a history, edited by
   one user) and the refinement from `EditorTab`; the composition of tab, frame
   and cache with two tabs of one client.
3. Fundus review bundles; the release of the companion; vector exports.
4. More of the compilers' pure algorithms against reference definitions: edge
   routing and label placement.
