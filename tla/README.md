# A verification project for Instatic

Instatic is a content management system: a Bun/TypeScript server (`server/`)
with an admin interface and page editor (`src/`). This directory holds TLA+
models of the parts of the server and of the editor whose correctness depends
on the order in which things happen, the TLC runs that check them on small
instances, and TLAPS proofs of the properties that matter most.

Paths below are relative to the repository. `PROJECT.json` maps every
definition to the lines it models.

## 1. The system

### 1.1 Parts that are modelled

| part | state | operations | hard because |
|---|---|---|---|
| publish pipeline (`server/publish/publishSite.ts`, `publishRow.ts`, `bakeDataRows.ts`, `publishState.ts`, `staticArtefact.ts`) | `publishVersion`, the promise chain of `withPublishLock`, two directories of baked files, the `current` link | publish the site, publish a row, unpublish, delete, move, edit, schedule | each operation is a dozen awaits; retractions take the lock for their bump only; a failed bake is logged and the publish goes on; the process can stop anywhere |
| published rows (`server/repositories/data/publish.ts`, `rows/mutations.ts`, `rows/schedule.ts`) | the status, slug, table, schedule and active version of each row | one SQL statement each | what a handler read may be stale when it writes |
| versioned memos (`createVersionedSingleFlight` in `publishState.ts`, `publishedSnapshotCache.ts`) | one cached value, one load in flight | `get(version, load)` | loads for two versions overtake each other; a bake fills the memo for a version that does not exist yet |
| public router and render cache (`publicRouter.ts`, `renderCache.ts`) | an LRU map, the renders in flight | peek, resolve, getOrRender | queries lie between the peek, the version capture and the answer |
| publish scheduler (`publishScheduler.ts`, `server/db/advisoryLock.ts`) | a Postgres advisory lock, ticks under way on several hosts | tick, fire, revert | ticks overlap, the lock belongs to a pooled session, users change the rows a tick has listed |
| SQLite adapter (`server/db/sqlite.ts`) | one connection, the chain of transactions | BEGIN, callback, COMMIT, ROLLBACK | a callback awaits between its statements while the whole process uses the same connection |
| roster save (`repositories/data/rows/reconcile.ts`, `handlers/cms/pages.ts`, `core/persistence/validate.ts`) | the rows of the pages table | validate, then one transaction: reap, update, park slugs, revive, create, give slugs | the unique index is enforced per statement; the table changes between the validation and the transaction |
| editor saves (`usePersistence.ts`, `saveTrackingSlice.ts`, `dirtyTracking.ts`, the site slice of `src/admin/pages/site/store`) | a session's document, dirty marks, roster baseline; the saves it awaits | edit, undo, save, leave and enter, reload | saves of several sessions overlap, fail, lose their answer, or return to a document that was replaced |
| page tree (`src/core/page-tree`) | the node map of a page, its `children` arrays and the cached `parentId` | insert, import, delete, move, wrap, duplicate, paste, of one node or several | the cache is kept by hand by every mutation, for any selection |
| media storage (`mediaUpload.ts`, `mediaStorageMigration.ts`, `media.ts`, `repositories/media.ts`, `mediaMigration.ts`) | the row of an asset, the objects on each adapter | replace the binary, migrate a role, trash, purge | each request is up to nine awaits, nothing orders two of them, and the server can stop anywhere |
| AI tool bridge (`server/ai/runtime/transport.ts`, `server/ai/mcp/editorBridge.ts`) | streams, the current editor of a user, pending tool calls | connect, call, result, timeout, abort | a call is ended by five different events, and an old stream ends after its successor began |
| plugin schedules (`server/plugins/scheduler.ts`, `repositories/pluginSchedules.ts`) | a row with a claim token, a lease, a failure count; the runs under way | tick, claim, run, record, pause, run now, register | ticks overlap, leases end before runs do, a crash leaves the claim behind |
| plugin host (`server/plugins/host/`, `plugins/runtime.ts`, `handlers/cms/plugins/state.ts`, `lifecycle.ts`) | a worker per plugin, pending requests, host-side registrations, the crash counter, `enabled` and the status of the row | enable, disable, restart, re-bind, request, answer, timeout, crash, recover | the tasks that load and unload a plugin overlap, each awaits the worker several times, and a crash or a timeout tears down what the maps name by then |

How they interact. The scheduler and the HTTP handlers call the row publish;
every publish and retraction writes rows through the database adapter, and ends
with a bump of `publishVersion`. The bump is the only thing the caches see: the
memo and the render cache compare their entries with it and never look at the
rows. The public router asks the `current` slot first (Layer A), then the
render cache (Layer B), then renders, from the memoised snapshot.

The editor keeps its document in the browser and sends what it marked, with
the roster of all pages and the roster it last synced, to the roster save,
which is one transaction of the database adapter; publishing starts from what
is stored. The browser end of an AI tool call runs in that same editor. Media
bytes and plugin schedules share nothing with the rest but the database. The
run of a schedule, a route, a hook and a loop source of a plugin are requests
to its worker, which the plugin host may terminate under them.

### 1.2 Parts that are not modelled yet

| part | state | operations | what makes it correct |
|---|---|---|---|
| sign-in (`server/auth/`, `handlers/cms/auth.ts`) | failure counters, windows, sessions | attempt, lock, reset, rotate | the fifth failure in a row locks; a session that was rotated is not accepted |

The plan is in section 17.

### 1.3 Parts that will stay out

Rendering, CSS, markdown, HTML and site import (`src/core/publisher`,
`siteImport`, `htmlImport`, `server/publish/*Bundle.ts`) are functions of one
document and say nothing about order. HTTP dispatch, static files, holes and
loops keep no state, except for the CSS fallback cache of `server/router.ts`
(a listed hazard). The first upload of a media file, fonts, archives, the hub
and setup are input and output around single statements. The AI drivers, credentials, pricing and
the plugin sandbox marshal one request to one answer. The admin interface is
React components. `PROJECT.json` lists each with its files.

## 2. The modules

| module | models | notes |
|---|---|---|
| `RowStore` | the columns of `data_rows` that decide what is public, one operator per SQL statement | used by `PublishPipeline` and `PublishScheduler` |
| `PublishPipeline` | every publish and retraction, one action per stretch between two awaits | section 3 |
| `LiveSite` | what visitors are promised of the served directory | abstract specification of `PublishPipeline` |
| `PublishClock` | what the caches see of the pipeline: changes committed, versions bumped | the part `VersionedMemo` and `RenderCache` share |
| `VersionedMemo` | `createVersionedSingleFlight` with its readers and the bake that fills it in advance | section 4 |
| `RenderCache` | `renderPublicResolution` over the LRU of `renderCache.ts` | section 5 |
| `PublishScheduler` | ticks of several hosts and the leader lock | section 6 |
| `SqliteTx` | `fn.transaction` over one connection | section 7 |
| `AtomicStore` | what a database promises of transactions | abstract specification of `SqliteTx` |
| `RosterReconcile` | the validation and the statements of a roster save, as operators on a table | section 8 |
| `EditorSave` | the sessions, their saves and the handler that applies them; EXTENDS `RosterReconcile` | section 8 |
| `PageTree` | the mutations of a node tree | section 9 |
| `MediaStorage` | where the bytes of an asset are | section 10 |
| `ToolBridge` | streams and tool calls | section 11 |
| `PluginSchedule` | one schedule and its runs | section 12 |
| `PluginHost` | one plugin's worker, requests, registrations, and the tasks that load and unload it | section 13 |
| `MCParts` | the sum of the last five: `part` says which of them a behaviour is of, the others stay as they begin | |
| the other `MC*` | the symmetry sets of the runs | |
| `*_proofs` | the theorems | section 15 |

A definition whose comment begins with "Mutant" is not part of the model: it is
a plausible mistake in one definition, kept beside it, and substituting it makes
one of the properties fail. It shows that the property depends on that code.

## 3. The publish pipeline

State and code. `row` is the table, `site` the number of the latest snapshot in
`site_snapshots`; `slot` is the two directories and `current` the symbolic
link; `version` is `publishVersion`; `chain` is `publishChain`, the promise
chain of `withPublishLock`, as the sequence of requests that hold or wait; `op`
is the program counter and the local variables of each request. A baked file is
what it shows: its row, the number of the row's version, the snapshot the
template came from, and the version stamped on its placeholders (holes). `dirty` is a
history variable: what changed in public view since the last bump.

Actions and code. `SiteStart` .. `SiteSwap` are `publishDraftSite` with
`bakePublishedDataRowArtefacts`; `RowStart` .. `RowWrite` are `publishDataRow`
with `writeDataRowArtefact`; `StatusUpdate`, `StatusReread`, `PruneResolve`, `Prune` are
`handleRowStatus`; `DeleteUpdate` is `handleRowItemDelete`; `PluginDelete` is
the plugin content surface; `MoveLoad`, `MoveUpdate` are `updateDataRowTable`.
Each read of the database or of the link that precedes an await is a step of
its own, so that what it returned can be stale when it is used.

The properties. `WindowsDisjoint`, `StampIsNextVersion`: the lock, and what it
is for. `BakesOffline`, `WritesOnline`: a full publish fills the slot nobody
sees, and an incremental one writes to the slot somebody sees, though both look
the slot up before they write. `RouteChangesBumped`: no request that changes
what a URL shows ends without a bump. `RetractedNotServed`, `ServedIsCurrent`:
when all is quiet the files agree with the table. `RequestsFinish`: every
request is answered. `LiveSiteSpec`: the served directory changes one row's
file at a time or, at a swap, as a whole, from one publication to a newer one.

## 4. The memos

`VersionedMemo` models the one memo on whose ordering others depend, the
published snapshot. A reader reads the version, possibly awaits, then asks; a
publish asks for `version + 1` while it bakes. `CacheIsFresh` and
`AnswersAreFresh` say that what is cached, or handed out, for a version shows
every change announced up to it. They hold although loads overtake each other
and although the bake fills the cache early, because the retractions wait for
the lock to bump: with a bump that does not wait (`RetractBumpBare`) the value
baked in advance is served for a version that announced a later change.
`CallersAnswered`: a load that lost its slot still answers those who joined it;
that they wait for a load that is running (`JoinedIsRunning`) is part of the
inductive invariant.

## 5. The render cache

`RenderCache` models a request of the public router up to its answer: `peek`,
the resolution of the route, `getOrRender` with its single flight, the
factory's own queries, the check that the version has not moved, and the LRU
order. `DataIsFresh` says that what the factory read is never stale in a page
that is served from the cache; `OneRenderPerKey` is the single flight;
`CachedAreRecent` compares the map with a reference definition of LRU kept in
the history variable `recent`; `RequestsAnswered` includes those that joined a
render that fails.

What the route was resolved from is a different matter: `ResolutionIsFresh`
fails (run `find_stale_render`, section 14).

## 6. The publish scheduler

`PublishScheduler` gives every host several ticks, because `setInterval` does
not wait for the last one, and a pool of sessions, because a query may take any
of them. An advisory lock is counted per session; a tick releases it in
whatever session it is given. `OneLeader` holds nevertheless (a lock released
in the wrong session stays held too long, not too short) and is proved. It
needs sessions that last while a tick is under way: `EndSession` closes one,
the lock is free, and the tick that holds it is not told. `SessionEnds` is
therefore FALSE where `OneLeader` is checked, and TRUE where `DueRowsLeave` is.

`up` is the set of hosts that run. A host that stops (`Crash`) loses its ticks,
its sessions and their locks; it may be started again (`Restart`), or never.
`DueRowsLeave`: a row that is due is published, retracted or reverted in the
end. It is checked with two hosts, so it contains the handover: when the host
whose session holds the lock has stopped for good, the other leads and fires
what is left. A hold that no release finds (`Release`: an error, or a session
of the pool that does not hold the lock) keeps the leadership at its host for
as long as that host or the session lives. The other host does not lead then,
and the due rows leave all the same; the code asks for no more.

## 7. The SQLite adapter

`SqliteTx` has the chain of transactions and the one connection. `BeginsClosed`
and `AllOrNothing` are ISS-040. `TransactionsSettle`: whatever fails, the turn
is handed on. `AtomicStoreSpec`: the transactions among themselves are those of
a database; the refinement mapping sends the durable statements of
transactions to `store` and settled transactions to `outcome`. Statements outside any
transaction are not covered by it, and rightly so: `PlainsStay` fails, see
section 14.

## 8. The editor's saves

State and code. `rows` is the pages table as `GET /pages` and the roster save
see it: slug, which edit the cells show, and whether the row is live. `editor`
is what the store of a session keeps: the document, `_dirtySave.pageIds`,
`hasUnsavedChanges`, the baseline (`syncedPageIdsRef`), and the answer of a
reload that is not applied yet. `save` is a request and the hook that awaits it:
what was sent, whether anybody still waits for it, whether the hook is mounted.
`written` and `seen` are history variables: the edits that were committed, and
the pages each session has had in its document.

Actions and code. `EditPage`, `AddPage`, `RenamePage`, `DeletePage`,
`UndoDelete` are the mutations of the store with their marks; a deletion marks
the pages that move up in the array. `SaveCurrentSite`, `SaveSucceeds`,
`SaveFails` are `saveCurrentSite` up to its await and the two ways it goes on;
`Remount` is leaving the editor (which sends what is unsaved without waiting)
and entering it again; `ReloadRead`, `ReloadApply` are the reload event.
`Validate` and `Reconcile` are the two halves of the handler, with another
save's commit possible between them. `Reconciled` is the transaction as four
groups of statements: `Reaped`, `Updated`, `Added`, `Reslugged`; `Commits` says
that none of the groups meets the unique index.

The properties. `RosterSound`: after any commit every live page has a slug of
its own and none kept the placeholder. `ValidSavesCommit`: the order of the
statements is right, so a batch that was found valid fails on the index only if
another save committed since, however its pages swap slugs, take those of
dropped pages, or are revived. `EditsAccounted`: what a session shows of a page
was stored at some time, is marked, or is carried by a save that marks it again
should it fail. `OthersPagesKept`: a save deletes no page its session has not
had. `DeletionsConveyed`: the converse, deletions reach the table; it fails
(run `find_kept_page`, section 14).

## 9. The page tree

State and code. `nodes` is the keys of the node map, `children` the arrays,
`parentId` the cache. One action per exported mutation of `mutations.ts`:
`InsertNode`, `InsertImportedNodes` (which rebuilds the whole cache with
`ReindexNodeParents`), `DeleteNodes`, `MoveNodes` (with `TopLevel` and the
guard against a move into the own subtree), `WrapNode`, `WrapNodes` (with
`ClosestCommonAncestor`), `DuplicateNode`, `PasteSubtree`. The walks
`collectSubtreeIds` and `ancestorChainInclusive` are the smallest sets they
close on, over `children` and over the cached parents respectively: a mutation
that forgets one of the two changes what the next one does. `Kept` is the
`filter` of a list by a set.

The property. `TreeSound`: no node is listed twice, missing, or above itself,
and the cached parents are those of the arrays, after any sequence of commands
with any selection, ancestors and descendants together included.

## 10. Media storage

State and code. `asset` is the row: live or purged, in the trash, where the
original and the variant are. `stored` is the objects that exist on the
adapters. `request` is the program counter of each replacement, migration and
purge with what it read of the row and what it uploaded; a path belongs to the
upload that made it (`nanoid`).

Actions and code. `LookUp` .. `SweepPreviousVariants` are
`acceptReplacementMedia`, one action per await: it reads the adapter, the path
and the variants one after the other, uploads, switches the row, scales, stamps
the variants, sweeps what it had read. `ListPending` .. `SweepSource` are one
asset of a migration, of one role. `LookInTrash`, `DeleteRow` and the sweeps
are a purge. `Elect` changes the adapter of new uploads at any time; `Crash`
ends every request.

The property. `BytesWhereNamed`: the bytes the row names, original and
variant, exist at any moment. The converse (no orphans) is not a property of
this code, see section 14.

## 11. The tool bridge

State and code. `stream` is each stream a user's editors open: whether its
bridge is in `activeBridges`, whether its signal is aborted, whether its
controller is closed. `current` is the entry of `byUser`. `call` is a tool call
with its timer and its abort listener.

Actions and code. `Connect` is `createEditorBridgeStream` with the eviction of
the stream before it; `EnqueueFails` the emit that finds the controller closed;
`Abort` the signal, which runs `cleanup` and then the listeners; `CallBrowser`,
`Result`, `Timeout` the life of a call.

The properties. `CallsSettle`: a call ends, whatever becomes of its stream.
`NewestEditorCalled`: the editor opened last is the one called, and its results
are taken, until its own stream is aborted or a newer one is opened, however
late the earlier streams end.

## 12. Plugin schedules

State and code. `sched` is the row of `plugin_schedules`; `run` a tick's or a
press of "Run now" on its way: listed, claimed, called, answered, recorded.

Actions and code. `SelectDue` is `selectDueSchedules`, `TryClaim`
`tryClaimSchedule`, `CallWorker` and `WorkerAnswers` the call to the plugin's
worker, `RecordOutcome` `recordScheduleRunOutcome` with its guard on the token,
`PauseAtCap` the pause that follows a failure, decided from the count that was
listed. `Register`, `Unregister`, `TogglePlugin`, `Pause`, `Resume` are what
users and activations do meanwhile; `LostLeaseEnds` and `LeaseEndsFirst` the
lease; `ServerCrashes` ends all runs and leaves the claim.

The property. `DueSchedulesRun`: a schedule that is due is run and its outcome
recorded, unless it is paused, disabled or registered anew meanwhile, even if
the run that had claimed it was lost to a crash or taken over.

## 13. The plugin host

State and code. `plugin` is `enabled` and the status of the row of
`installed_plugins`. `host` is what the main process keeps of the plugin: whether
`hostPlugins` has a record, where the plugin is registered (`hooks` is the hook
bus, which a re-bind resets; `sources` the registries of loop sources and media
adapters, which it does not), and the crashes in the window. `mapped` is the
entry of `workers`, `worker` each worker that was ever made: gone, alive without
the plugin, or with it. `sent` is `pendingRequests`: the worker each caller
awaits. `task` is the tasks under way, with what each does and how its hook went.

Actions and code. `SetEnabled`, `Restart`, `Rebind` begin
`setPluginEnabledFromRequest`, `handlePluginRestart` and
`activateInstalledServerPlugins`. Their steps are `Unload` (`unloadPluginInWorker`
up to its request), `Reset` (`resetPluginWorker`, `hookBus.reset`), `ReadRow` (is
it enabled?), `Load`, `RunHook` and `SetStatus`. `Answer` is
`handleWorkerMessage` with what the task does next before it awaits again
(`Resumed`). `HandleCrash` is `handleWorkerCrash`: it ends the worker in the map,
rejects every request, drops the record, counts, and begins a recovery; it is
reached from `WorkerDies` and from `TimerFires`. `Registers` is an API call of the
worker that registers something; `CallPlugin` any request that belongs to no
task, which makes a worker if there is none.

The properties. `TeardownReachesAll`: a teardown ends the worker in the map and
unregisters what is on record, and nothing else; so no other worker may be
alive, and nothing registered without a record, however tasks, crashes, late
timers and answers overlap. It would fail if an API handler awaited between
looking the record up and registering (`RegistersLate`). `NobodyWaitsForever`: every
request to a worker is settled, although a worker owes no answer and an unload
terminates it under the requests of others without telling them: each has a
timer, and a timer fires whether or not the worker it was set for still exists
(`TimerFiresIfMapped` is the mistake of clearing it).

What the model says about messages: `terminate` discards what the worker said
and nobody has heard yet, as HTML specifies for workers. Continuations run at
any time after what they await, which includes the order of microtasks.

## 14. The runs

| run | instance | shows |
|---|---|---|
| `pipeline_safety` | 2 requests, 1 row, 2 slugs, failures, crashes, 2 bumps, 2 snapshots | the lock, the stamps, the bumps, the slots, and `LiveSite` |
| `pipeline_freshness` | 3 requests, 2 rows, no failures, 4 bumps | files agree with the table when all is quiet |
| `pipeline_liveness` | 2 requests, every kind of request, failures | every request is answered |
| `memo` | 2 readers, 2 writers, 2 changes | freshness of the memo, and that callers are answered |
| `render` | 2 requests, 3 pages, room for 2, 1 change | freshness, single flight, LRU, answers |
| `scheduler_leader` | 2 hosts x 2 ticks x 2 sessions, Postgres, failures, crashes | one leader |
| `scheduler_liveness` | 2 hosts x 1 tick x 2 sessions, Postgres, 1 row, 2 times, failures, lock errors, sessions that end, hosts that stop for good | due rows leave, if need be by another host |
| `sqlite` | 3 transactions of up to 2 statements, 2 statements outside, failures, crashes | atomicity, progress, `AtomicStore` |
| `editing` | 2 sessions, 2 pages, 2 slugs, 2 saves, 2 edits, 1 remount or reload, refusals, lost answers | slugs, commits, edits and pages of others (768,000 states) |
| `parts` | tree: 5 ids, selections of 2; media: 2 adapters, 1 replacement, 1 migration, 1 purge, crashes; bridge: 2 streams, 2 calls; schedule: 1 tick over and over, 1 press, cap 2, 1 late lease, 1 crash; plugin host: 1 administrator over and over, 1 recovery, 1 other request, 4 workers, threshold 2 | `TreeSound`, `BytesWhereNamed`, `TeardownReachesAll`, `CallsSettle`, `NewestEditorCalled`, `DueSchedulesRun`, `NobodyWaitsForever` (211,000 states, one part at a time) |

### Disagreements with the comments and documents

Two have a run that finds them:

| run | what the code says of itself | what happens |
|---|---|---|
| `find_stale_render` | `publicRouter.ts:240`: a deleted route can never be served from a stale entry | the route is resolved before `getOrRender` captures the version; a retraction and its bump in between leave the old resolution cached as current |
| `find_kept_page` | `dirtyTracking.ts:16`: deletions are conveyed by the roster the save always ships | the baseline belongs to a mount of the hook, the document to the store: after the editor was left and entered again the baseline is empty, a deletion made then deletes nothing, and once that save has succeeded no later one does either |

Others can be had from the models by checking a property that is stated there,
or by enabling a kind of request, on the instance of the passing run:

- *A deleted row is served again.* `handlers/cms/data/rows.ts:220` says that a
  deleted row stops being served by Layer A. `RetractedNotServed` of
  `PublishPipeline`, with `delete` among the kinds of `pipeline_freshness`: a
  publish of the row begins; the deletion removes the file (line 222) and then
  waits for the lock; the publish writes the file back.
- *A row fires although it was cancelled.* `publishScheduler.ts:107` says that
  a second update, guarded by `status = 'scheduled'`, is a no-op. `FiresOnlyDue`
  of `PublishScheduler`: a tick lists the row; its author cancels it; the tick
  publishes it all the same (line 117, `publish.ts:171`: the update has no such
  guard).
- *A statement that was answered is lost.* `docs/server.md:378` says that the
  client of a transaction scopes its queries to it. `PlainsStay` of `SqliteTx`:
  a transaction begins; a statement of another request runs on the one
  connection (`sqlite.ts:139`) and is answered; the transaction rolls back, or the
  process stops, and the statement is gone with it.

Others were met while modelling and read off the code. In the server:

- `handlers/cms/data/rows.ts:336` removes the file of the draft slug; when the
  slug was edited after the last publish, the file at the published path stays
  (the comment at line 333 says otherwise). For this reason
  `pipeline_freshness` has no edits: an edit that is followed by an unpublish
  breaks `RetractedNotServed`.
- The plugin surface deletes a row and leaves its file
  (`plugins/host/handlers/content.ts:313`).
- A move leaves the file under the old route base (`mutations.ts:237`), and
  decides whether to bump from the status it read before its other queries
  (`mutations.ts:240`): a publish in between is moved without a bump. Both are
  in `PublishPipeline`; `move` is left out of the kinds of `pipeline_safety`
  because `RouteChangesBumped` fails with it.
- Scheduling a published row hides it without a bump (`schedule.ts:42`); so does
  `schedule` in that run.
- A full publish whose bake fails keeps the old slot served although the
  snapshot is committed (`publishSite.ts:291`): `ServedIsCurrent` is checked
  without failures.
- A bump by anybody else makes the placeholders of every page baked before it
  stale (`publishRow.ts:78`, refused by `handlers/cms/hole.ts:185`).
- A request that comes after a publish joins a render begun before it
  (`renderCache.ts:170`) and is answered with the superseded page; the page is
  not cached.
- Two loads of one version can run at once after a load of another version took
  the slot (`publishState.ts:161`).
- An error of the lock query on Postgres is taken for SQLite
  (`advisoryLock.ts:52`): with `LockErrors` two hosts lead. So they do with
  `SessionEnds`: when the pooled session that took the lock is closed in the
  middle of a tick (a connection error, an idle timeout), the lock is free while
  the tick goes on, and `advisoryLock.ts:9` ("exactly ONE instance") does not
  hold. `OneLeader` is checked and proved without either; `DueRowsLeave` is
  checked with both.
- The version and the lock are per process: with several hosts, a publish on
  one invalidates nothing on the others.
- Nothing orders a replacement of a media asset and a migration of it, or two
  replacements. `updateAssetStorageLocation` is unconditional
  (`mediaMigration.ts:260`), so a migration that overlaps a replacement puts the
  old binary back; two replacements can leave the original of one with the
  variant of the other. `BytesWhereNamed` holds through all of this: what is
  named exists, but it need not belong together.
- A crash after `replaceMediaAssetBinary` and before `setMediaAssetVariants`
  leaves the new original with the old variants; `mediaUpload.ts:412` expects no
  variants, but `replaceMediaAssetBinary` does not touch them.
- `acceptReplacementMedia` reads the adapter and the path of the previous binary
  in two queries (`mediaUpload.ts:361`, `:365`): a migration in between makes it
  sweep an object that never was and leave an orphan. So does a migration of an
  asset that is purged meanwhile. On Postgres the location of a variant is
  selected and then updated in two statements (`mediaMigration.ts:291`).
- The lease of a schedule's claim is twice the declared duration, its call may
  take ten seconds longer than that duration (`rpc.ts`, `SCHEDULE_RPC_SLACK_MS`): for
  short durations runs take over each other, and the outcome of the first is
  not recorded. `MaxLate` bounds how often.
- `tryClaimSchedule` does not check that the schedule is still due, and "Run
  now" does not check that its plugin is enabled; the pause after a failure is
  decided from the count the row was listed with (`scheduler.ts:230`) and written
  whether or not the outcome was recorded; an activation computes the next run
  anew, so a run that is due when the server starts is skipped.
- When an emit has found a stream closed, its abort no longer evicts the bridge
  (`editorBridge.ts`, `cleanup`): calls made to it end by their timer or by the
  abort's listeners, as `CallsSettle` says, and not at once.
- A timeout terminates whatever worker the plugin has by then, not the one the
  request went to (`workerPool.ts:86`): a request that an unload left behind ends,
  up to half a minute later, the worker of the next activation (`TimerFires`).
- `unloadPluginInWorker` terminates the worker without rejecting its requests; a
  load that was posted to it meanwhile waits for its timer, and is then taken for
  a crash (`rpc.ts:120`).
- Tasks of one plugin are not ordered. A recovery, or the re-bind that another
  plugin causes, reads whether the plugin is enabled and then awaits
  (`runtime.ts:276`, `:403`): a plugin that is disabled meanwhile is loaded and
  activated again.
- When the reload of a recovery fails (the load, or `activate`, throws), nothing
  counts it as a crash: the plugin stays enabled with the status `active` and is
  not loaded. The comment at `runtime.ts:362` expects it to be parked in the end.
- A `deactivate` hook that fails, or a load that fails while disabling, leaves the
  record, its routes, loop sources and media adapters for a plugin that is
  disabled: only an `activate` that fails unloads (`lifecycle.ts:92`), and the
  re-bind that follows resets the hooks and the worker only.

In the editor:

- A save that succeeds resets `hasUnsavedChanges` although edits may have
  landed while it was awaited (`usePersistence.ts:154`). Their marks are kept
  (`EditsAccounted`); the status and the save on leaving go by the flag.
- The save that bootstraps a fresh site takes the marks after its await
  (`usePersistence.ts:238`).
- Two saves of one session may reach the server in the other order; the older
  edit of a page is then what is stored, and no mark is left. `EditsAccounted`
  says that each edit was stored at some time, not that the last one is.
- A save whose answer is lost, or that overlaps another, does not move the
  baseline: a page created by it and deleted afterwards stays. A reload during
  a save makes the baseline that of the document before the reload.
- A deletion marks the pages behind the deleted one, which are then written
  again, over what another session has saved of them or deleted.
- `moveNode` of an id that does not exist leaves that id in a `children` array;
  the agent's executor passes ids it was given (`executor.ts:460`), the plugin
  surface validates the tree afterwards (`treeService.ts:88`). `duplicateNode`
  of the root leaves a clone under no parent (`nodeActions.ts:431`; the comment
  at 463 says it throws). `TreeSound` is checked for the ids a user can pick and
  allows an unattached clone: it is a forest.

### Bounds, and why they are enough

Every hazard of the pipeline is a race of two requests over one row, or of a
row publish with a site publish, so two requests and one row reach it; the two
slugs make a path change, and two bumps let a version be stale. The third
request and the second row of `pipeline_freshness` let a publish, an unpublish
and a full publish of both rows overlap, two of them waiting for the third. `MaxVersion`
and `MaxGen` stop requests from starting, never from ending, so no property
holds because a request was cut short. In `memo`, two readers and two writers
are a load that is overtaken by another, with a publish and a retraction around
them. In `render`, three pages for two places make evictions, and one change is
enough to be stale. In `scheduler_leader`, two ticks of a host and two sessions
are what it takes to release in the wrong session. In `scheduler_liveness`, one
row, scheduled for either of two times, is due, fails, is reverted and is due
again, and one tick a host is enough for the lock to pass between two hosts; two
sessions let a release miss it. `MaxHolds` counts the holds of one session from
which on a release finds it, so that holds do not pile up for ever; leading has
no bound. In `sqlite`, the third
transaction waits while the first fails. In `editing`, two sessions with one
save each, or one with two that overlap, two pages that swap their slugs, and
two edits, one of them during a save, are each hazard of section 8; the number
of saves bounds requests and never the steps of one. In `parts`, five ids are a
root with a chain of three, or two branches, and one id to insert; selections of
two include a node with its descendant. One replacement, one migration and one
purge overlap in every order. Two streams are an editor and the one that
replaces it, and two calls one for each. One administrator, one recovery and one request are three who
await one worker, and a threshold of two has both decisions of the crash budget;
`Workers` is one more than those who can await one, so that there always is an
unused name, and names that nobody awaits are used again. One press beside the tick makes runs
overlap, and one crash and one late lease are one of each way to lose a claim.

Other and larger instances were run by hand, with the same result:
`scheduler_liveness` on SQLite with one host and two rows, one row per tick (the
backlog beyond `BatchLimit`; 9,900 states), and on Postgres with two hosts, two
rows and one session each (137,000); media
with two replacements and a migration (5.4 million states), with two migrations,
and with two replacements and a purge (1.3 million); the tree with 6 ids and
selections of 3; the schedule with two ticks (1.15 million); the plugin host with two administrators
(5.5 million).

`CHECK_DEADLOCK FALSE` stands where the bounds, or transactions, streams and
calls that are all done, leave nothing to do.

Symmetry is used in safety runs only, and only over values that no definition
tells apart; requests, rows, slugs, hosts, ticks and sessions are such.

### Fairness

A request that has begun goes on (`WF` of its next step): a promise of the
driver, the file system or a render settles, with a result or with an error,
and the event loop runs its continuation. This is all that `memo`, `render`,
`pipeline_liveness` and `sqlite` assume; starting a request is never fair, and
failing is as fair as succeeding. The scheduler needs more (`Ticking`).
`setInterval` makes starting a tick fair on a host that runs: on Postgres the
start that is owed is one that wins the lock, never one whose query fails. Hosts
do not stop and start over and over (`<>[][UNCHANGED up]_vars`, an assumption
about the environment: a host that stops in every tick before it has listed
publishes nothing), and somebody starts one when none runs. A host that has
stopped is owed no restart, so the row that is due must be fired by whichever
host is left. `SF` of `List` and of a revert that takes effect say that
a query that is tried for ever does not fail every time; without it a database
that is down for good keeps the row due. The publishes themselves may
fail always, and so may the releases and the session of a tick: the revert then
ends the row's schedule.

In `parts`, a timer that is set fires (`BridgeFairness`); a browser need not
answer. A schedule's ticks come (`setInterval`), a run that has begun goes on,
its call being ended by a timer if by nothing else, and the lease of a claim
whose run is lost ends (`SchedFairness`). A task of the plugin host goes on when
what it awaits is over, and the timers of requests fire (`HostFairness`); workers
owe neither an answer nor a crash. `editing`, the tree and the media part
are safety only: no save need ever be sent.

## 15. The proofs

| theorem | says, for every value of the constants |
|---|---|
| `PublishPipeline_proofs!TypeCorrect` | the type invariant |
| `Exclusion`, `StampTheorem`, `OfflineTheorem`, `OnlineTheorem` | `WindowsDisjoint`, `StampIsNextVersion`, `BakesOffline`, `WritesOnline`, with every kind of request, failure and crash |
| `LiveSiteTheorem` | `Spec` implements `LiveSite`, with every kind of request, failure and crash |
| `BumpTheorem` | `RouteChangesBumped`, without moves and schedulings, with failures and crashes |
| `FreshInvariance`, `RetractionTheorem`, `CurrentTheorem` | what is served while publishes and unpublishes overlap without errors, and from it `RetractedNotServed` and `ServedIsCurrent` |
| `VersionedMemo_proofs!CacheTheorem`, `AnswerTheorem`, `JoinTheorem`, `TypeCorrect` | the memo is fresh, callers get fresh answers, joined loads run |
| `RenderCache_proofs!DataTheorem`, `SingleFlightTheorem`, `TypeCorrect` | `DataIsFresh`, `OneRenderPerKey`, the types |
| `RenderCache_proofs!LruInvariance`, `LruTheorem` | `CachedAreRecent`, for any capacity |
| `PublishScheduler_proofs!LeaderTheorem`, `ScheduleTheorem`, `TypeCorrect` | on Postgres, without lock errors and with sessions that last, one host leads; a scheduled row has a time; the types |
| `SqliteTx_proofs!TypeCorrect`, `BeginTheorem`, `AtomicityTheorem` | BEGIN finds no transaction open; all or nothing |
| `SqliteTx_proofs!RefinementTheorem` | `Spec` implements `AtomicStore` |
| `EditorSave_proofs!ValidCommits` | the order of the statements: for any table without a slug twice, any batch whose slugs are free commits |
| `EditorSave_proofs!TypeCorrect`, `RosterTheorem`, `CommitTheorem`, `EditsTheorem`, `KeptTheorem` | the types, `RosterSound`, `ValidSavesCommit`, `EditsAccounted`, `OthersPagesKept`, for any number of sessions, pages and saves |
| `Parts_proofs!BytesTheorem` | `BytesWhereNamed`, for any number of adapters and of overlapping requests, with crashes |
| `Parts_proofs!NewestEditorTheorem` | `NewestEditorCalled`, for any number of streams and calls |
| `Parts_proofs!TeardownTheorem` | `TeardownReachesAll`, for any number of administrators, recoveries, requests and workers, and any threshold |
| `Parts_proofs!TreeTheorem` | `TreeSound`, for any set of ids and selections of any size |
| `Parts_proofs!WrapTheorem` | `wrapNodes` finds an ancestor, a branch and a branch set for every selection of shown nodes without the root |
| `Parts_proofs!PartsTheorem` | the five parts side by side: their types, `TreeSound`, `BytesWhereNamed`, `TeardownReachesAll` |

The arguments:

- *Pipeline.* `IInv` adds to the types that nobody is in the chain twice, that
  everybody in it runs or waits and that whoever is between its commit and its
  bump is at its head (`ChainOK`), and what each program counter says of the
  local variables (`LocalOK`). Exclusion follows from the chain; the stamp
  stays `version + 1` because only the head bumps; the slot stays the right one
  because only the head moves the link. Three lemmas (a request stays in the
  chain, joins it, leaves it) serve every action.
- *Live site.* `StoreInv` adds to `IInv` that no file is of a later snapshot
  than the latest, that the file a request carries is of the latest one, and
  that the slot a full publish fills holds only files of its own snapshot and
  stamp while everything served is older (`WorkOK`). So the swap is the
  abstract `Replace`, a write or a removal in the slot that is served is a `Put`
  or a `Drop` of one row's file, and everything else stutters: a failure and a crash
  leave the link where it is.
- *Bumps.* Whenever something changed in public view since the last bump, a
  request that is going to bump is in progress (`BumpInv`); a crash takes the
  requests, but also the caches the bump is for. Two kinds are excluded, because
  the code really misses a bump with them (section 14). This is also where the
  lemmas on what each action writes are stated, which the two arguments
  above and below use.
- *Files at rest.* What must hold in between is that a file of a row that is
  not, or no longer, right has somebody who will repair it: a publish of the row that
  has yet to write, or an unpublish that has yet to remove, *in the slot that
  is served* (`Repairs`, `RowServed`). The invariant of the run is not
  inductive without three more facts: that a slot being filled shows a row
  that is not public any more only while its unpublish waits for the lock
  (`FreshWork`), which the unpublish then finds in the swapped slot; that a
  file lies only at the path of a row (`FilesOfRows`); and that there is no slot
  before there is a snapshot (`SiteFirst`). The hypotheses (`Calm`) are the
  configuration of the run `pipeline_freshness`, no more: with deletions, edits
  of slugs or moves, and with failures and restarts, the code can leave a
  file behind (section 14).
- *Memo.* A load reads the database after its caller learnt the version, so it
  sees the changes announced up to it. For a load in advance, the publish holds
  the lock, so the next bump is its own (`Sees`, `Known`). The clock's part is
  proved once in `PublishClock_proofs` and used by the render cache too.
- *Render cache.* A page is tagged with the version at the start of its render
  and dropped if the version has moved, and its queries lie in between
  (`Current`); a slot belongs to the request that renders (`Owned`). For the
  eviction, the order of the Map is the reverse of the first
  `min(MaxEntries, n)` of the n keys ever used, by last use (`Mirrors`,
  `LruInv`), and one lemma says that taking a key out and putting it at the
  newer end does the same to both. The model's `Without` is written by the place
  of the key for this: `SelectSeq` is recursive, and nothing can be proved of it.
- *Leader lock.* At most one session holds the lock, and a host with n ticks
  under way has one session that holds it at least n times (`LInv`); a
  release in another session of the pool, or one that fails, changes nothing and
  only leaves the count too high. A session that ends under a tick takes the
  count away, which is why the theorem assumes that none does.
- *SQLite.* The connection is in a transaction exactly while the one at the
  head of the chain runs or rolls back (`TurnInv`), and durable and pending statements
  belong to transactions that are done or run (`JournalInv`). A commit is the
  abstract commit, a failure and a crash are aborts, everything else stutters.

- *Roster save.* After each group of statements every live row of the batch has
  its new slug or the placeholder, every other live row the slug it had, and it
  is one that stays (`ValidCommits`); the four lemmas before it say what each
  group leaves. `ReconciledFacts` is the same for the final table.
- *Editor.* `IInv` adds to the properties that a session has seen what it shows,
  what is in its baseline and what it has sent (`EditorInv`, `SaveInv`); that live rows and
  loaded documents show committed edits (`RowsInv`); that a validated save is
  still valid unless another has committed; and that the pages of a save that
  was answered are committed. The last is why dropping the marks before the
  await is safe. `OthersPagesKept` follows: what a commit removes is in the
  baseline that was sent, which the session has seen. Two lemmas (a session
  changes its document, a save moves on with its session) serve most actions.
- *Media.* What a request is going to sweep has left the row for good, or is
  what it uploaded and the row has not named yet (`MediaInv`): paths are not
  reused, each request uploads once per role, and a row changes only to what
  the changing request has just uploaded.
- *Bridge.* The current stream is active and was opened (`BridgeInv`); only the
  stream's own abort, or a newer stream, takes that from it.
- *Page tree.* `TreeInv` is `TreeSound` with the types and that ids outside the
  map have no children. The walks are smallest closed sets, so that a node is
  below another is shown by a set that is closed, and no induction is needed;
  `Subtree` and `Chain` are found to be converse to each other on a sound tree.
  Each mutation then owes that nothing is listed twice, that the parents follow,
  and that no cycle comes about: a closed set of the old tree, or one with the
  moved or inserted nodes added, separates what could be above itself.
  The order a filter keeps is told by `Kept`, where the k-th place kept is the
  one with k kept places up to it: the places and their ranks are in
  bijection (`KeptPlaces`, `KeptFacts`), by the lemmas on cardinality of
  the library. (`SelectSeq` would say the same and is recursive.)
  `WrapTheorem` needs that all selected nodes have an ancestor in common, the
  root at least, whose children lead to each of them.
- *Parts.* Each part keeps its invariant by its own steps, and the steps of the
  others leave its variables alone.
- *Plugin host.* With the types, `TeardownReachesAll` is inductive (`HostInv`): a
  worker is made only when the map has none, so there is none; a crash and a
  reset end the one in the map, and an unload that is answered was answered by
  it (`StopStep`, `AnswerStep`).

The assumptions are those named in the modules (`PipelineAssumption`,
`FileAssumption`, `ClockAssumption`, `MemoAssumption`, `CacheAssumption`,
`EntryAssumption`, `SchedulerAssumption`, `SqliteAssumption`,
`EditorAssumption`, `PageTreeAssumption`, `MediaAssumption`, `BridgeAssumption`,
`PluginScheduleAssumption`, `PluginHostAssumption`,
`WorkersAssumption`): that special values differ from
ordinary ones, that the root is an id, that bounds are numbers, that hosts and their ticks are
finitely many, that a new worker is one nobody awaits. TLC evaluates them on every run.

Every invariant, every action property and both refinements that a passing run
checks are proved. Only model-checked is the liveness: `RequestsFinish`,
`CallersAnswered`, `RequestsAnswered`, `DueRowsLeave`, `TransactionsSettle`,
`CallsSettle`, `DueSchedulesRun` and `NobodyWaitsForever`, for which the prover
has no rules here (fairness, `ENABLED`).

## 16. Abstractions worth knowing

- What a page says is the number of the edit it shows; cells, templates and
  CSS are not there. The site has one page (`Home`); rows have one path each.
- Every table has an entry template, route bases differ, an uploads directory
  is configured.
- Time is a counter in the scheduler and absent elsewhere.
- SQLite errors that end the transaction by themselves, and a ROLLBACK that
  fails with the transaction open, are not modelled.
- A page that is dropped from the roster (`handlers/cms/pages.ts:140`) is
  retracted too; the handler bumps as a plugin deletion does and likewise leaves
  the file. It is not an action of `PublishPipeline`; `EditorSave` has no
  versions.
- `EditorSave`: the transaction is one step, as SQLite runs it, with the index
  checked after each group of its statements. What else can refuse a save (a
  component, a layout, a schema, the network) is `Refuse` or `SaveFails`. The
  order of the pages is left out; which pages a deletion moves up is chosen
  freely. An undo of a deletion brings the page back under any free slug; other
  undos are edits. Every session begins with the site loaded. The bootstrap of a
  fresh site, closing the tab, the full save that replaces the site, and a
  remount while a reload is under way are left out. A page's id is not used
  again. `MaxEdits`, `MaxTurns` and the set of saves bound what users do.
- `PageTree`: contents, classes, locks and the slots of visual components are
  left out. `deleteNode`, `moveNode`, `duplicateNodes` and the plugin's list of
  mutations are the modelled commands, once or several times; undo and redo
  return to an earlier tree, which was sound. A paste has its subtree from the
  page itself. Commands are given ids that are shown.
- `MediaStorage`: one asset with one variant; a sweep that fails is a crash
  before it; a request is made once. One `elected` serves both roles, and
  changes at any time, which covers one election per role.
- `ToolBridge`: the streams of one user. A chat's own stream ends in the same
  way, by `destroy` in its `finally`. The heartbeat is `EnqueueFails`.
- `PluginSchedule`: no clock; due, lapsed and late are events. The leader lock
  around a tick is that of `PublishScheduler`. The table of runs and the
  arithmetic of cadences are left out.
- `PluginHost`: one plugin with a server entrypoint. Installing, upgrading and
  removing it, pushing settings, aborting its outbound fetches and its module
  pack are left out, and so are the schedules an activation claims
  (`PluginSchedule`). The window of the crash budget is `WindowMoves`, at any time.
  A crash that finds all `Recoveries` busy is torn down and counted, and not
  recovered from.

## 17. Plan

Next, in order:

1. Proofs: the safety part of `DueSchedulesRun` (a claim is held by a run under
   way or was lost) and of `CallsSettle` (a call that waits is in the
   bridge of an open stream or has its timer); `ServedIsCurrent` for
   deletions of rows that nobody publishes meanwhile, that is, with a weaker
   hypothesis than `Calm`.
2. Page deletions of the roster save as an action of `PublishPipeline`, and
   `EditorSave` composed with it.
3. The rosters of components and layouts, which save in the same way beside the
   pages.
4. `LoginLockout`: the threshold under concurrent failures.
