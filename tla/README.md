# AIBOMEditor in TLA+

AIBOMEditor is a TypeScript SDK for editing bills of material: a document
model, a transaction engine with history, remote persistence, a worker pool, a
balanced visible-row projection, a canvas renderer and an editor that ties them
together. These modules specify the parts of it whose correctness depends on the
order in which things happen, and the theorems prove what matters most for
every number of transactions, retries, replacements and resources.

Source paths below are relative to `packages/`; `editor.ts` is
`editor/src/editor.ts`, `renderer.ts` is `renderer-canvas/src/renderer.ts`; the
design document is `现代化高性能可复用BOM编辑器组件.md`.

## Inventory

| component | state | operations | interacts with | hard behaviour | what makes it correct |
|---|---|---|---|---|---|
| remote commit coordinator, `datasource/src/remote-commit-coordinator.ts` | mode, queue of pending records, the record in flight, the one being cancelled, source revision, epoch, suspension, idle waiters | enqueue, whenIdle, retryIndeterminate, cancelPending, resolveAfterResync, replaceDocument, destroy; the drain microtask; rollback and replay recovery | the DataSource (awaited commit and cancelCommit calls), the editor's rollback and replay hooks, `isCurrentDocument` | everything can change while a call is awaited; answers are late, lost, or of unknown effect | the document is the source's plus the queue; receipts tell the truth and resolve once; nothing is sent twice at a time, out of order or changed after it was sent; nobody waits for ever |
| in-memory DataSource, `datasource/src/memory.ts` | snapshot, source revision, idempotency cache, observers | load, commit, subscribeRemote, destroy | coordinator, editor | retries of a commit whose answer was lost | a key commits once, and always answers the same |
| persistence session, `editor.ts` | session, ownership of history entries, barrier, own-echo tombstones, remote cursor | register a local commit, handle an outcome or a remote envelope, source undo, rollback, replay, reload, replaceSource, recoverPersistence | coordinator, engine, DataSource subscription, mutation queue | remote envelopes, undo and recovery interleave with pending commits | the local document is the source's plus the queue, and undo touches only what is one's own |
| transaction engine, `transaction/src/engine.ts`, `capture.ts` | document, revision, history with undo and redo stacks, FIFO of operations | execute, undo, redo, applyPatch, acknowledgeSourceRevision, reconcileHistorySuffix | model, runtime events, coordinator's hooks | eviction, history rewriting, field-only short cuts | undo restores the document; a failed operation changes nothing; indexes agree with the tree |
| transaction draft and positions, `transaction/src/draft.ts`, `model/src/position-generation.ts` | a working copy of the tree | insert, move, remove, set field, rebalance | engine | position keys without room between two neighbours | a tree stays a tree; an inverse patch inverts; siblings stay ordered |
| model, `model/src` | immutable snapshots and indexes | create, index, hash, diff, match | all | large data | a document has one root-to-leaf order and indexes that agree |
| worker pool and runtime, `worker/src/pool.ts`, `runtime.ts` | tasks, queue, slots, per-instance counts, fallbacks; running tasks with their abort controllers | submit, cancel, disposeInstance, destroy; messages, errors and timers | workers, the editor | crash, restart, replay, time-out, cancellation and completion race | every promise resolves once, and does resolve; quotas hold; one task per worker |
| visible projection, `visible-projection/src` | a balanced rope of the visible rows, cached sizes, expanded set | expand, collapse, splice, seek, query, resize | editor, renderer | rotations, splits and joins with cached sizes | the rope is the flattened visible tree |
| edit state machine, event hub, resource registry, `runtime/src` | edit state; listeners and the dispatch under way; entries and their cleanups | reduce; on, off, clear, dispatch; register, dispose | editor, plugins | reentrancy | an edit is told its own outcome; no listener misses or repeats an event; every resource is released once |
| editor: view, `editor.ts` | selection, expansion, query, layout, view history | select, expand, query, resize, structural commands, undo and redo of the view | engine, projection, renderer | a projection is prepared before a commit and published after it | what is selected is shown; the view's history pairs with the engine's |
| editor: cells and commands, `editor.ts` | the edit, mutation queue, target epoch | edit, clear, fill, paste, commit | engine, edit state machine | commands wait in the queue while their target moves | a command hits the cells it was aimed at, or none |
| editor: lazy reads, `editor.ts` | pages, read cursors, admissions | loadDataSourceChildren, queryDataSource | DataSource, session | answers from an older revision | a document is never put together from two revisions |
| editor: plugins and validation, `editor.ts`, `plugin.ts` | installed plugins, contributions, validation report | install, reload, uninstall, validate, fix | hooks of the host | hooks are awaited and call back | a report is of one document and one set of plugins; nothing of a plugin outlives it |
| editor: proposals, `editor.ts` | fix and match proposals | propose, approve, apply, expire | host's approval, engine | the document moves on while a decision is awaited | a proposal is applied once, to the document it was made for |
| clipboard, import and export, `editor.ts`, `editor/src/paste.ts`, `stream-clipboard.ts`, ... | pending writes, queued pastes; imports and exports under way | copy, cut, paste; import, preview, export | system clipboard, worker, policy hooks | awaited writes, policies and parsers | a cut takes what was written; an import does what the file asks; an export is one document |
| canvas renderer, `renderer-canvas/src` | gestures, key sequence, portal, layout, frames | pointer and key handlers, render, update, destroy | editor callbacks | several pointers, lost captures, composition, updates between events | gestures end once; strokes run the binding they complete |
| agent tools, templates, facades, demo, benchmarks | none or thin | | editor | | |

`PROJECT.json` lists the components with their status, and the hazards of this
code, each at its line with the properties that cover it or the reason why none
does.

## Modules

| module | what it is |
|---|---|
| `CommitCoordinator` | the coordinator with its surroundings: state, one action per operation, continuation or external event, properties |
| `PersistenceQueue` | what the coordinator promises its owner: the life cycle of section 4.5 of the design document, seen from the receipts |
| `CommitCoordinator_proofs`, `CommitCoordinator_document`, `SequenceLemmas` | proofs: the type invariant; the queue invariant, the action properties, the refinement, and that nothing comes to a standstill; what the local document is; that receipts tell the truth and dependencies come first; facts about sequences |
| `PersistenceSession` | the editor's session above the coordinator: mutation queue, envelopes, source undo, recovery, reload, replacement |
| `PersistenceSession_proofs` | proofs: suffixes of histories; that the session knows who made each entry |
| `WorkerPool` | the worker pool, the channels to its workers and the runtime inside each |
| `WorkerPool_proofs` | proofs: the inductive invariant of the pool, splicing, what a task, a slot and a worker go through, and `#schedule`; then one lemma per action and the theorems |
| `PositionKeys` | generation of position keys between neighbours, and their renumbering |
| `BomTree` | nodes, the draft's operations on them, structural checks and indexes |
| `TransactionEngine` | commands, operations with their inverses, history, budget, reconciliation, on `BomTree` and `PositionKeys` |
| `SourceReads` | lazy children and queries of a DataSource against commits, envelopes, reloads and other sources |
| `DataExchange` | import and export with their policies |
| `EventHub`, `ResourceRegistry` | events with reentrant listeners; resources with reentrant cleanups |
| `Services_proofs`, `MutationQueue_proofs`, `EditorView_proofs` | proofs: of `ResourceRegistry`, `SourceReads`, `PluginHost`, `EventHub`, the exports of `DataExchange`, and the document and history budget of `TransactionEngine`; of `Proposals`, `CellCommands` and `Clipboard`; of `EditorHistory`, `Shortcuts`, `GridGestures` and the selection of `TreeView` |
| `ClipboardText` | the whole-text and the streaming parser of delimited text, against each other and against what a copy writes |
| `PluginManifest`, `PluginHost` | what a manifest must say: versions, engine ranges, plugin interfaces, capabilities; plugins, their contributions and the validation report |
| `Proposals` | fix and match proposals |
| `VisibleProjection` | the rope of visible rows |
| `TreeView`, `EditorHistory`, `CellCommands` | selection and structural commands; the view's undo stack beside the engine's; edits and queued cell commands |
| `Clipboard` | copy, cut and paste through the system clipboard |
| `GridGestures`, `Shortcuts` | pointer gestures, their auto-scroll frames, the column commands of the keyboard and the in-cell editor; key bindings and sequences |
| `MCCommitCoordinator`, `MCWorkerPool` | small instances of the two modules |
| `MCServices`, `MCEditor` | the services around a document and the parts under the user's hands, side by side in one module each |

`MCServices` and `MCEditor` hold several parts that do not share state: `part`
says which one a behaviour is about, and the others stand still in their initial
state. So one run explores the sum of the parts' state spaces, never their
product. Where parts of the code do act on one another, the module concerned
models both sides: `PersistenceSession` has the queue, engine and coordinator,
`TreeView` the prepared projection and the commit, `Clipboard` the writes and the
mutation queue.

JavaScript runs to completion: a public call, a microtask or the continuation
of an `await` is atomic, and anything may happen between two of them. In every
module an action is such a stretch, and what the code keeps in local variables
across an `await` is kept in a record (`calls`, `recoveries`, `waiting`, `reads`,
`clipTasks`, ...).

### CommitCoordinator and the code

The actions are

  * the public operations: `Enqueue`, `WhenIdle`, `RetryIndeterminate`,
    `CancelPending`, `ResolveAfterResync`, `ReplaceDocument`, `Destroy`;
  * `Drain`, the microtask `#scheduleDrain` queues, up to the `await` of
    `commit()`;
  * the continuations: `CommitReturns` and `CommitThrows` of `#drain`,
    `CancelReturns` and `CancelThrows` of `#cancelInFlight`, `RollbackSucceeds`,
    `RollbackFails`, `ReplaySucceeds` and `ReplayFails` of
    `#recoverExplicitFailure`;
  * what happens elsewhere: the DataSource processes a request
    (`ServerProcesses`, or `ServerProcessesLate` when its caller has given up),
    or a cancellation (`ServerCancels`), another client commits
    (`ForeignCommit`), the owner leaves the document (`LoseContext`).

A call being awaited is a record in `calls`, `cancels` or `recoveries` holding
the local variables its continuation will use (the record, the epoch); the
answer is filled in by the DataSource. `#ownsResponse` and `#ownsRecovery` are
the operators of the same name. A revision is abstracted to what it denotes: a
source revision to a length of the DataSource's log, a local revision to the
sequence of commits in the document. `inc` tells the pending record that
`retryIndeterminate` creates from the one it replaces. `version` counts how
often recovery rebased a patch, so that a key naming two patches is visible.

The DataSource of the model is `memory.ts`: a key that was committed gets the
stored answer, a stale expected revision a conflict. A rejection is taken to be
for ever (it depends on the patch and the document it is based on). A
DataSource may agree to cancel a commit that it does not hold, and then never
accepts it. In a cancel reply it may report its newest revision
(`CancelReportsHead`), which the interface allows.

Left out: audit events, error payloads, the shape checks of inputs (an input of
the wrong shape is refused without a change of state), and reentrant calls from
the callbacks (`audit`, `isCurrentDocument`, `now`, `idFactory`); the guards the
code has for those are exercised by its own tests.

### PersistenceSession and the code

`tail` is the mutation queue (`#enqueue`); each `Run...` action is one work of
it, and begins with the check of the session it was queued by
(`isSessionCurrent`). `Execute` and `RunExecute` are a local command and its
registration, or what is left when the coordinator refuses it (`discarded`), `RunOutcome` what `#handlePersistenceOutcome` does with a settled
transaction, `RunEnvelope` a remote envelope with its duplicate, gap, own-echo
and pre-acknowledgement branches, `RunRollback` the coordinator's rollback and
replay hooks, and `UndoStarts`, `UndoCancelled`, `UndoEnqueues`, `RunUndo` the
parts of `#sourceUndo`; `undo.reply` is what `cancelPending` replied to it. A rollback is refused, and the session reloads, when its
transactions are not the end of the history, or when an undo has left an entry to
redo (`redo`, engine.ts:470). `reload` and `replacing` are the awaits inside
`#performPersistenceReload`, `replaceSource` and `recoverPersistence`.
`Send`, `Commit`, `Answered`, `Recovered`, `CancelAnswered` are the coordinator,
reduced to what its owner sees of it.

A change adds a row of its own or compensates another change. An envelope's
sequence number is taken to be its revision, the trimming of the tombstone and
fingerprint ledgers (64 and 256 entries) and the callers' abort signals are left
out, and one undo and one replacement are under way at a time.

### PositionKeys, BomTree, TransactionEngine and the code

A position key is a sequence of digits below `Radix`; `PositionKeys` follows
`position-generation.ts` digit by digit. With three digits and two places the
room between neighbours runs out at once, so rebalancing is reached.
`BomTree` has the draft's operations and the checks of `model/src`. The fields
of a node are abstracted to one object with one member, enough to tell apart an
absent object, an empty one, one with the member and a scalar in its place.

The engine runs each call to its end before the next (`#enqueue`), so
`ExecuteBatch`, `ApplyPatch`, `Undo`, `Redo` and `ReconcileHistorySuffix` are one
action each; `applyAll` is the loop over the operations of a batch with their
inverses, and a call that fails stutters. An entry of the history keeps its
operations forward and back, and `HistoryApplies` applies them. Revisions are a
sequence number; its hash is left out.

The engine is created with a document, given as a constant (`FirstNodes`, any nodes
that the model accepts and that are canonical: `EngineAssumption`), on a finite set of
identifiers. What the code does in a loop or a recursion (sorting, applying the
operations of a patch, compiling a batch, taking entries back and replaying them, walking a
subtree) is a recursive function here.

### WorkerPool and the code

The actions are the calls of a host (`Submit`, `Cancel`, `DisposeInstance`,
`Destroy`), the timers of a task (`TimeoutFires`, `GraceFires`), what the pool
hears (`MessageArrives`, `WorkerCrashes`, `WorkerDoesNotLoad`,
`FallbackReturns`) and what happens in a worker (`WorkerReceives`,
`HandlerReturns`). Pool and worker are joined by two first-in first-out
channels, which a terminated worker takes with it.

Nearly every callback of the pool ends in `#schedule`, so an action first works
out the tasks, queue, slots, counts and workers its own code leaves behind and
hands them to the operator `schedule`, which creates missing workers and starts
what can be started. The calls of `#schedule` nested in `#finishTask` start
nothing the last one would not, since before them nothing could be started
(`WorkConserving`), so one application stands for all. Ages matter only through
comparisons: the queue is ordered by the time of queuing, so the ages are any
function that falls along it. An age never makes up for a priority
(that takes 1,000,000 aging intervals). A settled task keeps only what its two
promises said; the pool forgets the rest.

Left out: progress messages, diagnostics, results for another document context
than the task's (the far end answers with the context it was given), a time-out
that the host sets and the worker observes too, a fallback that throws
synchronously, and `dispose()` of the runtime. A worker whose `postMessage`
throws is one that crashes right afterwards.

### The services around a document and the code

`SourceReads`. A read of children or a query is a record in `reads` with what
`loadDataSourceChildren` and `queryDataSource` keep across their awaits; its
answer is merged by a task in `intake`, under a session of its own.
`stillCurrentRead` is the check that task repeats. The source answers with the
revision it is at. Page cursors are of the document they are used on; the
normalisers of queries are left out.

`DataExchange`. `transfer` is the one import under way, from `ImportData` through
`SourceRead`, `ImportParsed` and `RunImport` (the queued task) to `PreviewImport`
or `CommitImport`; `export` likewise, with the policy's answer between
`ExportData` and `WriteExport`. Files are grids of cells. `levelField` and
`parentField` are the two ways a file says where its rows belong; their columns are
looked up in all that are mapped (`columns`), the cells in the fields that were asked
for (`map`), and one of the files moves its rows by a column it does not import.
Templates,
search and partial documents are left out.

`EventHub`. `dispatching` holds the snapshot a dispatch walks, whom it has called,
and, for the property, who has left; a listener's body is the actions between
`CallListener` and `ListenerReturns`.

`ResourceRegistry`. The linked list of entries is a set of registration numbers,
its tail the largest. `running` is the stack of cleanups, in which 0 is the loop
of `dispose()`, and what a cleanup may do is whatever the actions allow while it
is on top.

`ClipboardText`. `parseClipboardText` is the whole-text parser with its three
formats; `feed` is the state of the incremental one, which runs a TSV and a CSV
parser side by side until the format is known. The input is a text of the code
units that matter (a letter, the separators, line ends, the quote, the two halves
of a surrogate pair), cut into any chunks, or the text of a copied grid.
Positions inside diagnostics are left out.

`PluginHost`, `Proposals`. `job` and `decisions` are what waits in the mutation
queue; the hooks of a plugin, a validator and an approval are calls that may
return at any later time, with any outcome. That `destroy` falls between the
return of a hook and its continuation is taken as one step. `InstallPlugin` and
`ReloadPlugin` are guarded by what is checked before a hook runs
(`PluginManifest`): the manifest itself (`isManifest`), the plugin interface, the
range of editor versions and the capabilities (`negotiatePlugin`), and that each
dependency is installed in a version its range allows. Versions are triples and
ranges are parsed; the text outside their grammar is one kind, `invalid`.

### The parts under the user's hands and the code

`VisibleProjection`. A rope node is a record of its subtrees and caches, without
the parent links: an index is the place of a row in the walk. `rotate`,
`balanceNode`, `joinWithRoot`, `split` and their callers are recursive
translations of `rope.ts`; `Expand` and `Collapse` splice it as `projection.ts`
does, and adjust the cached subtree sizes of the expanded ancestors.

`TreeView`. `published` is what the screen shows. View operations change it at
once; `Prepare` is the `beforeApply` hook that works out projection and selection
for a structural command, `Finish` the publication after the commit. The walk
through the expanded rows and the path to the root are recursions on the depth,
which is never larger than the number of rows; `sanitizeSelection`,
`extendRanges` and `addRange` follow the code range by range.

`EditorHistory`. `undoStack`, `redoStack` are the editor's, `engineUndo`,
`engineRedo` the transactions in the engine's. A column or height operation is
one synchronous action; a command or a document undo is a start and a finish.

`CellCommands`. A command records `version` (the identity of the published
state), `epoch` and its target when it is called, and `StartPaste`, `Prepared`,
`Commit` are its steps in the queue. The edit state machine is `edit`, with all
transitions of `reduceEditState`.

`Clipboard`. `ledger` holds the pending writes, `writes` those the renderer has
not settled, `clipTasks` the mutation queue. The order of siblings is
`BomTree`'s, the geometry of a paste of cells `CellCommands`'.

`GridGestures`. The five pointer sessions are `gestures.owner`; `viewModel` and
`shownLayout` differ between an update and the next frame. A tree move, a fill
and a selection that leave the grid ask for an animation frame, which extends the
gesture and asks for the next (`frames`, `FrameRuns`). `ColumnCommand` is a key that
resizes, moves, hides, shows, inserts, deletes or freezes columns: it is asked of
the editor on the view model of that moment, and `Asks` records whether the editor
takes such a request. Pointer capture is taken to work as browsers promise.

`Shortcuts`. `configured`, `pendingStrokes` and `keyScope` are the registry;
`Press` is one keydown through configured bindings, defaults and the fall
through between them. `able` says which commands could run at that moment, and
some (`AlwaysAble`) always can; `HeldCommands` are the defaults that also answer to
a key that is held down.

## Runs

All runs disable the deadlock check: with every bound reached, every transaction
settled or the object destroyed the system really stops.

| run | instance | what it shows |
|---|---|---|
| `coordinator_recovery` | 3 transactions, 1 foreign commit, 1 retry | the document is the source's plus the queue (`DocumentIsSourcePlusQueue`); receipts tell the truth (`ReceiptIsTruthful`); dependencies first (`DependencyFirst`); queue, receipts and modes agree (`QueueConsistent`); a receipt resolves once (`SettledOnce`); a sent patch is never changed (`SentPatchIsFixed`); rollback comes before the report (`RolledBackBeforeReported`); the abstract queue is implemented (`PromiseKept`) |
| `coordinator_context` | 2 transactions, 1 waiter, 1 foreign commit, 1 replacement or lost context, a DataSource that can cancel | no wake-up is lost and one thing is in flight at a time (`NeverWedged`), idle means persisted (`IdleIsPersisted`), types and a cancellation against the answer of the commit it cancels (`TypeOK`) |
| `coordinator_live` | 2 transactions, 1 waiter, 1 foreign commit, cancellations | every receipt (`ReceiptResolves`) and every `whenIdle()` (`IdleResolves`) resolves |
| `coordinator_cancel_head` | 2 transactions, 1 foreign commit | violated: a foreign commit is overwritten unseen (`NoSilentOverwrite`) |
| `session` | 3 own changes, 1 of another editor, a history of 2, 1 fault, 2 sessions, 1 undo or replacement | the local document is the source's plus the queue through envelopes, duplicates, losses, conflicts, undo, reload and replacement (`LocalIsSourcePlusQueue`); while it has not stopped, the session knows whose each history entry is (`OwnersCoverHistory`); an undo ends (`UndoEnds`) |
| `session_undo_remote` | the same | violated: an undo takes away another editor's change (`RemoteIsNotUndone`) |
| `pool_safety` | 3 tasks of 2 instances, one replayable with a merge key, 2 workers, 1 crash, quota and queue of 2; hosts whose workers load, whose factory may throw and scripts do not load, who have only a fallback, or nothing | a task is in one place, counts are true and quotas hold (`PlacementConsistent`), nothing idles beside a waiting task (`WorkConserving`), a worker runs what its slot says and no task starts more often than it may be replayed (`WorkerRunsItsTask`), no cancellation is lost (`CancelIsDelivered`), turns (`FairTurns`) |
| `pool_live` | 3 tasks of 2 instances and 2 priorities, 1 worker, 2 crashes, handlers that may hang | each task settles (`TaskSettles`) |
| `pool_destroyed` | 1 task, 1 worker | violated: a task that runs when the pool is destroyed never settles (`RunningSettles`) |
| `document_services` | eight parts: an engine with 3 nodes, 2 commands and 4 revisions, history of 2 entries and 2 bytes; 2 lazy parents with 3 pages; 8 files and 2 exports over 4 rows; 3 listeners and 2 event types; 4 resources; texts of up to 5 units, and 72 copied grids; 10 plugin offers, 7 of them unfit, each in a way of its own; fix and match proposals | `IndexesAgree`, `HistoryApplies`, `PagesFitTheirDocument`, `ExportIsOneDocument`, `ImportsAsAsked`, `EventIsHeardOnce`, `EachResourceIsCleanedOnce`, `StreamParsesTheSame`, `PluginsAndReportsAgree`, `ProposalsHitTheirDocument`, each stated above its definition |
| `editor_view` | seven parts: a tree of 9 rows with 3 queries; 5 rows with 2 queued commands; 3 columns with a history of 2; 3 by 3 cells with 2 waiting commands; 2 pointers on 5 columns, one hidden and two frozen; 3 rows with 2 pending writes; 7 sets of bindings and 7 key presses | `ProjectionIsTheOpenTree`, `SelectionIsShown`, `HistoriesAgree`, `EditOutcomeIsItsOwn`, `QueuedCommandHitsItsCells`, `GesturesAreSound`, `CutTakesWhatWasWritten`, `StrokesRunTheirBinding` |
| `shortcut_unbound` | the shortcuts alone | violated: an undo that the host disabled still runs on its old stroke (`OverriddenDefaultIsSilent`) |

Bounds of the coordinator and the pool. Three transactions are a failed head with
a chain of two descendants, the smallest queue in which replay has an order to
keep and a second failure hits a replayed chain. One foreign commit is enough for
every conflict, since only "behind" and "not behind" are told apart. One retry
makes every key be sent twice. One epoch change makes every awaited call late.
Transactions are symmetric; the liveness runs do not use the symmetry. For the
pool, three tasks on two workers are the smallest load with one waiting while two
run, and, before the second worker is ready, with two waiting for a turn; one
crash meets every state of a task, two exhaust a budget of one restart. Workers
are symmetric. What a host offers is chosen at the start and never changes.

Bounds of the session. Three own changes are two that depend on each other and
one more, or the undo of one; a history of two makes the third evict the first;
one fault is one lost or repeated envelope, lost answer, failed load or commit
that the coordinator refuses, at any place; two sessions make every queued work
late once. `LocalIsSourcePlusQueue` and `OwnersCoverHistory` were also checked,
without a violation, with a history of no entry and of one; and with a history of
one, four own changes and two undos, each time without one of the faults, the second
session and the other editor.

Bounds of the parts. Each `Max...Steps` or `Max...Calls` bounds how many calls of
users and hosts there are, never the continuations that follow them. In the
projection, nine rows on four levels with four calls reach single and double
rotations and joins of ropes of different height in both directions. In the tree
and the cell commands two commands in the queue are a command and the change that
makes it stale. In the engine, two commands per batch and a history of two
entries and two bytes reach eviction by count and by bytes, an entry too large to
keep, renumbering of positions, and a reconciliation that takes two entries back,
applies an operation of the DataSource and replays the second on it: what bounds the
history does not bound such operations, which it does not record. Insertions go first
among their siblings in this run, and the larger instances with insertions before and after a sibling,
`{"first", "after"}` and `{"last"}`, were checked too, without a violation. Five
calls of the event hub instead of four were checked as well. In `ClipboardText`
five units hold a quoted field with a doubled quote, or a line end or surrogate
pair cut in two, and ten bytes with three rows, two columns and four cells put
every limit within reach. Two pointers are two gestures at a time; of the
five columns three remain to be moved among, one of them in another frozen group.
Two strokes are the longest binding.

Fairness. `CommitCoordinator`: a scheduled microtask runs; the DataSource
processes a request, and the promises of its calls and of the hooks settle one way
or the other. Nothing is assumed of callers: nobody has to retry, resync, replace
or destroy. The code has no time-out of its own, so a DataSource that never
answers does leave receipts pending; that the call settles is the caller's
obligation and assumed here. `PersistenceSession`: the mutation queue runs its
works (`#enqueue` chains promises), awaited calls are resumed, the coordinator's
microtasks run and the DataSource answers what it is asked, if only by throwing;
no envelope has to arrive and nobody has to call or recover. `WorkerPool`: armed
timers fire (the default time-out always arms one), messages and errors of workers
arrive, a worker reads its inbox; no handler, fallback or host ever has to do
anything. `TaskSettles` is claimed for factories that work and scripts that load.
The other modules state no fairness: their hazards are about safety, and what they
wait for is a host or a user.

## Where the code and its documents disagree

With a run:

  * `coordinator_cancel_head`. The revision in a cancel reply becomes
    `#sourceRevision` although the local document does not contain what lies
    between; the next commit then passes the DataSource's revision check and
    overwrites what it has not seen, which section 4.5 forbids. For a DataSource
    that reports the revision the caller already has, the invariant
    `DocumentIsSourcePlusQueue` holds, also in the instance of
    `coordinator_context`.
  * `session_undo_remote`. `#sourceUndo` asks whose the last history entry is when
    it is called, and undoes whatever is last when its work runs; an envelope that
    was in the queue before is applied in between, and is undone. Where this
    happened (`session.raced`) `LocalIsSourcePlusQueue` makes no claim.
  * `pool_destroyed`. `destroy()` cancels running tasks and terminates their
    workers at once; the grace timers then find a destroyed pool and give up.
    The promises of these tasks never settle (those of fallbacks do).
  * `shortcut_unbound`. The keydown path drops the default strokes of undo and redo
    only if neither `grid.undo` nor `grid.redo-shift` is left at its default, so
    disabling one of them alone has no effect on its old stroke.

Met while modelling, stated in the modules or excluded by name from a property,
and without a run of their own:

  * Coordinator. After a commit went unanswered and `retryIndeterminate` has
    requeued it, and before the drain microtask runs, `cancelPending` treats it as
    never sent: its receipt resolves to `cancelled`, while the DataSource may hold
    the first attempt (`CancelledIsNotCommitted` does not hold).
  * Pool. A worker that fails to load is replaced before the pool looks for the
    fallback, without limit (`LoadFailureFallsBack` does not hold). A replayed task
    goes back into the queue but not into its instance's count, so an instance can
    be given more than its quota: with a quota of one, submit a replayable task
    without a merge key, let its worker crash once it runs, and submit another
    (`CountsConsistent` and `QuotaHolds` are claimed for instances without
    replayable tasks); it keeps its sequence number and may jump the turn
    of another instance (`FairTurns`). Where there is neither Worker nor fallback
    the failed tasks stay in the queue and in the counts.
  * Session. Remote envelopes never advance the coordinator's source revision, so
    the next local commit is refused as a conflict (against section 4.5,
    design document line 711). A failed reload with nothing pending leaves the
    session stopped with an active coordinator, and `recoverPersistence` refuses
    (editor.ts:7520). `abortAndRollback` of `replaceSource` can release undo's
    barrier early. Undo of a pending transaction has it cancelled by the
    coordinator before it asks the engine (editor.ts:6274-6295, 6366); when the
    engine's history has evicted the entry meanwhile (a budget of no entry, a
    commit larger than the byte budget, or more pending transactions than entries
    and as many undos), the engine has nothing to undo, the call fails, and the
    change stays in the local document while neither the DataSource nor the queue
    has it. Without the exclusion (`session.raced`) TLC finds it with
    `HistoryEntries = 0` and one undo, and with `HistoryEntries = 1` and two.
  * Engine. A batch of cyclic moves, or a rebalance after duplicate keys of a
    patch, commits with an inverse that does not apply
    (`EveryTransactionHasAnInverse` does not hold with `CyclicMoves`); entries
    below remote operations that reconciliation leaves unrecorded may not apply
    (`overRemote`).
  * Reads. An envelope that was captured but waits behind a merge of children or a
    reload is dropped, because the merge starts a session at the old revision. For
    a writable source without remote changes the session's revision never follows
    its own acknowledged commits, so later loads look stale and cause a reload
    (editor.ts:6853-6891, 1788-1823). A load admitted during a reload cancels it.
    `#enqueue` is returned, not awaited, so the abort controller is released before
    the merge runs.
  * Import and export. Moves are issued in target order, so a hierarchy that is
    valid in the end is refused when an intermediate move is cyclic, while the
    preview returns it. An import without header or mapping takes the columns
    visible when it runs. Surplus columns of a file are dropped. A policy that
    omits a field, and formula protection that changes a cell, are still reported
    lossless (`LosslessIsComplete` does not hold: editor.ts:4851-4857, 4910-4914
    against `editor/README.md`:538-539). `visible` and `filtered` export the same
    rows.
  * Events. A listener that leaves and returns before its turn is called when it
    returned to the same Set, and not when the Set was new; `clear` does not stop a
    dispatch under way.
  * View history. A height change after an undo does not bar redo, and later undos
    pair wrongly or find no entry (editor.ts:8036-8054); `setColumns` resets the bar
    likewise (13022); a column or height change while an engine undo is in flight makes its
    end pop the wrong entry (7877) — `strayed`, which is also set when newer entries
    crowded the one of an undo out of the view's stack. Resize sessions that overlap other
    column changes break the chain — `mixed`. Freezing a later column to the start
    moves it first, against the comment at 13166.
  * View. View operations between `beforeApply` and the end of a commit are lost
    (7885); `focusCell` on a row the filter hides reports success; indenting below
    a sibling the filter hides raises an error and still moves.
  * Cells. Reordering, inserting or hiding columns does not advance
    `pasteTargetEpoch`, so queued commands may hit other cells (design document line
    1704). An edit that `setColumns` ends while it commits leaves its outcome to the
    next one (`unsettled`). A plain edit, and a paste queued before `setDocument`
    whose first cell is the same, are written to the replaced document.
  * Clipboard. A clipboard worker that never answers blocks the mutation queue;
    writes never reported stay in the ledger until unmount; a mount that fails to
    render is dropped without clearing it.
  * Text. The streaming parser may report a limit where the whole-text parser
    reports a malformed quote, and a copy of one column is not always read back;
    `StreamParsesTheSame` says so.
  * Plugins. A plugin that withdraws its own contribution after setup leaves an
    entry that makes every report stale and a reinstallation collide (2990-3011,
    5600-5620); `destroy` during the cleanup of a reload installs the replacement in
    the destroyed editor (3445-3525) — `exempt`. Uninstalling asks no dependents.
  * Renderer. A configured binding that cannot run falls through to the default of
    its key, against renderer.ts:4863; `Ctrl+X` and `Primary+X` are no conflict,
    though one press matches both, and the one that ranks lower is never asked; a single-stroke binding makes longer ones that
    begin with it unreachable; `grid.fill-series` has no handler; `destroy` leaves
    an open column resize without its end; the fill handle commits row numbers taken
    when the drag began.

## Proofs

The theorems hold for every set of transactions, waiters, kinds and resources and
every value of the bounds, under `NamesAssumption`, `BoundsAssumption` and
`FlagsAssumption` (`CommitCoordinator`) and `RegistryAssumption`; those of the pool
for every number of tasks, slots, instances, keys and crashes and every host, under
`NumbersAssumption`, `SlotsAssumption` (there is a slot, and finitely many),
`KindsAssumption` and `HostsAssumption`; those of `SourceReads` and `Proposals` for every
set of lazy rows and numbers of their pages, every set of impacts, every number of
steps, queued tasks and retained proposals, under `SourceReadsAssumption` alone;
those of `CellCommands` for every grid, layout, set of selections, clipboard and length
of the queue, and from no assumption;
that of `Clipboard` for every forest, set of new rows, number of pending writes and length
of the queue, under `ClipboardAssumption` (finitely many rows, none of them the place
above the roots, and the new ones are new);
that of `EditorHistory` for every layout, history limit and number of steps, under
`HistoryAssumption`; that of `Shortcuts` for every set of defaults, offers, keys and
abilities, under `ShortcutAssumption` (a valid binding has between one and `LongestBinding`
strokes and a priority within the range `normalizeBinding` accepts); that of `GridGestures`
for every set of pointers and view models, under `GestureAssumption` (a view model has a
column once and its active column is one of them, which `normalizeEditorColumns` and
`sanitizeSelection` see to); that of `TreeView` for every tree of rows, every set of columns
and of things a query can match, and any number of steps and commands, under
`TreeAssumption` (finitely many rows, and at least one column);
that of `PersistenceSession` for every number of changes, faults, undos and sessions and
every history budget, with or without cancellation and with or without the operations of a
conflict, and from no assumption;
that of `PluginHost` for every set of plugins with any dependencies and rules, under
`PluginAssumption`: the editor starts with finitely many plugins, one of each id, as
`#initializePlugins` skips a second one, each with a manifest the editor accepts and its
dependencies among them;
those of `EventHub` for every set of listeners and event types and any number of calls, and
of `DataExchange` for every document, request, import and policy, from no assumption.

  * `TypeCorrect`: `Spec => [](TypeOK /\ RevisionsExist)`. `RevisionsExist`
    (every revision held anywhere is at most the length of the log) is what
    makes `sourceDocument(n)` a sequence of commits, so it is needed for the
    type of `local`.
  * `QueueIsConsistent`: `Spec => []QueueConsistent`. Its parts need one
    another: that only the head is in flight needs that a queue has no
    duplicates, that receipts match the queue needs that a cancellation owns the
    whole queue, that only the head was ever sent needs that a transaction
    without a receipt was never sent. The proof goes through twelve shapes
    of step (`QueueStep` in `CommitCoordinator_proofs`): what an action does to
    the queue, the mode and the receipts, such as appending a transaction,
    concluding the head, abandoning the queue or suspending it. One lemma per
    action says which shape it has, one lemma per shape that it preserves the
    invariant, so that every action is expanded once and every property is
    proved of shapes.
  * `ReceiptsSettleOnce`, `SentPatchesAreFixed`: the action properties
    `SettledOnce` and `SentPatchIsFixed`, from the same invariant and shapes.
  * `CoordinatorKeepsPromise`: `Spec => Promise!QSpec`. Every shape is a step of
    `PersistenceQueue`, or a stutter.
  * `CoordinatorIsNeverWedged`: `Spec => []NeverWedged`. The argument is one of
    ownership (`WakeInv` in `CommitCoordinator_proofs`): of the awaited `commit()`
    calls of this epoch, one whose transaction was not cancelled owns the head of
    the queue (`CallsOwned`), so there is at most one; what is in flight has such
    a call, what is not has a drain scheduled (`DrainComes`); a recovery is
    awaited (`RecoveryOwned`); and who waits for idle waits for work
    (`WaitersHaveWork`). It is inductive together with the types and
    `QueueConsistent`: that a late answer does not own the head needs that a
    cancelled transaction stays cancelled, which is `SettledOnce`.
  * `DocumentFollowsTheSource`: `Spec => []DocumentIsSourcePlusQueue`, assuming
    `~CancelReportsHead`: an agreed cancellation that moves `#sourceRevision` breaks
    it (run `coordinator_cancel_head`). The difficulty is an acknowledgement
    that arrives after several attempts, some of them lost and still on their way:
    `#sourceRevision` jumps to the revision the answer names, and the document must
    already be what the log is up to there. `SentAtRevision` in
    `CommitCoordinator_document` is what makes it so: nothing of the queue is in the
    log, or can get there by a request that is on its way, anywhere but right behind
    `#sourceRevision`. With it go the order of recoveries (`RecoveryOrder`), that
    what is at the DataSource was dispatched (`SentWasAttempted`), that its answers
    are true (`AnsweredTruthfully`) and what a replay starts from
    (`ReplayStartsFromSource`).
  * `ReceiptsTellTheTruth`: `Spec => []ReceiptIsTruthful`, under the same assumption.
    What a failure or a cancellation claims is about the future, so the invariant
    (`ReceiptInv` in `CommitCoordinator_document`) says that such a transaction is
    `Doomed`: not in the log, and either refused by the DataSource for ever or
    expected, by every request for it that is on the way, at a revision that has
    passed. That a conflict dooms a transaction is where `SentAtRevision` is needed;
    that a cancellation before dispatch does, where `QueueConsistent` is.
  * `RollbackComesFirst`, `IdleMeansPersisted`: the action properties
    `RolledBackBeforeReported` and `IdleIsPersisted`, from the two invariants.
  * `DependenciesComeFirst`: `Spec => []DependencyFirst`, under the same assumption.
    The queue is the chain of its dependencies (`QueueIsChain`), so when the head
    leaves, the next transaction depends on something that no longer waits; what may
    be sent, or was, never depends on what waits (`SentAfterDependency`), and its
    dependency is fixed from then on (`SentPatchIsFixed`); what does not wait any
    more is acknowledged either already, and then it is in the log, or never.
  * `ResourcesAreCleanedOnce`: `RegistrySpec => []EachResourceIsCleanedOnce`. The
    property is not inductive: that nothing is left when `dispose()` is over holds
    because as long as a disposed registry has entries its loop is on the stack
    (`LoopIsAtWork`), and that a cleanup is called once because an entry is
    unlinked before its cleanup starts, so what is linked is active and was never
    attempted (`EntriesAgree`). With `CountsAgree`, that the ledger of each kind
    counts the linked entries, and the types, they are the inductive
    `RegistryInv`. What is popped from the stack is either not the loop, or the
    loop when no entry is left (`PoppingKeepsInv`).
  * `PagesAreOfOneDocument`: `SourceInit /\ [][SourceNext]_sourceVars =>
    []PagesFitTheirDocument`. A page is merged long after it was asked for, so the
    invariant (`SourceInv` in `Services_proofs`) follows a read through its stages: of
    a read of this generation the page before is in the document, and if its answer has
    the revision it expected and the local revision is still the one of the call, then
    the answer is of the document's revision (`ReadFits`). This
    needs that revisions come in order
    (`RevisionsInOrder`): the session is not ahead of the document, what lies between
    them are this editor's own commits, and the document is not ahead of the source.
    An envelope that stands in the intake therefore either continues the session's
    revision or is recognised as an echo.
  * `ProposalsAreOfTheirRevision`: `ProposalInit /\ [][ProposalNext]_proposalVars =>
    []ProposalsHitTheirDocument`. Status, queue, approvals and what was committed bind
    one another (`ProposalInv` in `MutationQueue_proofs`): only the first task commits, and
    what it commits is still in its store (`HeadFits`), which is why `trimProposals` may
    not drop what is being applied (`TrimmingTrims`); a queued decision on a match has
    its approval, and no other decision is on that match (`DecisionFits`, `InOrder`), so
    `queuedApproval` names one; an active match has no approval (`MatchFits`), so it
    cannot be approved twice; and the number of a fix that is not issued yet is nobody
    else's. An open proposal has not been committed and is of the published revision,
    since each commit expires what it outdates. `trimProposals` is a recursion over the
    store; what it keeps is shown with the least counterexample.
  * `ReportsAreOfThePlugins`: `PluginInit /\ [][PluginNext]_pluginVars =>
    []PluginsAndReportsAgree`. The invariant (`PluginInv`) adds to the property what
    it takes for the next report to be right: a plugin has one entry, and an entry its
    own number (`oneEntryEach`); the task that is at work has a number nobody had
    before, and the entry it takes down takes no calls (`JobFits`); and a validation
    that runs in this generation has asked, or has yet to ask, every validator, and
    those it asked take calls (`CheckFits`). The last is why a removal need not begin
    another generation when it drops the entry: it did when it paused it, and a paused
    entry is asked by nobody. That what a reload replaces is still there when the
    replacement is ready is an invariant of its own (`ReplacedIsInstalled`).
  * `OutcomesAreTheEditsOwn`: `CellInit /\ [][CellNext]_cellVars => []EditOutcomeIsItsOwn`.
    The machine only knows that some edit is committing, so the invariant says that the
    queue holds at most one task of an edit, that it is that edit's, and that only a
    committing edit has one (`OneEditWaits`).
  * `CommandsHitWhatWasSeen`: `CellInit /\ [][CellNext]_cellVars =>
    []QueuedCommandHitsItsCells`. A clear, fill or paste computes its cells when its
    turn comes. `TaskFits` says that as long as the epoch is the task's and no column
    moved, the cells under the selection are those the user saw; every step that moves
    the selection moves the epoch as well (`TargetMoves`), and a task has an epoch of
    the past or of now. The preparation compares the epoch, and what each of the five
    computes lies within the cells it looked at (`PreparationCovers`).
  * `CutsTakeWhatWasWritten`: `ClipboardInit /\ [][ClipboardNext]_clipVars =>
    []CutTakesWhatWasWritten`. A revision of a generation says what the document was,
    so the invariant (`ClipInv`) says of every payload, in a write, on the clipboard or
    in a task, that its base is of the past, and that while it is of now, the rows it
    would take are the ones it has (`PayloadFits`, `AsItIs`). `StartCut` compares base and
    document when nothing can come before the commit any more (`ClipTaskFits`). A payload
    is being written, waits as a cut, or was cut: it is in one of the three places
    (`OnePlace`), which is why it is taken once. For a branch, that the roots of what was
    written are those that were selected (`RootsAreRoots`) is an induction over `branchOf`,
    again with the least counterexample.
  * `HistoriesStayTogether`: `EditorHistoryInit /\ [][EditorHistoryNext]_historyVars =>
    []HistoriesAgree`. The property looks at the tops of the stacks, but what is below
    comes to the top, so the invariant (`HistoryInv` in `EditorView_proofs`) is about
    all of them: each column entry begins with the layout in which the one below it
    ended, whatever lies between them (`Chained`), up to the columns on the screen or,
    while a resize is open, those it began with (`laidOutColumns`); and the documents
    follow the engine's transactions one by one from the top (`Follows`). An undo that
    is under way still has its document on top unless the stacks strayed
    (`TopIsDocument`). The work is in `trimHistoryInteraction`: dropping the
    oldest document from the middle of a stack breaks no chain, since a document is no
    link of it, and leaves an end of the documents that is no longer than the engine's
    stack (`TrimmingLeaves`). `documents` and the trimming are recursive functions;
    what they return is shown by induction over an arbitrary set of sequences
    (`SequencesGrow`), a parameter the provers accept where they take no operator.
  * `StrokesComplete`: `ShortcutInit /\ [][ShortcutNext]_shortcutVars =>
    []StrokesRunTheirBinding`. The invariant (`ShortcutInv`) adds that the sequence under
    way is the end of what was typed, stroke by stroke. What makes it last is
    `prefixFor`: a press either goes on with that sequence or starts again from its own
    stroke, and both are an end of what is typed then (`PrefixIsTyped`); what completes
    them is what `consume` chose from (`ConsumeYields`, `WinnerIsFirst`). The proof also
    corrected the property, which once said that a default runs only if none of the
    bindings of these strokes can. `Ctrl+Z` and `Primary+Z` may be configured side by
    side and one press completes both; only the one that ranks highest is asked.
  * `GesturesEndWell`: `GestureInit /\ [][GestureNext]_gestureVars => []GesturesAreSound`.
    The property is nearly inductive (`GestureInv` adds which pointers are down, and that
    frames are frames of gestures): one lemma for the end of each kind of gesture, whoever
    ends it, one for each beginning, which ends others first, and one for each move, which
    serves the auto-scroll frames as well. That the editor takes what a column command asks
    for is a lemma for each of the seven. What
    is not control is the order of the columns. It is made from the columns that are
    shown, while the editor takes only an order of all of them with the first in its place;
    `ReorderIsLawful` shows that putting the hidden ones back (`OrderShows`) leaves the
    others in the order that was asked for, whatever is hidden, and that the column stands
    beside one of its frozen group (`MovedColumn`).
  * `SelectionStaysOnScreen`: `TreeInit /\ [][TreeNext]_treeVars => []SelectionIsShown`.
    The property names what is selected; the invariant (`TreeInv` in `EditorView_proofs`)
    also says it of the range an extension would start from, and that what is
    prepared and published are projections of trees, so that what is shown is a sequence of
    rows (`ProjectionIsOne`). Then each operator has its lemma: extending, adding a
    range, selecting an axis or all keeps a selection on the screen; and `sanitizeSelection`
    makes one of any selection whatever, which is why it does not matter how long ago
    a command was prepared. The walk is a recursive function whose existence is an
    induction in `SequenceLemmas` (`RecursionExists`, `ValueByValue`) over an arbitrary set
    of successor functions, again a set where the library takes an operator.
  * `TasksHaveOnePlace`, `NoTaskWaitsForRoom`, `SlotsAreNotGivenAwayEarly`,
    `CancellationsArrive`: `Spec => []PlacementConsistent`, `[]WorkConserving`,
    `[]WorkerRunsItsTask`, `[]CancelIsDelivered`, all from one inductive invariant
    (`PoolFitsTogether`: `Spec => []IInv`). None of the four is inductive alone. That
    a worker runs only its slot's task needs that all it has been told, and all it
    says, is about that task or a settled one; that a cancellation arrives needs
    that it stands behind the task in the inbox (`StartFits`); that a task has one
    place needs that a slot that is busy is still there (`SlotsFit`).
    The invariant is a predicate of tasks, queue, slots, counts and workers
    (`Fits`), not of the variables, because of how the code works: an operation
    changes its records first, and `#schedule` takes over from there. So each
    lemma says that one part of an operation keeps things fitting: tasks end,
    a cancelled worker is told, a slot fails or is freed, a task is replayed or
    queued. `ScheduleFits` says so of `#schedule`, and that afterwards
    nothing waits that could run (`NothingWaits`), whatever it was given: this is
    all of `WorkConserving`, and why every operation must end in `#schedule`. The
    order in which tasks are taken matters to none of this and is left open.
    Two inductions over the queue are needed: what is left when tasks are spliced
    out of it, and that places that differ pairwise are as many as the tasks in
    them. Both are done with the least counterexample (`LeastNatural`, from the
    well-foundedness of `<` on the naturals), with the formula written out, which
    takes no theorem with an operator parameter.
  * `OwnersAreKnown`: `Spec => []OwnersCoverHistory`. Two lists in two packages record
    the same transactions: the engine's history, which is bounded, and the session's
    owners, which are not, so the one ends with the other (`Covered` in
    `PersistenceSession_proofs`). Local and remote changes append to both and may evict
    from the first; an undo takes from both; a rollback splices both, by the length of
    what it takes back, and `CoveredSpliced` says that they still fit only because
    that is checked to be the end of the history (`rollbackAllowed`); a commit that the
    coordinator refuses takes back its entry, and what it evicted is missing from the
    history only. The one step that breaks the correspondence, a remote change whose
    revision is then refused, stops the session; so the invariant (`SessionInv`) has
    it that a session that is to reload has stopped, and that nothing but a
    new document ends this.

  * `EventsAreHeardOnce`: `HubInit /\ [][HubNext]_hubVars => []EventIsHeardOnce`. What is
    left of a snapshot is a suffix of it, so the loop has a place in it, and whom it has
    called are listeners of the places before, in order (`HeardInTurn` in
    `Services_proofs`): that is what a list without repetition needs to be walked once.
    Meanwhile listeners leave and return; `LeftIsKnown` says of those still to come that the
    ones that left are exactly those the Set of the dispatch no longer has, be it the
    Set of the type or the one that `off` or `clear` detached from it. The counters are
    those of a finite set of subscriptions (`CountsAreTrue`).
  * `ExportsAreOneDocument`: `ExchangeInit /\ [][ExchangeNext]_exchangeVars =>
    []ExportIsOneDocument`. What is written while the policy was thinking comes from the
    state that was captured when the export was called, through every commit and import
    in between (`ExportIsWritten`); the others leave an export alone.
  * `DocumentsAreIndexed`: `EngineSpec => []IndexesAgree`, and
    `HistoryKeepsItsBudget`: `EngineSpec => []HistoryWithinBudget`. One inductive
    invariant serves both (`EngineInv` in `Services_proofs`): the document is
    `documentOf` its nodes, which are well-shaped, a tree and canonical (`isDocument`);
    and the history holds entries of well-formed operations, counts their bytes
    right and is within the budget (`isHistory`). The two belong together because an undo, a
    redo and a replay apply what the history holds, so what is there must be operations
    that keep a draft a draft; they need not succeed, and the proof does not ask them
    to. For the indexes, the argument
    is about the transactions that do not rebuild them: operations on fields leave
    parents, keys and codes as they were (`onlyFields`), indexes and structure depend on
    nothing else (`placesOf`), and the nodes that such a transaction normalizes, those it
    changed, are the only ones that could have lost their canonical form. For the budget,
    eviction keeps the least number of dropped entries that fits, and one exists, since
    dropping all fits any budget; what undo, redo and reconciliation take from one stack
    they add to the other, or drop, and a sum over a stack splits where the stack does.
    Reconciliation is cut, take back, foreign patch, replay, and each of the four leaves
    an engine for which the invariant holds, whatever number of entries it handles.

Everything else is only model-checked:

  * Liveness, since the prover does not handle fairness, and `FairTurns`: the turn is a
    left fold over the queue, and what it picks is an induction over the fold.
  * `ProjectionIsTheOpenTree`: the rope is written with recursive operators.
  * `StreamParsesTheSame` and `ImportsAsAsked`: what parsers and folds return for
    every input, which would need such an induction for each of them.
  * What `HistoryApplies` says besides the budget: that the inverse of each operation
    takes it back, for each kind of operation and in any batch. It is not true for every value
    of the constants either. A patch is checked for moving a node below itself only in its
    result, and what a batch does in between may have no inverse that applies
    (`EveryTransactionHasAnInverse`); the callers of `document_services` make no such moves.
  * `LocalIsSourcePlusQueue`: the session's receipts, envelopes, replays and
    reloads in one invariant; `OwnersAreKnown` is the part of it that concerns the history.

## Not modelled

  * Diff, matching, hashing and encoding in `model/src`: pure functions without
    state.
  * Drawing, layout arithmetic, hit tests, scrolling, announcements and frame
    scheduling of the renderer: arithmetic on pixels, and I/O.
  * The worker's own time-out, progress messages and disposal; the clipboard worker
    client, which is one request of the pool.
  * Parsing of XLSX and HTML (their rows are given), search, templates, accessors,
    audit events and mounting.
  * Agent tools, facades, demo, benchmarks and scripts.

## Plan

What is left, in the order of interest:

 1. Proofs: `LocalIsSourcePlusQueue`, and `HistoryApplies` for callers that move
    nothing below itself.
 2. `PersistenceSession` on `CommitCoordinator` in full instead of its reduction,
    shown by a refinement.
 3. Frame scheduling and scrolling of the renderer; templates and search.
