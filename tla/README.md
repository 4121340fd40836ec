# IDEM record keeping: TLA+ models and proofs

This directory specifies the record-keeping application: the live report preview,
the report builder, the screens of the browser client and the store behind the
API. Paths below are relative to the repository; `RK` stands for
`src/RecordKeeping`, `client` for `src/client/src/app`.

## 1. The system

| Component | State | Operations | Interacts with |
|---|---|---|---|
| Presence registry (`RK.Infrastructure/Reporting/InMemoryReportPreviewPresence.cs`) | session map, reverse index, per-session participants, selections, locks, gate | Join, UpdateSelection, ClaimElement, ReleaseElement, Leave, GetParticipants, GetLocks | called by every hub invocation of the process, in parallel |
| Live preview hub (`RK.Api/Realtime/ReportPreviewHub.cs`) | snapshot store, SignalR groups | JoinSession, PushRdl, UpdateSelection, UpdateCursor, ClaimElement, ReleaseElement, OnDisconnectedAsync | registry, snapshot store, all clients of a session |
| Builder's preview channel (`client/reportBuilder/usePreviewBroadcast.ts`, `previewHub.ts`) | connection, debounce timers, held lock, own connection id | push, publish, claim, release, reconnect, token renewal | hub; claim effect of `ReportBuilderScreen.tsx` |
| Builder document (`client/screens/ReportBuilderScreen.tsx`, `reportBuilder/history.ts`) | undo history, loading and saving flags, requests under way | edit, undo, redo, load, save, route changes | template API, shell |
| Builder canvas (`ReportCanvas.tsx`, `geometry.ts`, `align.ts`, `guides.ts`, `marquee.ts`, `model.ts`) | selection, the gesture under way, inline editor, page in view | press, drag, resize, marquee, inline edit, align, distribute, insert, delete, undo | builder document |
| Report definition (`PropertiesPanel.tsx`, `DataBindingEditor.tsx`, `PageSetupEditor.tsx`, `expressions.ts`, `rdl.ts`, `preview.ts`) | the template | edits of the panels, save, load, preview | report engine, through the RDL |
| Report engine (`RK.Reporting`) | none: pure functions | read RDL, evaluate expressions, lay out pages, paint | hub (PushRdl), PDF export |
| Shell and routing (`App.tsx`, `AppShell.tsx`, `useHashScreen.ts`, `nav.ts`) | who is signed in, the address and its history | sign in, navigate, back and forward, redirect, token renewal | every screen |
| List screens (Facilities, Organizations, Production Fields, Reports, Facility details, Field Limits) with `GridControl.tsx` | the list, the row under edit, cards, confirmations | load, add, edit, save, remove, retire, reactivate | API, shell |
| Record screens (`RecordsScreen.tsx`, `LogRecordScreen.tsx`) | pickers, records, the form | filter, page, fill in, save | API, shell |
| Facilities, limits, fields, records, orgs, templates (`RK.Domain`, `RK.Application`, `RK.Infrastructure/Persistence`) | relational tables behind EF Core | one handler per HTTP request: load, decide, save | each other through the database only |
| Identity, client registration, start-up (`RK.Infrastructure/Identity`, `RecordKeepingDbInitializer.cs`) | users, clients, tables | seed, create tables | database, run by every replica |

What is hard, and what correctness means there:

* **Presence registry.** Two concurrent dictionaries are read without a lock
  while a session's data is guarded by its gate, and an empty session is
  collected: a thread can hold a reference to a session that no longer exists.
  Correct: no write into a collected session, no lock that outlives its holder,
  both dictionaries agree, and every operation looks atomic to its caller.
* **Hub.** Every `await` lets other handlers run, and `OnDisconnectedAsync` can
  overtake an invocation of the same connection. Correct: everybody in a session
  is told the frames, the roster and the locks, and nothing of a departed
  connection stays behind.
* **Preview channel.** Outages, token renewals, late answers and debounce timers
  meet. Correct: once things settle the watchers have the editor's latest
  document and selection, and it holds the lock it shows.
* **Builder document and canvas.** Loads and saves are answered in any order
  while the user goes on; pointer gestures live in refs beside the state.
  Correct: the editor never holds one template under another one's id, undo is
  chronological, a gesture is one undo step and stays on the page.
* **Report definition and engine.** The same algorithms exist twice, in the
  client and in the server. Correct: they agree, and what is saved is what is
  loaded again.
* **Screens.** Each effect has a clean-up that cancels an answer nobody wants any
  more; a token renewal runs the effects again. Correct: the list shown is the
  server's, of the address and the filter shown, and what is sent is what was
  edited.
* **Store.** Each handler reads, decides and writes in separate database steps
  with no transaction around them and no concurrency token. Correct: the
  invariants of `docs/Invariants.md` (I-D17 to I-D25), and no org touches the
  data of another one.

The full list, each at its line, is under `hazards` in `PROJECT.json`.

## 2. The modules

| Module | Models | EXTENDS / INSTANCE |
|---|---|---|
| `PresenceState` | the state behind `IReportPreviewPresence`, and the effect of each operation on it | - |
| `PresenceRegistry` | what `IReportPreviewPresence` promises: every operation one step that has its effect and answers | extends `PresenceState` |
| `PreviewPresence` | the in-memory implementation, one step per dictionary access | instances `PresenceRegistry` (refinement) |
| `PreviewHub` | the hub over the registry, one step per collaborator call or send | instances `PresenceRegistry` (as its server state) |
| `PreviewBroadcast` | the builder's connection, timers and lock intent | instances `PresenceState` (as the server) |
| `BuilderDocument` | document history, routes, loads and saves | - |
| `BuilderGeometry` | moving, resizing, aligning, distributing, guides, marquee, page sizes: definitions only | - |
| `BuilderCanvas` | the gestures and commands of the canvas over a template with its history | extends `BuilderGeometry` |
| `ReportExpressions` | parser, validator and both evaluators of expressions: definitions only | - |
| `ReportRdl` | `toRdl`, `parseRdl` and `RdlReader` | extends `ReportExpressions` |
| `ReportRendering` | the pages of the preview and of `ReportLayoutEngine` | extends `ReportRdl` |
| `ReportDesign` | the panels that edit a template, its saving and loading | extends `ReportRendering`, `BuilderGeometry` |
| `GridControl` | the editable grid: one row under edit, paging | - |
| `ListResources` | how the seven lists differ: columns, validators, operations, the server's effect | extends `GridControl` |
| `ListScreens` | one of the list screens against its server | extends `ListResources` |
| `Database` | tables, keys, cascades, statements of a save: definitions only | - |
| `StoreHandlers` | the queries and the decision of every handler that writes: definitions only | extends `Database` |
| `RecordStore` | requests that run these handlers concurrently | extends `StoreHandlers` |
| `AppShell` | sign-in, address, history of the browser, navigation | - |
| `RecordScreens` | the record screens in the shell, and their server | extends `AppShell`, `GridControl` |
| `MC...` | small instances, symmetry, view | extend the module they are named for |
| `..._proofs` | theorems | extend the module they are named for |

Definitions called a faulty variant are not part of any specification: each is a
plausible bug of the definition after it, kept to show that the property it is
listed with in `PROJECT.json` (`mutants`) notices.

### PreviewPresence

`sessions` and `index` are `_sessions` and `_connectionSession`. A
`SessionState` object is a number: `created` counts the objects, and a thread
keeps the one it looked up in `inst`, which is how a stale reference exists in
the model. `gate[i]` is the `lock (session.Gate)` of object `i`. Code under a
gate between two dictionary accesses is merged into one of them, as no other
thread can observe the difference. Hence each mutation is `ReadIndex`,
`ReadSession` (both in `TryGetSession`) and one gated step; `Join` is
`JoinGetOrAdd`, `JoinCheck` (with the retry) and `JoinPublish`; `Leave` is
`ReadIndex`, `ReadSession`, `LeaveDrop` and `LeaveCollect`. The names, ids and
colours of participants are not kept.

`PresenceRegistry` is the abstract specification. The refinement maps `session`
to the reverse index, and `selection` and `holder` to the contents of the
session object the index leads to. Each operation takes effect at one step: a
mutation at its gated step, `Join` at `JoinPublish`, `Leave` at `LeaveDrop`.

### PreviewHub

A handler is a program counter: `"claim:session"` is the step before
`SessionOf`, `"claim:locks"` the one before the send. `arg`, `frames` and
`roster` are the handler's locals, and what the registry returned is in `reply`.
SignalR is external: a group send reaches the living members at once, in
order, and a lost connection gets nothing. `shown[c]` is what client `c` was
last sent. `missed[c]` is a history variable: the kinds of data that changed for
`c` and have not been sent since; a send settles a kind only if the value it
carries is the current one. The properties are about `missed` at rest, when no
handler is running.

### PreviewBroadcast

One editor. `link`, `conn` and `ready` are the connection of the current hub,
`waiting` the calls behind `entry.ready.then`, `chain` the promise chain of the
start or of the replay, `heldRef` and `claimedRef` the two records of the held
lock, in the hook and in the screen. `wire[c]` holds the calls of connection `c`
the server has not served; a call is served atomically on `PresenceState`,
and the client uses of an answer only that it came. `granted` is a history
variable: the last claim of the selected element was granted.
An old connection may still be served until its `Disconnect`, which the server
runs at any later time. A replaced hub calls nobody back: SignalR's `stop` closes the
transport and rejects the calls under way. The guards that compare `hubRef` with the hub
of a callback (`usePreviewBroadcast.ts:166, 174, 179`) are therefore idle in the model,
and that they would hold against a late answer is not checked.

### BuilderDocument

`past`, `present`, `future`, `tag` are the `History` of `history.ts`. A document
is the template it was opened for and the number of the edit that made it.
`route` is the hash route; leaving the builder unmounts the screen, changing the
template in the route does not. `loads` and `saves` are the requests under way:
`current` is the `cancelled` flag of the load effect, `mine` whether the screen
that asked for the save is still mounted.

### BuilderGeometry and BuilderCanvas

`history` holds templates: bands of elements with rects, the page and the
settings. `held` is what the pressed button holds, and `drag`, `resize`, `grip`
and `anchor` are the refs of the handlers with the positions at the press, so
that each move computes from the start as the code does. A handler is an action
(`PressElement`, `DragMove`, `ReleaseElement`, ...), and so is a toolbar or panel
command. Deleting the held element makes `held` `"lost"`: the browser releases the
capture, and the ref stays. `gesture` is a history variable: how many undo steps there
were at the press, and after a deletion made while the button was held. Pixels, inches and the zoom are one unit. A template has `Places`, a band and an
index in it, in the order in which the code runs through the bands; an element is looked
up by the place its id is at, and `Array.filter` is `Kept`, of the indices that pass.

### ReportExpressions, ReportRdl, ReportRendering, ReportDesign

An expression is the sequence of the pieces the tokenizer finds; what the
characters of a path are is left out. The client's and the server's version are
separate definitions wherever the source has separate algorithms
(`Evaluate...` and `EngineEvaluate...`, `ParseRdl` and `ReadRdl`, `Preview` and
`Layout`). A document is the tree of the RDL with what may be absent as `None`; a style
is the function of the properties that are set, so that no style and an empty one,
which toRdl writes alike, are one value.
Numbers are hundredths, so that rounding is visible. A page is a function of the bands
on it, a band the sequence of its blocks (one for each row of data), a block its boxes
and the page number. The preview flows its bands, so the top of one is the sum of those
above (`Tops`); the engine threads an offset through bands and rows (`Offsets`,
`RowOffsets`), which is kept as it is, so that the agreement of the two is a statement
and not a definition. `ReportDesign` has the edits of the panels, each one action, and
`SaveTemplate` and `LoadTemplate`; `saved`, a history variable, is the template the
document in the store was written from.

### GridControl, ListResources, ListScreens

`clientPage`, `editingKey`, `draft`, `problems` and `addedRow` are the state of
the grid. `ListScreens` shows one screen per behaviour, chosen at the start;
`lists`, `head`, `error`, `asked`, `cards` and `form` are the state of the screen,
`tab` the list on show, `route` the facility in the address. The details have two
lists, loaded together and reloaded each on its own, and one `error` for both
(`SwitchTab`, `Run`, `Arrive`, `Fail`); every other screen has one list. A request is
sent, served (`Serve`, with the answer on its way or lost) and answered (`Arrive`), or
it fails with no work done (`Fail`); a load whose effect is cleaned up is
dropped at once, because nobody reads its answer.

Two history variables say which lists need not be the server's, and no more. `mixed`
has a list whose last answer shown came out of order: later work for the same list was
heard of before it (`late`, which compares the order in which the server worked), or
it was of a facility no longer in the address. `missed` has a list that was not read
when it should have been: its load failed, or the answer of a change was lost after
the work was done. An answer shown in order takes a list out of both. Changes that
overlap each other, a load, a renewal or an opening are not excused by themselves.

### Database, StoreHandlers, RecordStore

`Database` is what the EF Core configurations declare: keys, unique indexes and
cascades, and a save as one transaction of inserts, deletes and updates of the
columns that changed. `StoreHandlers!Queries` lists the queries of each handler in
order, `Settles` the queries whose result ends it (a facility not found, a name
taken), and `Works` the statements its domain object asks for. In `RecordStore` a
request arrives, makes one query per step and saves; other requests may save in
between, which sets `overtaken` of this request and, when it saves all the same,
`raced`.

### AppShell and RecordScreens

`history` and `at` are the addresses of the browser and the current one,
`changes` the `hashchange` events still to come, `screen` and `detailId` the state
of `useHashScreen`. The shell exists while the user is signed in and known, and
starts from the address when it mounts; `Redirect` is its effect for a screen the
audience may not see. `RecordScreens` adds the drill-down and the form. Mounting
and unmounting are part of the action that changes the screen shown (`Follow`). A
request is answered late, in any order, with an error, or loses its answer.

## 3. The runs

| Run | Instance | Shows |
|---|---|---|
| `presence` | 2 connections, 1 session, 1 element, every operation | no write into a collected session; no lock without its holder; the maps agree; empty sessions are collected; refinement of `PresenceRegistry` |
| `presence_progress` | 2 connections, 2 elements, join, claim, disconnect | `Leave` leaves nothing behind; every operation returns |
| `hub` | 2 connections in 1 session, 1 element, 2 renderings, every method | nobody misses frames, a roster or a granted lock, nor a release while all are connected; no lock of a departed connection |
| `broadcast` | 2 elements, 1 edit, 2 selections, 1 renewal, 1 outage | edits are pushed, the selection is published under one roster entry, a lock is neither stray nor forgotten |
| `document` | 3 ids of which 1 exists, history limit 2, 4 edits, 3 moves, 2 saves | the editor shows the template of its route; undo is chronological; one template per document; an unsaved document, of a new template too, can be brought back unless its own gesture goes on or a renewed token's load is answered |
| `canvas` | 2 bands, 2 labels, 2 edits and the gestures between them | ids stay unique and the page in view exists; a gesture is one undo step, or one on each side of a deletion made under it, stays on the page and keeps the opposite corner; marquee, align and distribute do what they are named for |
| `design` | 4 bands, 3 elements, 2 rows of data, 2 edits, an empty or an old document in the store | saved is loaded; builder and engine read the same; the validator predicts both evaluators; the report has the pages, bands, blocks, places, texts and page numbers of the preview |
| `lists` | each of 6 screens (the details with two lists), 1 or 2 rows, 2 facilities, 2 events, 3 inputs, 5 of them together (4 on the details) | each list settles to the server's, or its answers came out of order or it was not read, and then, where one list is reloaded, an error is shown; requests are well formed and for the row edited; loading ends |
| `records` | 2 facilities, 2 days of records, 2 fields, page size 1, 2 entries, 3 dates, the budgets below | the address is the screen; the records shown are those of the filter; what was saved is listed; form and pages are consistent; redirects and requests settle |
| `stores` | 3 concurrent requests out of 5 menus: facilities and orgs, limits, records, catalog and templates, start-up | domain rules hold and the database refuses nothing unless a request was overtaken; whatever races, orgs are apart and no record value or range loses its field |
| `stores_wrong_permit` | the first menu | **violated**: `RemovePermit` removes another permit of the same number |
| `stores_range_order` | the second menu | **violated**: two updates leave the low bound above the high one |

The violated runs are findings: each checks what a comment or a document of the
repository says, and `PROJECT.json` quotes the sentence and the line.

**Why the bounds are enough.** Every race of the registry and of the hub is
between a thread of one connection and threads of another, or the disconnect of
the same one: two connections have four threads. Three session objects let a
session be collected and created again twice, which is what a stale reference
needs, and the retry of `Join` too. Two renderings tell an old snapshot from a
new one. The history limit is 2 so that it is reached; the code's is 100 and
appears nowhere else. Three template ids let the user move from one existing
template to a created one with a third left for a double creation. On the canvas
two edits after a gesture reach a delete under the pressed button and its undo;
two labels in different bands and a third inserted one make alignment across bands
and distribution happen; the movements leave the page, cross the opposite edge
and end off the grid. In `design` two edits follow one another on any of the
panels before a save (11,887 states). On the list screens three inputs fill in a row and two events
let a change race a renewal, an opening, a load or a second change (`MaxTogether`
bounds the two together; on the details, where three loads are under way at a time, 4 leave
two events with two inputs). In the store two requests
make every race and the third one sees what they left.

The budgets of `records` bound a behaviour as a whole, because the screens
multiply: for both audiences and five addresses (two of them forbidden to one
audience, one unknown), two moves, one renewal and one failure; and for an
organization's user the drill-down with four inputs, a renewal and a failure,
the form with three inputs, a renewal and a failure, the form with two inputs, a
renewal and a change of the catalog or the facilities by others, and the form
with four inputs and a move, which is the way from an empty entry to the saved
record in the list.

`MaxEdits`, `MaxMoves`, `MaxSaves`, `MaxSelects`, `MaxRefreshes`, `MaxOutages`,
`MaxInstances`, `MaxEvents`, `MaxInputs`, `MaxTogether`, `MaxEntries` and `Budgets` only bound
counters in guards. `Methods` and `Calls` select what the clients of an instance
do. The hub's `VIEW` drops `shown`, which no action and no property of the run
reads. Deadlock is allowed where the program may come to rest: when all requests
are answered and the budget is spent.

**Fairness.** `PreviewPresence!FairSpec` has strong fairness of each thread's
step: a thread is scheduled, and .NET's monitor lets a waiting thread in
eventually even if others keep entering. Nothing forces a client to call or to
disconnect. `ListScreens` and `RecordScreens` have weak fairness of what becomes of
requests (`Serve` and `Arrive`, in the former also `Fail`): as long as some are under way,
one of them is served, answered or fails, because `fetch` rejects when the connection breaks. `RecordScreens` adds weak fairness
of `Sync`, the `hashchange` event that the browser fires after each change of the
address, and of `Redirect`, an effect that React runs after the render. Users are
never forced to do anything. The other modules state safety, some of it at rest,
and assume no fairness.

## 4. The proofs

TLAPS proves, for any connections, sessions, elements, templates and bounds:

* `PreviewPresence_proofs`: `TypeCorrect`, `NoOrphanWritesHolds`,
  `LockHolderIsPresentHolds` and `EmptySessionsAreCollectedHolds`. The inductive
  invariant `IInv` is: the types; the
  shape of a thread's locals at each step (`ThreadShape`); a thread inside
  a critical section holds its gate (`GateHeldInside`); session objects that are
  not created yet are unused (`FreshIsUnused`); a `Join` past its check has an
  object that is still mapped, because only a `Leave` under the same gate could
  unmap it; and the two safety properties. They need each other: an unmapped object
  has no participants because collection looks at the participants under the gate,
  and then it has no locks because holders are participants. `SessionInv` adds that
  an object serves one session (`OneSessionPerInstance`), and that the object a
  thread has looked up serves the session it works on (`LookedUpForSession`): this
  is why the one thread that emptied a session can be relied on to unmap it.
  The second part of the module proves `IndexAgreesHolds`, `LeaveIsCompleteHolds` and
  `RegistryIsImplemented`, under `OneSessionEach`, the
  assumption that a connection joins one session in its lifetime, as both React
  screens do. It is needed (see the first divergence below). `IndexInv`
  adds that a `Leave` in progress works on the session its connection is in
  (`LeaveIsCurrent`). The refinement needs two more facts about an operation in
  flight: only a `Leave` runs in `OnDisconnected` (`Roles`), and the object a
  mutation or a query has looked up is the one of the caller's session as long as the
  caller is tracked (`CallIsCurrent`). Then each gated step, `JoinPublish` and
  `LeaveDrop` are the registry's operation, with its answer; a look-up in vain answers
  for a caller in no session; a stale object is empty, which the registry
  allows a query to answer only when its caller is gone; and the other steps are
  stutters, because a fresh and a collected object are both empty.
* `PreviewHub_proofs`: `NoGhostLocksHolds`, `NoMissedUpdatesHolds` and
  `NoMissedLocksHolds`. `GhostInv` adds to the first that
  locks are held by participants, so that `Leave` frees all of them, and that a
  connection which joined after its own `Leave` has no claim left to run: a
  connection has one invocation at a time, so the one in flight was the join.
  The other two speak of quiet moments only; `OwedInv` is what holds in between.
  A member that has not yet been sent the last frames, roster or locks is *owed*
  them, and then some handler still running holds them or is going to read them
  (`FramesToCome`, `RosterToCome`, `GrantsToCome`, `LocksToCome`: the steps at which
  that is so, and what the handler must hold there). Whoever changes the state becomes
  such a handler; whoever sends an older version was not the one relied on; who joins
  is owed everything until its own snapshot, roster and locks are sent. A grant is the
  intricate one: the claim that made it may lose its caller before it reads the locks,
  and then the caller's disconnect frees them and announces the others.
* `PreviewBroadcast_proofs`: `EditsArePushedHolds`, `SelectionIsPublishedHolds`,
  `NoStrayLockHolds` and `LockIsKeptHolds`: all the run `broadcast` checks. They speak of
  a channel at rest; `BroadcastInv` is what holds while calls are on their way. Of the
  connections, only the newest can be up, every older one is lost, and who is lost leaves
  no trace once its `OnDisconnected` has run (`ConnectionsInv`). Of the calls on the
  one that is up: until the join is answered it is the first of them; after that, if the
  selection has settled, the last publication on its way is of that selection, and if none is,
  the server has it already (`Told`); a claim of any element but the selected one,
  or a lock on it, has a release behind it, and a release of the selected one has a
  claim behind it (`Followed`). That calls of one connection arrive in order is used
  everywhere. `EditorInv` connects the hook's `heldRef` with the screen's `claimedRef`,
  and says what waits while the hub is not ready.
* `BuilderDocument_proofs`: `DocumentTypeCorrect`, `EditorShowsItsTemplateHolds`,
  `UndoIsChronologicalHolds`, `LoadingIsUnderWayHolds` and `UnsavedEditsSurviveHolds`,
  from one invariant, `DocumentInv`, and `OneTemplatePerDocumentHolds` from
  `CreationInv`. A load that is still `current` is the route's (the clean-up of
  the effect cancels the others), so an answer can only seed the right template;
  past, present and future hold documents of that template whenever the editor
  is visible; each of them is older than the next one (the prefix that the cap
  drops does not matter), and none is newer than the last edit, so the next
  edit is the newest. Past and future together never exceed the history limit,
  which is why redo need not cap the past. `CreationInv` keeps accounts: the
  templates created, the creations not yet served, and the new document in the
  editor as long as it has no save of its own, are together no more than the openings
  of a new document and the answers that were not heard. For that, the screen has one
  save of its own at most (`OwnSave`), and updates only what exists (`OnlyExisting`).
* `BuilderCanvas_proofs`: `TypeOKHolds`, `GestureIsOneStepHolds`,
  `OppositeCornerStaysHolds`, `GesturesStayOnPageHolds` and `ToolsDoAsNamedHolds`: all the
  run `canvas` checks, for any bands, sample, grid, movements and number of edits. Every
  template of the history is `WellFormed`: each operation of model.ts is shown to keep the
  ids of the elements distinct (`Updated`, `RectsUpdated`, `Added`, `Removed`), and a new
  id to be free (`NewIdIsNew`, by counting the elements). `StepInv` says that a gesture
  under way has made no step, or that the last step has the tag its next move will have
  (`GestureTag`), so that the move goes into it; a Delete under the pressed button is a step
  of its own between that one and the one the leftover drag may still make, and clears
  the selection, without which nothing is deleted again and no leftover resize can move
  (`StepInv`, `HeldInv`). That corners stay and elements do
  not leave the page comes from the two functions every gesture goes through
  (`DragStaysOnPage`, `ResizeKeepsCorner`): snapping keeps what is at or right of the
  origin there, and an edge that is dragged over the opposite one stops at it.
  The tools: the sums in `align.ts` and `geometry.ts` are folds, which are shown to be
  sums in any order (`FoldIsSum`, `SumsAgree`); `Before` orders the rects
  (`LeadsAreOrdered`), and a line of things in an order with one gap is evenly spread
  (`GapsSpread`), where the gap is a quotient whose rest is what the last element moves by;
  the selection is moved one by one (`ArrangeMovesSelection`), so the ids inherit this from
  the indices (`SpreadRenamed`). Two rects aligned to a line have lines one unit apart
  at most (`LinesMeet`), and a marquee, which only `ReleasePage` ends, lists the places
  its rect intersects (`MarqueeOnce`, `SquaresMeet`).
* `RecordStore_proofs`: `RulesHoldWithoutRacesHolds`, `OnlyRacesFailHolds`,
  `OrgsAreIsolatedHolds` and `NothingIsOrphanedHolds`: all the run `stores` checks,
  for any number of requests, any commands and any stored data. `StoreInv` says of a
  request in hand what a handler may rely on and what not. However stale it is, what
  it has seen is of its org (`OwnersInv`), because ids are used once (`IdsAreNew`) and no
  statement changes a row's owner; so its save touches rows of that org only
  (`OfOrg`), and a new record is of the org of its facility. Unless it was overtaken,
  what it has seen is what it would see now, and then (`UpToDate`) its checks cover every
  unique index and every owner (`UpToDateCommits`), limits stay distinct and ranges
  ordered, and the last permit is kept. `CatalogInv` needs no such condition: no command
  deletes a field or writes its name (`NamesAreImmutable`, `NamesStay`), so that a catalog
  seen long ago still names fields that are there.

* `RecordsAndReports_proofs`, its first part: `AddressMatchesScreenHolds`, `ShownRecordsMatchTheFilterHolds`,
  `ConfirmedRecordsAreShownHolds` and `ScreensAreConsistentHolds`: all safety properties of
  the run `records`, for any fields, facilities, stored records, page size, addresses and
  session. `Inv` carries what is shown back to what was asked and sent. The screen is set
  from the address, or together with it, or an event is still to come (`ShellInv`). Only the
  query of the pickers is ever under way (`RecordsRequest`), and its answer, from the
  moment it is served, holds every matching record that is confirmed (`IsAnswer`): none
  is confirmed meanwhile, because a save is reported only to the form that sent it, and
  the form and the drill-down are never mounted together (`CreateRequest`). Records on
  their way or stored are `Faithful` to the editors they were sent from; that no field is
  entered twice is what makes the value of a field unique. The list of facilities changes
  together with the choice (`FormInv`), and pages are clamped by arithmetic that holds for
  every page size (`PagesHaveRows`).
* `RecordsAndReports_proofs`, its second part, about `ReportDesign`, which has no state in
  common with the first: `LoadedIsSavedHolds`, `EngineReadsTheSameHolds`,
  `ProblemsArePredictedHolds` and `ReportMatchesPreviewHolds`: all the run `design`
  checks, for any template, stored documents, catalog, rows of data, typed expressions,
  texts and number of edits. `DesignInv` (`DesignInvHolds`) says that the template and the
  document in the store are well formed, and that the document was written from the template
  that was saved last; every panel keeps it, because a patch sets nothing but the text, the
  expression or the style, and a style only has weights and alignments of the tables.
  The rest speaks of every template or document. `TemplateRoundTrip`: `parseRdl` undoes
  `toRdl`, since the tables of styles are invertible (`StyleTables`) and all items the
  builder writes are kept (`KeptAll`, which finds the n-th of a set of places by counting
  those before it). `DocumentIsReadTheSame`: `RdlReader` keeps the items and rectangles
  `parseRdl` keeps. `ExpressionIsPredicted`: piece by piece the validator's cases over the
  catalog are the evaluators' cases over the data, whichever function aggregates
  (`FieldIsPredicted`, `CallIsPredicted`). `AggregatesAgree`: on a column of amounts or of
  texts the two aggregations agree, because a total is natural (`TotalOfNaturals`) and on
  naturals the two roundings are one. `OffsetsAreTops`: the offsets the engine accumulates
  are the tops of the preview, by induction over the bands, as the rows of the detail band
  advance by a multiple of its height (`RowsAreSpaced`).
* `ListScreens_proofs`: `SettledListIsCurrentHolds` and `ScreenIsWellFormedHolds`: both
  safety properties of the run `lists`, for any lists, page size, emission types and
  number of changes. `Inv` follows a row around: what is stored, listed, edited, typed and
  on its way is of its list's kind (`RowsInv`, `EditorInv`, `RequestsInv`); and wherever
  a key occurs, it has the one name (`NamesInv`), which is why a row that is saved after
  the list was reloaded under its editor keeps its identity. `CurrentInv` says of every
  list, with any number of requests under way, why it may differ from the server's: it is
  mixed or missed, it is being loaded, or a change the server made later is still to be
  heard of, which will reload it (`ReloadsInv`); and of a list on its way in an answer the
  same, with `late` for changes heard of before it. Field Limits merges the answer of a save
  into the list it has; there the same is said row by row (`MergesInv`). `MissesInv` says
  that a missed list is shown with an error unless something is still under way or the
  answers were mixed. How the server changes a list is proved once per operation.

The assumptions are the `ASSUME`s of the modules: `None` is not an id, the parameters
have their types and, for the store, new ids are new, the seed has no name twice, and
what is stored at first is well-formed and obeys the rules; for the record screens, there
are two audiences, and the records stored at first have other ids than those saved later;
for the canvas, the heights of the bands are natural numbers, no kind of band occurs twice
in the order and no id twice in the sample, and null is no id, no kind of band and no record; for the list screens, the lists served at first
hold rows of their screen's kind, with one name per key (`ListsAssumption`), and keys, texts,
numbers and null are different values (`ValuesAssumption`).
For the report design, `DesignAssumption` says that the template that is opened is one
(`IsTemplate`, the types of `model.ts`) and that the documents in the store at first are
such that the builder can have written them, except that they may lack page numbers and
have items without its marker (`IsDocument`); that `None` is neither a type, a message nor
page numbers, and `NaN` no number. `SampleAssumption` is what `sampleData.ts` and
`SampleReportData.cs` say: the catalog lists the fields of the scopes and the columns of the
rows, a field is a detail field when it is of the scope `Record`, there are rows, each row
has all columns, and a column holds amounts (not negative) or texts.

All safety properties that passing runs check are proved. Only model-checked is all
liveness (`EveryOperationReturns`, `LoadingEnds`, `RedirectSettles`, `RequestsSettle`),
which is beyond the prover. The library's
induction theorems take an operator as a parameter and cannot be used; where a proof
needs induction over a number, as the lemmas about sums and about sets put in order do,
it uses `Induction` (`InductionOnNat`), which is stated of a set of numbers and follows
from the well-foundedness of their order. A function that is defined by recursion is the
CHOOSEn one that satisfies its equation; that there is one, and only one on its domain, is
proved by induction (`RunningSum`, `GoOnAlike`).

## 5. Where the code departs from what one would state

The checked properties are true of the code, and some of them are weaker than one
would wish, because the code does not keep the stronger one. Found while modelling:

* **A second `JoinSession`** of a connection overwrites the reverse index and leaves
  it, with its locks, in the first session for ever
  (`InMemoryReportPreviewPresence.cs:49, 124`). The clients join once.
* **A join in flight while its connection is lost** adds a participant after `Leave`
  has run, and nobody removes it (`ReportPreviewHub.cs:72`). It holds no lock.
* **The older of two rosters may be sent last** (`ReportPreviewHub.cs:76`): they are
  computed under the gate and sent outside.
* **A release raced by its own disconnect** is never announced
  (`ReportPreviewHub.cs:175`), hence the condition in `NoMissedLocks`.
* **Renewing the token drops the lock** and nothing claims it again
  (`usePreviewBroadcast.ts:198`), hence `refreshes = 0` in `LockIsKept`.
* **A claim repeated by a reconnect may be refused**, while the server still has the lock
  under the lost connection, and it is not repeated again (`usePreviewBroadcast.ts:179`):
  `LockIsKept` speaks of the claim that was granted last.
* **A push lost with its connection is not repeated** (`usePreviewBroadcast.ts:225`,
  although line 38 says each change is pushed), hence `outages = 0` in
  `EditsArePushed`.
* **Renewing the token reloads the template over unsaved edits**
  (`ReportBuilderScreen.tsx:212`; the comment at line 171 gives a change of the
  template's id as the occasion). `UnsavedEditsSurvive` names the answer to such a load
  as the one way, besides the gesture that goes on, to lose a document for good.
* **Leaving the builder while a new template is being saved** takes the user back to it
  when the answer comes (`ReportBuilderScreen.tsx:433`), and saves of two visits may
  be stored in the opposite order.
* **A Delete under the pressed button** leaves the drag ref of the canvas set: the drag
  that goes on makes an undo step that changes nothing, and after an undo, hovering any element goes on moving it (`ReportCanvas.tsx:244, 285`,
  `ReportBuilderScreen.tsx:366`). And two consecutive drags of one element coalesce
  into one undo step (`history.ts:9-11`), although each is meant to be one.
* **Distributing elements that overlap** makes the gap negative, and then an element may
  come to lie before the first one, off the page (`align.ts:90`), and the last is the one
  that begins last, not the one that ends last (`align.ts:87`): `DistributeSpreads` keeps
  the order only where the space is not negative.
* **Preview and report differ** where `ReportMatchesPreview` looks away: a binding that
  names the page always shows the sample's page 1 of 3 in the preview; the texts of
  shapes are drawn in the preview only; `MIN` and `MAX` of an empty column are 0 in
  the engine and infinite in the preview; a fractional `startAt` falls back to the
  default in the engine; elements of unknown type and bands without a marker are kept
  by `parseRdl` and dropped by `RdlReader`.
* **Answers out of order on a list screen** can leave a stale list (`mixed`): nothing
  orders the answers of the reloads (`FacilitiesScreen.tsx:53-81`). A list whose load
  failed, or whose change was done but not answered, stays as it was (`missed`), with an
  error until something clears it; Field Limits never reads it again, because it does
  not reload after a save (`FieldLimitsScreen.tsx:124-138`). A row under edit that vanishes with a reload
  leaves the add button disabled, and a refused save closes the editor with what was
  typed. Facility details keep the rows of one facility under the address of the next
  one until its answer comes (`FacilityDetailScreen.tsx:74`).
* **The details have one error for two lists** (`FacilityDetailScreen.tsx:57`). If the
  permits cannot be loaded (82) and then a limit is saved, `run` clears the error (109) and
  only the limits are loaded again (166): the permits say "Loading" for ever, or are stale,
  and no error is shown. `SettledListIsCurrent` and `LoadingEnds` therefore do not promise
  the error on the details for a list that was missed; they promise all else.
* **One failure of `/api/me`** shows the error page for good and unmounts the shell
  with what was typed (`App.tsx:52`).
* **A renewal resets the facility** chosen in the form to the first one
  (`LogRecordScreen.tsx:116`); an empty number is recorded as 0; a value recorded
  before its field changed type is shown as a dash.
* **Races in the store** break I-D18 and I-D19, hence `~raced`; the ranges of a deleted
  org stay (`ProductionFieldLimitConfiguration.cs:25` has no key to the org); of two
  concurrent saves of a template the columns may come from both. The losers of a
  unique index fail with an error no handler expects (`OnlyRacesFail`). `~raced` and
  `overtaken` excuse these races: the properties show that nothing else breaks the rules.
* **A field retired while a record is logged** (`LogRecord.cs:84`): the record is saved
  although `RecordErrors.cs:31-32` says a value of a field that "has been retired" "cannot
  be recorded"; so is one whose data type changes meanwhile. The outcome is that of
  logging just before the retirement, and the value keeps its field
  (`NothingIsOrphaned`), so it is described here rather than refuted by a run.
* **Start-up on several replicas** may seed the development org twice
  (`AuthSeeder.cs:137`), and a table added to the model later is never created, because
  the initializer looks for one table only (`RecordKeepingDbInitializer.cs`).

## 6. Not modelled, and the plan

Left out of the modelled components: `UpdateCursor` and `ReceiveError` (nothing is
stored), the identity fields of participants, the display-only state of the preview
channel, the zoom and the overlays of the canvas, XML escaping, the offline mode and the
PDF export of the builder, cell templates of the grid, wording, units and colours.

Not modelled: painting (`RK.Reporting` through QuestPDF: pure output), OpenIddict and
ASP.NET Identity (libraries; what the client sees of them is in `AppShell`), the MCP
tool (stateless), the preview viewers (the receiving side of `PreviewHub`), the
dashboard, account menu and icons (fixed content), domain users (value validation no
handler uses), and start-up other than the seeding of the catalog.

Next: replicas that start up with a crash in between.
