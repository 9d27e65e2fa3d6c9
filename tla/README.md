# Floral: a verification development in TLA+

Floral is an iOS client (Swift, RxSwift, MJRefresh) of a course and material
service: list screens with pull-to-refresh and load-more, a portal with an
endless image carousel, a tab bar with customised navigation.  Everything the
app itself does happens on the main thread, and still most of its code is
concurrent: controls post blocks to the main queue, animations end later,
requests are answered later, gestures come in between, and each of these may run
between any two others.

Below the app lies the data store it is built with (`WCDB.swift` over
`WCDBOptimizedSQLCipher`, an SQLite with WCDB's own waiting for locks), by far
the largest and the most concurrent code of the repository: threads and
processes share a database, end at any time, and lose power.  The pod is linked
by the `Podfile`; no screen opens a database yet.

That is what the modules here model, what TLC checks on small instances and what
TLAPS proves for all instances.

Paths below are relative to `src/Floral/Floral/Classes/` unless they start
with `Pods/` (`src/Floral/Pods/`) or with `sqlite/`
(`src/Floral/Pods/WCDBOptimizedSQLCipher/src/`).

## 1. Inventory

### The app

| Component | Source | State | Operations | Correct when |
|---|---|---|---|---|
| Refresh screen | `Base/Controller/CollectionViewController.swift`, `TableViewController.swift`, `Expand/ThirdParty/RxMJ`, `Pods/MJRefresh` | header and footer state, footer hidden, main queue, animations, window | pull, release, scroll to the end, appear, disappear, draw, blocks of the queue | a spinner always has something that will stop it, and stops |
| Paged list | `LDRecommendMoreVM`, `LDTeacherVM`, `LDTeacherCourseVM`, `LDMaterialListVM` (one transform, four copies) | page, itemList, one request of each kind, loading counter | refresh, load more, answers, errors | the list is the pages 0..page; "no more data" is true; isLoading is true exactly during requests |
| Recommend feed | `LDRecommendVM`, `LDRecommendController` | as above, plus banners; three requests zipped | refresh, load more | as above |
| Portal feeds | `LDCollegeVM`, `LDTodayRecommendVM`, their controllers | banners, sections; two requests zipped | refresh | the page shows the two answers of one refresh |
| Empty placeholder | `Base/Controller/ViewController.swift`, `Pods/EmptyDataSet-Swift` | source set, placeholder shown, scrolling enabled | set up, reload, invalidate | shown exactly when a refreshed list is empty and idle; never takes scrolling with it |
| Carousel | `Expand/ThirdParty/ZCycleView` | items, offset, timer, page control | set items, drag, timer, window changes, layout | never scrolls outside its items; one timer; the page control shows the picture shown |
| Scratchable latex | `Expand/CustomView/ScratchableLatexView` | item views, divider lines, data | reloadData, layoutSubviews, tap | shows one item view per datum |
| Navigation | `Module/Main`, `Expand/ThirdParty/FDFullscreenPopGesture` | stack, pop gesture and its delegate, bar hidden | push, pop, swipe | the pop recognizer is guarded on the root, the bar is the top screen's |
| Networking and decoding | `Networking`, `Expand/Extensions/Network` | none | request, decode | a failed answer is an error |
| Start-up | `AppDelegate` | city in the defaults | configure network, locate | requests carry the city |
| Helpers | `Expand/Extensions`, `Utils`, `Common`, `Base/View`, cells, models | none or one field | layout, formatting, registration | out of scope: no control flow to check |

How they interact: a controller owns a view model and the two controls.  The
controls call their refreshing blocks (a callback through the main queue), the
bindings turn those into events of the view model, whose requests answer
through the main queue into the list, the header state, the footer state and
the two error bindings.  The error tracker is one object shared by both kinds
of request.

Hard behaviour of the app: overlap of a refresh and a load-more; a state of a control
written later than it was decided; a request replaced while its answer is
already queued; a screen that leaves its window during an animation; failure
of one of two requests; a counter (page) changed when a request starts and
not put back when it fails.  
### The data store

| Component | Source | State | Operations | Correct when |
|---|---|---|---|---|
| File locks | `sqlite/os_unix.c` | the record of an inode per process, the level of each connection, byte locks of a process | lock, unlock, open, close | the three agree; together they are a five-level lock |
| Lock wait queue | `sqlite/os_wcdb.c`, `mutex_wcdb.c`, `queue.c` | queue per inode and per wal-index, sleepers | wait, signal, time out | nobody sleeps on a lock that is free with no one left to wake it |
| Transactions' lock requests | `sqlite/btree.c`, `pager.c`, `main.c` | where each connection is in its retry loop, the wait flag | begin, upgrade, commit, end | a commit gets its lock |
| Shared-memory locks | `sqlite/os_unix.c` | masks of the connections, byte locks, dead-man switch, node | map, lock, unlock, unmap, end of a process | an exclusive slot excludes all others; the file is truncated only by who is alone |
| Write-ahead log | `sqlite/wal.c` | wal file, wal-index, database file, what of them is synced, each connection's header | read, write, commit, roll back, restart, checkpoint, recover | a store of snapshots |
| Rollback journal | `sqlite/pager.c` | journal and database file, what of them is synced, page caches, change counter | read, write, spill, commit, roll back, play back | a store of snapshots, atomic under a loss of power |
| B-tree, byte code, SQL, indexes, page cache, codec, backup | the rest of `Pods/WCDBOptimizedSQLCipher` | | | not modelled, see section 8 |

How they interact: the b-tree begins a transaction in a loop that the busy handler
keeps alive, the pager asks the unix layer for the level it needs, the unix layer
sleeps in WCDB's queue instead of answering BUSY when the wait flag is raised.  In
rollback mode the pager's journal is read by whoever finds it hot.  In log mode
the pager asks `wal.c`, whose state is in shared memory under the slots of the
wal-index.  How the pod is built decides much of this:
`WCDBOptimizedSQLCipher.xcconfig:7` sets `SQLITE_THREADSAFE=2`,
`SQLITE_OMIT_SHARED_CACHE`, `SQLITE_WCDB_SIGNAL_RETRY=1` and
`SQLITE_DEFAULT_WAL_SYNCHRONOUS=1`.

Hard behaviour of the store: a checkpoint, a restart of the log and a reader that
chooses its mark, all at once; a header copied while it is written; frames and
journal records of earlier rounds behind those of this one; the unsynced part of a
file, any subset of which a loss of power may take; a process that ends between
two writes; a wait that times out and leaves its entry in the queue.

`PROJECT.json` lists the hazards of both at their lines.  Some have a property
that excuses a case, or none, because the code does not keep what its text says there:
their notes say which (section 7).

## 2. Plan

In the order of what matters to the user of the app; the data store comes last
because no screen uses it yet, not because it is easier.

| # | Module | Composes | State |
|---|---|---|---|
| 1 | `RefreshScreen` | the two MJRefresh controls, the main queue, the bindings of the list controllers | done |
| 2 | `PagedList`, `ScreenProofs` | extends `RefreshScreen` with the transform of the four paged view models | done, proved |
| 3 | `RecommendFeed`, `ScreenProofs` | extends `RefreshScreen` with the portal's transform (zip of three requests) | done, proved |
| 4 | `CarouselRing`, `Carousel`, `CarouselProofs` | abstract ring and its implementation | done, proved, refinement proved |
| 5 | `EmptyDataSet`, `EmptyPlaceholder`, `ScreenProofs` | the placeholder library; its bindings to a `PagedList` | done, proved |
| 6 | `PortalPage`, `PortalFeed`, `ScreenProofs` | abstract page and its implementation over `RefreshScreen` (without a footer) and `EmptyDataSet` | done, proved, refinement proved |
| 7 | `ScratchableLatex`, `ViewProofs` | item views and divider lines | done, proved |
| 8 | `PopGestures`, `ViewProofs` | one navigation stack, `FDFullscreenPopGesture`, `TZPopGesture`, delayed blocks | done, proved |
| 9 | `DatabaseLock`, `FileLock`, `FileLockProofs` | abstract five-level lock and its implementation with inode record, byte locks and wait queue | done, proved, refinement proved |
| 10 | `PagerLock` | extends `FileLock` with the loops that ask for locks | done |
| 11 | `ShmLock`, `ShmLockProofs` | slots of the wal-index, dead-man switch, wait queue | done, proved |
| 12 | `SnapshotStore` | what a database promises, in either mode | done |
| 13 | `Wal`, `WalHeldProofs`, `WalProofs` | the log, over the locks `ShmLock` promises; implements `SnapshotStore` | done, proved without a loss of power, refinement proved |
| 14 | `RollbackJournal`, `RollbackJournalProofs` | the journal, over `DatabaseLock`; implements `SnapshotStore` | done, proved without a loss of power, refinement proved |
| 15 | `Backup` | `backup.c` over a `SnapshotStore` that others write | planned |
| 16 | `RecommendPlaceholder`, `CityParameter` | `RecommendFeed` with `EmptyDataSet`; the located city against requests | planned |

The theorem still worth proving is `PowerSafe` of `RollbackJournal`, without the three
environments of section 7 it does not hold in: it needs an invariant about all
that a disk may hold between two syncs, for which the lemmas of `RollbackJournalProofs`
about a playback (`Plays`, `JournalPlays`) are the beginning.

## 3. Modules and the code

**`RefreshScreen`** is a module of operators over the state every list screen
has.  A control that changes state in MJRefresh does so in two ways, and the
difference is the point of the module: `self.state = ...` takes effect in the
step that does it, `MJRefreshDispatchAsyncOnMainQueue(...)` posts a block.
Blocks are members of `ScreenBlock` in the sequence `mainQueue`; running one is
an action, and what it calls synchronously is part of the same action.

| Model | Code |
|---|---|
| `PullHeader`, `UnpullHeader`, `ReleaseHeader` | the three branches of the header's `scrollViewContentOffsetDidChange:` |
| `BeginHeader`, `DrawHeader` | `beginRefreshing` with a window; `drawRect:` for one that was asked for without |
| `AnimateHeader`, `AnimationDone`, `"hdrCallback"` | `setState:` of the header posts the animation, its completion posts the callback |
| `ReachFooter` | the footer's offset and pan handlers, `beginRefreshing`, `setState:` |
| `IdleFooter`, `NoMoreFooter`, `IdleHeader` | the blocks `resetNoMoreData`, `endRefreshingWithNoMoreData`, `endRefreshing` post |
| `BindFooterState`, `FooterStateBlocks` | the binder `refreshFooterState`: what it does at once, and what it posts |
| `HeaderSuccessBlocks`, `HeaderErrorBlocks`, `FooterErrorState` | `bindHeader` and `bindFooter` |
| `Appear`, `Disappear` | the screen's window changes, `willMoveToWindow:` |

Geometry is abstracted to the gestures it decides.  The states of the enum
`MJRefreshState` that a control never takes are left out.

**`PagedList`** adds the view model.  `LoadList` and `LoadMore` are what a
refreshing callback does through `then` and `flatMapLatest`: count the page,
dispose of the request under way, start a new one.  An answer is two steps: the
network posts it (`AnswerList`, `AnswerMore`), and the main queue delivers it
(`ListLoaded`, `ListFailed`, `MoreLoaded`, `MoreFailed`).  Disposal between the
two turns the queued answer into a block without effect (`DisposedQueue`), which the
queue still runs (`DisposedReply`).  One
delivery is one step because everything a subject or relay does, down to the
binders, is synchronous on the main thread.  The list is kept as the pages it
was made of, so "page twice" and "page missing" can be told apart.

**`RecommendFeed`** does the same for `LDRecommendVM`, whose refresh sends three
requests and zips them (`PartArrives`, `ListDelivered`), never fails, appends,
asks for the page the feed is at and is not counted in `loading`.

**`EmptyDataSet`** is the library behind the placeholder with `ViewController` as
its delegate: a decision taken only when somebody asks for it
(`ReloadEmptyDataSet`), kept in between, and refused before the controller is the
source.  `reachabilityConnection` is a constant because no code writes the
relay.  **`EmptyPlaceholder`** puts it on a paged list: each action of `PagedList`
that changes `loading` or delivers items also reloads, in the order of the
subscriptions (`isLoading` first), and `LoadListAndSetUp` ends with the completion
block that makes the controller the source.  A list whose scrolling is off is
not pulled; a pull under way still ends.

**`PortalFeed`** is the transform of `LDCollegeVM` and `LDTodayRecommendVM`: two
requests, one zip, a page that is replaced.  Refreshes are numbered so that what
is shown can be traced to one; **`PortalPage`** is the promise (`ImplementsPage`).
Here nothing is tracked, `isLoading` is false for ever, and the two reloads of a
delivery alone decide the placeholder.

**`ScratchableLatex`** is the grid of item views.  `subviews` is the real sequence of
UIKit, lines included, because the code counts it; a view keeps the tag it was
made with.

**`PopGestures`** is one navigation stack.  `Attach`, `BarFor`, `BarBlock` and
`FdShouldBegin` are `FDFullscreenPopGesture`; `TzNaviDelegate`, `DidShow`,
`RestoreDelegate`, `AddPopGesture` are `TZPopGesture`; the actions are the calls of
the app and of UIKit in which they run.  `onboard.guarded` means that the onboard
recognizer has the delegate it was made with, and not nil.  What UIKit does is
external: when it calls the swizzled methods, that a popped screen has a
navigation controller until its transition ends, that taps wait for a
transition.  Where we cannot tell, both happen: whether the push of the root finds
the onboard recognizer (`EarlyAttach`), whether an appearing stack or a cancelled
swipe is reported to the delegate (`Reported`).

**`Carousel`** is `ZCycleView`.  `index` is `currentIndex()`, the content offset
in items; `target` is where an animated or decelerating scroll goes.
`DealFirstPage` and `DealLastPage` are the jumps to the middle.  **`CarouselRing`**
is what it promises: a ring of pictures that turns by one picture at a time
and starts again when it is reset.  `Ring == INSTANCE CarouselRing WITH count <-
realDataCount` (the picture that shows is `index % realDataCount`) is the
refinement.

**`FileLock`** is `unixLock`, `posixUnlock` and `unixClose`.  They run under the mutex
of the inode, so each is one step, but for two places the model keeps apart: the
wait gives the mutex away (`asleep`), and `posixUnlock` writes `eFileLock` after it
(`UnlockReturn`).  `held` is the level by the record, `eFileLock` what the connection's
own field says, `os` the byte locks `fcntl` keeps for a process.  `WCDBOsWait` and
`WCDBOsTrySignal` are the queue; an entry that outlives its wait may point to a
freed file (`Gone`), which reads as anything.  **`DatabaseLock`** is the promise:
`Abstract == INSTANCE DatabaseLock WITH mode <- held`.

**`PagerLock`** extends it with what asks for those locks: each line of the retry loops
of `sqlite3BtreeBeginTrans` and `pager_wait_on_lock` that raises or clears the wait
flag or tries a lock is a place of `pc`.

**`ShmLock`** is `unixShmLock` with the node of a process.  The dead-man switch is asked
for in two calls (`ProbeDms`, `TakeDms`), which other processes come between.

**`Wal`** takes the locks from `ShmLock` (an exclusive slot excludes every other holder)
and makes a step of what a connection does between two accesses to shared memory or
files.  A frame is a page, a version, a commit mark and the chain of all frames
before it, which stands for the checksum; a header carries salt and chain.  The two
copies of the header are written one by one and read as one: a torn copy fails its
own checksum.  `ReadHdr` to `Recheck` are `walTryBeginRead`, `BeginWrite` to `Publish` a
write transaction, `RecoverLock` and what follows the recovery, `Checkpoint` to
`CkptQuit` `walCheckpoint` and `sqlite3WalCheckpoint`.  `disk` is what has been synced;
`PowerLoss` lets any part of the rest go.

**`RollbackJournal`** takes the locks from `DatabaseLock`.  The journal is a row of
slots, a header or a record in each; `jpend` and `dpend` say what each slot and each
page may be on the disk, `older` what the disk may hold in place of a journal that
was deleted or truncated and not synced.  `found` has the connections whose journal is
open since they played it back: it was not created by them, and syncing it does not sync
its directory (`os_unix.c:3631`).  `Share` to `HotOpen` are
`sqlite3PagerSharedLock` with `hasHotJournal`, `Reserve` to `Spill` a write transaction,
`ClearNext` to `NewHeader` `syncJournal`, `StorePage` to `FinSync` the commit, `StartRollback`
to `PlayEnd` `pager_playback`.

**`SnapshotStore`** is what both promise: committed contents in one order, readers that
see one of them, one writer who starts from the newest, and a loss of power that
leaves a committed content or one that was about to be.  `durable` says whether what
has been acknowledged stays; each implementation gives it by its mode
(`synchronous=FULL` for the log; for the journal `Durable`).

`Wal` and `RollbackJournal` choose an *environment* at first and keep it: who is there,
the journal mode and `synchronous`, which kinds of trouble happen, and the bounds.
That keeps each kind of trouble small enough to be looked at completely; the MC
modules list them by name.

The definitions whose comment begins with "mutant" are plausible mistakes in the
code (a missing reset, an error that is not bound, a timer that is not
cancelled); putting one in the place of the definition it stands before breaks
the property `PROJECT.json` names.  They are used nowhere else.

## 4. Runs

| Run | Instance | Question | Result |
|---|---|---|---|
| `empty_placeholder` | `EmptyPlaceholder.cfg`, 161k states | a paged list with its placeholder: do the spinners stop, is every request answered and counted once, when does the list leave the server's pages, is the placeholder ever stale or missing, does scrolling come back | holds |
| `recommend_feed` | `RecommendFeed.cfg`, 925k states | does the portal settle, can the zip mix refreshes, when is a page lost | holds |
| `portal_feed` | `PortalFeed.cfg`, 16k states | does the page show one refresh, does the header settle | holds |
| `carousel` | `Carousel.cfg`, 908 states | is the carousel a ring, with one timer, inside its items, for ever | holds |
| `pop_gestures` | `PopGestures.cfg`, 9k states | is the root guarded, is the bar the top screen's | holds |
| `scratchable_latex` | `ScratchableLatex.cfg`, 188 states | does a tap report what shows, which views can be missing | holds |
| `file_lock` | `FileLock.cfg`, 292k states | do record, levels and byte locks agree, is the queue sound, is it a five-level lock | holds |
| `pager_lock` | `PagerLock.cfg`, 3.6k states | does a commit get its lock, is a sleeper woken | holds |
| `shm_lock` | `ShmLock.cfg`, 37k states | do exclusive slots exclude, does who waits wait for somebody | holds |
| `wal` | `Wal.cfg`, 1.15M states | is the log a store of snapshots, in ten environments | holds |
| `journal` | `RollbackJournal.cfg`, 499k states | is the journal a store of snapshots, in fourteen environments | holds |
| `wal_reset` | `WalReset.cfg` | does a checkpoint spare the readers while another connection restarts the log | violated |

What each property says stands above it in its module.  Where several invariants of
a module are one argument they are checked together under one name, whose parts are
named there: `FeedInvariant`, `PageInvariant`, `WaitQueueIsSound`, `LogInvariant`,
`PagerInvariant`; their types are a part of it.  No run may deadlock.

### Bounds

* `MaxBacklog` (2 for the paged lists and the portal page, 1 for the
  recommend feed): a gesture, or a window
  change, is made only while fewer blocks wait.  Blocks run within one frame and
  gestures take many, so a longer backlog at a gesture is not a real behaviour;
  2 still lets a gesture come between two blocks of one delivery, which is more
  than a device will usually do.  Answers and animations are not bounded by it.
* `NumPages = 2`, `MaxPage`, `MaxShown`: two pages with items are enough for a
  page to be skipped, doubled and followed by an empty one.  The last two stop
  the user from loading more, they bound no other step.  Empty lists come by
  failure.
* `MaxRefreshes = 3`: a refresh, one that replaces it, and one after it.
* `MaxCount`: grids of up to three views can meet two more data than views.
* Three screens above a root that hides the bar, one of them hiding it too: stacks
  of up to four, and every pair of neighbours that agree or differ about the bar.
  In the app only the root of the community tab hides it.  `MaxBlocks = 2` blocks
  of each kind wait; the two screens that show the bar are interchangeable
  (`Alike`).
* `NumHot = 1`: one optional hot section; two would be two more entries that are
  always appended together.
* `MaxPictures = 3`, `Laps = 4`, `MaxResets = 3`: one picture (no laps, no timer),
  an even and an odd number; 12 items instead of 600, with both ends in reach.
  Three resets let a list grow, shrink and be laid out again in one run.
* File locks: four connections, three of one process, at most three with the file
  open at a time, and two once the one timeout has happened (`FewOpen`): a queue with
  two entries, one of the main thread, needs three connections of a process; a lock of
  another process needs the fourth.  What is cut off is covered by the proofs.
* `PagerLock`: two connections of one process, one timeout.  With connections of two
  processes no commit can be promised its lock: another process wakes nobody, and the
  code polls it.
* Shared-memory locks: two connections of one process and one of another, two slots.
* `Wal`: two connections, two pages, logs of two or three frames, up to three write
  transactions.  A page twice in the log, a log that is full of another round's frames,
  and a reader at each of the marks need no more.  `NReader = 3` instead of 5 leaves
  two marks to two connections.
* `RollbackJournal`: one or two connections, two or three pages, up to three
  transactions, three to seven slots: two headers of a spilling transaction above
  the records of an older one need five, three pages with a header each seven.

### Fairness

The specifications with fairness assume only what the system below the code does.
In the app the main run loop serves its queue (`RunMainQueue`), UIKit draws a view in
a window and ends its animations (`Draw`, `EndAnimation`, `DidEndScrollingAnimation`), a
request ends by an answer or an error, at the latest by the timeout of 20 s set in
`AppDelegate+Root.swift:28` (`ListAnswered`, `MoreAnswered`, `PartAnswered`), and a
scheduled timer fires (`TimeRepeat`).  All of it is weak fairness.  The user
owes nothing: no gesture and no window change is fair, and `EveryPictureShows`
is stated for a carousel that is left alone from some moment on.

`RefreshShowsSomething` excuses a user who leaves the screen: who leaves, comes back
and pulls again before each answer can keep a list empty for ever.  The header's part
of `SpinnersStop`, and `HeaderSettles`, are stated for the `Refreshing` state and not for
`WillRefresh`: a header outside a window is not drawn, and nothing obliges the user to
show it.

In `PagerLock` the threads of the process are scheduled, a transaction that has begun
goes on to its end, and a signal arrives; nobody is obliged to begin one.
`CommitGetsExclusive` and `SleeperIsWoken` are promised until a wait times out: its entry
stays in the queue and swallows the next wake-up, which then only the 10 s of the
sleeper behind it make good.

## 5. Proofs

Every theorem is for all values of the constants under the named assumptions of
the modules: `MaxBacklogAssumption` and `PagesAssumption` (natural numbers),
`LapsAssumption` (an even positive number of laps: with an odd one the middle of
the strip is not the first picture), `BoundAssumption` (the carousel's bounds are
natural numbers), `DataAssumption` (the bound is a natural number, and `nil` is
not an array of items), `ScreensAssumption` (the root is none of the pushed
screens; types), `FileLockAssumption` (finitely many connections, each with a process),
`ShmLockAssumption` (each connection with a process, a number of slots),
`WalAssumption` (finitely many pages, three read marks or more, natural numbers as
bounds, well-formed environments; `None` is neither a content nor a connection) and
`RollbackJournalAssumption` (positive numbers of pages, slots and versions, well-formed
environments; the same of `None`).
The theorems about the recommend feed add `NumHot \in Nat`.

**`ScreenProofs`, the list.**  `TypeCorrect` and `AnswersCorrect` come from one
inductive invariant, `TypedAnswers`: the types together with
`AnswersHaveRequests`.  Neither is inductive alone: that a delivered answer
appends a page that exists needs a request behind each queued answer, and that
needs an answer to be in the queue at most once and never while it is on the
wire.  The lemmas about `Has`, `Single` and `OwedOnce` say what posting, running and
disposing do to the queue.  On top of `TypedAnswers`, `LoadingCorrect`,
`HeaderSpinnerCorrect`, `FooterSpinnerCorrect` and `EmptyListCorrect` are inductive as they
stand; `SpinnersCorrect` and `RequestsCorrect` join them as the run checks them.
`PagingCorrect` is an action property: with `TypedAnswers` and
`NothingBelowAnEmptyList`, a step that neither fails a request nor overlaps two keeps
`InStep`; the lemma behind it is `NextPage`, that the page after the first p
makes the first p + 1.

**`CarouselProofs`.**  `Consistent` is inductive: the offset is within the items, a
scroll goes to a neighbour of it that exists, a timer runs only with items, the
lit dot is the picture.  That a target is a *neighbour* is what the run's
properties do not say and the refinement needs.  The arithmetic is in
`NextPicture`, `PreviousPicture` and `ItemsOfPictures` (both jumps land on a
multiple of the number of pictures, or one below).  `RingCorrect` shows that
initial states and steps map to those of the ring, or stutter.

**`ScreenProofs`, the placeholder.**  A step with the placeholder is a step of the list
(`EmptyStepIsListStep`), so `TypedAnswers` and `LoadingCountsRequests` carry over:
`loading = 0` means that no request is under way.  `EmptyInv` joins the three
properties and `PlaceholderHasSource`; the last is what makes them inductive, as a
reload without a source changes nothing.  One lemma for a step that reloads
(`ReloadKeepsEmptyInv`), one for a step that reloads only when `isLoading` changes
(`BindKeepsEmptyInv`), one for the rest.

**`ScreenProofs`, the feeds.**  They are instances there, `Recommend!` and `Portal!`, so
that the lemmas about the queue serve all three.  `FeedOwed` is the invariant of the
recommend feed: each part of a refresh under way is owed exactly once, on the wire, as
an answer in the queue or as a value the zip holds, and nothing else is.
With it `FeedCorrect` follows, and the header's spinner has behind it a block that will
stop it, an animation, or a request whose three parts are all owed.
`PagesLostOnlySo` is the action property: a step that leaves a page neither shown nor
asked for is one of the four that `PageLostOnlyByFailureOrReplacement` names.  `PortalInv`
says the same of the two parts of a portal, that the refresh under way is later than
the page that shows, and that the zip holds only what that refresh brought
(`RefreshInOrder`).  `PortalStep` shows that each step leaves the page or replaces it by one
of a later refresh, whose parts are that refresh's or empty, which is `PortalIsPage`.

**`ViewProofs`, the grid.**  `TapCorrect` rests on `InPlace`: an item view stands at
the place of its tag.  It holds because lines are only ever added above the items
and go with them.  `OnlyLinesHideData` adds to it (`GridInv`) that the data are as many as
the item views or as all subviews, which is all that the comparison with the number of
subviews can have let through, and counts both (`LayersCount`).

**`ViewProofs`, the stack.**  `Pushed` and `Popped` say what happens to the stack;
`StackInv` joins the types with `PoppedIsOff`, that the leaving screen of a pop is off
the stack.  `GuardCorrect` needs two more facts: from its first appearance on the
stack is its own delegate (`StackReports`), so that the end of every transition
sets the guard, and while a swipe may be cancelled the guard is off
(`SwipeIsUnguarded`).  `BarCorrect` needs `AllInjected`: each screen that can appear
again carries the block that sets the bar.

**`FileLockProofs`.**  `LockInvariant` joins the types, the agreement of record and
levels (`InodeAgrees`), and what the byte locks owe to them: each level is backed by its
bytes (`OsBacksLocks`) and the bytes of two processes never conflict
(`OsLocksCompatible`).  None is inductive alone: that the last unlock of a process may
drop its shared bytes needs the count of the record, and that a second connection may
join without asking the system needs the bytes of the first.  There is one lemma per
action and conjunct, and a lemma that a step on one process leaves the others' part
alone.  `ImplementsDatabaseLocks` then reads the abstract guards off the bytes: what
`fcntl` lets a process have, no connection of another process forbids, and the record
speaks for its own.  The queue and its timeouts are in the specification; no
part of the argument needs them, so the locks are right whoever wakes.
`SleepersCanBeWoken` is about them.  `WaitInv` holds with timeouts: a sleeper keeps its
level and has an entry.  Until one times out, each queue has one entry for each
sleeper, each of them is refused as things stand, and only the front can be waiting for
readers to leave, of which there is one at least (`Punctual`): so whoever gives up a
lock finds the sleeper to wake.

**`ShmLockProofs`.**  `ShmInvariant` ties the byte locks to the union of the masks of a
process's connections (`OsMatchesMasks`); `ShmLocksExclude` follows within a process by
the siblings' masks and between processes by the bytes.  `WaitersAlwaysHaveHolder` is
inductive with it: a request is queued only against a sibling that holds a slot,
and who gives one up empties the queue or leaves somebody with one.  `PurgeAlwaysEnds` is a
consequence: a node is freed by its last connection, when nobody can be queued.
Both hold with timeouts.
`NeverTruncatedInUse` is about the dead-man switch: a node that is open holds it shared
and one that truncates exclusively, and what is mapped is of an open node (`SwitchInv`).

**`WalHeldProofs` and `WalProofs`.**  They are about `CalmSpec`, which is `Spec` without
three kinds of step:

* a loss of power.  What recovery makes of torn frames is a property of checksums, and
  left to TLC;
* the end of a process between the two copies of a header, or between a new header
  and the clearing of `nBackfill`.  Here the first statement of section 7 about `Wal` fails.
  Processes may end everywhere else, and the locks they held go with them;
* a restart of the log while another connection is between the header it read and its
  look at `nBackfill` (`Restart2` with somebody at `ckinfo`).  It is the finding of
  section 6, with which the theorems would be false.

`OrderlyIsCalm` shows that this is not an empty hypothesis: where checkpoints wait for
their locks (FULL, TRUNCATE), no process ends and no power is lost, every history of
`Spec` is one of `CalmSpec`.  The number of connections, pages, frames, versions and
salts is arbitrary throughout.

`CalmInv` has five parts.  `LockInv`: types, and for each place of the code the locks held
there; exclusion is a part of it.  `HeadInv`: the two copies of the header are the same
unless a writer is between them, and who is past reading one has one that some process
wrote.  `SaltRoom`: the bound on salts leaves the ones that will be drawn.  `HdrInv`: what a
connection keeps as its header is the newest one or an older one (`Older`, by salt and
change counter), and the newest one wherever the code relies on that (`Current`); nobody
backfills beyond the log.  `DataInv`: what index, frames and database file show.  Its
core is `Shown`: whoever takes each page from its last frame, or from the database
if it has none, sees a given content, and would see it too without any
number of the frames that are backfilled.  That holds for the newest
header and the committed content (`LogShown`) and for the writer, apart from the pages it
has yet to append (`WriteOf`).  A reader sees its content from its own mark on (`ReadOf`).  A
checkpoint has gathered the last frame of each page and copies no frame that is not in the
snapshot of every reader (`CkptOf`); when it is through, what it leaves counts as
backfilled (`ShownDone`).

From it `ReadersKeep`, `WriterSeesAll`, `LogIsSound` and `BackfillIsWithin` are short, and
`LogIsSnapshotStore` has one step per action: a begin of a read takes the newest content,
a publication is the commit, all else stutters.

**`RollbackJournalProofs`.**  They are about `CalmSpec`, which is `Spec` without three kinds
of step (`Disturbed`):

* a loss of power.  What a disk may hold between two syncs, and what a playback makes of
  it, is `PowerSafe`, and left to TLC (section 7 says where it does not hold);
* a thread that finds a hot journal while another thread of its process has more than
  SHARED, and takes it for a live writer (`Race` in section 7).  It then reads the
  database as the crash left it: `PagerInvariant` does not hold;
* a commit that fails once its journal is synced, right below a header an older
  transaction left (`Leftover` in section 7).  Its rollback plays back records of that
  one: `CacheIsCurrent` does not hold.

Everything else may happen, in any number of connections, pages, slots and transactions:
spills, writes and syncs that fail at any other point, commits that get SQLITE_BUSY,
processes that end anywhere with all their threads, and the playback of what they left by
several connections at a time.  `OrderlyIsCalm` shows where the hypothesis costs
nothing: if each connection is of a process of its own, no write fails and no power is
lost, every history of `Spec` is one of `CalmSpec`, wherever the processes end.  It
needs one fact more than the invariant: who rolls back what never reached the database
file has a journal that is not hot (`Undone`); so a live writer met beside a hot journal
would have to hold EXCLUSIVE, which keeps readers out.

`CalmInv` has three parts; TLC looked at it on a million states, of threads of one
process and of failing spills too, before it was proved.  `LockInv`: the types, and at each
place of the code the lock held and the transaction there is (`Holds`, `Does`); that there
is one writer follows.  `JournalInv`: the journal of a writer (`Journal`) is its own, slot
by slot, up to its end; below `journalHdr` it is a chain of headers each followed by the
records it counts, synced; there a playback ends, whatever older transactions left
behind (`NoHeader`).  That takes the places of `syncJournal` apart: between the two writes
of the header the next one must be zeroed already.  `DataInv`: with no writer, files and
journal stand for the newest commit, or for one whose process ended before it returned
(`Unsettled`); with one, each page of the file is as it was committed, or its original
is in the synced part of the journal (`Saved`).  `PlaysBack` and `PlaysHot` say how far a
rollback and a recovery have got, and `Cached` and `Current` what a page cache may hold with
the change counter kept beside it.

What a playback restores is a recursive function over the slots of the journal.  Its
equation comes from the lemma of the least counterexample (`LeastOf`) in place of an
induction (`PlayExists`); `JournalPlays` says that the journal of a writer plays its own
records and no others.

From `CalmInv` follow `PagerAlways` and `CacheAlways`.  `OverwritesAlways` names the steps that write
to the database file and what each may overwrite (`Overwritten`).  `PagerIsSnapshotStore` has
one step per action: the lock is the begin of a read, the finalization of the journal the
commit, the first reader after a crash may find one more commit (`Recover`), and the end of
a process ends the transactions of all its connections.

`Wal` rests on `ShmLocksExclude` and `RollbackJournal` on `ImplementsDatabaseLocks`: they use the
locks as these theorems promise them, for any number of connections.

**Only model-checked.**  Liveness (`HeaderSettles`, `SpinnersStop`,
`RefreshShowsSomething`, `EveryPictureShows`, `CommitGetsExclusive`, `SleeperIsWoken`), which is
beyond the prover; the properties of `Wal` under a loss of power and in the other two
cases above; `PowerSafe`, and the other properties of `RollbackJournal` under a loss of
power and in the two cases above; and the violation, which needs an instance only.

## 6. Finding

**A checkpoint can write over what a reader reads** (`wal_reset`, `sqlite/wal.c:1760`).
`walCheckpoint` goes by `pWal->hdr`, which its connection read when the checkpoint began,
and by `nBackfill` in shared memory.  Between the two another connection may find the log
backfilled, start it again and write new frames: it needs the writer lock and the
read locks from 1 up, none of which a passive checkpoint holds by then.  TLC's counterexample: the
checkpoint has read a header of several frames; a writer restarts the log, which sets
`nBackfill` to 0, and commits; a reader takes its mark in the new log; the checkpoint
goes on, takes the frames up to the end of the *old* log for frames to copy, and puts
pages into the database that the reader's snapshot does not have.  `wal.c:1712` says
"This routine will never overwrite a database page that a concurrent reader might be
using."  The other environments leave out this one combination: in them nobody else
checkpoints a log that is restarted, or the writer does so itself.

## 7. Disagreements

Statements of the repository's text that the code does not keep.  Each is a
definition of the module named, which no run of `PROJECT.json` checks on the instance
named; put in the place of the properties of the cfg, with that instance, TLC finds it
violated within a minute.

In the data store:

| Statement | Instance | What the text says, what the code does |
|---|---|---|
| `FileLock!PendingStopsReaders` | `FileLock.cfg` | `os_unix.c:1565`: PENDING "ensures that no new SHARED locks can be obtained". `unixLock` (1633) lets a connection join the readers of its own process without asking for the pending byte, while a writer of another process holds it. `PendingKeepsNewReadersOut` is what is left. |
| `PagerLock!NoCircularWait` | `PagerLock.cfg`, three connections | `sqlite3.h:2247`: a busy handler that could end in a deadlock is not called. `WCDBOsWait` (`os_wcdb.c:101`) compares a request with the front of the queue only; behind a third connection a reader that wants RESERVED and a writer that wants EXCLUSIVE wait for each other until one times out. |
| `PagerLock!NullCallbackReturnsBusy` | `PagerLock.cfg` | `sqlite3.h:2228`: "If the busy callback is NULL, then SQLITE_BUSY is returned immediately". With `SQLITE_WCDB_SIGNAL_RETRY` `sqlite3InvokeBusyHandler` (`main.c:1484`) answers "again" before it looks. |
| `ShmLock!FirstNodeTruncates` | `ShmLock.cfg` | `os_unix.c:4292`: who opens the wal-index when nobody else has it open must clear it. The switch is asked for in two calls (4398); two processes can each miss that nobody was there, and go on with what a crash left. |
| `Wal!BackfillWithinLog` | `Wal.cfg`, `RestarterEnds` | `wal.c:329`: "The nBackfill number is never greater than WalIndexHdr.mxFrame." `walRestartHdr` (1699) publishes the header before it clears `nBackfill`; a process may end in between. |
| `RollbackJournal!NoHotJournalWhileReading` | `RollbackJournal.cfg`, `Race` | `pager.c:206`: a reader is guaranteed "that there is no hot-journal in the file-system". `unixCheckReservedLock` (`os_unix.c:1439`) takes a connection of the same process, on its way to play the journal back, for a live writer; a second thread then reads the database before the playback. TLC needs seconds: a process ends with a synced journal; two threads of the next one get SHARED and find it; the first asks for EXCLUSIVE, is refused because of the second and has PENDING until it gives up; the second looks at that moment and reads. Between processes only the RESERVED byte shows, and `PagerInvariant` holds. |
| `RollbackJournal!CacheIsCurrent` | `RollbackJournal.cfg`, `Leftover` | `pager.c:4170`: a header left behind the records is zeroed "to prevent it from being recognized". A rollback of one's own does not look at the magic of the header at `journalHdr` (1533): after a commit that failed once its journal was synced it plays back an older transaction's. |
| `RollbackJournal!JournalRollsBack` | `RollbackJournal.cfg`, `Overwritten` | `pager.c:85`: whatever unsynced changes to the journal are removed, it gives the content at the beginning of the transaction. A process that ends between zeroing the header of a persistent journal and syncing it (1345) leaves one whose records the next transaction overwrites. |
| `RollbackJournal!JournalRollsBack` | `RollbackJournal.cfg`, `Directory` | `pager.c:3926`: syncing a hot journal ensures that it is there after a second loss of power. `pagerSyncHotJournal` (3937) syncs its content, not its directory. |
| `RollbackJournal!JournalRollsBack` | `RollbackJournal.cfg`, `Recognized` | `pager.c:4170`: the zero in an older header behind the records prevents it "from being recognized". Under `synchronous=NORMAL` nothing is synced between that zero and the count of the records (4196): a loss of power can keep the count and lose the zero, and what is played back goes on with an older transaction's records.  With `FULL` (`LosesPersistSpills`) it is `PowerSafe`. |

The instances named in the last six rows are the sets of environments of that name in
`MCWal` and `MCRollbackJournal`, to be given to `Environments`.  The environments of
`wal` and `journal` are chosen around them, which is what those runs do *not* show: in
them a persistent journal whose writes fail, or a process that ends, is not followed by
a loss of power where the rows above say that it hurts; a transaction that
spills into a persistent journal syncs it twice before power may be lost; two
connections that meet a hot journal are of two processes.  With `EXTRA`, `TRUNCATE` and `PERSIST` a commit can be seen
by others before it is synced and acknowledged, and an end or a failure in between leaves
it so (`Settle`); those environments have no ends of processes.

In the app:

| Statement | Instance | What the text says, what the code does |
|---|---|---|
| `PagedList!NoMoreDataMeansAllShown` | `EmptyPlaceholder.cfg` | The footer says "没有更多数据" below a list that misses a page. `page += 1` happens when a load starts (`LDRecommendMoreVM.swift:41`) and is not taken back: a refresh that succeeds posts Idle to the footer twice, the user reaches the footer between the two, reaches it again after the second, page is counted twice and the first request disposed of. `OutOfStepOnlyByFailureOrOverlap` says that there is no way but a failure or an overlap. |
| `RecommendFeed!LoadingMeansRequests` | `RecommendFeed.cfg` | `isLoading` misses the three requests of a refresh (`LDRecommendVM.swift:37`), which are not tracked. |
| `EmptyPlaceholder!EmptyAnswerCanScroll` | `EmptyPlaceholder.cfg` with `NumPages = 0` | `ViewController.swift:63` says that an empty list scrolls by default. `reachabilityConnection` (46) is never written, so the answer is always that for a device without a network (178): no; the header cannot be pulled, the taps reach nobody, and nothing starts a refresh. |
| `ScratchableLatex!AllDataShown` | `ScratchableLatex.cfg` | The number of data is compared with the number of subviews (`ScratchableLatexView.swift:39`), two of which are the divider lines once the grid is laid out: two more data than views are not shown. |
| `PopGestures!OnlyFullscreenPops` | `PopGestures.cfg` | `FDFullscreenPopGesture.m:169` disables the onboard recognizer at the first push; the end of that push enables it again (`TZPopGesture.m:96`), by a delegate meant to stay for 0.2 s that never goes. `GuardFollowsDepth` shows the other side: if it did go, the pop of a screen pushed in those 0.2 s would leave the root unguarded (`TzNaviDelegate_First`). |

## 8. Not modelled

See `PROJECT.json`, components.  In the app, networking is a set of tables and a decoder;
the models take a request as something that ends with items or an error.  Cells,
layout, formatting and device helpers have no control flow a model could check.
`LDMineController` and `LDSharedController` are empty screens.  Pods are modelled
only where the behaviour of the app is theirs (the MJRefresh header and auto footer,
the activity indicator, the decisions of EmptyDataSet) and in the data store.

Most of the repository's C is the rest of SQLite: the generated parser, the code
generator, byte code, b-tree algorithms, encodings of index segments, tens of thousands
of lines of sequential code over page contents.  They are out of reach of a model that
is shorter than they are, and not what interleaving, crashes or locks could break; the
map therefore covers a small share of its lines, those of the code on which
the concurrency and the recovery of a database rest.

Of the parts that are modelled:

* *Locks*: lock styles other than POSIX; descriptors; `unixShmMap` apart from the opening
  of the file; what a freed file reads as is arbitrary and its use otherwise harmless.
* *Log*: RESTART checkpoints apart from TRUNCATE, which includes them; `sqlite3WalClose`,
  exclusive and heap-memory mode, a read-only wal-index, the snapshot interface,
  savepoints, padding to sectors, `journal_size_limit`, the size of the database, the
  page cache, the RECOVER lock (recovery holds all others) and busy timeouts.
* *Journal*: master journals, savepoints, exclusive mode, MEMORY and OFF, `synchronous=OFF`,
  a database that is empty at first, sectors larger than a page, truncation by
  a vacuum, losses of power with `TRUNCATE` and `NORMAL`.  A header and a record take a
  slot of the same size; a torn record keeps its page number; a write that fails leaves
  the file as it was.
