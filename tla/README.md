# A TLA+ specification of fastwalk

fastwalk walks a directory tree with several goroutines at once and calls a
user function, `walkFn`, for every entry. This directory holds TLA+ modules for
the parts of it that are hard to get right: the pool of workers and its
channels, the order and number of the calls, the traversal of symbolic links,
the adapters that drop duplicates and errors, the concurrent data structures
underneath, the reading of directories record by record, and paths as text. TLC
checks them on small instances. With TLAPS it is proved, for any number of workers,
any tree and any adapters unless said otherwise, that the pool is safe and keeps
its contract, that a walk is a run of the pool and calls `walkFn` as it should,
that the adapters drop what they promise to drop, that the concurrent data
structures and the pool of slices are sound, and that the paths of a walk name what
was found, however long they are.

Line numbers refer to the sources of the package.

## 1. The system

| Component | Source | State | Operations |
|---|---|---|---|
| Coordinator and worker pool | `fastwalk.go` 353-555 | `todo`, `out`; the channels `workc`, `enqueuec`, `resc` (capacity `numWorkers`) and `donec`; where every goroutine is | the cases of Walk's two `select` statements, the deferred `close(donec)` and `wg.Wait()`; `doWork`, `enqueue` |
| Directory walk and callbacks | `fastwalk.go` 557-665 | per worker: the directory, the entries left, `skipFiles`, the error | `walk`, `onDirEnt`, `shouldTraverse` |
| Reading a directory | `fastwalk_unix.go`, `fastwalk_darwin.go`, `fastwalk_portable.go`, `dirent_unix.go`, `dirent_portable.go` | per call: the buffer, the slice of entries, `skipFiles`, the error; all calls: the pool of slices | `readDir`, `putDirentSlice`, `sortDirents` |
| Record parser | `internal/dirent` | none (a buffer it is given) | `Parse` |
| Callback adapters | `adapters.go` | an `EntryFilter` per adapter | `IgnoreDuplicateDirs`, `IgnoreDuplicateFiles`, `IgnorePermissionErrors`, `isDir` |
| Entry filter | `entry_filter_*.go` | maps of file keys, a mutex each | `Entry`, `seen` |
| Directory entries | `dirent*.go` | two lazily filled `fileInfo` pointers | `Info`, `Stat`, `loadFileInfo`, `StatDirEntry` |
| Path handling | `fastwalk.go` 423-471, 565-599, 665-699, `entry_filter_windows.go` | none | `cleanRootPath`, `joinPaths`, the way up in `shouldTraverse`, `fixLongPath` |
| Number of workers | `fastwalk.go` 67-107, `numcpu_*.go` | none | `DefaultNumWorkers`, `darwinNumPerfCores` |
| Rest | `DefaultToSlash`, `SortMode.String`, `Config`, `zsyscall_darwin.go`, `internal/fmtdirent`, `examples` | none | probing, printing, bindings, clients |

How they interact. `Walk` stats the root, starts the workers and runs a loop that
sends items from its stack `todo` to `workc` and receives new items from
`enqueuec` and results from `resc`. A worker takes an item and calls `walk`,
which calls `walkFn` for the directory and `readDir` on it; `readDir` takes the
records of the directory apart with `Parse`, keeps the entries in a pooled slice
if they are to be sorted, and calls `onDirEnt` back for every entry; `onDirEnt`
either calls `walkFn` at once (files and links) or hands a new item to `enqueue`
(directories, and links that are traversed). `walkFn` may be wrapped by adapters,
which all workers call concurrently and which share an `EntryFilter`. `walkFn`,
the adapters and `shouldTraverse` ask entries for `Stat`, which is cached in the
entry.

What is hard about it:

- The coordinator decides that the walk is over from a counter and its own
  stack, while items may be in three channels or in the hands of a worker.
- All channels are bounded and both sides block on them; after an error the
  coordinator leaves and the workers must not block on it forever.
- Results and new items of one worker arrive on different channels, in any order.
- One path may go through the pool twice, first as a link and then as a
  directory, and one directory may be found under several names at once.
- A directory can fail half way, after some of its entries were called, by the
  file system's or by `walkFn`'s error, and then `walkFn` is called again.
- Links form cycles, and lead above the root; the code looks for cycles along
  the text of the path.
- Several goroutines look up and record a key, or fill a cache, at once, while
  the file may be replaced by another.
- Records end where buffers end, and what is taken from one pool by all walks
  has to come back empty, after errors too.

## 2. Modules

| Module | What it is | Models |
|---|---|---|
| `WalkContract` | abstract specification | what `Walk` promises about its items, without queues and goroutines |
| `WalkPool` | detailed specification | the coordinator, the workers and the channels; `walk()` is any sequence of `enqueue` calls followed by any result |
| `WalkPool_proofs` | proofs | the invariants of `WalkPool`, that it implements `WalkContract`, and that it has workers |
| `FileTree` | constants and operators | a tree with links, the builds and configurations, entry types as the builds see them, the entries and errors `readDir` can deliver, the comparators of `sortDirents`, `shouldTraverse`, `isDir` |
| `FileTree_proofs` | proofs | the comparators are strict total orders, what sorting and reading a directory deliver, and a principle of induction |
| `Adapters` | operators | one call of `walkFn` through any list of adapters |
| `FastWalk` | composition | `WalkPool` with `walk`, `readDir` and `onDirEnt` filled in, over `FileTree` and `Adapters` |
| `FastWalk_proofs` | proofs | a walk is a run of the pool; calls are made once and not too deep |
| `FastWalkCalls_proofs` | proofs | what `walkFn` is told and what its answers lead to |
| `FastWalkAdapters_proofs` | proofs | what the adapters that ignore duplicates promise |
| `DirentParse` | operators | `Parse` on bytes, and the records a kernel writes |
| `DirRead` | composition | `readDir` of the three builds, with buffers, records and the pool of slices, over `FileTree` and `DirentParse` |
| `DirRead_proofs` | proofs | the slices of the readers, and the bounds of `Parse` |
| `TestAndSet` | abstract specification | what an `EntryFilter` promises |
| `Callers` | a constant | the goroutines that `EntryFilter` and `FileInfoCache` have in common |
| `EntryFilter` | detailed specification | sharded maps and their mutexes |
| `FileInfoCache` | detailed specification | `loadFileInfo` with compare-and-swap and `sync.Once` |
| `EntryCalls` | composition | `EntryFilter.Entry` as a whole: `FileInfoCache`, then `EntryFilter` |
| `EntryCalls_proofs` | proofs | the filter implements `TestAndSet`, the cache gives one answer, one caller is told |
| `WalkPaths` | detailed specification | the paths of a walk as text, on unix and on Windows |
| `WalkPaths_proofs` | proofs | paths name the entries, the way up meets the way down, the extended-length form fits and names the same file |
| `NumWorkers` | operators | `DefaultNumWorkers` |
| `MC...` | instances | values of the constants and symmetry for TLC |

`FastWalk` EXTENDS `WalkPool`: every step of a `FastWalk` worker is one of the
pool's steps, or leaves the pool's variables alone. This is proved
(`WalkIsPoolRun`) and a property of the run `calls`, so whatever is proved of the
pool holds of every walk.

What is fixed before `Walk` is called, the build, `Config` and the adapters
around `walkFn`, is one record, the variable `setup` of `FileTree`, which takes
any value in the constant `Setups` and never changes. One run can so go through
several builds and configurations.

### WalkPool and the code

| Code | Model |
|---|---|
| `todo`, `out` and the channels | `todo`, `out`, `workc`, `enqueuec`, `resc`, `donec` |
| `case workc <- workItem` (`workc` is nil when `todo` is empty) | `SendWork`, enabled only with `todo # <<>>` and room in the channel |
| `case it := <-w.enqueuec` | `RecvEnqueue` |
| `case err := <-w.resc` | `RecvError`, `RecvNil` |
| inner `select` with `default` | `PollItem`, `PollEmpty` |
| `defer close(w.donec)`, `defer wg.Wait()` | `CloseDone`, `WaitWorkers`; `ret` is set before them |
| `doWork`, outer `select` | `TakeWork`, `ExitIdle` |
| `doWork`, inner `select` | `SendResult`, `ExitReporting` (`w.walk(...)` is evaluated on entering the `select`: `Finish` comes first) |
| `enqueue` | `Offer` (the call), then `EnqueueSend` or `EnqueueDrop` |

One step is one channel operation, or one piece of code between two of them. A
case of a `select` is enabled when its channel operation can proceed; when
several can, any may be chosen, as in Go. After `close(donec)` a worker may still
choose to take an item or to send: the model lets it.

`found`, `walked` and `failed` are history variables; no guard reads them, except
that `Item \ found` makes every item new in the abstract pool, where an item is
the identity of a `walkItem` and not its content.

### FastWalk and the code

An item is a path, the sequence of entries from the root, and `callbackDone`; the
depth of the code's `walkItem` is the length of the path less one, and its `info`
is the node the path ends in. `walk` is cut where other goroutines can tell the
difference: `Take`; `Visit` (the first callback); `StopAtMaxDepth`; `ReadDir` (the
entries come into the worker's hands, sorted or not); per entry `SkipEntry`,
`EnqueueDir` or `VisitEntry`; `EndDir`; `ReportError` (the second callback). The
`for` loops of the three builds differ in what `Readings` delivers and are one
loop here; `skipFiles` and its test are the same in all of them.

A link that is to be traversed is enqueued with `callbackDone` set; the worker
that takes it goes straight to `ReadDir`. The two branches of `onDirEnt` for links
are `Traversed` and `EntryError`.

What a wrapped `walkFn` returns, and what the filters hold afterwards, is the
function `Call` of `Adapters`: one step per call. This is sound because the
filter's operation is atomic (`EntryFilter` implements `TestAndSet`, checked by
`entry`), is done once per adapter and call, and because the user's own
function cannot reach the filter. An adapter's filter step and the user's own
call are not separated by anything another goroutine could see but the order of
two user calls, which is not fixed anyway.

### DirRead and the code

`FastWalk` takes what a directory delivers from `Readings` of `FileTree`: the
entries that `onDirEnt` is called for, in order, and the error after them.
`DirRead` is the same function one level down, and `ReadAsDelivered` says that
every reading it can make, with all calls and the result, is what the loop of
`FastWalk` makes of one of the `Readings`. This is what justifies the abstraction.

| Code | Model |
|---|---|
| unix: `bufp >= nbuf`, `readDirent` | `Fill` (any number of whole records that fit), `FillEnds`, `FillFails`; a retry after EINTR is the same step |
| unix: the rest of the loop | `ParseNext`: `Parse`, "." and "..", the `lstat` of an untyped entry and its two ways to fail |
| darwin: `readdir_r` | `ReadDarwin` |
| other builds: `f.ReadDir(-1)` and the loop | `List`, `NextListed` |
| `skipFiles`, `sortDirents`, the loop over sorted entries | `Deliver`, `EndOfDir`, `Visit` |
| `direntSlicePool.Get`, the deferred `putDirentSlice` | `Get`, `Leave` with `PutDirentSlice` |

`sync.Pool` may drop what it holds: `Get` may always take a new slice. The
capacity that decides whether a slice is pooled is taken to be the slice's
length. Several readers are in `readDir` at once, each doing one call; they have
nothing in common but the pool, so a step is a system call, a record or an entry.

`DirentParse` works on bytes, little-endian, with the offsets of the fields as
constants, as `dirent_linux.go` does with `syscall.Dirent`; `Word` makes the
subtraction in `direntNamlen` wrap. The kernel is external: `Encode` writes
records with padded names, deleted ones (inode 0) included.

### EntryCalls, EntryFilter and FileInfoCache

`EntryFilter` has one action per map access and per mutex operation; a key is a
pair of device and inode and the shard is the inode modulo the number of shards,
as in `entry_filter_unix.go`. The windows and portable filters are the instance
with one shard. `StatError` is the answer for a file that cannot be stat'ed,
which differs between the builds.

`FileInfoCache` has one action per atomic operation of `loadFileInfo` and one for
entering, waiting for and leaving `once.Do`. The system call returns any outcome,
since the file can change between two calls; the root's entry starts with a
filled cache (`fileInfoToDirEntry`).

`EntryCalls` puts them together as `EntryFilter.Entry` does: a caller asks one
shared entry for its information (`Ask`, `Stat`), takes the answer to `seen`
(`AnswerStat`) and returns (`Answer`), while calls for other entries go straight
to `seen` with a key they have. That only one caller is told that the shared
entry is new depends on both parts: with two results of the system call there
would be two keys, each new in a filter that works.

### WalkPaths and the code

A behaviour of `WalkPaths` picks an operating system, `ToSlash` and a root, cleans
the root as `Walk` does and then goes down entry by entry with `joinPaths`. A path
is a sequence of characters; what it *names* is `File`, which is `filepath.Clean`
as a record of volume, rootedness and elements, so that two texts name one file
when the records are equal. `Climbed` is the loop of `shouldTraverse` over
`filepath.Dir`, `FixLongPath` the function of that name in the Windows filter, and
`Extended` how Windows reads its result. Packages `os` and `filepath` are external.

`Text` says which texts may be roots and `Name` what a file may be called; that is all
that is assumed of the constants `Roots` and `Names`. The loop of `fixLongPath` runs
over the path once and skips, copies or gives up block by block; here it is taken
apart into the folds `Split`, `Without` and `Lengthen`, over characters and over blocks.

### Faulty variants

Beside an action there may be a *faulty variant* of it, named in its comment: the
same action with a plausible mistake. No specification uses them. Each one is
paired in `PROJECT.json` with the property that must fail when the variant takes
the action's place, and shows that the property depends on what the code does.

## 3. What is checked

Every run that passes is exhaustive for its instance.

| Run | Instance | Shows |
|---|---|---|
| `pool` | 2 workers, 5 items, 1 error | `OutCount`: the counter `out` equals what is in `workc`, in `resc` and with the workers. `QuietAtPoll`: the comment at line 494. `NoLostWork`: `nil` means everything found was walked, without error. `ErrorsSurface`: an error is never swallowed or invented. `OnePlace`: an item is never in two places, nor again anywhere after it was walked. `SilentAfterReturn`: nothing runs after `Walk` returned. `Returns`: `Walk` returns. `ImplementsContract`: the pool implements `WalkContract`. `IInv`: the invariant of the proofs. |
| `calls` | 2 workers; a tree of 7 entries with a link to a directory, a directory above MaxDepth whose read may fail after any of its entries, and an untyped entry; answers of every kind spread over the entries; the default configuration on unix, and Follow, MaxDepth 2 and SortFilesFirst on the portable build | `CalledOnce`, `ErrorCallFollows`, `ErrorsReachCallback`, `ErrorsComeFromCallback`, `NothingMissed`, `LinksTraversed`, `DepthRespected`, `SkipFilesRespected`, `OrderRespected`; `PoolSafety`: the walk implements the pool |
| `links` | 2 workers; "." in a tree of 9 entries with a directory and a file of two names each, and links that lead out of the walk and above it; one link that `walkFn` may answer with SkipDir or ErrSkipFiles; Follow, IgnoreDuplicateDirs, IgnoreDuplicateFiles, both in either order, and IgnoreDuplicateDirs with MaxDepth 2 | `Returns`: the walk ends in spite of the cycles. `DirsReadOnce` and `AllReached`: with the adapters each directory that can be reached is read exactly once, and with IgnoreDuplicateFiles, by `FilesCalledOnce`, each file is called exactly once. `SeenDirsRead`: IgnoreDuplicateDirs records no directory in vain, with the two exceptions named below |
| `entry` | 2 callers; up to 3 calls for the shared entry, whose file may be two different ones or gone, and 2 for others; 3 keys in 2 shards, two with one inode number on two devices | `ResultsAgree`, `OneSystemCall`; `ImplementsTestAndSet`; `OneIsNew`: of the calls for one entry at most one is told it is new. `EntriesReturn`: every call returns |
| `dir_read` | 2 readers, 3 directories of up to 5 records, buffers that hold two of them, 3 slices; the three builds, each unsorted and sorted | `SlicesPrivate`: what one reader sorts no other has, and the pool holds empty slices only. `ReadAsDelivered`: the abstraction above. `ReadingEnds` |
| `paths` | every root of up to 3 characters (4 behind a drive letter) that the code tells apart, unix and Windows, with and without ToSlash; 2 levels down | `PathNamesEntry`: the path given to `walkFn` names the entry. `ClimbMeetsWay`: no directory on the way down is missed on the way up. `LongPathFits`, `LongPathNamesEntry`: the extended-length form fits its buffer and names the same file |

`NothingMissed` deserves its definition read: when `Walk` returns `nil`, `walkFn`
was called for the root, and for every entry of each directory it was called for,
except below MaxDepth, in a directory whose read failed (of which it was told, by
`ErrorsReachCallback`) or that it skipped, or for files it asked to skip.

### Where code and documentation disagree

Six runs end with a counterexample, each against one sentence of the
documentation, quoted in `PROJECT.json` under `findings`.

| Run | Property | What happens |
|---|---|---|
| `skipdir_returned` | `SkipDirNotReturned` | `walkFn` answers SkipDir for a *file*; it becomes the error of `readDir`, `walkFn` is called with it for the directory, and if it passes errors on, `Walk` returns SkipDir. |
| `dupfiles_denied` | `ErrorsReachCallback` | IgnoreDuplicateFiles looks into the filter first, so the wrapped function never hears of a directory's read error, and the walk ends with SkipDir. |
| `dupdirs_follow` | `AllReached` | With Follow, `onDirEnt` overrules the adapter's ErrTraverseLink: a link above the root is not traversed although "Follow has no effect". |
| `follow_reenters` | `NotReadBelowItself` | Follow tests links only: a real directory below a followed link can be an ancestor of the path. The walk still ends. |
| `darwin_untyped` | `NothingMissed` | On darwin an entry of unknown type is not lstat'ed: a directory is called like a file and not visited. |
| `climb_past_parent` | `ClimbedAreAncestors` | The way up from a link below the root ".." ends at `filepath.Dir("..")`, which is ".": a link to the current directory is not followed although it leads to no loop. |

A relative of these needs only another constant: with the adapters
<<IgnoreDuplicateDirs, IgnorePermissionErrors>> in the `Setups` of
`dupfiles_denied`, the wrapped function swallows the error of the second callback,
the filter has seen the directory, and `Walk` returns SkipDir:
`ErrorsComeFromCallback` fails.

Some smaller things met while modelling have no run:

- A record whose length `Parse` cannot read makes it consume 0 bytes, and the
  loop of `readDir` would stay on it forever (the comment at `dirent.go` 43); a
  record that ends before its name makes `direntNamlen` wrap, the check at line 66
  passes, and slicing the record at line 69 panics (`NameWraps`, `Panic`). No
  kernel writes such records, and `Encode` does not either.
- With IgnoreDuplicateDirs and MaxDepth a directory that is first found through a link
  at the depth limit is recorded and not read; the walk then skips it under a name
  above the limit, and none of its names is traversed, where `adapters.go` 33-36 has
  one traversed. The same happens when `walkFn` answers ErrSkipFiles for a link to a
  directory: it is recorded, though `fastwalk.go` 55 has child directories traversed.
  `SeenDirsRead` excepts both.
- The root "C:" on Windows means the drive's current directory, and
  `fastwalk_test.go` 559-560 has it stay "C:", but `joinPaths` makes the absolute path "C:\a"
  below it. This root is left out of `paths`.
- `fixLongPath` is said not to convert UNC paths (`entry_filter_windows.go`
  112-114), but looks for backslashes only: `//server/share/...` is converted. UNC
  and device paths are left out of `paths`.
- `DefaultNumWorkers` is documented as 4, 6 or 10 on darwin; on arm64 it is the
  number of performance cores, and a GOMAXPROCS set by hand is clamped to 32 there
  too.

### Bounds, and why they are enough

- *Workers.* Channels have the capacity of the number of workers. With two workers
  and five items each channel can be full or empty while a worker blocks on it, and
  the coordinator can have anything from no to all work out. What is proved holds
  for every number of workers, so the instances have to show only the rest.
  Two workers do for the walks: what `walk` does is independent of the pool's size,
  and it takes two to race for one key of a filter.
- *Items of a walk* are the paths of at most 4 or 8 entries through the tree.
  This bounds nothing: no action of `FastWalk` reads `Item`, and where `PoolSafety`
  is checked it shows that the walk creates no item outside this set.
- *Trees* are chosen so that each rule has an entry it applies to and one it does
  not, for instance a regular file, a link and a directory after the entry that
  answered ErrSkipFiles, in directory order and sorted. Entries vanish in `dir_read`
  only, where `ReadAsDelivered` says what becomes of the rest. Answers are given to the entries where they make a
  difference, not to all of them, to keep `calls` within reach.
- *MaxInfos*, *MaxOthers* and *MaxCalls* bound the calls in `entry`: three for the
  shared entry, so that one comes after the result is known, two for others, which
  is enough to record its key before or between them, and as many as both together.
  The model stops when all calls have been made, and deadlock is not checked there;
  `EntriesReturn` checks that nobody is left inside a call. The number of `Object`s
  is the number of callers: a caller allocates at most once, since the pointer never
  becomes nil again, so `Allocate` never lacks one.
- *Records* are scaled down: an inode number of two bytes, a length of one, names
  from offset 4, and a buffer of 20 bytes, where records take 8. So a buffer
  can end after any record, and the directory with it or without it. One inode number has a
  zero low byte. *MaxPooled* is 3: the slice of one directory is pooled and that of
  the other is not. There is one more `Slice` than readers, so that a new one can
  always be had.
- *MaxDown* is 2: the last character of a path after the first level is always that
  of a name, so nothing new happens below. *LongPath* is 5 instead of 248, so that
  paths on both sides of it occur. `paths` ends at MaxDown, and deadlock is not
  checked there.
- *Symmetry* of workers is used in runs that check safety only.

### Fairness, and why the code justifies it

`PoolSpec` and `WalkSpec` assume weak fairness of the coordinator's step and of
each worker's step: the Go scheduler runs every goroutine that stays runnable, and
a `select` that has a ready case proceeds. Nothing is assumed about *which* ready
case is chosen. A worker's step includes the steps inside `walk`, so this also
assumes that system calls and `walkFn` return. In the abstract pool `walk` cannot
create items forever because `Item` is finite in the instance; in `FastWalk` this
is not assumed but follows from the tree. `ReadSpec` assumes weak fairness of each
reader: system calls and `onDirEnt` return, and EINTR does not come forever.
`EntrySpec` assumes weak fairness of each call and strong fairness of `Lock`: a
`sync.Mutex` that is handed over and over to others goes to a waiter after 1 ms
(its starvation mode). Waiting in `once.Do` needs weak fairness only: once it is done
it stays so.

## 4. What is proved

Every theorem is about every value of the constants that satisfies the named
assumptions of the modules. The assumptions say what the
constants are: `PoolAssumption` (a finite, non-empty set of workers, the root is an
item, the "no item" and nil values are not items or errors), `TreeAssumption` and
`WalkAssumption` (a tree whose directories name each entry once, links that resolve
to something that is no link, error values that differ from nil), `ReadAssumption`
and `LayoutAssumption` (where a record's fields are, and that each record fits the
buffer), `FilterAssumption`, `CacheAssumption` and `EntryAssumption`, and `PathAssumption` (a root
is a `Text`, a file name a `Name`). The bounds on
calls of `EntryCalls` are constants like the others, and may have any value. Some theorems have a hypothesis besides, given below.

### The pool: `WalkPool_proofs`

| Theorem | States |
|---|---|
| `TypeCorrect` | `PoolSafety => []TypeOK`: also that no channel exceeds its capacity |
| `OutCountCorrect` | `PoolSafety => []OutCount` |
| `PollIsQuiet` | `PoolSafety => []QuietAtPoll` |
| `NothingLost` | `PoolSafety => []NoLostWork` |
| `ErrorsReported` | `PoolSafety => []ErrorsSurface` |
| `SilenceAfterReturn` | `PoolSafety => SilentAfterReturn` |
| `InductiveInvariant` | `PoolSafety => []IInv` |
| `OnePlaceAlways` | `PoolSafety => []OnePlace` |
| `PoolImplementsContract` | `PoolSafety => ImplementsContract`: the specification of `WalkContract` |

`NoLostWork` is not inductive: it says nothing before the decision. The invariant
`IInv` adds what makes the decision right. Until the coordinator leaves its loop no
item is dropped, because `enqueue` and `doWork` drop only after `close(donec)`:
every item found is on the stack, in a channel, in a worker's hands or walked
(`ItemsKept`), and every error is in `resc` or about to be sent (`ErrorsKept`).
`out` counts the items in `workc`, the results in `resc` and the busy workers
(`OutCount`). When the coordinator polls, `out = 0` and `todo` is empty, so none of
them holds anything; if `enqueuec` is empty too, all found items are walked, and no
error is under way. From then on nothing that could move is left (`QuietAfterNil`),
so the decision stays right while the workers end. `ItemsStep` and `AnswersStep`
state once how each step moves items and results, and the conjuncts of `IInv`
follow from them.

`OnePlace` counts places; the induction is on `Apart`, which says the same without
counting: no place repeats an item, and the places and `walked` are pairwise
disjoint. With `IInv` it gives the refinement: a step of a worker that finishes an
item is the contract's step for this item, which needs that the item was not
walked before.

### The walk: `FastWalk_proofs`, `FastWalkCalls_proofs`, `FastWalkAdapters_proofs`

| Theorem | States | Besides `AnyPath` it needs |
|---|---|---|
| `WalkIsPoolRun` | `WalkSafety => PoolSafety`: what is proved of the pool holds of walks | |
| `WalkLosesNothing` | `NoLostWork` and `ErrorsSurface`, of a walk | |
| `CalledOnceAlways` | `CalledOnce` | |
| `DepthRespectedAlways` | `DepthRespected` | |
| `WalkTypeCorrect` | `WalkTypeOK` | |
| `ErrorCallFollowsAlways` | `ErrorCallFollows` | |
| `OrderRespectedAlways` | `OrderRespected` | `Typed` |
| `SkipFilesRespectedAlways` | `SkipFilesRespected` | `Typed` |
| `ErrorsComeFromCallbackAlways` | `ErrorsComeFromCallback` | `Unfiltered` |
| `LinksTraversedAlways` | `LinksTraversed` | `Unfiltered` |
| `NothingMissedAlways` | `NothingMissed` | `Unfiltered`, `Typed` |
| `ErrorsReachCallbackAlways` | `ErrorsReachCallback` | no adapters |
| `DirsReadOnceAlways` | `DirsReadOnce` | `LinksLeftToAdapters` |
| `FilesCalledOnceAlways` | `FilesCalledOnce` | `LinksKnown` |
| `AllReachedAlways` | `AllReached` | `AllReadable`, `NoObjections`, `Unlimited`, finitely many files |

The hypotheses are where the code needs them, and the runs show most of them to be
necessary:

- `AnyPath`: every sequence of nodes is the path of an item. `Item` is a constant of
  `WalkPool`; the code can make a `walkItem` of any path.
- `Typed`: the entry types are known. They are not on darwin for a DT_UNKNOWN
  (`darwin_untyped` refutes `NothingMissed` there).
- `Unfiltered`: each adapter is IgnorePermissionErrors, if there is any. A filter
  keeps calls from `walkFn` on purpose, and in the wrong order loses errors
  (`dupfiles_denied`, and the relative of it named above).
- No adapters at all, for `ErrorsReachCallback`: IgnorePermissionErrors is meant to
  keep errors from `walkFn`.
- `LinksLeftToAdapters`: the user's function does not itself answer ErrTraverseLink
  for a link, because IgnoreDuplicateDirs passes this answer on without asking
  whether the filter knew the directory.
- `LinksKnown`: no link is broken, on the portable build, whose filter takes every
  file it cannot stat for new.
- `AllReadable` and `NoObjections`: no directory fails to be read, no entry vanishes,
  and the user's function answers nil. Otherwise `Walk` leaves something out because it
  has to.
- `Unlimited`: no MaxDepth, `Typed`, and every link to a directory is to be followed
  (`LinksLead`): by Follow from the root of a file system, with any adapters or none,
  or without Follow by a filter. With Follow and something above the root the filters
  lose directories: `dupdirs_follow`.

*The invariant of a walk.* When a worker begins to read a directory it has to find
that no entry of it was called or enqueued. That needs a reason for every path that
was: it is the root, or an entry of an item somebody has begun to read (`ReachInv`);
and it needs that the reading of an item begins once, which is `Apart`, and that
items differ in their paths (`ItemInv`). `RestInv` says that the entries still in a
worker's hands are new, and `CallInv` that a call is made by who holds the item,
`DepthInv` the same for MaxDepth. Together with the types of the tasks (`TaskInv`)
this is `WalkInv`, which is inductive together with `IInv` and `Apart`.

*Calls and answers.* `FollowInv` says what `walk()` has done before it reads: it
called `walkFn` for the directory, which did not skip it. No filter can come
between: one that keeps the call of a directory from `walkFn` answers SkipDir,
except for what is no directory; and the only such item there may be is a root that
is a file, which is called while the filters are empty (`RootFirst`). `AnswerInv` follows
an error from `readDir` to the result of `Walk`. `SkipInv` says that the local flag
`skipFiles` stands for an answer that was given for an entry of the same directory,
and that without the flag there is none. `WalkedInv` and `EntriesInv` say that what
was walked was called and read, entry by entry, unless it is excused; with
`NoLostWork` this is completeness. `OrderInv` says that what is left of a directory
comes after what was called of it; that a sorted directory is in order at all is
`SortDirentsSorts`.

*Adapters.* A call of the wrapped function is a recursive function over the list of
adapters. Facts about it are proved from the innermost adapter outwards
(`CallOutward`). For `DirsReadOnce` the filter that counts is the innermost:
`OnceInv` says that it holds every directory that was entered or is going to be,
each under one name, because a call that lets the walk enter a directory must have
found it new in every filter. `FilesInv` says the same of calls and the filter of any
IgnoreDuplicateFiles.

*Completeness in spite of filters* is the other half of it: what a filter holds has to
be taken care of by somebody. `CoverInv` calls a file covered if some call was made for
it and, if it is a directory, somebody is on the way into it or has been there; and says
that every filter holds only what is covered (`FiltersCovered`), that what was walked is
covered, and that of an opened directory each entry is still in the hands of its reader,
or was found, or is covered (`OpenedCovered`). An entry that a filter has dropped is so
covered under another name, and a link that Follow ignores leads to a directory on the
way down to it, which was entered (`WaysEntered`). When `Walk` returns nothing is in
anybody's hands; then induction over the steps from the root shows `AllReached`.
`CoverInv` was checked with TLC before, on the tree of `links` with 21 setups.

### The parts: `FileTree_proofs`, `EntryCalls_proofs`, `DirRead_proofs`, the workers

| Theorem | States |
|---|---|
| `BeforeStrict` | the comparator `sort.Slice` is given is a strict total order on the entries of a directory, for every SortMode, build and set of types. Without this the order of a sorted directory would be undefined. |
| `SortDirentsSorts` | sorting delivers each entry once and in order |
| `ReadingsListEntries` | a reading lists distinct entries in order, and without an error all that did not vanish |
| `FilterIsAtomic` | `EntryFilter` implements `TestAndSet` |
| `EntryIsAtomic` | so does `EntryFilter.Entry` as a whole |
| `ResultsAlwaysAgree`, `OneSystemCallAlways` | the cache of an entry |
| `EntryTypeCorrect`, `OneIsNewAlways` | of the concurrent calls for one entry at most one is told that it is new |
| `DirReadTypeCorrect` | the cursor stays inside what was read, and the buffer is not overrun |
| `SlicesPrivateAlways` | a slice is with one reader, or pooled and empty |
| `ParseStaysInside` | `Parse` never consumes more than the buffer has, whatever the bytes are |
| `SomeWorker` | whatever is configured and the system reports, there is at least one worker, which `PoolAssumption` takes for granted (in `WalkPool_proofs`) |
| `DefaultClamped` | unconfigured there are 4 to 32, except where darwin counts performance cores |

`FilterInv` says which shard a key belongs to and that a caller between `Lock` and
`Unlock` is alone in its shard, so what it looked up is still true when it adds; the
test-and-set happens at that step. `CacheInv` says that once the pointer is set it is
the one whose `sync.Once` everybody uses, and that there is one system call per
`Once`. `EntryInv` connects them: all calls for the shared entry carry one key, so
once it is recorded nobody else is told that it is new.

`ReadInv` says of each reader when it owns a slice (`OwnsInTime`: from the first
record of a sorted directory until it returns) and where it is in its buffer
(`InsideBuffer`), and of each slice that it is with one reader, or in the pool and
empty, or nowhere. Every step keeps, takes or gives back the slice of one reader,
and nothing else happens to slices (`ReaderMoves`).

### Paths: `WalkPaths_proofs`

| Theorem | States |
|---|---|
| `PathNamesEntryAlways` | `PathSpec => []PathNamesEntry` |
| `ClimbMeetsWayAlways` | `PathSpec => []ClimbMeetsWay` |
| `LongPathFitsAlways` | `PathSpec => []LongPathFits` |
| `LongPathNamesEntryAlways` | `PathSpec => []LongPathNamesEntry` |

They hold for any roots and names that `PathAssumption` allows, at any depth, and for
any length from which on a path is long; the run has roots of three characters and two
levels. `PathInv` says what the text of a path stands for: the file that the root names,
and below it the names gone through (`Rooted`); its directory is the same without the
last name. It is inductive because of one fact about text: separators divide it.
Splitting a text behind a separator gives the blocks before it and the blocks after it
(`SplitConcat`, `WithoutConcat`, `BlocksConcat`), trailing and doubled separators add no
block (`TrailingSeparators`), `/` and `\` divide alike (`BlocksSlash`), and a volume at
the front stays there (`VolumeExtend`). So the cleaned root names what the root named
(`StartNamesRoot`), and a joined path names the entry (`JoinNamesEntry`).

Each block that `fixLongPath` writes takes its length and one separator, and so it
took in the path, except for the first; that is `BlocksFit`, and dropping blocks only
makes it shorter (`WithoutShorter`). What the result means is read off by splitting it
again: nothing that was written contains a backslash (`WrittenBack`), so the blocks come
back, first among them the drive (`DriveSplit`), and a path without "." and ".." is
what Clean makes of it (`CleanPlain`).

### Induction

The library's induction theorems take an operator as a parameter and cannot be
instantiated here. `FileTree_proofs` has what replaces them: `SetInduction`, the same
about a *set* of numbers, derived from the library's fact that strict inclusion is
well founded on finite sets; and `Recursion`, that a step given as a function
defines a recursive function. With them the recursive functions of the models are proved
to be what their equations say, for every input: `Call` over any list of adapters,
`ReadInt` over any number of bytes, the concatenation of any records, what is `Within`
any number of steps of the root. A fold over a sequence is the iteration of its step
(`FoldingExists`): `WalkPaths_proofs` proves this for each fold of `WalkPaths`, and with
it, and induction over sequences (`SeqInduction`), how the fold goes on when a
character or a block is appended.

### Only model-checked

- Liveness (`Returns`, `EntriesReturn`, `ReadingEnds`): TLAPS does not prove
  properties that need fairness, or ENABLED. In particular that `Walk` returns in spite of
  cycles of links is checked on `links` only.
- `ReadAsDelivered`: that buffers and records deliver what `Readings` says.
- `SeenDirsRead`.

## 5. What is not modelled

- `Walk`'s early return when the root cannot be stat'ed, and the `Config` defaults.
- Changes of the tree while it is walked, except that an untyped entry may be gone
  when `readDir` on unix looks at it, that any read may fail, and that the file of
  a shared entry may be replaced (`EntryCalls`). So `os.Stat` of a directory on the way
  up, whose failure makes `shouldTraverse` answer no (`fastwalk.go` 582-585), does not fail.
- Links within a path: `filepath.Dir` takes ".." away lexically, as `File` does, also
  where the element before it is a link.
- UNC and device paths, and the root "C:", on Windows; `DefaultToSlash`, which probes
  the environment.
- `fs.SkipAll` has no model of its own: the package treats it as any other error.
- `Info()` of the portable build, which is not cached by the package.
- The record layouts of systems other than linux, which differ in offsets, in types
  that are always unknown (aix, js) and in a length computed from the name's
  (dragonfly).
- `zsyscall_darwin.go` binds libc, the formatting of entries and `SortMode.String`
  have no state, and the examples are clients.

## 6. Plan

The components with behaviour are modelled and the safety of the pool, of a walk, of the
shared data structures and of paths is proved. What is left is `ReadAsDelivered`, first for
darwin and the portable build, where no buffer is involved; for unix it needs that
`Parse` undoes `Encode`.
