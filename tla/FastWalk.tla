------------------------------ MODULE FastWalk ------------------------------
(***************************************************************************)
(* A whole walk: the pool of WalkPool with walk(), readDir() and           *)
(* onDirEnt() filled in (fastwalk.go, fastwalk_unix.go, fastwalk_darwin.go,*)
(* fastwalk_portable.go), over the file system of FileTree, with walkFn    *)
(* wrapped as in Adapters.  A work item is [path, callbackDone]; its depth *)
(* is the length of its path.                                              *)
(***************************************************************************)
EXTENDS WalkPool, Adapters, Bags

CONSTANTS
  Replies,    \* Replies[n]: what walkFn may return for entry n without an error
  OnError     \* what walkFn may return when told an error; "same" passes it on

ASSUME WalkAssumption ==
  /\ Replies \in [Node -> SUBSET Result]
  /\ OnError \subseteq Result \cup {"same"}
  /\ Root = [path |-> <<Top>>, callbackDone |-> FALSE]
  /\ Top \notin Untyped
  /\ {"SkipDir", "SkipFiles", "TraverseLink", "permission", "io", "notdir"} \subseteq Err

VARIABLES
  task,     \* task[w]: how far w is with the item it holds
  seen,     \* the contents of the adapters' entry filters
  calls,    \* history: the calls of the user's walkFn, as a bag
  opened,   \* history: the paths readDir() read to the end of the directory
  broken    \* history: the paths whose readDir() returned an error

detail   == <<setup, task, seen, calls, opened, broken>>
walkVars == <<poolVars, detail>>

NoTask == [stage |-> "none", rest |-> <<>>, skipFiles |-> FALSE, err |-> Nil]

\* Faulty variant: the depth of an entry counts the entry itself.
DepthTooLarge(item) == Len(item.path)

Depth(item) == Len(item.path) - 1

-----------------------------------------------------------------------------
WalkInit ==
  /\ PoolInit
  /\ task = [w \in Worker |-> NoTask]
  /\ setup \in Setups
  /\ seen = NoneSeen
  /\ calls = EmptyBag
  /\ opened = {}
  /\ broken = {}

-----------------------------------------------------------------------------
\* What the user's function may return when called for path with error e.
UserAnswers(path, e) ==
  IF e = Nil THEN Replies[Last(path)]
  ELSE {IF a = "same" THEN e ELSE a : a \in OnError}

\* w.fn(path, ..., e) where the user's function answers a: r is what comes back.
CallFn(path, e, a, r) ==
  LET o == Call(Last(path), e, a, seen, Nil)
  IN  /\ r = o.ret
      /\ seen' = o.seen
      /\ calls' = IF o.told
                  THEN calls (+) SetToBag({[path |-> path, err |-> e, ret |-> a]})
                  ELSE calls

\* walk() goes on with another part of itself, which the pool does not notice,
Continue(w, t) ==
  /\ pc[w] = "walking"
  /\ task' = [task EXCEPT ![w] = t]
  /\ UNCHANGED poolVars

\* hands an item to enqueue() and goes on after that,
Enqueue(w, it, t) == Offer(w, it) /\ task' = [task EXCEPT ![w] = t]

\* or returns r (the faulty variant leaves its local state behind).
ReturnUncleared(w, r) == Finish(w, r) /\ UNCHANGED task
Return(w, r) == Finish(w, r) /\ task' = [task EXCEPT ![w] = NoTask]

InStage(w, s) == pc[w] = "walking" /\ task[w].stage = s

\* The directory w holds, the entry it looks at, and that entry's path.
Dir(w)       == held[w].path
Entry(w)     == Head(task[w].rest)
\* (faulty variant: the path is joined to the root)
RootPath(w)  == Append(<<Top>>, Entry(w))
EntryPath(w) == Append(Dir(w), Entry(w))

\* The loop of readDir at its next entry, and after leaving it with error e.
\* (faulty variant: ErrSkipFiles holds for one entry only)
NextEntryForget(w) == [task[w] EXCEPT !.rest = Tail(@), !.skipFiles = FALSE]
NextEntry(w)    == [task[w] EXCEPT !.rest = Tail(@)]
LeaveLoop(w, e) == [task[w] EXCEPT !.rest = <<>>, !.err = e]

-----------------------------------------------------------------------------
(* walk()                                                                  *)

\* Faulty variant: the callback is repeated for a link that is traversed.
TakeRepeating(w) ==
  /\ TakeWork(w)
  /\ task' = [task EXCEPT ![w] = [NoTask EXCEPT !.stage = "visit"]]
  /\ UNCHANGED <<setup, seen, calls, opened, broken>>

Take(w) ==
  /\ TakeWork(w)
  /\ task' = [task EXCEPT ![w] =
                [NoTask EXCEPT !.stage = IF Head(workc).callbackDone THEN "descend"
                                         ELSE "visit"]]
  /\ UNCHANGED <<setup, seen, calls, opened, broken>>

\* The callback for the directory itself.
Visit(w) ==
  /\ InStage(w, "visit")
  /\ \E a \in UserAnswers(Dir(w), Nil), r \in Result :
       /\ CallFn(Dir(w), Nil, a, r)
       /\ \/ r = Nil /\ Continue(w, [task[w] EXCEPT !.stage = "descend"])
          \/ r = "SkipDir" /\ Return(w, Nil)
          \/ r \notin {Nil, "SkipDir"} /\ Return(w, r)
  /\ UNCHANGED <<setup, opened, broken>>

\* Faulty variant: off by one.
TooDeepLate(item) == MaxDepth > 0 /\ Depth(item) > MaxDepth

TooDeep(item) == MaxDepth > 0 /\ Depth(item) >= MaxDepth

StopAtMaxDepth(w) ==
  /\ InStage(w, "descend")
  /\ TooDeep(held[w])
  /\ Return(w, Nil)
  /\ UNCHANGED <<setup, seen, calls, opened, broken>>

\* readDir: open the directory and read its entries.
ReadDir(w) ==
  /\ InStage(w, "descend")
  /\ ~TooDeep(held[w])
  /\ \E r \in Readings(Resolve(Last(Dir(w))), Nil) :
       /\ Continue(w, [NoTask EXCEPT !.stage = "entries", !.rest = r.entries, !.err = r.err])
       /\ opened' = IF r.err = Nil THEN opened \cup {Dir(w)} ELSE opened
  /\ UNCHANGED <<setup, seen, calls, broken>>

\* Faulty variant: walk() returns the error itself.
EndDirUnreported(w) ==
  /\ InStage(w, "entries")
  /\ task[w].rest = <<>>
  /\ Return(w, task[w].err)
  /\ broken' = IF task[w].err = Nil THEN broken ELSE broken \cup {Dir(w)}
  /\ UNCHANGED <<setup, seen, calls, opened>>

\* readDir returns; walk() returns nil, or reports the error to the callback.
EndDir(w) ==
  /\ InStage(w, "entries")
  /\ task[w].rest = <<>>
  /\ \/ task[w].err = Nil /\ Return(w, Nil) /\ UNCHANGED broken
     \/ /\ task[w].err # Nil
        /\ Continue(w, [task[w] EXCEPT !.stage = "report"])
        /\ broken' = broken \cup {Dir(w)}
  /\ UNCHANGED <<setup, seen, calls, opened>>

\* The second call; whatever it returns is what walk() returns.
ReportError(w) ==
  /\ InStage(w, "report")
  /\ \E a \in UserAnswers(Dir(w), task[w].err), r \in Result :
       CallFn(Dir(w), task[w].err, a, r) /\ Return(w, r)
  /\ UNCHANGED <<setup, opened, broken>>

-----------------------------------------------------------------------------
(* The loop of readDir over the entries, with onDirEnt() for each.         *)

AtEntry(w) == InStage(w, "entries") /\ task[w].rest # <<>>

Skipped(w) == task[w].skipFiles /\ IsRegular(Entry(w))

SkipEntry(w) ==
  /\ AtEntry(w)
  /\ Skipped(w)
  /\ Continue(w, NextEntry(w))
  /\ UNCHANGED <<setup, seen, calls, opened, broken>>

\* Faulty variant: the callback is taken to have been made.
EnqueueDirDone(w) ==
  /\ AtEntry(w)
  /\ ~Skipped(w)
  /\ EntryType(Entry(w)) = "dir"
  /\ Enqueue(w, [path |-> EntryPath(w), callbackDone |-> TRUE], NextEntry(w))
  /\ UNCHANGED <<setup, seen, calls, opened, broken>>

\* onDirEnt for a directory: it is visited later.
EnqueueDir(w) ==
  /\ AtEntry(w)
  /\ ~Skipped(w)
  /\ EntryType(Entry(w)) = "dir"
  /\ Enqueue(w, [path |-> EntryPath(w), callbackDone |-> FALSE], NextEntry(w))
  /\ UNCHANGED <<setup, seen, calls, opened, broken>>

\* Does onDirEnt traverse the link at path, if the callback returned r?
Traversed(path, r) ==
  /\ EntryType(Last(path)) = "link"
  /\ \/ ~Follow /\ r = "TraverseLink"
     \/ Follow /\ r \in {Nil, "TraverseLink"} /\ ShouldTraverse(path)

\* The error onDirEnt makes of it, for a link that is not traversed.
EntryError(n, r) ==
  IF EntryType(n) = "link" /\ (r = "SkipDir" \/ (Follow /\ r = "TraverseLink"))
  THEN Nil ELSE r

\* onDirEnt for anything else: the callback is called at once.
VisitEntry(w) ==
  /\ AtEntry(w)
  /\ ~Skipped(w)
  /\ EntryType(Entry(w)) # "dir"
  /\ \E a \in UserAnswers(EntryPath(w), Nil), r \in Result :
       LET e == EntryError(Entry(w), r)
       IN  /\ CallFn(EntryPath(w), Nil, a, r)
           /\ \/ /\ Traversed(EntryPath(w), r)
                 /\ Enqueue(w, [path |-> EntryPath(w), callbackDone |-> TRUE], NextEntry(w))
              \/ /\ ~Traversed(EntryPath(w), r)
                 /\ \/ e = Nil /\ Continue(w, NextEntry(w))
                    \/ e = "SkipFiles" /\ Continue(w, [NextEntry(w) EXCEPT !.skipFiles = TRUE])
                    \/ e \notin {Nil, "SkipFiles"} /\ Continue(w, LeaveLoop(w, e))
  /\ UNCHANGED <<setup, opened, broken>>

-----------------------------------------------------------------------------
WalkStep(w) ==
  \/ Take(w)
  \/ /\ \/ ExitIdle(w) \/ EnqueueSend(w) \/ EnqueueDrop(w)
        \/ SendResult(w) \/ ExitReporting(w)
     /\ UNCHANGED detail
  \/ Visit(w) \/ StopAtMaxDepth(w) \/ ReadDir(w) \/ EndDir(w) \/ ReportError(w)
  \/ SkipEntry(w) \/ EnqueueDir(w) \/ VisitEntry(w)

WalkMainStep == MainStep /\ UNCHANGED detail

WalkNext ==
  \/ WalkMainStep
  \/ \E w \in Worker : WalkStep(w)
  \/ Terminated /\ UNCHANGED detail

WalkSafety == WalkInit /\ [][WalkNext]_walkVars

WalkSpec ==
  /\ WalkSafety
  /\ WF_walkVars(WalkMainStep)
  /\ \A w \in Worker : WF_walkVars(WalkStep(w))

-----------------------------------------------------------------------------
(* Properties.                                                             *)

Made     == BagToSet(calls)
Returned == main = "returned"

\* The nodes at most k steps below the root of the walk, through links too.
Within[k \in Nat] ==
  IF k = 0 THEN {Top}
  ELSE LET near == Within[k - 1]
       IN  near \cup {Resolve(n) : n \in UNION {Range(Kids[d]) : d \in {x \in near : IsDirNode(x)}}}

\* The variables of a walk in progress have their types.
WalkTypeOK ==
  /\ \A w \in Worker :
       /\ task[w].stage \in {"none", "visit", "descend", "entries", "report"}
       /\ task[w].rest \in Seq(Node)
       /\ task[w].err \in Result
       /\ task[w].stage = "none" <=> w \notin Walking
  /\ setup \in Setups
  /\ seen \in [DOMAIN wrap -> SUBSET Node]
  /\ \A c \in Made : c.err \in Result /\ c.ret \in Result
  /\ opened \cup broken \subseteq {it.path : it \in found}

\* walkFn is called at most once for a path without an error, whichever workers
\* get to it, and at most once with one: the callbackDone flag keeps the link as a
\* directory from being called again (fastwalk.go:623), and a second call is made
\* only to report an error of the path's readDir (fastwalk.go:659).
CalledOnce ==
  \A c, d \in Made :
    c.path = d.path /\ (c.err = Nil <=> d.err = Nil) => c = d /\ calls[c] = 1

\* A path is reported to be unreadable only after walkFn was called for it and did
\* not skip it, and only if it did fail (fastwalk.go:644-661).
ErrorCallFollows ==
  \A c \in Made : c.err # Nil =>
    /\ c.path \in broken
    /\ \E d \in Made : d.path = c.path /\ d.err = Nil /\ d.ret # "SkipDir"

\* fastwalk.go:351: all errors that arise visiting directories are filtered by
\* walkFn.  Every path whose readDir failed is reported to it before Walk returns,
ErrorsReachCallback ==
  Returned => \A p \in broken : \E c \in Made : c.path = p /\ c.err # Nil

\* and Walk returns no error that walkFn did not return.
ErrorsComeFromCallback ==
  Returned /\ ret # Nil => \E c \in Made : c.ret = ret

\* fastwalk.go:58: SkipDir is not returned as an error by any function.
SkipDirNotReturned == Returned => ret # "SkipDir"

\* May the entries of the directory at path p be left out, though Walk returns nil?
Pruned(p) ==
  \/ MaxDepth > 0 /\ Len(p) > MaxDepth
  \/ p \in broken
  \/ \E c \in Made : c.path = p /\ c.ret = "SkipDir"

\* May a single file be left out?
LeftOut(p, n) ==
  \/ n \in Vanished
  \/ /\ Kind[n] = "file"
     /\ \E c \in Made : c.ret = "SkipFiles" /\ \E m \in Node : c.path = Append(p, m)

\* fastwalk.go:347: Walk calls walkFn for each file or directory in the tree.  When
\* it returns nil, the root and every entry of every directory it called walkFn for
\* was called, unless walkFn or MaxDepth excused it, or walkFn was told of an error.
NothingMissed ==
  Returned /\ ret = Nil =>
    LET called == {c.path : c \in Made}
    IN  /\ <<Top>> \in called
        /\ \A p \in called :
             Kind[Last(p)] = "dir" /\ ~Pruned(p) =>
               \A i \in DOMAIN Kids[Last(p)] :
                 LET n == Kids[Last(p)][i]
                 IN  LeftOut(p, n) \/ Append(p, n) \in called

\* The same for links that have to be traversed: with Follow, those shouldTraverse
\* allows; without, those walkFn answered with ErrTraverseLink.
LinksTraversed ==
  Returned /\ ret = Nil =>
    \A c \in Made :
      LET p == c.path
      IN  Kind[Last(p)] = "link" /\ c.err = Nil /\ Traversed(p, c.ret)
          /\ p \notin broken /\ ~(MaxDepth > 0 /\ Len(p) > MaxDepth)
          => p \in opened

\* No call is made below MaxDepth, through however many links.
DepthRespected == MaxDepth > 0 => \A c \in Made : Len(c.path) - 1 <= MaxDepth

\* fastwalk.go:53: after walkFn has answered ErrSkipFiles for an entry of a directory,
\* no other regular file of this directory is called.
SkipFilesRespected ==
  [][\A c \in BagToSet(calls') \ Made :
       c.err = Nil /\ Kind[Last(c.path)] = "file" =>
         ~ \E d \in Made : /\ d.ret = "SkipFiles" /\ d.err = Nil
                           /\ Kind[Last(d.path)] # "dir"
                           /\ Len(d.path) > 1
                           /\ Front(d.path) = Front(c.path)]_walkVars

Ignores(adapter) == adapter \in Range(wrap)

\* adapters.go:21: with IgnoreDuplicateDirs or IgnoreDuplicateFiles no directory is read
\* twice, under whatever names and by whichever workers it is found.
DirsReadOnce ==
  Ignores("IgnoreDuplicateDirs") \/ Ignores("IgnoreDuplicateFiles") =>
    \A p, q \in opened : Resolve(Last(p)) = Resolve(Last(q)) => p = q

\* adapters.go:33: of the names a directory has, one is traversed, and adapters.go:66:
\* only duplicates are left out.  When Walk returns nil, every directory that can be
\* reached was read, and with IgnoreDuplicateFiles every file was called, unless walkFn or
\* MaxDepth limited the walk.
AllReached ==
  Returned /\ ret = Nil /\ MaxDepth <= 0 /\ (\A c \in Made : c.ret = Nil) =>
    \A n \in Within[Cardinality(Node)] \ {NoNode} :
      /\ IsDirNode(n) => \E p \in opened : Resolve(Last(p)) = n
      /\ Ignores("IgnoreDuplicateFiles") => \E c \in Made : StatNode(Last(c.path)) = n

\* adapters.go:45: IgnoreDuplicateDirs does not record directories that are skipped with
\* SkipDir, or all their names would be skipped.  When Walk returns nil, a directory it has
\* recorded was read, under whichever name, or could not be read, or has a name at
\* MaxDepth, or one that was answered with ErrSkipFiles.
SeenDirsRead ==
  Returned /\ ret = Nil /\ ~Follow /\ (Impl = "darwin" => Untyped = {}) =>
    \A i \in {j \in DOMAIN wrap : wrap[j] = "IgnoreDuplicateDirs"} :
      \A n \in {x \in seen[i] : IsDirNode(x)} :
        \/ \E p \in opened \cup broken : Resolve(Last(p)) = n
        \/ \E it \in found : Resolve(Last(it.path)) = n /\ TooDeep(it)
        \/ \E c \in Made : Resolve(Last(c.path)) = n /\ c.ret = "SkipFiles"

\* adapters.go:66: with IgnoreDuplicateFiles the user's function is called for a file
\* once, under whatever names and by whichever workers it is found.
FilesCalledOnce ==
  Ignores("IgnoreDuplicateFiles") =>
    \A c, d \in Made :
      StatNode(Last(c.path)) = StatNode(Last(d.path)) => c = d /\ calls[c] = 1

\* fastwalk.go:272: Follow ignores links that would lead into a directory which is an
\* ancestor of the entry: no directory is read below itself.
NotReadBelowItself ==
  Follow => \A p \in opened : \A i \in 1 .. Len(p) - 1 : Resolve(p[i]) # Resolve(Last(p))

\* fastwalk.go:188-237: the place of entry n of directory d in the order of SortMode:
\* its group, and its rank in the group.
Place(n, d) ==
  CASE SortMode = "SortFilesFirst" ->
         <<IF Kind[n] = "file" THEN 1 ELSE IF Kind[n] = "dir" THEN 3 ELSE 2, Rank[n]>>
    [] SortMode = "SortDirsFirst" ->
         <<IF Kind[n] = "dir" THEN 1 ELSE IF Kind[n] = "file" THEN 2 ELSE 3, Rank[n]>>
    [] SortMode = "SortLexical" -> <<1, Rank[n]>>
    [] OTHER -> <<1, CHOOSE i \in DOMAIN Kids[d] : Kids[d][i] = n>>

\* The paths walkFn was called for, or that were handed to enqueue().
Reached == {c.path : c \in Made} \cup {it.path : it \in found}

\* fastwalk.go:296: a directory's entries are visited in the order of SortMode, without
\* one in directory order: no entry is called or enqueued after one that follows it.
OrderRespected ==
  [][\A p \in Reached' \ Reached, q \in Reached :
       Len(p) > 1 /\ Len(q) > 1 /\ Front(p) = Front(q) =>
         LET d == Resolve(Last(Front(p)))
             x == Place(Last(p), d)
             y == Place(Last(q), d)
         IN  y[1] < x[1] \/ (y[1] = x[1] /\ y[2] < x[2])]_walkVars
=============================================================================
