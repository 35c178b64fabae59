---------------------- MODULE FastWalkAdapters_proofs -----------------------
(***************************************************************************)
(* Proofs about the adapters that ignore duplicates, anywhere in the list  *)
(* of adapters around walkFn: no directory is read twice and no file is    *)
(* called twice, whatever names they have, and where nothing fails they    *)
(* leave nothing out that can be reached.                                  *)
(***************************************************************************)
EXTENDS FastWalkCalls_proofs

-----------------------------------------------------------------------------
(* The types of a walk.                                                    *)

\* The variables of a walk keep their types, whatever adapters there are around walkFn:
\* a worker has a task exactly while it is in walk(), the filters hold nodes, and only
\* paths that were found are read (fastwalk.go:642-662, adapters.go:42-102).
THEOREM WalkTypeCorrect ==
  ASSUME AnyPath
  PROVE  WalkSafety => []WalkTypeOK
<1>1. WalkInv /\ SeenInv => WalkTypeOK
  BY DEF WalkInv, SeenInv, TaskInv, Task, HistInv, Seen, WalkTypeOK
<1>2. QED
  BY <1>1, SeenInvariant, PTL

-----------------------------------------------------------------------------
(* Duplicates.  The innermost adapter with a filter decides: it is asked   *)
(* before the walk enters a directory, under whatever name, and what it    *)
(* calls a duplicate no adapter around it lets pass.                       *)

HasFilter(i) == wrap[i] \in {"IgnoreDuplicateDirs", "IgnoreDuplicateFiles"}

Innermost(i) ==
  /\ HasFilter(i)
  /\ \A j \in DOMAIN wrap : j > i => wrap[j] = "IgnorePermissionErrors"

LEMMA SomeInnermost ==
  ASSUME setup \in Setups, NEW h \in DOMAIN wrap, HasFilter(h)
  PROVE  \E i \in DOMAIN wrap : Innermost(i)
<1> DEFINE A == {Len(wrap) - j : j \in {k \in DOMAIN wrap : HasFilter(k)}}
<1>1. DOMAIN wrap = 1 .. Len(wrap) /\ Len(wrap) \in Nat
  BY WrapType
<1>2. A \in SUBSET Nat /\ A # {}
  BY <1>1
<1>3. PICK m \in A : \A k \in A : m <= k
  <2> HIDE DEF A
  <2>1. QED  BY <1>2, LeastNumber
<1>4. PICK i \in DOMAIN wrap : HasFilter(i) /\ m = Len(wrap) - i
  OBVIOUS
<1>5. ASSUME NEW j \in DOMAIN wrap, j > i PROVE wrap[j] = "IgnorePermissionErrors"
  <2>1. ~HasFilter(j)
    <3>1. SUFFICES ASSUME HasFilter(j) PROVE FALSE
      OBVIOUS
    <3>2. Len(wrap) - j \in A
      BY <3>1
    <3> HIDE DEF A
    <3>3. Len(wrap) - i <= Len(wrap) - j
      BY <1>3, <1>4, <3>2
    <3>4. i \in Int /\ j \in Int /\ Len(wrap) \in Int
      BY <1>1
    <3>5. QED  BY <1>5, <3>3, <3>4
  <2>2. QED  BY <2>1, WrapType DEF HasFilter
<1>6. QED
  BY <1>4, <1>5 DEF Innermost

\* Every name of a directory is looked up as the directory.
LEMMA NamesOfDir ==
  ASSUME NEW n \in Node, IsDirNode(Resolve(n))
  PROVE  IsDirEntry(n) /\ StatNode(n) = Resolve(n) /\ Resolve(n) \in Node
<1>1. Resolve(n) \in Node
  BY ResolveType DEF IsDirNode
<1>2. Kind[n] = "dir" \/ Kind[n] = "link"
  BY DEF IsDirNode, Resolve
<1>3. QED
  BY <1>1, <1>2 DEF IsDirEntry, StatNode, HasDirBit, HasLinkBit, EntryType, Resolve, IsDirNode

\* Would the walk enter a directory after outcome x?  (A link that the user's function
\* itself asks to be traversed does not count.)
Passes(x, a) == x.ret = Nil \/ (x.ret = "TraverseLink" /\ a # "TraverseLink")

NewAt(i, n, a, s) ==
  {x \in Outcome(a, s) : Passes(x, a) => Resolve(n) \notin s[i] /\ Resolve(n) \in x.seen[i]}

LEMMA FilterAsked ==
  ASSUME setup \in Setups, NEW n \in Node, IsDirNode(Resolve(n)),
         NEW a \in Result, NEW s \in Seen,
         NEW i \in DOMAIN wrap, HasFilter(i), NEW x,
         x = [ret |-> a, seen |-> s, told |-> TRUE]
  PROVE  Adapter(i, n, Nil, s, Nil, x) \in NewAt(i, n, a, s)
<1>1. /\ IsDirEntry(n) /\ StatNode(n) = Resolve(n)
      /\ Resolve(n) \in Node /\ Resolve(n) # NoNode
      /\ i \in 1 .. Len(wrap)
  BY NamesOfDir, WrapType, TreeAssumption DEF TreeAssumption
<1>2. x \in Outcome(a, s)
  BY DEF Outcome
<1>3. Adapter(i, n, Nil, s, Nil, x) \in Outcome(a, s)
  BY <1>1, <1>2, AdapterOutcome
<1>4. /\ FilterEntry(n, s[i]) <=> Resolve(n) \in s[i]
      /\ Resolve(n) \in Record(n, s[i])
  BY <1>1 DEF FilterEntry, Record
<1>5. /\ [s EXCEPT ![i] = Record(n, @)][i] = Record(n, s[i])
      /\ Nil # "SkipDir" /\ x.ret = a /\ x.seen = s
  BY ResultNames DEF Seen
<1> DEFINE y == Adapter(i, n, Nil, s, Nil, x)
<1>6. CASE wrap[i] = "IgnoreDuplicateDirs"
  <2>1. y = IgnoreDuplicateDirs(i, n, s, Nil, x)
    BY <1>6 DEF Adapter
  <2>2. CASE a = "SkipDir"
    BY <1>3, <1>5, <2>1, <2>2 DEF IgnoreDuplicateDirs, NewAt, Passes
  <2>3. CASE a # "SkipDir"
    <3> DEFINE r == IF x.ret # Nil THEN x.ret ELSE IF FilterEntry(n, s[i]) THEN "SkipDir"
                    ELSE IF EntryType(n) = "link" THEN "TraverseLink" ELSE Nil
               t == [x.seen EXCEPT ![i] = Record(n, @)]
    <3>0. y = [ret |-> r, seen |-> t, told |-> x.told]
      BY <1>1, <1>5, <2>1, <2>3 DEF IgnoreDuplicateDirs
    <3> HIDE DEF y, r, t
    <3>1. /\ y.ret = IF a # Nil THEN a ELSE IF FilterEntry(n, s[i]) THEN "SkipDir"
                     ELSE IF EntryType(n) = "link" THEN "TraverseLink" ELSE Nil
          /\ y.seen = [s EXCEPT ![i] = Record(n, @)]
      BY <1>5, <3>0 DEF r, t
    <3> HIDE DEF y
    <3>2. Passes(y, a) => ~FilterEntry(n, s[i])
      BY <1>5, <3>1 DEF Passes
    <3>3. QED  BY <1>3, <1>4, <1>5, <3>1, <3>2 DEF NewAt, y
  <2>4. QED  BY <2>2, <2>3
<1>7. CASE wrap[i] = "IgnoreDuplicateFiles"
  <2>1. y = IgnoreDuplicateFiles(i, n, s, Nil, x)
    BY <1>7 DEF Adapter
  <2>2. CASE FilterEntry(n, s[i])
    BY <1>1, <1>3, <1>5, <2>1, <2>2 DEF IgnoreDuplicateFiles, NewAt, Passes
  <2>3. CASE ~FilterEntry(n, s[i])
    <3> DEFINE r == IF x.ret = Nil /\ EntryType(n) = "link" /\ IsDirEntry(n)
                    THEN "TraverseLink" ELSE x.ret
               t == [x.seen EXCEPT ![i] = Record(n, @)]
    <3>0. y = [ret |-> r, seen |-> t, told |-> x.told]
      BY <2>1, <2>3 DEF IgnoreDuplicateFiles
    <3> HIDE DEF y, r, t
    <3>1. y.seen = [s EXCEPT ![i] = Record(n, @)]
      BY <1>5, <3>0 DEF t
    <3>2. QED  BY <1>3, <1>4, <1>5, <2>3, <3>1 DEF NewAt, y
  <2>4. QED  BY <2>2, <2>3
<1>8. QED
  BY <1>6, <1>7 DEF HasFilter

LEMMA FilterObeyed ==
  ASSUME setup \in Setups, NEW n \in Node, IsDirNode(Resolve(n)),
         NEW a \in Result, NEW s \in Seen,
         NEW i \in DOMAIN wrap, NEW k \in 1 .. i - 1, NEW x \in NewAt(i, n, a, s)
  PROVE  Adapter(k, n, Nil, s, Nil, x) \in NewAt(i, n, a, s)
<1>1. /\ IsDirEntry(n) /\ k \in 1 .. Len(wrap) /\ k \in DOMAIN wrap
      /\ x \in Outcome(a, s) /\ x.seen \in Seen
      /\ Passes(x, a) => Resolve(n) \notin s[i] /\ Resolve(n) \in x.seen[i]
  BY NamesOfDir, WrapType DEF NewAt, Outcome
<1> DEFINE y == Adapter(k, n, Nil, s, Nil, x)
<1>2. y \in Outcome(a, s)
  BY <1>1, AdapterOutcome
<1>3. \A j \in DOMAIN wrap : x.seen[j] \subseteq [x.seen EXCEPT ![k] = Record(n, @)][j]
  BY <1>1, SeenMore
<1>4. Nil # "SkipDir" /\ Nil # "permission"
  BY ResultNames
<1>5. \/ y = x
      \/ y.ret = "SkipDir"
      \/ /\ y.seen = [x.seen EXCEPT ![k] = Record(n, @)]
         /\ y.ret = x.ret \/ x.ret = Nil
  BY <1>1, <1>4 DEF Adapter, IgnorePermissionErrors, IgnoreDuplicateDirs, IgnoreDuplicateFiles
<1> HIDE DEF y
<1>6. Passes(y, a) => Passes(x, a) /\ x.seen[i] \subseteq y.seen[i]
  BY <1>3, <1>4, <1>5 DEF Passes
<1>7. QED
  BY <1>1, <1>2, <1>6 DEF NewAt, y

\* A call after which the walk enters a directory was the first for any of its names.
LEMMA CallNew ==
  ASSUME setup \in Setups, NEW n \in Node, IsDirNode(Resolve(n)),
         NEW a \in Result, NEW s \in Seen, NEW i \in DOMAIN wrap, Innermost(i)
  PROVE  Call(n, Nil, a, s, Nil) \in NewAt(i, n, a, s)
<1> DEFINE X == [ret |-> a, seen |-> s, told |-> TRUE]
<1>1. PICK f : IsOutcome(f, n, Nil, a, s, Nil) /\ Call(n, Nil, a, s, Nil) = f[1]
  BY CallOutcome
<1>2. /\ Len(wrap) \in Nat /\ DOMAIN wrap = 1 .. Len(wrap) /\ i \in Nat
      /\ Len(wrap) + 1 \in 1 .. Len(wrap) + 1 /\ i + 1 \in 1 .. Len(wrap) + 1
      /\ i \in 1 .. Len(wrap) + 1 /\ 1 \in 1 .. i
  BY WrapType
<1>3. f[Len(wrap) + 1] = X /\ f[i] = Adapter(i, n, Nil, s, Nil, f[i + 1])
  BY <1>1, <1>2 DEF IsOutcome
<1> HIDE DEF X
<1>4. f[i + 1] \in {X}
  <2>1. ASSUME NEW k \in i + 1 .. (Len(wrap) + 1) - 1
        PROVE  Adapter(k, n, Nil, s, Nil, X) = X
    <3>1. wrap[k] = "IgnorePermissionErrors" /\ Nil # "permission"
      BY <1>2, ResultNames DEF Innermost
    <3>2. QED  BY <3>1 DEF Adapter, IgnorePermissionErrors
  <2> DEFINE O == {X}
  <2>2. \A k \in i + 1 .. (Len(wrap) + 1) - 1, x \in O : Adapter(k, n, Nil, s, Nil, x) \in O
    BY <2>1
  <2>3. i + 1 \in 1 .. Len(wrap) + 1 /\ f[Len(wrap) + 1] \in O
    BY <1>2, <1>3
  <2> HIDE DEF O
  <2>3a. f[i + 1] \in O
    BY <1>1, <1>2, <2>2, <2>3, CallOutward
  <2>4. QED  BY <2>3a DEF O
<1>5. f[i] \in NewAt(i, n, a, s)
  BY <1>3, <1>4, FilterAsked DEF Innermost, X
<1>6. \A k \in 1 .. i - 1, x \in NewAt(i, n, a, s) :
        Adapter(k, n, Nil, s, Nil, x) \in NewAt(i, n, a, s)
  BY FilterObeyed
<1>7. f[1] \in NewAt(i, n, a, s)
  BY <1>1, <1>2, <1>5, <1>6, CallOutward
<1>8. QED
  BY <1>1, <1>7

\* The paths the walk has entered or is going to enter as directories.
Entering ==
  {x.path : x \in {y \in found : y.callbackDone}}
  \cup {Dir(w) : w \in {v \in Walking : task[v].stage # "visit"}}
  \cup opened

\* The user's function leaves links to the adapters.
LinksLeftToAdapters == \A n \in Node : Kind[n] = "link" => "TraverseLink" \notin Replies[n]

LEMMA EnteringInit == WalkInit => Entering = {}
<1>1. SUFFICES ASSUME WalkInit PROVE Entering = {}
  OBVIOUS
<1>2. Walking = {} /\ found = {Root} /\ ~Root.callbackDone /\ opened = {}
  BY <1>1, WalkAssumption DEF WalkInit, PoolInit, Walking
<1>3. QED
  BY <1>2 DEF Entering

\* A path is entered for the first time after a call for it that the adapters let pass.
LEMMA EnteringStep ==
  ASSUME PoolInv, WalkInv, LinksLeftToAdapters, [WalkNext]_walkVars
  PROVE  \/ Entering' \subseteq Entering
         \/ \E p \in Path, a \in Result, r \in {Nil, "TraverseLink"} :
              /\ CallFn(p, Nil, a, r)
              /\ r = Nil \/ a # "TraverseLink"
              /\ Entering' \subseteq Entering \cup {p}
<1>1. TypeOK /\ ItemsFound /\ TaskInv /\ Nil \in Result
  BY ResultNames DEF PoolInv, IInv, WalkInv
<1>2. CASE QuietPool /\ UNCHANGED detail
  <2>1. /\ found' = found /\ Walking' = Walking /\ task' = task /\ opened' = opened
        /\ \A w \in Walking : Dir(w)' = Dir(w)
    BY <1>1, <1>2, QuietEffect DEF detail, Dir
  <2>2. QED  BY <2>1 DEF Entering
<1>3. ASSUME NEW w \in Worker, Take(w) PROVE Entering' \subseteq Entering
  <2>1. /\ found' = found /\ opened' = opened /\ Walking' = Walking \cup {w}
        /\ held'[w] \in found /\ Dir(w)' = held'[w].path
        /\ \A v \in Walking : Dir(v)' = Dir(v)
        /\ \A v \in Worker \ {w} : task'[v] = task[v]
        /\ w \notin Walking
    BY <1>1, <1>3, TakeEffect DEF Dir
  <2>2. task'[w].stage # "visit" => held'[w].callbackDone
    BY <1>1, <1>3, TakeEffect DEF NoTask
  <2>3. \A v \in Walking : v \in Worker \ {w}
    BY <2>1 DEF Walking
  <2>4. QED  BY <2>1, <2>2, <2>3 DEF Entering
<1>4. ASSUME NEW w \in Worker, task[w].stage # "visit", found' = found,
             opened' \subseteq opened \cup {Dir(w)},
             StopAtMaxDepth(w) \/ ReadDir(w) \/ EndDir(w) \/ ReportError(w)
      PROVE  Entering' \subseteq Entering
  <2>1. /\ w \in Walking /\ Walking' \subseteq Walking
        /\ \A v \in Walking' \ {w} : v \in Walking /\ task'[v] = task[v]
        /\ \A v : Dir(v)' = Dir(v)
    BY <1>4, OthersStay
  <2>2. QED  BY <1>4, <2>1 DEF Entering
<1>5. ASSUME NEW w \in Worker, StopAtMaxDepth(w) \/ ReadDir(w) \/ EndDir(w) \/ ReportError(w)
      PROVE  Entering' \subseteq Entering
  <2>1. found' = found
    BY <1>5, StageEffect
  <2>2. task[w].stage # "visit" /\ opened' \subseteq opened \cup {Dir(w)}
    BY <1>5 DEF StopAtMaxDepth, ReadDir, EndDir, ReportError, InStage
  <2>3. QED  BY <1>4, <1>5, <2>1, <2>2
<1>6. ASSUME NEW w \in Worker, Visit(w)
      PROVE  \/ Entering' \subseteq Entering
             \/ \E a \in Result :
                  CallFn(Dir(w), Nil, a, Nil) /\ Entering' \subseteq Entering \cup {Dir(w)}
  <2>1. /\ w \in Walking /\ Walking' \subseteq Walking /\ Dir(w) \in Path /\ found' = found
        /\ \A v \in Walking' \ {w} : v \in Walking /\ task'[v] = task[v]
        /\ \A v : Dir(v)' = Dir(v)
    BY <1>6, OthersStay, HeldItemFacts, StageEffect DEF PoolInv, IInv, WalkInv
  <2>2. PICK a \in UserAnswers(Dir(w), Nil), r \in Result :
          /\ CallFn(Dir(w), Nil, a, r)
          /\ r = Nil \/ Return(w, Nil) \/ Return(w, r)
    BY <1>6 DEF Visit
  <2>3. a \in Result /\ opened' = opened
    BY <1>1, <1>6, <2>1, AnswerType DEF Visit
  <2>4. CASE r = Nil
    <3>1. Entering' \subseteq Entering \cup {Dir(w)}
      BY <2>1, <2>3 DEF Entering
    <3>2. QED  BY <2>2, <2>3, <2>4, <3>1
  <2>5. CASE Return(w, Nil) \/ Return(w, r)
    <3>1. w \notin Walking'
      BY <1>1, <2>5, ReturnEffect
    <3>2. QED  BY <2>1, <2>3, <3>1 DEF Entering
  <2>6. QED  BY <2>2, <2>4, <2>5
<1>7. ASSUME NEW w \in Worker, SkipEntry(w) \/ EnqueueDir(w) \/ VisitEntry(w)
      PROVE  /\ Walking' = Walking /\ opened' = opened /\ w \in Walking
             /\ \A v : Dir(v)' = Dir(v)
             /\ {v \in Walking' : task'[v].stage # "visit"} = {v \in Walking : task[v].stage # "visit"}
  <2>1. /\ Walking' = Walking /\ opened' = opened /\ held' = held
        /\ task'[w].stage = "entries" /\ \A v \in Worker \ {w} : task'[v] = task[v]
    BY <1>7, EntryEffect
  <2>2. task[w].stage = "entries" /\ w \in Walking
    BY <1>7, EntryIsNew, EntryReached
  <2>3. \A v \in Walking : v \in Worker
    BY DEF Walking
  <2>4. QED  BY <2>1, <2>2, <2>3 DEF Dir
<1>8. ASSUME NEW w \in Worker, SkipEntry(w) \/ EnqueueDir(w)
      PROVE  Entering' \subseteq Entering
  <2>1. \/ found' = found
        \/ found' = found \cup {[path |-> EntryPath(w), callbackDone |-> FALSE]}
    BY <1>1, <1>8, ContinueEffect, EnqueueEffect DEF SkipEntry, EnqueueDir
  <2>2. {y \in found' : y.callbackDone} = {y \in found : y.callbackDone}
    BY <2>1
  <2>3. QED  BY <1>7, <1>8, <2>2 DEF Entering
<1>9. ASSUME NEW w \in Worker, VisitEntry(w)
      PROVE  \/ Entering' \subseteq Entering
             \/ \E a \in Result, r \in {Nil, "TraverseLink"} :
                  /\ CallFn(EntryPath(w), Nil, a, r)
                  /\ r = Nil \/ a # "TraverseLink"
                  /\ Entering' \subseteq Entering \cup {EntryPath(w)}
  <2>1. EntryPath(w) \in Path /\ Last(EntryPath(w)) \in Node
    BY <1>9, EntryIsNew, PathLast DEF VisitEntry
  <2>2. PICK a \in UserAnswers(EntryPath(w), Nil), r \in Result :
          /\ CallFn(EntryPath(w), Nil, a, r)
          /\ \/ /\ Traversed(EntryPath(w), r)
                /\ Enqueue(w, [path |-> EntryPath(w), callbackDone |-> TRUE], NextEntry(w))
             \/ \E t : Continue(w, t)
    BY <1>9 DEF VisitEntry
  <2>3. a \in Result
    BY <1>1, <2>1, AnswerType
  <2>4. CASE \E t : Continue(w, t)
    <3>1. found' = found
      BY <1>1, <2>4, ContinueEffect
    <3>2. QED  BY <1>7, <1>9, <3>1 DEF Entering
  <2>5. CASE /\ Traversed(EntryPath(w), r)
             /\ Enqueue(w, [path |-> EntryPath(w), callbackDone |-> TRUE], NextEntry(w))
    <3> DEFINE it == [path |-> EntryPath(w), callbackDone |-> TRUE]
    <3>1. found' = found \cup {it} /\ it.path = EntryPath(w)
      BY <1>1, <2>5, EnqueueEffect
    <3> HIDE DEF it
    <3>2. Entering' \subseteq Entering \cup {EntryPath(w)}
      BY <1>7, <1>9, <3>1 DEF Entering
    <3>3. r \in {Nil, "TraverseLink"} /\ Kind[Last(EntryPath(w))] = "link"
      BY <2>5 DEF Traversed, EntryType
    <3>4. a # "TraverseLink"
      BY <2>1, <2>2, <3>3 DEF LinksLeftToAdapters, UserAnswers
    <3>5. QED  BY <2>2, <2>3, <3>2, <3>3, <3>4
  <2>6. QED  BY <2>2, <2>4, <2>5
<1>10. QED
  <2>1. CASE \E w \in Worker : Visit(w)
    <3>1. PICK w \in Worker : Visit(w)
      BY <2>1
    <3>2. Dir(w) \in Path
      BY <3>1, OthersStay, HeldItemFacts DEF PoolInv, IInv, WalkInv
    <3>3. QED  BY <1>6, <3>1, <3>2
  <2>2. CASE \E w \in Worker : VisitEntry(w)
    <3>1. PICK w \in Worker : VisitEntry(w)
      BY <2>2
    <3>2. EntryPath(w) \in Path
      BY <3>1, EntryIsNew DEF VisitEntry
    <3>3. QED  BY <1>9, <3>1, <3>2
  <2>3. QED  BY <1>2, <1>3, <1>5, <1>8, <2>1, <2>2, StepKinds

\* Only directories are read.
OpenedInv == \A p \in opened : IsDirNode(Resolve(Last(p)))

LEMMA OpenedInvariant ==
  ASSUME AnyPath
  PROVE  WalkSafety => []OpenedInv
<1>1. WalkInit => OpenedInv
  BY DEF WalkInit, OpenedInv
<1>2. PoolInv /\ WalkInv /\ OpenedInv /\ [WalkNext]_walkVars => OpenedInv'
  <2>1. SUFFICES ASSUME PoolInv, WalkInv, OpenedInv, [WalkNext]_walkVars,
                        NEW p \in opened' \ opened
                 PROVE  IsDirNode(Resolve(Last(p)))
    BY DEF OpenedInv
  <2>2. PICK w \in Worker : ReadDir(w)
    <3>1. QuietPool /\ UNCHANGED detail => opened' = opened
      BY DEF detail
    <3>2. \A w \in Worker :
            Take(w) \/ Visit(w) \/ StopAtMaxDepth(w) \/ EndDir(w) \/ ReportError(w)
            \/ SkipEntry(w) \/ EnqueueDir(w) \/ VisitEntry(w) => opened' = opened
      BY DEF Take, Visit, StopAtMaxDepth, EndDir, ReportError, SkipEntry, EnqueueDir, VisitEntry
    <3>3. QED  BY <2>1, <3>1, <3>2, WalkCases
  <2>3. PICK r \in Readings(Resolve(Last(Dir(w))), Nil) :
          opened' = IF r.err = Nil THEN opened \cup {Dir(w)} ELSE opened
    BY <2>2 DEF ReadDir
  <2>4. p = Dir(w) /\ r.err = Nil
    BY <2>1, <2>3
  <2>5. "notdir" # Nil
    BY ResultNames
  <2>6. ~IsDirNode(Resolve(Last(Dir(w)))) => r.err = "notdir"
    BY <2>3 DEF Readings
  <2>7. QED  BY <2>4, <2>5, <2>6
<1>3. QED
  BY <1>1, <1>2, SeenInvariant, PTL DEF WalkSafety

\* The innermost filter holds every directory that was entered, and each under one name.
OnceInv ==
  \A i \in DOMAIN wrap : Innermost(i) =>
    \A p \in Entering : IsDirNode(Resolve(Last(p))) =>
      /\ Resolve(Last(p)) \in seen[i]
      /\ \A q \in Entering : Resolve(Last(q)) = Resolve(Last(p)) => q = p

LEMMA OnceInvStep ==
  ASSUME PoolInv, WalkInv, SeenInv, OnceInv, LinksLeftToAdapters, [WalkNext]_walkVars
  PROVE  OnceInv'
<1>1. setup \in Setups /\ setup' = setup /\ seen \in Seen
      /\ \A i \in DOMAIN wrap : seen[i] \subseteq seen'[i]
  BY HistoryGrows, SeenInvStep DEF WalkInv, TaskInv, SeenInv
<1>2. wrap' = wrap /\ \A i : Innermost(i)' <=> Innermost(i)
  BY <1>1 DEF wrap, Innermost, HasFilter
<1>3. SUFFICES ASSUME NEW i \in DOMAIN wrap, Innermost(i),
                      NEW p \in Entering', IsDirNode(Resolve(Last(p)))
               PROVE  /\ Resolve(Last(p)) \in seen'[i]
                      /\ \A q \in Entering' : Resolve(Last(q)) = Resolve(Last(p)) => q = p
  BY <1>2 DEF OnceInv
<1>4. CASE Entering' \subseteq Entering
  BY <1>1, <1>3, <1>4 DEF OnceInv
<1>5. ASSUME NEW c \in Path, NEW a \in Result, NEW r \in {Nil, "TraverseLink"},
             CallFn(c, Nil, a, r), r = Nil \/ a # "TraverseLink",
             Entering' \subseteq Entering \cup {c}
      PROVE  /\ Resolve(Last(p)) \in seen'[i]
             /\ \A q \in Entering' : Resolve(Last(q)) = Resolve(Last(p)) => q = p
  <2>1. IsDirNode(Resolve(Last(c))) =>
          Resolve(Last(c)) \notin seen[i] /\ Resolve(Last(c)) \in seen'[i]
    <3>1. SUFFICES ASSUME IsDirNode(Resolve(Last(c)))
                   PROVE  Resolve(Last(c)) \notin seen[i] /\ Resolve(Last(c)) \in seen'[i]
      OBVIOUS
    <3> DEFINE o == Call(Last(c), Nil, a, seen, Nil)
    <3>2. o \in NewAt(i, Last(c), a, seen)
      BY <1>1, <1>3, <3>1, PathLast, CallNew
    <3>3. o.ret = r /\ o.seen = seen'
      BY <1>5 DEF CallFn
    <3> HIDE DEF o
    <3>4. Passes(o, a)
      BY <1>5, <3>3 DEF Passes
    <3>5. QED  BY <3>2, <3>3, <3>4 DEF NewAt
  <2>2. \A q \in Entering : IsDirNode(Resolve(Last(q))) => Resolve(Last(q)) \in seen[i]
    BY <1>3 DEF OnceInv
  <2>3. CASE p \in Entering
    <3>1. \A q \in Entering : Resolve(Last(q)) = Resolve(Last(p)) => q = p
      BY <1>3, <2>3 DEF OnceInv
    <3>2. QED  BY <1>1, <1>3, <1>5, <2>1, <2>2, <2>3, <3>1
  <2>4. CASE p \notin Entering
    BY <1>3, <1>5, <2>1, <2>2, <2>4
  <2>5. QED  BY <2>3, <2>4
<1>6. QED
  BY <1>1, <1>4, <1>5, EnteringStep

\* With IgnoreDuplicateDirs or IgnoreDuplicateFiles among the adapters, whatever the
\* others are and however the links lead, no directory is read twice (adapters.go:21-29,
\* 42-64, 75-91): the workers that find it under other names ask the filter before they
\* enter it.
THEOREM DirsReadOnceAlways ==
  ASSUME AnyPath, LinksLeftToAdapters
  PROVE  WalkSafety => []DirsReadOnce
<1>1. WalkInit => OnceInv
  BY EnteringInit DEF OnceInv
<1>2. PoolInv /\ WalkInv /\ SeenInv /\ OnceInv /\ [WalkNext]_walkVars => OnceInv'
  BY OnceInvStep
<1>3. PoolInv /\ WalkInv /\ SeenInv /\ OpenedInv /\ OnceInv => DirsReadOnce
  <2>1. SUFFICES ASSUME WalkInv, OpenedInv, OnceInv,
                        Ignores("IgnoreDuplicateDirs") \/ Ignores("IgnoreDuplicateFiles"),
                        NEW p \in opened, NEW q \in opened,
                        Resolve(Last(p)) = Resolve(Last(q))
                 PROVE  p = q
    BY DEF DirsReadOnce
  <2>2. setup \in Setups
    BY <2>1 DEF WalkInv, TaskInv
  <2>3. \E h \in DOMAIN wrap : HasFilter(h)
    BY <2>1 DEF Ignores, Range, HasFilter
  <2>4. PICK i \in DOMAIN wrap : Innermost(i)
    BY <2>2, <2>3, SomeInnermost
  <2>5. p \in Entering /\ q \in Entering /\ IsDirNode(Resolve(Last(p)))
    BY <2>1 DEF Entering, OpenedInv
  <2>6. QED  BY <2>1, <2>4, <2>5 DEF OnceInv
<1>4. QED
  BY <1>1, <1>2, <1>3, OpenedInvariant, SeenInvariant, PTL DEF WalkSafety

-----------------------------------------------------------------------------
(* Files.  IgnoreDuplicateFiles asks its filter before it calls anything,  *)
(* wherever it stands among the adapters.                                  *)

TellsNew(i, n, a, s) ==
  {x \in Outcome(a, s) :
     x.told => ~FilterEntry(n, s[i]) /\ Record(n, s[i]) \subseteq x.seen[i]}

LEMMA CallTold ==
  ASSUME setup \in Setups, NEW n \in Node, NEW e, NEW a \in Result, NEW s \in Seen,
         NEW i \in DOMAIN wrap, wrap[i] = "IgnoreDuplicateFiles"
  PROVE  Call(n, e, a, s, Nil) \in TellsNew(i, n, a, s)
<1>1. PICK f : IsOutcome(f, n, e, a, s, Nil) /\ Call(n, e, a, s, Nil) = f[1]
  BY CallOutcome
<1>2. /\ Len(wrap) \in Nat /\ DOMAIN wrap = 1 .. Len(wrap) /\ i \in Nat
      /\ Len(wrap) + 1 \in 1 .. Len(wrap) + 1 /\ i + 1 \in 1 .. Len(wrap) + 1
      /\ i \in 1 .. Len(wrap) /\ i \in 1 .. Len(wrap) + 1 /\ 1 \in 1 .. i
      /\ (Len(wrap) + 1) - 1 = Len(wrap)
  BY WrapType
<1>3. f[i + 1] \in Outcome(a, s)
  <2>1. f[Len(wrap) + 1] \in Outcome(a, s)
    BY <1>1 DEF IsOutcome, Outcome
  <2>2. \A k \in i + 1 .. (Len(wrap) + 1) - 1, x \in Outcome(a, s) :
          Adapter(k, n, e, s, Nil, x) \in Outcome(a, s)
    BY <1>2, AdapterOutcome
  <2>3. QED  BY <1>1, <1>2, <2>1, <2>2, CallOutward
<1>4. f[i] \in TellsNew(i, n, a, s)
  <2> DEFINE x == f[i + 1]
  <2>1. f[i] \in Outcome(a, s)
    BY <1>1, <1>2, <1>3, AdapterOutcome DEF IsOutcome
  <2>2. f[i] = IgnoreDuplicateFiles(i, n, s, Nil, x)
    BY <1>1, <1>2 DEF IsOutcome, Adapter
  <2>3. x.seen \in Seen /\ s[i] \subseteq x.seen[i]
    BY <1>3 DEF Outcome
  <2> HIDE DEF x
  <2>4. [x.seen EXCEPT ![i] = Record(n, @)][i] = Record(n, x.seen[i])
    BY <2>3 DEF Seen
  <2>5. Record(n, s[i]) \subseteq Record(n, x.seen[i])
    BY <2>3 DEF Record
  <2>6. CASE FilterEntry(n, s[i])
    <3>1. f[i].told = FALSE
      BY <2>2, <2>6 DEF IgnoreDuplicateFiles
    <3>2. QED  BY <2>1, <3>1 DEF TellsNew
  <2>7. CASE ~FilterEntry(n, s[i])
    <3>1. f[i].seen = [x.seen EXCEPT ![i] = Record(n, @)]
      BY <2>2, <2>7 DEF IgnoreDuplicateFiles
    <3>2. QED  BY <2>1, <2>4, <2>5, <2>7, <3>1 DEF TellsNew
  <2>8. QED  BY <2>6, <2>7
<1>5. ASSUME NEW k \in 1 .. i - 1, NEW x \in TellsNew(i, n, a, s)
      PROVE  Adapter(k, n, e, s, Nil, x) \in TellsNew(i, n, a, s)
  <2> DEFINE y == Adapter(k, n, e, s, Nil, x)
  <2>1. /\ k \in 1 .. Len(wrap) /\ k \in DOMAIN wrap
        /\ x \in Outcome(a, s) /\ x.seen \in Seen
        /\ x.told => ~FilterEntry(n, s[i]) /\ Record(n, s[i]) \subseteq x.seen[i]
    BY <1>2 DEF TellsNew, Outcome
  <2>2. y \in Outcome(a, s)
    BY <2>1, AdapterOutcome
  <2>3. \A j \in DOMAIN wrap : x.seen[j] \subseteq [x.seen EXCEPT ![k] = Record(n, @)][j]
    BY <2>1, SeenMore
  <2>4. \/ y = x
        \/ y.told = FALSE
        \/ y.seen = [x.seen EXCEPT ![k] = Record(n, @)] /\ y.told = x.told
    BY DEF Adapter, IgnorePermissionErrors, IgnoreDuplicateDirs, IgnoreDuplicateFiles
  <2> HIDE DEF y
  <2>5. y.told => x.told /\ x.seen[i] \subseteq y.seen[i]
    BY <2>3, <2>4
  <2>6. QED  BY <2>1, <2>2, <2>5 DEF TellsNew, y
<1>6. \A k \in 1 .. i - 1, x \in TellsNew(i, n, a, s) :
        Adapter(k, n, e, s, Nil, x) \in TellsNew(i, n, a, s)
  BY <1>5
<1>7. f[1] \in TellsNew(i, n, a, s)
  BY <1>1, <1>2, <1>4, <1>6, CallOutward
<1>8. QED
  BY <1>1, <1>7

\* The portable filter cannot tell apart what it cannot stat.
LinksKnown == Impl = "portable" => \A n \in Node : Kind[n] = "link" => Target[n] # NoNode

FilesInv ==
  /\ LinksKnown
  /\ \A i \in DOMAIN wrap : wrap[i] = "IgnoreDuplicateFiles" =>
       /\ \A c \in Made : StatNode(Last(c.path)) \in seen[i]
       /\ \A c, d \in Made : StatNode(Last(c.path)) = StatNode(Last(d.path)) => c = d

LEMMA FilesInvStep ==
  ASSUME PoolInv, WalkInv, SeenInv, FilesInv, [WalkNext]_walkVars
  PROVE  FilesInv'
<1>1. setup \in Setups /\ setup' = setup /\ seen \in Seen
      /\ \A i \in DOMAIN wrap : seen[i] \subseteq seen'[i]
  BY HistoryGrows, SeenInvStep DEF WalkInv, TaskInv, SeenInv
<1>2. /\ wrap' = wrap /\ LinksKnown'
      /\ \A n : StatNode(n)' = StatNode(n)
  BY <1>1 DEF wrap, Impl, LinksKnown, FilesInv, StatNode, HasLinkBit, EntryType
<1>3. SUFFICES ASSUME NEW i \in DOMAIN wrap, wrap[i] = "IgnoreDuplicateFiles"
               PROVE  /\ \A c \in Made' : StatNode(Last(c.path)) \in seen'[i]
                      /\ \A c, d \in Made' :
                           StatNode(Last(c.path)) = StatNode(Last(d.path)) => c = d
  BY <1>2 DEF FilesInv
<1>4. /\ \A c \in Made : StatNode(Last(c.path)) \in seen[i]
      /\ \A c, d \in Made : StatNode(Last(c.path)) = StatNode(Last(d.path)) => c = d
  BY <1>3 DEF FilesInv
<1>5. CASE calls' = calls
  BY <1>1, <1>4, <1>5 DEF Made
<1>6. ASSUME NEW p \in Path, NEW e \in Result, NEW a \in Result, NEW r \in Result,
             CallFn(p, e, a, r), calls' # calls
      PROVE  /\ \A c \in Made' : StatNode(Last(c.path)) \in seen'[i]
             /\ \A c, d \in Made' :
                  StatNode(Last(c.path)) = StatNode(Last(d.path)) => c = d
  <2> DEFINE new == [path |-> p, err |-> e, ret |-> a]
             o == Call(Last(p), e, a, seen, Nil)
  <2>1. o \in TellsNew(i, Last(p), a, seen)
    BY <1>1, <1>3, PathLast, CallTold
  <2>2. /\ o.told /\ seen' = o.seen /\ calls' = calls (+) SetToBag({new})
    BY <1>6 DEF CallFn
  <2>3. Made' = Made \cup {new} /\ new.path = p
    BY <2>2, CallsGrow DEF Made, BagToSet
  <2> HIDE DEF o, new
  <2>4. ~FilterEntry(Last(p), seen[i]) /\ Record(Last(p), seen[i]) \subseteq seen'[i]
    BY <2>1, <2>2 DEF TellsNew
  <2>5. Last(p) \in Node
    BY PathLast
  <2>6. StatNode(Last(p)) # NoNode /\ StatNode(Last(p)) \notin seen[i]
    <3>1. CASE StatNode(Last(p)) = NoNode
      <4>1. Impl = "portable"
        BY <2>4, <3>1 DEF FilterEntry
      <4>2. Resolve(Last(p)) # NoNode /\ Last(p) # NoNode
        BY <2>5, <4>1, TreeAssumption DEF FilesInv, LinksKnown, Resolve, TreeAssumption
      <4>3. QED  BY <3>1, <4>2 DEF StatNode
    <3>2. CASE StatNode(Last(p)) # NoNode
      BY <2>4, <3>2 DEF FilterEntry
    <3>3. QED  BY <3>1, <3>2
  <2>7. StatNode(Last(p)) \in seen'[i]
    BY <2>4, <2>6 DEF Record
  <2>8. QED  BY <1>1, <1>4, <2>3, <2>6, <2>7
<1>7. QED
  BY <1>5, <1>6, SeenStep

\* With IgnoreDuplicateFiles among the adapters, whatever the others are, the user's
\* function is called once for a file, whichever workers find it under whatever names,
\* links included, and with an error or without (adapters.go:66-91).  Two broken links
\* are told apart by the portable filter's caller only, so there must be none there.
THEOREM FilesCalledOnceAlways ==
  ASSUME AnyPath
  PROVE  WalkSafety /\ LinksKnown => []FilesCalledOnce
<1>1. WalkInit /\ LinksKnown => FilesInv
  <2>1. SUFFICES ASSUME WalkInit, LinksKnown PROVE FilesInv
    OBVIOUS
  <2>2. Made = {}
    BY <2>1, NoCalls DEF WalkInit, Made, BagToSet
  <2>3. QED  BY <2>1, <2>2 DEF FilesInv
<1>2. PoolInv /\ WalkInv /\ SeenInv /\ FilesInv /\ [WalkNext]_walkVars => FilesInv'
  BY FilesInvStep
<1>3. WalkInv /\ FilesInv => FilesCalledOnce
  <2>1. SUFFICES ASSUME WalkInv, FilesInv, Ignores("IgnoreDuplicateFiles"),
                        NEW c \in Made, NEW d \in Made,
                        StatNode(Last(c.path)) = StatNode(Last(d.path))
                 PROVE  c = d /\ calls[c] = 1
    BY DEF FilesCalledOnce
  <2>2. \E i \in DOMAIN wrap : wrap[i] = "IgnoreDuplicateFiles"
    BY <2>1 DEF Ignores, Range
  <2>3. c = d
    BY <2>1, <2>2 DEF FilesInv
  <2>4. calls[c] = 1
    BY <2>1, <2>3 DEF WalkInv, CallInv, CalledOnce
  <2>5. QED  BY <2>3, <2>4
<1>4. QED
  BY <1>1, <1>2, <1>3, SeenInvariant, PTL DEF WalkSafety

-----------------------------------------------------------------------------
(* Completeness with adapters.  A filter may keep a directory or a file    *)
(* from the walk only when it has it already, so what can be reached at    *)
(* all is reached under one of its names.                                  *)

\* The file behind an entry, when the types of all entries are known.
LEMMA TypedNames ==
  ASSUME Typed, NEW n \in Node
  PROVE  /\ StatNode(n) = Resolve(n) /\ EntryType(n) = Kind[n]
         /\ IsDirEntry(n) <=> IsDirNode(Resolve(n))
         /\ n # NoNode
<1>1. EntryType(n) = Kind[n] /\ Kind[n] \in {"dir", "file", "link", "other"} /\ n # NoNode
  BY TreeAssumption DEF Typed, TreeAssumption
<1>2. StatNode(n) = Resolve(n)
  BY <1>1 DEF StatNode, HasLinkBit, Resolve
<1>3. QED
  BY <1>1, <1>2 DEF IsDirEntry, HasDirBit, HasLinkBit, IsDirNode, Resolve

\* A call puts nothing but the file it is made for into the filters.
Recorded(n, a, s) ==
  {x \in Outcome(a, s) : \A i \in DOMAIN wrap : x.seen[i] \subseteq s[i] \cup {StatNode(n)}}

LEMMA CallRecorded ==
  ASSUME setup \in Setups, NEW n \in Node, NEW e, NEW a \in Result, NEW s \in Seen
  PROVE  Call(n, e, a, s, Nil) \in Recorded(n, a, s)
<1>1. PICK f : IsOutcome(f, n, e, a, s, Nil) /\ Call(n, e, a, s, Nil) = f[1]
  BY CallOutcome
<1>2. /\ Len(wrap) \in Nat /\ DOMAIN wrap = 1 .. Len(wrap) /\ (Len(wrap) + 1) - 1 = Len(wrap)
      /\ Len(wrap) + 1 \in 1 .. Len(wrap) + 1 /\ 1 \in 1 .. Len(wrap) + 1
  BY WrapType
<1>3. f[Len(wrap) + 1] \in Recorded(n, a, s)
  BY <1>1 DEF IsOutcome, Outcome, Recorded
<1>4. ASSUME NEW i \in 1 .. (Len(wrap) + 1) - 1, NEW x \in Recorded(n, a, s)
      PROVE  Adapter(i, n, e, s, Nil, x) \in Recorded(n, a, s)
  <2> DEFINE y == Adapter(i, n, e, s, Nil, x)
  <2>1. x \in Outcome(a, s) /\ x.seen \in Seen /\ i \in DOMAIN wrap
        /\ \A j \in DOMAIN wrap : x.seen[j] \subseteq s[j] \cup {StatNode(n)}
    BY <1>2 DEF Recorded, Outcome
  <2>2. y \in Outcome(a, s)
    BY <1>2, <2>1, AdapterOutcome
  <2>3. y.seen = s \/ y.seen = x.seen \/ y.seen = [x.seen EXCEPT ![i] = Record(n, @)]
    BY DEF Adapter, IgnorePermissionErrors, IgnoreDuplicateDirs, IgnoreDuplicateFiles
  <2> HIDE DEF y
  <2>4. \A j \in DOMAIN wrap : y.seen[j] \subseteq s[j] \cup {StatNode(n)}
    BY <2>1, <2>3 DEF Seen, Record
  <2>5. QED  BY <2>2, <2>4 DEF Recorded, y
<1>5. f[1] \in Recorded(n, a, s)
  BY <1>1, <1>2, <1>3, <1>4, CallOutward
<1>6. QED
  BY <1>1, <1>5

\* What a call may come to when the user's function never objects.  A directory is
\* skipped, and a call kept from the user's function, only for a file in a filter.
Agreed(n, s) ==
  {x \in Outcome(Nil, s) :
     /\ x.ret \in {Nil, "SkipDir", "TraverseLink"}
     /\ x.ret # Nil => IsDirEntry(n)
     /\ x.ret = "TraverseLink" => EntryType(n) = "link"
     /\ x.ret = "SkipDir" => \E j \in DOMAIN wrap : StatNode(n) \in s[j]
     /\ \/ x.told \/ StatNode(n) = NoNode
        \/ \E j \in DOMAIN wrap :
             wrap[j] = "IgnoreDuplicateFiles" /\ StatNode(n) \in s[j]}

LEMMA AdapterAgreed ==
  ASSUME setup \in Setups, Typed, NEW n \in Node, NEW s \in Seen,
         NEW i \in 1 .. Len(wrap), NEW x \in Agreed(n, s)
  PROVE  Adapter(i, n, Nil, s, Nil, x) \in Agreed(n, s)
<1> DEFINE y == Adapter(i, n, Nil, s, Nil, x)
           kept == \/ StatNode(n) = NoNode
                   \/ \E j \in DOMAIN wrap :
                        wrap[j] = "IgnoreDuplicateFiles" /\ StatNode(n) \in s[j]
           dup == \E j \in DOMAIN wrap : StatNode(n) \in s[j]
<1>1. /\ x \in Outcome(Nil, s) /\ x.told \in BOOLEAN /\ i \in DOMAIN wrap
      /\ x.ret \in {Nil, "SkipDir", "TraverseLink"}
      /\ x.ret # Nil => IsDirEntry(n)
      /\ x.ret = "TraverseLink" => EntryType(n) = "link"
      /\ x.ret = "SkipDir" => dup
      /\ x.told \/ kept
  BY WrapType DEF Agreed, Outcome
<1>2. y \in Outcome(Nil, s)
  BY <1>1, ResultNames, AdapterOutcome
<1>3. Nil \notin {"SkipDir", "TraverseLink", "permission"}
  BY ResultNames
<1>4. IsDirEntry(n) => StatNode(n) # NoNode
  BY TypedNames DEF IsDirNode
<1>5. FilterEntry(n, s[i]) /\ IsDirEntry(n) => dup
  BY <1>1, <1>4 DEF FilterEntry
<1>6. wrap[i] = "IgnoreDuplicateFiles" /\ FilterEntry(n, s[i]) => kept
  BY <1>1 DEF FilterEntry
<1> HIDE DEF dup, kept
<1>7. \/ y.told = x.told /\ y.ret = x.ret
      \/ y.told = x.told /\ IsDirEntry(n) /\ y.ret = "SkipDir" /\ dup
      \/ y.told = x.told /\ IsDirEntry(n) /\ y.ret = "TraverseLink" /\ EntryType(n) = "link"
      \/ y.told = x.told /\ y.ret = Nil
      \/ y.told = FALSE /\ kept /\ IsDirEntry(n) /\ y.ret = "SkipDir" /\ dup
      \/ y.told = FALSE /\ kept /\ y.ret = Nil
  <2>1. CASE wrap[i] = "IgnorePermissionErrors"
    BY <1>3, <2>1 DEF Adapter, IgnorePermissionErrors
  <2>2. CASE wrap[i] = "IgnoreDuplicateDirs"
    BY <1>5, <2>2 DEF Adapter, IgnoreDuplicateDirs
  <2>3. CASE wrap[i] = "IgnoreDuplicateFiles"
    BY <1>5, <1>6, <2>3 DEF Adapter, IgnoreDuplicateFiles
  <2>4. QED  BY <1>1, <2>1, <2>2, <2>3, WrapType
<1> HIDE DEF y
<1>8. /\ y.ret \in {Nil, "SkipDir", "TraverseLink"}
      /\ y.ret # Nil => IsDirEntry(n)
      /\ y.ret = "TraverseLink" => EntryType(n) = "link"
      /\ y.ret = "SkipDir" => dup
      /\ y.told \/ kept
  BY <1>1, <1>3, <1>7
<1>9. y \in Agreed(n, s)
  BY <1>2, <1>8 DEF Agreed, dup, kept
<1>10. QED
  BY <1>9 DEF y

LEMMA CallAgreed ==
  ASSUME setup \in Setups, Typed, NEW n \in Node, NEW s \in Seen
  PROVE  /\ Call(n, Nil, Nil, s, Nil) \in Agreed(n, s)
         /\ \A h \in DOMAIN wrap :
              HasFilter(h) /\ Kind[n] = "link" /\ IsDirNode(Resolve(n)) =>
                Call(n, Nil, Nil, s, Nil).ret # Nil
<1>1. PICK f : IsOutcome(f, n, Nil, Nil, s, Nil) /\ Call(n, Nil, Nil, s, Nil) = f[1]
  BY CallOutcome
<1>2. /\ Len(wrap) \in Nat /\ DOMAIN wrap = 1 .. Len(wrap) /\ (Len(wrap) + 1) - 1 = Len(wrap)
      /\ Len(wrap) + 1 \in 1 .. Len(wrap) + 1 /\ 1 \in 1 .. Len(wrap) + 1
      /\ Nil \in Result /\ Nil \notin {"SkipDir", "TraverseLink", "permission"}
  BY WrapType, ResultNames
<1>3. f[Len(wrap) + 1] \in Agreed(n, s)
  BY <1>1, <1>2 DEF IsOutcome, Outcome, Agreed
<1>4. \A i \in 1 .. (Len(wrap) + 1) - 1, x \in Agreed(n, s) :
        Adapter(i, n, Nil, s, Nil, x) \in Agreed(n, s)
  BY <1>2, AdapterAgreed
<1>5. \A j \in 1 .. Len(wrap) + 1 : f[j] \in Agreed(n, s)
  <2>1. TAKE j \in 1 .. Len(wrap) + 1
  <2>2. \A i \in j .. (Len(wrap) + 1) - 1 : i \in 1 .. (Len(wrap) + 1) - 1
    BY <1>2
  <2>3. QED  BY <1>1, <1>2, <1>3, <1>4, <2>2, CallOutward
<1>6. ASSUME NEW h \in DOMAIN wrap, HasFilter(h), Kind[n] = "link", IsDirNode(Resolve(n))
      PROVE  f[1].ret # Nil
  <2> DEFINE O == {x \in Outcome(Nil, s) : x.ret # Nil}
             z == f[h + 1]
  <2>1. /\ h \in 1 .. Len(wrap) + 1 /\ h \in 1 .. Len(wrap) /\ 1 \in 1 .. h /\ h \in Nat
        /\ h + 1 \in 1 .. Len(wrap) + 1
    BY <1>2
  <2>2. f[h] = Adapter(h, n, Nil, s, Nil, z) /\ z \in Outcome(Nil, s) /\ f[h] \in Outcome(Nil, s)
    BY <1>1, <1>5, <2>1 DEF IsOutcome, Agreed
  <2>3. IsDirEntry(n) /\ EntryType(n) = "link"
    BY <1>6, TypedNames
  <2> HIDE DEF z
  <2>4. f[h].ret # Nil
    <3>1. CASE wrap[h] = "IgnoreDuplicateDirs"
      BY <1>2, <2>2, <2>3, <3>1 DEF Adapter, IgnoreDuplicateDirs
    <3>2. CASE wrap[h] = "IgnoreDuplicateFiles"
      BY <1>2, <2>2, <2>3, <3>2 DEF Adapter, IgnoreDuplicateFiles
    <3>3. QED  BY <1>6, <3>1, <3>2 DEF HasFilter
  <2>5. ASSUME NEW i \in 1 .. h - 1, NEW x \in O
        PROVE  Adapter(i, n, Nil, s, Nil, x) \in O
    <3>1. i \in 1 .. Len(wrap) /\ x \in Outcome(Nil, s) /\ x.ret # Nil
      BY <1>2, <2>1
    <3>2. Adapter(i, n, Nil, s, Nil, x) \in Outcome(Nil, s)
      BY <1>2, <3>1, AdapterOutcome
    <3>3. Adapter(i, n, Nil, s, Nil, x).ret # Nil
      BY <1>2, <2>3, <3>1
      DEF Adapter, IgnorePermissionErrors, IgnoreDuplicateDirs, IgnoreDuplicateFiles
    <3>4. QED  BY <3>2, <3>3
  <2>6. f[h] \in O
    BY <2>2, <2>4
  <2>7. f[1] \in O
    <3> HIDE DEF O
    <3>1. \A i \in 1 .. h - 1, x \in O : Adapter(i, n, Nil, s, Nil, x) \in O
      BY <2>5
    <3>2. QED  BY <1>1, <2>1, <2>6, <3>1, CallOutward
  <2>8. QED  BY <2>7
<1>7. f[1] \in Agreed(n, s)
  BY <1>2, <1>5
<1>8. QED
  BY <1>1, <1>6, <1>7

\* The directories among the ends of the paths the walk has entered, and the files that
\* walkFn was called for.
Entered == {DirNode(p) : p \in {q \in Entering : IsDirNode(DirNode(q))}}
Told    == {StatNode(Last(c.path)) : c \in Made}

Covers(n) == n = NoNode \/ (n \in Told /\ (IsDirNode(n) => n \in Entered))

\* Every directory can be read, walkFn never objects to anything, and every link to a
\* directory is to be followed: by Follow from the root of a file system, or by a filter.
AllReadable  == Denied = {} /\ Flaky = {} /\ Vanished = {}
NoObjections == \A n \in Node : Replies[n] \subseteq {Nil}
LinksLead    == /\ Follow \/ \E i \in DOMAIN wrap : HasFilter(i)
                /\ Follow => Above = <<>>
Unlimited    == Typed /\ MaxDepth <= 0 /\ LinksLead

\* The filters hold only what is covered.
FiltersCovered ==
  \A i \in DOMAIN wrap :
    /\ \A d \in seen[i] : IsDirNode(d) => d \in Entered
    /\ wrap[i] = "IgnoreDuplicateFiles" => seen[i] \subseteq Told \cup {NoNode}

\* The directories on the way to an item were entered.
WaysEntered ==
  \A x \in found : \A i \in 1 .. Len(x.path) - 1 : Resolve(x.path[i]) \in Entered

\* A directory is opened and read to its end, and what is not one is reported.
ReadThrough ==
  \A w \in Walking :
    /\ task[w].stage = "entries" =>
         /\ ~task[w].skipFiles
         /\ IF IsDirNode(DirNode(Dir(w))) THEN Dir(w) \in opened /\ task[w].err = Nil
            ELSE task[w].rest = <<>>
    /\ task[w].stage = "report" => ~IsDirNode(DirNode(Dir(w)))

WalkedCovered ==
  \A x \in walked :
    /\ Covers(DirNode(x.path))
    /\ x.callbackDone /\ IsDirNode(DirNode(x.path)) => x.path \in opened

\* What a worker still has to look at, what was found and what is covered make up every
\* directory that was opened.
OpenedCovered ==
  \A p \in opened : \A n \in Range(Kids[DirNode(p)]) :
    \/ \E w \in Walking :
         Dir(w) = p /\ task[w].stage = "entries" /\ n \in Range(task[w].rest)
    \/ \E x \in found : x.path = Append(p, n)
    \/ Covers(Resolve(n))

CoverInv ==
  Root \in found /\ FiltersCovered /\ WaysEntered /\ ReadThrough /\ WalkedCovered /\ OpenedCovered

\* All that the proof that CoverInv is kept starts from.
WholeInv == WrappedInv /\ SkippingInv /\ Unlimited /\ CoverInv

LEMMA UnlimitedStays ==
  ASSUME Unlimited, setup' = setup
  PROVE  Unlimited'
BY DEF Unlimited, Typed, EntryType, Impl, MaxDepth, LinksLead, Follow, wrap, HasFilter

\* An entered path is not left again before it was opened.
LEMMA EnteringGrows ==
  ASSUME WholeInv, AllReadable, [WalkNext]_walkVars
  PROVE  /\ Entered \subseteq Entered' /\ Told \subseteq Told'
         /\ \A n : Covers(n) => Covers(n)'
<1>1. /\ PoolInv /\ WalkInv /\ TypeOK /\ TaskInv /\ ItemsFound /\ CoverInv
      /\ ~(MaxDepth > 0) /\ setup \in Setups
  BY MaxDepthType DEF WholeInv, SkippingInv, PoolInv, IInv, WalkInv, TaskInv, Unlimited
<1>2. /\ Made \subseteq Made' /\ found \subseteq found' /\ opened \subseteq opened'
      /\ setup' = setup
  BY <1>1, HistoryGrows
<1>3. Told \subseteq Told'
  BY <1>2 DEF Told, StatNode, HasLinkBit, EntryType, Impl
<1>4. ASSUME NEW p \in Entering, IsDirNode(DirNode(p)) PROVE p \in Entering'
  <2>1. CASE p \in opened \/ \E x \in found : x.callbackDone /\ x.path = p
    BY <1>2, <2>1 DEF Entering
  <2>2. ASSUME NEW w \in Walking, task[w].stage # "visit", p = Dir(w)
        PROVE  p \in Entering'
    <3>1. w \in Worker
      BY <2>2 DEF Walking
    <3>2. CASE w \in Walking' /\ task'[w].stage # "visit" /\ Dir(w)' = Dir(w)
      BY <2>2, <3>2 DEF Entering
    <3>3. CASE QuietPool /\ UNCHANGED detail
      BY <1>1, <2>2, <3>2, <3>3, QuietEffect DEF detail, Dir
    <3>4. ASSUME NEW v \in Worker, Take(v) PROVE p \in Entering'
      BY <1>1, <2>2, <3>1, <3>2, <3>4, TakeEffect DEF Dir
    <3>5. ASSUME NEW v \in Worker \ {w},
                 Visit(v) \/ StopAtMaxDepth(v) \/ ReadDir(v) \/ EndDir(v) \/ ReportError(v)
                 \/ SkipEntry(v) \/ EnqueueDir(v) \/ VisitEntry(v)
          PROVE  p \in Entering'
      <4>1. w \in Walking' /\ Dir(w)' = Dir(w) /\ task'[w] = task[w]
        BY <1>1, <2>2, <3>1, <3>5, OthersStay
      <4>2. QED  BY <2>2, <3>2, <4>1
    <3>6. CASE SkipEntry(w) \/ EnqueueDir(w) \/ VisitEntry(w)
      BY <1>1, <2>2, <3>1, <3>2, <3>6, EntryEffect, OthersStay
    <3>7. CASE Visit(w)
      BY <2>2, <3>7 DEF Visit, InStage
    <3>8. CASE StopAtMaxDepth(w)
      BY <1>1, <3>8 DEF StopAtMaxDepth, TooDeep
    <3>9. CASE ReadDir(w)
      BY <1>1, <2>2, <3>1, <3>2, <3>9, StageEffect, OthersStay, ReadEffect DEF Stays
    <3>10. CASE EndDir(w) \/ ReportError(w)
      <4>1. task[w].stage = "entries" \/ task[w].stage = "report"
        BY <3>10 DEF EndDir, ReportError, InStage
      <4>2. p \in opened
        BY <1>1, <1>4, <2>2, <4>1 DEF CoverInv, ReadThrough
      <4>3. QED  BY <2>1, <4>2
    <3>11. QED
      BY <3>3, <3>4, <3>5, <3>6, <3>7, <3>8, <3>9, <3>10, <3>1, StepKinds
  <2>3. QED  BY <2>1, <2>2 DEF Entering
<1>5. Entered \subseteq Entered'
  BY <1>4 DEF Entered, DirNode
<1>6. QED
  BY <1>3, <1>5 DEF Covers

\* A call of walkFn, when it never objects.
LEMMA AgreedCall ==
  ASSUME setup \in Setups, setup' = setup, seen \in Seen, Typed,
         NEW p \in Path, NEW r, CallFn(p, Nil, Nil, r)
  PROVE  /\ r \in {Nil, "SkipDir", "TraverseLink"}
         /\ r # Nil => IsDirNode(DirNode(p))
         /\ r = "TraverseLink" => Kind[Last(p)] = "link"
         /\ r = "SkipDir" => \E j \in DOMAIN wrap : DirNode(p) \in seen[j]
         /\ \/ DirNode(p) \in Told' \/ DirNode(p) = NoNode
            \/ \E j \in DOMAIN wrap :
                 wrap[j] = "IgnoreDuplicateFiles" /\ DirNode(p) \in seen[j]
         /\ \A i \in DOMAIN wrap : seen'[i] \subseteq seen[i] \cup {DirNode(p)}
         /\ \A h \in DOMAIN wrap :
              HasFilter(h) /\ Kind[Last(p)] = "link" /\ IsDirNode(DirNode(p)) => r # Nil
<1> DEFINE o == Call(Last(p), Nil, Nil, seen, Nil)
<1>1. Last(p) \in Node /\ Nil \in Result
  BY PathLast, ResultNames
<1>2. StatNode(Last(p)) = DirNode(p) /\ EntryType(Last(p)) = Kind[Last(p)]
      /\ (IsDirEntry(Last(p)) <=> IsDirNode(DirNode(p)))
  BY <1>1, TypedNames DEF DirNode
<1>3. /\ o \in Agreed(Last(p), seen) /\ o \in Recorded(Last(p), Nil, seen)
      /\ \A h \in DOMAIN wrap :
           HasFilter(h) /\ Kind[Last(p)] = "link" /\ IsDirNode(DirNode(p)) => o.ret # Nil
  BY <1>1, CallAgreed, CallRecorded DEF DirNode
<1>4. /\ r = o.ret /\ seen' = o.seen
      /\ calls' = IF o.told THEN calls (+) SetToBag({[path |-> p, err |-> Nil, ret |-> Nil]})
                  ELSE calls
  BY DEF CallFn
<1> HIDE DEF o
<1>5. o.told => DirNode(p) \in Told'
  <2> DEFINE c == [path |-> p, err |-> Nil, ret |-> Nil]
  <2>1. SUFFICES ASSUME o.told PROVE DirNode(p) \in Told'
    OBVIOUS
  <2>2. Made' = Made \cup {c} /\ c.path = p
    BY <1>4, <2>1, CallsGrow DEF Made, BagToSet
  <2> HIDE DEF c
  <2>3. c \in Made' /\ StatNode(Last(c.path))' = DirNode(p)
    BY <1>2, <2>2 DEF StatNode, HasLinkBit, EntryType, Impl
  <2>4. QED  BY <2>3 DEF Told
<1>6. QED
  BY <1>2, <1>3, <1>4, <1>5 DEF Agreed, Recorded

\* The root is entered before any directory is read.
LEMMA TopEntered ==
  ASSUME WholeInv, NEW w \in Walking, task[w].stage # "visit", IsDirNode(Top)
  PROVE  Top \in Entered
<1>1. PoolInv /\ WalkInv /\ CoverInv /\ RootFirst
  BY DEF WholeInv, WrappedInv, FollowInv
<1>2. DirNode(Root.path) = Top /\ held[w] \in found
  BY <1>1, TopPath, HeldItemFacts, TreeAssumption
  DEF PoolInv, IInv, WalkInv, DirNode, Resolve, TreeAssumption
<1>3. VisitDone(Root)
  BY <1>1, <1>2 DEF RootFirst, VisitDone
<1>4. CASE Root \in walked
  BY <1>1, <1>2, <1>4, TreeAssumption DEF CoverInv, WalkedCovered, Covers, TreeAssumption
<1>5. ASSUME NEW v \in Walking, held[v] = Root, task[v].stage # "visit"
      PROVE  Top \in Entered
  <2>1. PICK p : p = Dir(v) /\ p \in Entering
    BY <1>5 DEF Entering
  <2>2. DirNode(p) = Top
    BY <1>2, <1>5, <2>1 DEF Dir
  <2>3. QED  BY <2>1, <2>2 DEF Entered
<1>6. QED
  BY <1>3, <1>4, <1>5 DEF VisitDone

\* A call covers the file it is made for, if the walk goes on to enter it when it is a
\* directory that was not entered yet.
LEMMA CallCovers ==
  ASSUME WholeInv, AllReadable, [WalkNext]_walkVars,
         NEW p \in Path, NEW r, CallFn(p, Nil, Nil, r),
         IsDirNode(DirNode(p)) /\ DirNode(p) \notin Entered /\ r # "SkipDir" =>
           DirNode(p) \in Entered'
  PROVE  Covers(DirNode(p))' /\ FiltersCovered'
<1>1. /\ setup \in Setups /\ setup' = setup /\ seen \in Seen /\ Typed /\ FiltersCovered
      /\ PoolInv /\ WalkInv
  BY HistoryGrows
  DEF WholeInv, SkippingInv, SeenInv, WalkInv, TaskInv, CoverInv
<1>2. Entered \subseteq Entered' /\ Told \subseteq Told'
  BY EnteringGrows
<1>3. DirNode(p) \in Told' \cup {NoNode}
  BY <1>1, <1>2, AgreedCall DEF FiltersCovered
<1>4. IsDirNode(DirNode(p)) => DirNode(p) \in Entered'
  <2>1. r = "SkipDir" /\ IsDirNode(DirNode(p)) => DirNode(p) \in Entered
    BY <1>1, AgreedCall DEF FiltersCovered
  <2>2. QED  BY <1>2, <2>1
<1>5. PICK d : d = DirNode(p)
  OBVIOUS
<1>6. Covers(DirNode(p))'
  BY <1>3, <1>4 DEF Covers, DirNode
<1>7. wrap' = wrap /\ \A i \in DOMAIN wrap : seen'[i] \subseteq seen[i] \cup {d}
  BY <1>1, <1>5, AgreedCall DEF wrap
<1>8. FiltersCovered'
  BY <1>1, <1>2, <1>3, <1>4, <1>5, <1>7 DEF FiltersCovered
<1>9. QED
  BY <1>6, <1>8

\* walk() enters the directory it visits, unless a filter has it already.
LEMMA VisitCovers ==
  ASSUME WholeInv, AllReadable, NoObjections, [WalkNext]_walkVars, NEW w \in Worker, Visit(w)
  PROVE  Covers(DirNode(Dir(w)))' /\ FiltersCovered'
<1>1. /\ PoolInv /\ WalkInv /\ TypeOK /\ TaskInv /\ setup \in Setups /\ setup' = setup
      /\ seen \in Seen /\ Typed /\ SkipInv
  BY HistoryGrows DEF WholeInv, SkippingInv, SeenInv, PoolInv, IInv, WalkInv, TaskInv
<1>2. /\ w \in Walking /\ Dir(w) \in Path /\ held[w] \in found /\ ~held[w].callbackDone
      /\ Dir(w)' = Dir(w) /\ DirNode(Dir(w)) = Resolve(Last(Dir(w)))
  BY <1>1, OthersStay, HeldItemFacts
  DEF PoolInv, IInv, WalkInv, TaskInv, Visit, InStage, DirNode
<1>3. PICK a \in UserAnswers(Dir(w), Nil), r \in Result :
        /\ CallFn(Dir(w), Nil, a, r)
        /\ r = Nil => Continue(w, [task[w] EXCEPT !.stage = "descend"])
  BY ResultNames DEF Visit
<1>4. a = Nil /\ Last(Dir(w)) \in Node
  BY <1>2, <1>3, PathLast DEF UserAnswers, NoObjections
<1>5. r \in {Nil, "SkipDir"}
  <2>1. Kind[Last(Dir(w))] # "link"
    BY <1>1, <1>2, TopPath, TreeAssumption DEF SkipInv, Dir, TreeAssumption
  <2>2. QED  BY <1>1, <1>2, <1>3, <1>4, <2>1, AgreedCall
<1>6. PICK p : p = Dir(w)
  OBVIOUS
<1>7. r = Nil => p \in Entering'
  <2>1. SUFFICES ASSUME r = Nil PROVE p \in Entering'
    OBVIOUS
  <2>2. w \in Walking' /\ task'[w] = [task[w] EXCEPT !.stage = "descend"] /\ task[w] \in Task
    BY <1>1, <1>3, <2>1, ContinueEffect DEF TaskInv
  <2>3. task'[w].stage # "visit"
    BY <2>2 DEF Task
  <2>4. QED  BY <1>2, <1>6, <2>2, <2>3 DEF Entering
<1>8. IsDirNode(DirNode(p)) /\ r # "SkipDir" => DirNode(p) \in Entered'
  BY <1>5, <1>7 DEF Entered, DirNode
<1>9. Covers(DirNode(p))' /\ FiltersCovered'
  BY <1>2, <1>3, <1>4, <1>6, <1>8, CallCovers
<1>10. QED
  BY <1>2, <1>6, <1>9 DEF DirNode

\* onDirEnt traverses a link to a directory that was not entered yet, and goes on to the
\* next entry whatever it met.
LEMMA EntryCovers ==
  ASSUME WholeInv, AllReadable, NoObjections, [WalkNext]_walkVars,
         NEW w \in Worker, VisitEntry(w), NEW d, d = Resolve(Entry(w))
  PROVE  /\ Covers(d)' /\ FiltersCovered' /\ Stays(w, NextEntry(w))
         /\ \A x \in found' \ found : x.path = EntryPath(w)
<1>1. /\ PoolInv /\ WalkInv /\ TypeOK /\ TaskInv /\ setup \in Setups /\ setup' = setup
      /\ seen \in Seen /\ Typed /\ CoverInv /\ Unlimited /\ TaskInv
  BY HistoryGrows DEF WholeInv, SkippingInv, SeenInv, PoolInv, IInv, WalkInv, TaskInv, Unlimited
<1>2. AtEntry(w) /\ EntryType(Entry(w)) # "dir"
  BY DEF VisitEntry
<1>3. /\ w \in Walking /\ held[w] \in found /\ task[w].stage = "entries"
      /\ Entry(w) \in Node /\ Dir(w) \in Path /\ EntryPath(w) \in Path
      /\ EntryPath(w) = Append(Dir(w), Entry(w)) /\ Last(EntryPath(w)) = Entry(w)
      /\ Len(EntryPath(w)) = Len(Dir(w)) + 1 /\ Len(Dir(w)) \in Nat \ {0}
  BY <1>1, <1>2, EntryIsNew, PathLast
<1>4. /\ DirNode(EntryPath(w)) = Resolve(Entry(w)) /\ EntryType(Entry(w)) = Kind[Entry(w)]
      /\ IsDirNode(Resolve(Entry(w))) => Kind[Entry(w)] = "link"
  BY <1>1, <1>2, <1>3, TypedNames DEF DirNode, Resolve, IsDirNode
<1>5. PICK a \in UserAnswers(EntryPath(w), Nil), r \in Result :
        LET e == EntryError(Entry(w), r)
        IN  /\ CallFn(EntryPath(w), Nil, a, r)
            /\ \/ /\ Traversed(EntryPath(w), r)
                  /\ Enqueue(w, [path |-> EntryPath(w), callbackDone |-> TRUE], NextEntry(w))
               \/ /\ ~Traversed(EntryPath(w), r)
                  /\ \/ e = Nil /\ Continue(w, NextEntry(w))
                     \/ e = "SkipFiles" /\ Continue(w, [NextEntry(w) EXCEPT !.skipFiles = TRUE])
                     \/ e \notin {Nil, "SkipFiles"} /\ Continue(w, LeaveLoop(w, e))
  BY DEF VisitEntry
<1>6. a = Nil
  BY <1>3, <1>5 DEF UserAnswers, NoObjections
<1>7. /\ r \in {Nil, "SkipDir", "TraverseLink"} /\ (r # Nil => Kind[Entry(w)] = "link")
      /\ \A h \in DOMAIN wrap :
           HasFilter(h) /\ IsDirNode(Resolve(Entry(w))) => r # Nil
  BY <1>1, <1>3, <1>4, <1>5, <1>6, AgreedCall
<1>8. \/ Traversed(EntryPath(w), r)
      \/ EntryError(Entry(w), r) = Nil
  BY <1>3, <1>4, <1>7 DEF Traversed, EntryError
<1>9. Nil # "SkipFiles"
  BY ResultNames
<1>10. /\ Stays(w, NextEntry(w)) /\ \A x \in found' \ found : x.path = EntryPath(w)
       /\ Traversed(EntryPath(w), r) => EntryPath(w) \in Entering'
  <2>1. CASE Enqueue(w, [path |-> EntryPath(w), callbackDone |-> TRUE], NextEntry(w))
    <3> DEFINE it == [path |-> EntryPath(w), callbackDone |-> TRUE]
    <3>1. Stays(w, NextEntry(w)) /\ found' = found \cup {it}
      BY <1>1, <2>1, EnqueueEffect DEF Stays
    <3>2. it.path = EntryPath(w) /\ it.callbackDone
      OBVIOUS
    <3> HIDE DEF it
    <3>3. QED  BY <3>1, <3>2 DEF Entering
  <2>2. CASE ~Traversed(EntryPath(w), r) /\ Continue(w, NextEntry(w))
    BY <1>1, <2>2, ContinueEffect DEF Stays
  <2>3. QED  BY <1>5, <1>8, <1>9, <2>1, <2>2
<1>11. IsDirNode(Resolve(Entry(w))) /\ Resolve(Entry(w)) \notin Entered /\ r # "SkipDir" =>
         Traversed(EntryPath(w), r)
  <2>1. SUFFICES ASSUME IsDirNode(Resolve(Entry(w))), Resolve(Entry(w)) \notin Entered,
                        r # "SkipDir"
                 PROVE  Traversed(EntryPath(w), r)
    OBVIOUS
  <2>2. Kind[Entry(w)] = "link"
    BY <1>4, <2>1
  <2>3. Resolve(Entry(w)) # Top
    BY <1>3, <2>1, TopEntered
  <2>4. ASSUME NEW i \in 1 .. Len(EntryPath(w)) - 1
        PROVE  Resolve(EntryPath(w)[i]) # Resolve(Entry(w))
    <3>1. i \in 1 .. Len(Dir(w)) /\ EntryPath(w)[i] = Dir(w)[i]
      BY <1>3, AppendProperties DEF Path
    <3>2. CASE i = Len(Dir(w))
      <4>1. Dir(w) \in Entering /\ DirNode(Dir(w)) = Resolve(Dir(w)[i])
        BY <1>3, <3>2 DEF Entering, DirNode, Last
      <4>2. QED  BY <2>1, <3>1, <4>1 DEF Entered
    <3>3. CASE i # Len(Dir(w))
      <4>1. i \in 1 .. Len(held[w].path) - 1
        BY <1>3, <3>1, <3>3 DEF Dir
      <4>2. Resolve(Dir(w)[i]) \in Entered
        BY <1>1, <1>3, <4>1 DEF CoverInv, WaysEntered, Dir
      <4>3. QED  BY <2>1, <3>1, <4>2
    <3>4. QED  BY <3>2, <3>3
  <2>5. CASE Follow
    <3>1. Above = <<>>
      BY <1>1, <2>5 DEF Unlimited, LinksLead
    <3>2. ShouldTraverse(EntryPath(w))
      BY <1>3, <2>1, <2>3, <2>4, <3>1 DEF ShouldTraverse
    <3>3. QED  BY <1>3, <1>4, <1>7, <2>1, <2>2, <2>5, <3>2 DEF Traversed
  <2>6. CASE ~Follow
    <3>1. r # Nil
      BY <1>1, <1>7, <2>1, <2>6 DEF Unlimited, LinksLead
    <3>2. QED  BY <1>3, <1>4, <1>7, <2>1, <2>2, <2>6, <3>1 DEF Traversed
  <2>7. QED  BY <2>5, <2>6
<1>12. PICK p : p = EntryPath(w)
  OBVIOUS
<1>13. IsDirNode(DirNode(p)) /\ DirNode(p) \notin Entered /\ r # "SkipDir" =>
         DirNode(p) \in Entered'
  <2>1. SUFFICES ASSUME IsDirNode(DirNode(p)), DirNode(p) \notin Entered, r # "SkipDir"
                 PROVE  DirNode(p) \in Entered'
    OBVIOUS
  <2>2. p \in Entering'
    BY <1>4, <1>10, <1>11, <1>12, <2>1
  <2>3. QED  BY <2>1, <2>2 DEF Entered, DirNode
<1>14. Covers(DirNode(p))' /\ FiltersCovered'
  BY <1>3, <1>5, <1>6, <1>12, <1>13, CallCovers
<1>15. Covers(d)'
  BY <1>4, <1>12, <1>14 DEF DirNode
<1>16. QED
  BY <1>10, <1>14, <1>15

\* walkFn was called for a directory that walk() goes on with.
LEMMA EnteredTold ==
  ASSUME WholeInv, NEW w \in Walking, task[w].stage # "visit"
  PROVE  DirNode(Dir(w)) \in Told
<1>1. PICK c \in Made : c.path = Dir(w)
  BY DEF WholeInv, WrappedInv, FollowInv, Descended
<1>2. Last(Dir(w)) \in Node /\ Typed
  BY HeldItemFacts, PathLast DEF WholeInv, SkippingInv, PoolInv, IInv, WalkInv
<1>3. StatNode(Last(c.path)) = DirNode(Dir(w))
  BY <1>1, <1>2, TypedNames DEF DirNode
<1>4. QED
  BY <1>3 DEF Told

LEMMA FiltersCoveredStep ==
  ASSUME WholeInv, AllReadable, NoObjections, [WalkNext]_walkVars
  PROVE  FiltersCovered'
<1>1. /\ PoolInv /\ WalkInv /\ TypeOK /\ TaskInv /\ ItemsFound /\ setup \in Setups /\ setup' = setup
      /\ seen \in Seen /\ Typed /\ CoverInv /\ FiltersCovered
  BY HistoryGrows
  DEF WholeInv, SkippingInv, SeenInv, PoolInv, IInv, WalkInv, TaskInv, CoverInv
<1>2. Entered \subseteq Entered' /\ Told \subseteq Told' /\ wrap' = wrap
  BY <1>1, EnteringGrows DEF wrap
<1>3. CASE seen' = seen
  BY <1>1, <1>2, <1>3 DEF FiltersCovered
<1>4. CASE (QuietPool /\ UNCHANGED detail) \/ \E w \in Worker : Take(w)
  BY <1>3, <1>4 DEF detail, Take
<1>5. ASSUME NEW w \in Worker,
             StopAtMaxDepth(w) \/ ReadDir(w) \/ EndDir(w) \/ SkipEntry(w) \/ EnqueueDir(w)
      PROVE  FiltersCovered'
  BY <1>3, <1>5 DEF StopAtMaxDepth, ReadDir, EndDir, SkipEntry, EnqueueDir
<1>6. ASSUME NEW w \in Worker, ReportError(w) PROVE FiltersCovered'
  <2>1. /\ w \in Walking /\ task[w].stage = "report" /\ Dir(w) \in Path
        /\ task[w].err \in Result
    BY <1>1, <1>6, OthersStay, HeldItemFacts
    DEF PoolInv, IInv, WalkInv, TaskInv, Task, ReportError, InStage
  <2>2. PICK d : d = DirNode(Dir(w))
    OBVIOUS
  <2>3. ~IsDirNode(d) /\ d \in Told
    BY <1>1, <2>1, <2>2, EnteredTold DEF CoverInv, ReadThrough
  <2>4. PICK a \in UserAnswers(Dir(w), task[w].err), r \in Result :
          CallFn(Dir(w), task[w].err, a, r)
    BY <1>6 DEF ReportError
  <2>5. a \in Result /\ Last(Dir(w)) \in Node /\ StatNode(Last(Dir(w))) = d
    BY <1>1, <2>1, <2>2, <2>4, AnswerType, PathLast, TypedNames DEF DirNode
  <2>6. Call(Last(Dir(w)), task[w].err, a, seen, Nil) \in Recorded(Last(Dir(w)), a, seen)
    BY <1>1, <2>1, <2>5, CallRecorded
  <2>7. \A i \in DOMAIN wrap : seen'[i] \subseteq seen[i] \cup {d}
    BY <2>4, <2>5, <2>6 DEF Recorded, CallFn
  <2>8. QED  BY <1>1, <1>2, <2>3, <2>7 DEF FiltersCovered
<1>7. ASSUME NEW w \in Worker, Visit(w) PROVE FiltersCovered'
  BY <1>7, VisitCovers
<1>8. ASSUME NEW w \in Worker, VisitEntry(w) PROVE FiltersCovered'
  BY <1>8, EntryCovers
<1>9. QED
  BY <1>4, <1>5, <1>6, <1>7, <1>8, StepKinds

LEMMA WaysEnteredStep ==
  ASSUME WholeInv, AllReadable, [WalkNext]_walkVars
  PROVE  WaysEntered'
<1>1. /\ PoolInv /\ WalkInv /\ TypeOK /\ TaskInv /\ ItemsFound /\ CoverInv /\ WaysEntered
  BY DEF WholeInv, SkippingInv, PoolInv, IInv, WalkInv, CoverInv
<1>2. Entered \subseteq Entered'
  BY EnteringGrows
<1>3. CASE found' = found
  BY <1>1, <1>2, <1>3 DEF WaysEntered
<1>4. CASE (QuietPool /\ UNCHANGED detail) \/ \E w \in Worker : Take(w)
  BY <1>1, <1>3, <1>4, QuietReached
<1>5. ASSUME NEW w \in Worker,
             Visit(w) \/ StopAtMaxDepth(w) \/ ReadDir(w) \/ EndDir(w) \/ ReportError(w)
      PROVE  WaysEntered'
  BY <1>1, <1>3, <1>5, StageEffect
<1>6. ASSUME NEW w \in Worker, SkipEntry(w) \/ EnqueueDir(w) \/ VisitEntry(w)
      PROVE  WaysEntered'
  <2>1. AtEntry(w) /\ \A x \in found' \ found : x.path = EntryPath(w)
    BY <1>1, <1>6, EntryReached
  <2>2. /\ w \in Walking /\ held[w] \in found /\ task[w].stage = "entries"
        /\ task[w].rest # <<>> /\ Entry(w) \in Node
        /\ Dir(w) \in Path /\ EntryPath(w) = Append(Dir(w), Entry(w))
        /\ Len(EntryPath(w)) = Len(Dir(w)) + 1 /\ Len(Dir(w)) \in Nat \ {0}
    BY <1>1, <2>1, EntryIsNew, PathLast
  <2>3. ASSUME NEW i \in 1 .. Len(EntryPath(w)) - 1
        PROVE  Resolve(EntryPath(w)[i]) \in Entered
    <3>1. i \in 1 .. Len(Dir(w)) /\ EntryPath(w)[i] = Dir(w)[i]
      BY <2>2, <2>3, AppendProperties DEF Path
    <3>2. CASE i = Len(Dir(w))
      <4>1. Dir(w) \in Entering /\ DirNode(Dir(w)) = Resolve(Dir(w)[i])
        BY <2>2, <3>2 DEF Entering, DirNode, Last
      <4>2. IsDirNode(DirNode(Dir(w)))
        BY <1>1, <2>2 DEF CoverInv, ReadThrough
      <4>3. QED  BY <3>1, <4>1, <4>2 DEF Entered
    <3>3. CASE i # Len(Dir(w))
      <4>1. i \in 1 .. Len(held[w].path) - 1
        BY <2>2, <3>1, <3>3 DEF Dir
      <4>2. QED  BY <1>1, <2>2, <3>1, <4>1 DEF WaysEntered, Dir
    <3>4. QED  BY <3>2, <3>3
  <2>4. QED  BY <1>1, <1>2, <2>1, <2>3 DEF WaysEntered
<1>7. QED
  BY <1>4, <1>5, <1>6, StepKinds

LEMMA ReadThroughStep ==
  ASSUME WholeInv, AllReadable, NoObjections, [WalkNext]_walkVars
  PROVE  ReadThrough'
<1>1. /\ PoolInv /\ WalkInv /\ TypeOK /\ TaskInv /\ ItemsFound /\ ReadThrough
      /\ opened \subseteq opened'
  BY HistoryGrows DEF WholeInv, SkippingInv, PoolInv, IInv, WalkInv, CoverInv
<1>2. CASE QuietPool /\ UNCHANGED detail
  <2>1. Walking' = Walking /\ task' = task /\ \A w \in Walking : Dir(w)' = Dir(w)
    BY <1>1, <1>2, QuietEffect DEF detail, Dir
  <2>2. QED  BY <1>1, <2>1 DEF ReadThrough, DirNode
<1>3. ASSUME NEW w \in Worker, Take(w) PROVE ReadThrough'
  <2>1. /\ Walking' = Walking \cup {w} /\ task'[w].stage \notin {"entries", "report"}
        /\ \A v \in Walking : task'[v] = task[v] /\ Dir(v)' = Dir(v)
    BY <1>1, <1>3, TakeEffect DEF NoTask, Dir, Walking
  <2>2. QED  BY <1>1, <2>1 DEF ReadThrough, DirNode
<1>4. ASSUME NEW w \in Worker,
             Visit(w) \/ StopAtMaxDepth(w) \/ ReadDir(w) \/ EndDir(w) \/ ReportError(w)
             \/ SkipEntry(w) \/ EnqueueDir(w) \/ VisitEntry(w),
             w \in Walking' =>
               /\ task'[w].stage = "entries" =>
                    /\ ~task'[w].skipFiles
                    /\ IF IsDirNode(DirNode(Dir(w)))
                       THEN Dir(w) \in opened' /\ task'[w].err = Nil
                       ELSE task'[w].rest = <<>>
               /\ task'[w].stage = "report" => ~IsDirNode(DirNode(Dir(w)))
      PROVE  ReadThrough'
  <2>1. /\ \A v \in Walking' \ {w} : v \in Walking /\ task'[v] = task[v]
        /\ \A v : Dir(v)' = Dir(v)
    BY <1>1, <1>4, OthersStay
  <2>2. QED  BY <1>1, <1>4, <2>1 DEF ReadThrough, DirNode
<1>5. ASSUME NEW w \in Worker, Visit(w) \/ StopAtMaxDepth(w) \/ ReportError(w)
      PROVE  ReadThrough'
  <2>1. w \in Walking' => task'[w].stage = "descend"
    <3>1. task[w].stage \in {"visit", "descend", "report"}
      BY <1>5 DEF Visit, StopAtMaxDepth, ReportError, InStage
    <3>2. StopAtMaxDepth(w) => w \notin Walking'
      BY <1>1, StopEffect DEF Leaves
    <3>3. ReportError(w) => w \notin Walking'
      BY <1>1, ReportEffect DEF WholeInv, WrappedInv, SeenInv, Leaves
    <3>4. Visit(w) => task[w].stage = "visit"
      BY DEF Visit, InStage
    <3>5. QED  BY <1>1, <1>5, <3>2, <3>3, <3>4, StageEffect
  <2>2. QED  BY <1>4, <1>5, <2>1
<1>6. ASSUME NEW w \in Worker, ReadDir(w) PROVE ReadThrough'
  <2>1. PICK r \in Readings(DirNode(Dir(w)), Nil) :
          /\ Stays(w, [NoTask EXCEPT !.stage = "entries", !.rest = r.entries, !.err = r.err])
          /\ opened' = IF r.err = Nil THEN opened \cup {Dir(w)} ELSE opened
    BY <1>1, <1>6, ReadEffect DEF DirNode
  <2>2. /\ task'[w].stage = "entries" /\ task'[w].rest = r.entries
        /\ task'[w].err = r.err /\ ~task'[w].skipFiles
    BY <2>1 DEF Stays, NoTask
  <2>3. IF IsDirNode(DirNode(Dir(w))) THEN r.err = Nil ELSE r.entries = <<>>
    BY <2>1 DEF Readings, AllReadable
  <2>4. QED  BY <1>4, <1>6, <2>1, <2>2, <2>3
<1>7. ASSUME NEW w \in Worker, EndDir(w) PROVE ReadThrough'
  <2>1. /\ w \in Walking /\ task[w].stage = "entries"
        /\ \/ w \notin Walking'
           \/ task[w].err # Nil /\ Stays(w, [task[w] EXCEPT !.stage = "report"])
    BY <1>1, <1>7, EndEffect, OthersStay DEF Leaves
  <2>2. task[w] \in Task
    BY <1>1, <2>1 DEF TaskInv, Walking
  <2>3. w \in Walking' => task'[w].stage = "report" /\ task[w].err # Nil
    BY <2>1, <2>2 DEF Stays, Task
  <2>4. QED  BY <1>1, <1>4, <1>7, <2>1, <2>3 DEF ReadThrough
<1>8. ASSUME NEW w \in Worker, SkipEntry(w) \/ EnqueueDir(w) \/ VisitEntry(w)
      PROVE  ReadThrough'
  <2>1. /\ w \in Walking /\ task[w].stage = "entries" /\ task[w].rest # <<>>
        /\ ~task[w].skipFiles
    BY <1>1, <1>8, EntryReached, EntryIsNew DEF ReadThrough
  <2>2. ~SkipEntry(w)
    BY <2>1 DEF SkipEntry, Skipped
  <2>3. Stays(w, NextEntry(w))
    BY <1>1, <1>8, <2>2, EnqueueDirEffect, EntryCovers
  <2>4. task[w] \in Task
    BY <1>1, <2>1 DEF TaskInv, Walking
  <2>5. task'[w].stage = "entries" /\ ~task'[w].skipFiles /\ task'[w].err = task[w].err
    BY <2>1, <2>3, <2>4 DEF Stays, NextEntry, Task
  <2>6. QED  BY <1>1, <1>4, <1>8, <2>1, <2>5 DEF ReadThrough
<1>9. QED
  BY <1>2, <1>3, <1>5, <1>6, <1>7, <1>8, StepKinds

LEMMA WalkedCoveredStep ==
  ASSUME WholeInv, AllReadable, NoObjections, [WalkNext]_walkVars
  PROVE  WalkedCovered'
<1>1. /\ PoolInv /\ WalkInv /\ TypeOK /\ TaskInv /\ ItemsFound /\ WalkedCovered /\ ReadThrough
      /\ seen \in Seen /\ ~(MaxDepth > 0)
  BY MaxDepthType
  DEF WholeInv, SkippingInv, SeenInv, PoolInv, IInv, WalkInv, TaskInv, CoverInv, Unlimited
<1>2. opened \subseteq opened' /\ \A n : Covers(n) => Covers(n)'
  BY <1>1, HistoryGrows, EnteringGrows
<1>3. CASE walked' = walked
  BY <1>1, <1>2, <1>3 DEF WalkedCovered, DirNode
<1>4. CASE (QuietPool /\ UNCHANGED detail) \/ \E w \in Worker : Take(w)
  BY <1>1, <1>3, <1>4, QuietReached
<1>5. ASSUME NEW w \in Worker, SkipEntry(w) \/ EnqueueDir(w) \/ VisitEntry(w)
      PROVE  WalkedCovered'
  BY <1>1, <1>3, <1>5, EntryEffect
<1>6. ASSUME NEW w \in Worker, NEW it, it = held[w], walked' \subseteq walked \cup {it},
             Covers(DirNode(it.path))',
             it.callbackDone /\ IsDirNode(DirNode(it.path)) => it.path \in opened
      PROVE  WalkedCovered'
  BY <1>1, <1>2, <1>6 DEF WalkedCovered, DirNode
<1>7. ASSUME NEW w \in Worker, Visit(w) PROVE WalkedCovered'
  <2>1. walked' \subseteq walked \cup {held[w]} /\ ~held[w].callbackDone
        /\ Dir(w)' = Dir(w) /\ w \in Walking
    BY <1>1, <1>7, StageEffect, OthersStay DEF TaskInv, Visit, InStage
  <2>2. PICK it : it = held[w]
    OBVIOUS
  <2>3. it.path = Dir(w)
    BY <2>2 DEF Dir
  <2>4. Covers(DirNode(it.path))'
    BY <1>7, <2>1, <2>3, VisitCovers
  <2>5. QED  BY <1>6, <2>1, <2>2, <2>4
<1>8. ASSUME NEW w \in Worker, EndDir(w) \/ ReportError(w) PROVE WalkedCovered'
  <2>1. walked' \subseteq walked \cup {held[w]} /\ w \in Walking
        /\ task[w].stage \in {"entries", "report"}
    BY <1>1, <1>8, StageEffect, OthersStay DEF EndDir, ReportError, InStage
  <2>2. PICK it : it = held[w]
    OBVIOUS
  <2>3. it.path = Dir(w) /\ (task[w].stage = "report" => ~IsDirNode(DirNode(it.path)))
        /\ (task[w].stage = "entries" /\ IsDirNode(DirNode(it.path)) => it.path \in opened)
    BY <1>1, <2>1, <2>2 DEF Dir, ReadThrough
  <2>4. IsDirNode(DirNode(it.path)) => it.path \in opened
    BY <2>1, <2>3
  <2>5. DirNode(it.path) \in Told
    BY <2>1, <2>3, EnteredTold
  <2>6. IsDirNode(DirNode(it.path)) => DirNode(it.path) \in Entered
    BY <2>4 DEF Entered, Entering
  <2>7. Covers(DirNode(it.path))
    BY <2>5, <2>6 DEF Covers
  <2>8. PICK d : d = DirNode(it.path)
    OBVIOUS
  <2>9. Covers(DirNode(it.path))'
    BY <1>2, <2>7 DEF DirNode
  <2>10. QED  BY <1>6, <2>1, <2>2, <2>4, <2>9
<1>9. ASSUME NEW w \in Worker, StopAtMaxDepth(w) \/ ReadDir(w) PROVE WalkedCovered'
  <2>1. ~StopAtMaxDepth(w)
    BY <1>1 DEF StopAtMaxDepth, TooDeep
  <2>2. walked' = walked
    BY <1>1, <1>9, <2>1, ReadEffect DEF Stays
  <2>3. QED  BY <1>3, <2>2
<1>10. QED
  BY <1>4, <1>5, <1>7, <1>8, <1>9, StepKinds

LEMMA OpenedCoveredStep ==
  ASSUME WholeInv, AllReadable, NoObjections, [WalkNext]_walkVars
  PROVE  OpenedCovered'
<1>1. /\ PoolInv /\ WalkInv /\ TypeOK /\ TaskInv /\ ItemsFound /\ OpenedCovered /\ ReadThrough
      /\ seen \in Seen /\ Typed
  BY DEF WholeInv, SkippingInv, SeenInv, PoolInv, IInv, WalkInv, CoverInv
<1>2. found \subseteq found' /\ \A n : Covers(n) => Covers(n)'
  BY <1>1, HistoryGrows, EnteringGrows
<1>3. CASE QuietPool /\ UNCHANGED detail
  <2>1. Walking' = Walking /\ task' = task /\ opened' = opened /\ \A w \in Walking : Dir(w)' = Dir(w)
    BY <1>1, <1>3, QuietEffect DEF detail, Dir
  <2>2. QED  BY <1>1, <1>2, <2>1 DEF OpenedCovered, DirNode, Resolve
<1>4. ASSUME NEW w \in Worker, Take(w) PROVE OpenedCovered'
  <2>1. /\ Walking' = Walking \cup {w} /\ opened' = opened
        /\ \A v \in Walking : task'[v] = task[v] /\ Dir(v)' = Dir(v)
    BY <1>1, <1>4, TakeEffect DEF Dir, Walking
  <2>2. QED  BY <1>1, <1>2, <2>1 DEF OpenedCovered, DirNode, Resolve
<1>5. ASSUME NEW w \in Worker,
             Visit(w) \/ StopAtMaxDepth(w) \/ ReadDir(w) \/ EndDir(w) \/ ReportError(w)
             \/ SkipEntry(w) \/ EnqueueDir(w) \/ VisitEntry(w),
             NEW p, p = Dir(w), opened' \subseteq opened \cup {p},
             \A n \in Range(Kids[DirNode(p)]) :
               (p \in opened' \ opened) \/ (task[w].stage = "entries" /\ n \in Range(task[w].rest)) =>
                 \/ w \in Walking' /\ task'[w].stage = "entries" /\ n \in Range(task'[w].rest)
                 \/ \E x \in found' : x.path = Append(p, n)
                 \/ Covers(Resolve(n))'
      PROVE  OpenedCovered'
  <2>1. /\ w \in Walking /\ \A v \in Walking \ {w} : v \in Walking' /\ task'[v] = task[v]
        /\ \A v : Dir(v)' = Dir(v)
    <3>1. \A v \in Walking \ {w} : v \in Worker \ {w}
      BY DEF Walking
    <3>2. QED  BY <1>1, <1>5, <3>1, OthersStay, StageEffect, EntryEffect
  <2>2. ASSUME NEW q \in opened', NEW n \in Range(Kids[DirNode(q)])
        PROVE  \/ \E v \in Walking' :
                    Dir(v)' = q /\ task'[v].stage = "entries" /\ n \in Range(task'[v].rest)
               \/ \E x \in found' : x.path = Append(q, n)
               \/ Covers(Resolve(n))'
    <3>1. CASE q \notin opened
      BY <1>5, <2>1, <2>2, <3>1
    <3>2. CASE q \in opened
      <4>1. CASE \E v \in Walking : /\ Dir(v) = q /\ task[v].stage = "entries"
                                    /\ n \in Range(task[v].rest)
        <5>1. PICK v \in Walking : /\ Dir(v) = q /\ task[v].stage = "entries"
                                   /\ n \in Range(task[v].rest)
          BY <4>1
        <5>2. CASE v = w
          BY <1>5, <2>1, <2>2, <5>1, <5>2
        <5>3. CASE v # w
          BY <2>1, <5>1, <5>3
        <5>4. QED  BY <5>2, <5>3
      <4>2. CASE (\E x \in found : x.path = Append(q, n)) \/ Covers(Resolve(n))
        BY <1>2, <4>2 DEF Resolve
      <4>3. QED  BY <1>1, <2>2, <3>2, <4>1, <4>2 DEF OpenedCovered
    <3>3. QED  BY <3>1, <3>2
  <2>3. QED  BY <2>2 DEF OpenedCovered, DirNode
<1>6. ASSUME NEW w \in Worker, Visit(w) \/ StopAtMaxDepth(w) \/ ReportError(w)
      PROVE  OpenedCovered'
  <2>1. task[w].stage # "entries" /\ opened' = opened
    BY <1>6 DEF Visit, StopAtMaxDepth, ReportError, InStage
  <2>2. QED  BY <1>5, <1>6, <2>1
<1>7. ASSUME NEW w \in Worker, EndDir(w) PROVE OpenedCovered'
  <2>1. task[w].rest = <<>> /\ opened' = opened
    BY <1>7 DEF EndDir
  <2>2. QED  BY <1>5, <1>7, <2>1, ElemsEmpty
<1>8. ASSUME NEW w \in Worker, ReadDir(w) PROVE OpenedCovered'
  <2>1. PICK p : p = Dir(w)
    OBVIOUS
  <2>2. PICK r \in Readings(DirNode(p), Nil) :
          /\ Stays(w, [NoTask EXCEPT !.stage = "entries", !.rest = r.entries, !.err = r.err])
          /\ opened' = IF r.err = Nil THEN opened \cup {p} ELSE opened
    BY <1>1, <1>8, <2>1, ReadEffect DEF DirNode
  <2>3. task[w].stage = "descend" /\ w \in Walking /\ Dir(w) \in Path
    BY <1>1, <1>8, OthersStay, HeldItemFacts DEF PoolInv, IInv, WalkInv, ReadDir, InStage
  <2>4. w \in Walking' /\ task'[w].stage = "entries" /\ task'[w].rest = r.entries
    BY <2>2, <2>3 DEF Stays, NoTask
  <2>5. DirNode(p) \in Node \cup {NoNode} /\ Nil \notin {"notdir", "permission", "io"}
    BY <2>1, <2>3, PathLast, ResolveType, ResultNames DEF DirNode
  <2>6. p \in opened' \ opened => Range(Kids[DirNode(p)]) \subseteq Range(r.entries)
    BY <2>2, <2>5, ReadingsListEntries DEF AllReadable
  <2>7. p \in opened' \ opened => Range(Kids[DirNode(p)]) \subseteq Range(r.entries)
    BY <2>6 DEF Range
  <2>8. opened' \subseteq opened \cup {p}
    BY <2>2
  <2>9. QED  BY <1>5, <1>8, <2>1, <2>3, <2>4, <2>7, <2>8
<1>9. ASSUME NEW w \in Worker, SkipEntry(w) \/ EnqueueDir(w) \/ VisitEntry(w)
      PROVE  OpenedCovered'
  <2>1. /\ AtEntry(w) /\ w \in Walking /\ Walking' = Walking /\ opened' = opened
        /\ task[w].stage = "entries" /\ task'[w].stage = "entries" /\ ~task[w].skipFiles
        /\ EntryPath(w) = Append(Dir(w), Entry(w)) /\ Entry(w) \in Node
        /\ Range(task[w].rest) = {Entry(w)} \cup Range(Tail(task[w].rest))
    BY <1>1, <1>9, EntryEffect, EntryReached, EntryIsNew DEF ReadThrough
  <2>2. ~SkipEntry(w)
    BY <2>1 DEF SkipEntry, Skipped
  <2>3. Stays(w, NextEntry(w))
    BY <1>1, <1>9, <2>2, EnqueueDirEffect, EntryCovers
  <2>4. task[w] \in Task
    BY <1>1, <2>1 DEF TaskInv, Walking
  <2>5. task'[w].rest = Tail(task[w].rest)
    BY <2>3, <2>4 DEF Stays, NextEntry, Task
  <2>6. PICK p : p = Dir(w)
    OBVIOUS
  <2>7. PICK m : m = Entry(w)
    OBVIOUS
  <2>8. (\E x \in found' : x.path = Append(p, m)) \/ Covers(Resolve(m))'
    <3>1. CASE EnqueueDir(w)
      <4> DEFINE it == [path |-> EntryPath(w), callbackDone |-> FALSE]
      <4>1. it \in found' /\ it.path = EntryPath(w)
        BY <1>1, <3>1, EnqueueDirEffect
      <4> HIDE DEF it
      <4>2. QED  BY <2>1, <2>6, <2>7, <4>1
    <3>2. CASE VisitEntry(w)
      <4>1. PICK d : d = Resolve(m)
        OBVIOUS
      <4>2. Covers(d)'
        BY <2>7, <3>2, <4>1, EntryCovers
      <4>3. QED  BY <4>1, <4>2 DEF Resolve
    <3>3. QED  BY <1>9, <2>2, <3>1, <3>2
  <2>9. \A n \in Range(task[w].rest) : n = m \/ n \in Range(task'[w].rest)
    BY <2>1, <2>5, <2>7
  <2>10. QED  BY <1>5, <1>9, <2>1, <2>6, <2>8, <2>9
<1>10. QED
  BY <1>3, <1>4, <1>6, <1>7, <1>8, <1>9, StepKinds

LEMMA CoverInvInit == WalkInit => CoverInv
<1>1. SUFFICES ASSUME WalkInit PROVE CoverInv
  OBVIOUS
<1>2. found = {Root} /\ Walking = {} /\ walked = {} /\ opened = {} /\ seen = NoneSeen
  BY <1>1 DEF WalkInit, PoolInit, Walking
<1>3. FiltersCovered
  BY <1>2 DEF FiltersCovered, NoneSeen
<1>4. WaysEntered
  <2>1. \A x \in found : Len(x.path) = 1
    BY <1>2, TopPath
  <2>2. ASSUME NEW x \in found, NEW i \in 1 .. Len(x.path) - 1 PROVE FALSE
    <3>1. PICK k : k = Len(x.path)
      OBVIOUS
    <3>2. k = 1 /\ i \in 1 .. k - 1
      BY <2>1, <2>2, <3>1
    <3>3. QED  BY <3>2
  <2>3. QED  BY <2>2 DEF WaysEntered
<1>5. ReadThrough /\ WalkedCovered /\ OpenedCovered
  BY <1>2 DEF ReadThrough, WalkedCovered, OpenedCovered
<1>6. QED
  BY <1>2, <1>3, <1>4, <1>5 DEF CoverInv

LEMMA WholeInvariant ==
  ASSUME AnyPath, AllReadable, NoObjections
  PROVE  WalkSafety /\ Unlimited => []WholeInv
<1>1. WalkInit /\ Unlimited => Typed /\ Unlimited /\ CoverInv
  BY CoverInvInit DEF Unlimited
<1>2. WrappedInv /\ SkippingInv /\ Unlimited /\ CoverInv /\ [WalkNext]_walkVars
      => (Unlimited /\ CoverInv)'
  <2>1. SUFFICES ASSUME WholeInv, [WalkNext]_walkVars PROVE (Unlimited /\ CoverInv)'
    BY DEF WholeInv
  <2>2. PoolInv /\ WalkInv /\ Root \in found /\ Unlimited
    BY <2>1 DEF WholeInv, WrappedInv, CoverInv
  <2>3. found \subseteq found' /\ setup' = setup
    BY <2>1, <2>2, HistoryGrows
  <2>4. Unlimited'
    BY <2>2, <2>3, UnlimitedStays
  <2>5. FiltersCovered' /\ WaysEntered' /\ ReadThrough' /\ WalkedCovered' /\ OpenedCovered'
    BY <2>1, FiltersCoveredStep, WaysEnteredStep, ReadThroughStep, WalkedCoveredStep,
       OpenedCoveredStep
  <2>6. QED  BY <2>2, <2>3, <2>4, <2>5 DEF CoverInv
<1>3. WalkSafety => []WrappedInv
  BY WrappedInvariant
<1>4. WalkSafety /\ Typed => []SkippingInv
  BY SkippingInvariant
<1>5. WrappedInv /\ SkippingInv /\ Unlimited /\ CoverInv => WholeInv
  BY DEF WholeInv
<1>6. QED
  BY <1>1, <1>2, <1>3, <1>4, <1>5, PTL DEF WalkSafety

-----------------------------------------------------------------------------
(* What can be reached from the root.                                      *)

\* The nodes in or one step below near.
Nearby(near) ==
  near \cup {Resolve(n) : n \in UNION {Range(Kids[d]) : d \in {x \in near : IsDirNode(x)}}}

LEMMA WithinSteps ==
  /\ Within[0] = {Top}
  /\ \A k \in Nat : Within[k + 1] = Nearby(Within[k])
<1> DEFINE T == SUBSET (Node \cup {NoNode})
           Value(v) == v = [k \in Nat |-> IF k = 0 THEN {Top} ELSE Nearby(v[k - 1])]
           value == CHOOSE v : Value(v)
           base == {Top}
           g == [p \in Nat \X T |-> Nearby(p[2])]
<1>1. Within = value
  BY DEF Within, Nearby
<1>2. \E v : Value(v)
  <2>1. ASSUME NEW near \in T PROVE Nearby(near) \in T
    <3>1. \A d \in {x \in near : IsDirNode(x)} : Kids[d] \in Seq(Node)
      BY <2>1, TreeAssumption DEF TreeAssumption, IsDirNode
    <3>2. \A d \in {x \in near : IsDirNode(x)} : Range(Kids[d]) \subseteq Node
      BY <3>1, LenProperties, ElementOfSeq DEF Range
    <3>3. UNION {Range(Kids[d]) : d \in {x \in near : IsDirNode(x)}} \subseteq Node
      BY <3>2
    <3>4. QED  BY <2>1, <3>3, ResolveType DEF Nearby
  <2>2. \A k \in Nat, near \in T : g[<<k, near>>] = Nearby(near)
    OBVIOUS
  <2>3. g \in [(Nat \X T) -> T] /\ base \in T
    BY <2>1, TreeAssumption DEF TreeAssumption
  <2> HIDE DEF g, T, base
  <2>4. PICK f : f \in Iterates(T, base, g)
    BY <2>3, Recursion
  <2>5. f[0] = {Top} /\ \A k \in Nat \ {0} : k - 1 \in Nat /\ f[k] = Nearby(f[k - 1])
    <3>1. ASSUME NEW k \in Nat \ {0} PROVE k - 1 \in Nat /\ f[k] = Nearby(f[k - 1])
      <4>1. k \in Nat /\ k - 1 \in Nat
        OBVIOUS
      <4>2. f[k - 1] \in T /\ f[k] = g[<<k, f[k - 1]>>]
        BY <2>4, <4>1 DEF Iterates
      <4>3. QED  BY <2>2, <4>1, <4>2
    <3>2. QED  BY <2>4, <3>1 DEF Iterates, base
  <2>6. f = [k \in Nat |-> f[k]]
    BY <2>4 DEF Iterates
  <2>7. \A k \in Nat : f[k] = IF k = 0 THEN {Top} ELSE Nearby(f[k - 1])
    BY <2>5
  <2>8. Value(f)
    BY <2>6, <2>7
  <2>9. QED  BY <2>8
<1>3. Value(value)
  <2> HIDE DEF Value
  <2>1. QED  BY <1>2
<1> HIDE DEF value
<1>4. value[0] = {Top}
  BY <1>3
<1>5. ASSUME NEW k \in Nat PROVE value[k + 1] = Nearby(value[k])
  <2>1. k + 1 \in Nat /\ k + 1 # 0 /\ (k + 1) - 1 = k
    OBVIOUS
  <2>2. QED  BY <1>3, <2>1
<1>6. QED
  BY <1>1, <1>4, <1>5

\* A walk that returned nil has left nothing out.
LEMMA WithinCovered ==
  ASSUME WholeInv, Returned, ret = Nil, NEW k \in Nat
  PROVE  \A n \in Within[k] : Covers(n)
<1> DEFINE A == {i \in Nat : \A n \in Within[i] : Covers(n)}
<1>1. /\ Walking = {} /\ walked = found /\ WalkedCovered /\ OpenedCovered
      /\ Root \in found /\ PoolInv /\ WalkInv
  BY AfterReturn DEF WholeInv, WrappedInv, CoverInv
<1>2. \A x \in found : Covers(DirNode(x.path)) /\ x.path \in Path
  BY <1>1 DEF WalkedCovered, WalkInv, ItemInv
<1>3. 0 \in A
  <2>1. DirNode(Root.path) = Top
    BY TopPath, TreeAssumption DEF TreeAssumption, DirNode, Resolve
  <2>2. QED  BY <1>1, <1>2, <2>1, WithinSteps
<1>4. \A d \in Entered : \E p \in opened : DirNode(p) = d
  <2>1. ASSUME NEW p \in Entering, IsDirNode(DirNode(p)) PROVE p \in opened
    BY <1>1, <2>1 DEF Entering, WalkedCovered
  <2>2. QED  BY <2>1 DEF Entered
<1>5. ASSUME NEW d, IsDirNode(d), Covers(d), NEW n \in Range(Kids[d])
      PROVE  Covers(Resolve(n))
  <2>1. PICK p \in opened : DirNode(p) = d
    BY <1>4, <1>5 DEF Covers, IsDirNode
  <2>2. n \in Range(Kids[DirNode(p)])
    BY <1>5, <2>1 DEF Range
  <2>3. CASE Covers(Resolve(n))
    BY <2>3
  <2>4. ASSUME NEW x \in found, x.path = Append(p, n) PROVE Covers(Resolve(n))
    <3>1. p \in Path
      BY <1>1, <1>2, <2>1 DEF WalkInv, HistInv
    <3>2. d \in Node /\ Kids[d] \in Seq(Node)
      BY <1>5, <2>1, <3>1, PathLast, ResolveType, TreeAssumption
      DEF TreeAssumption, IsDirNode, DirNode
    <3>3. n \in Node
      BY <1>5, <3>2, LenProperties, ElementOfSeq DEF Range
    <3>4. QED  BY <1>2, <2>4, <3>1, <3>3, PathAppend DEF DirNode
  <2>5. QED  BY <1>1, <2>1, <2>2, <2>3, <2>4 DEF OpenedCovered
<1>6. ASSUME NEW i \in Nat, i \in A PROVE i + 1 \in A
  <2>1. Within[i + 1] = Nearby(Within[i])
    BY WithinSteps
  <2>2. QED  BY <1>5, <1>6, <2>1 DEF Nearby
<1> HIDE DEF A
<1>7. Nat \subseteq A
  BY <1>3, <1>6, SetInduction
<1>8. QED
  BY <1>7 DEF A

\* When Walk returns nil, every directory that can be reached from the root, through
\* links too, was read, and with IgnoreDuplicateFiles every file was called, under one of
\* its names (adapters.go:21-33, 66-74): neither the filters, whichever worker asks them
\* first, nor the links that are not followed because they lead back leave anything out.
\* For a tree that can be read and a walkFn that does not object, the types of the entries
\* known; with Follow, the walk starts at the root of a file system.
THEOREM AllReachedAlways ==
  ASSUME AnyPath, AllReadable, NoObjections, IsFiniteSet(Node)
  PROVE  WalkSafety /\ Unlimited => []AllReached
<1>1. WholeInv => AllReached
  <2>1. SUFFICES ASSUME WholeInv, Returned, ret = Nil,
                        NEW n \in Within[Cardinality(Node)] \ {NoNode}
                 PROVE  /\ IsDirNode(n) => \E p \in opened : Resolve(Last(p)) = n
                        /\ \E c \in Made : StatNode(Last(c.path)) = n
    BY DEF AllReached
  <2>2. Covers(n) /\ n # NoNode
    BY <2>1, WithinCovered, FS_CardinalityType
  <2>3. Walking = {} /\ walked = found /\ WalkedCovered
    BY <2>1, AfterReturn DEF WholeInv, WrappedInv, CoverInv
  <2>4. ASSUME NEW p \in Entering, IsDirNode(DirNode(p)) PROVE p \in opened
    BY <2>3, <2>4 DEF Entering, WalkedCovered
  <2>5. QED  BY <2>2, <2>4 DEF Covers, Entered, Told, DirNode
<1>2. QED
  BY <1>1, WholeInvariant, PTL
=============================================================================
