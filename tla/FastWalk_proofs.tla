-------------------------- MODULE FastWalk_proofs ---------------------------
(***************************************************************************)
(* Proofs about a whole walk, for any tree, any configuration and any      *)
(* number of workers: it is a run of the pool, no path is called twice,    *)
(* nothing below MaxDepth is touched and no directory is entered before    *)
(* its own call.                                                           *)
(***************************************************************************)
EXTENDS FastWalk, FileTree_proofs, WalkPool_proofs

-----------------------------------------------------------------------------
(* Paths.                                                                  *)

Path == Seq(Node) \ {<<>>}

LEMMA PathAppend ==
  ASSUME NEW p \in Path, NEW n \in Node
  PROVE  /\ Append(p, n) \in Path
         /\ Len(Append(p, n)) = Len(p) + 1
         /\ Len(p) \in Nat \ {0}
         /\ Last(Append(p, n)) = n
         /\ Front(Append(p, n)) = p
         /\ Append(p, n) # <<Top>>
<1>1. p \in Seq(Node) /\ Len(p) \in Nat \ {0} /\ DOMAIN p = 1 .. Len(p)
  BY LenProperties, EmptySeq DEF Path
<1>2. /\ Append(p, n) \in Seq(Node)
      /\ Len(Append(p, n)) = Len(p) + 1
      /\ Append(p, n)[Len(p) + 1] = n
      /\ \A i \in 1 .. Len(p) : Append(p, n)[i] = p[i]
  BY <1>1, AppendProperties
<1>3. Append(p, n) # <<>> /\ Append(p, n) # <<Top>>
  <2>1. Len(<<>>) = 0 /\ Len(<<Top>>) = 1
    OBVIOUS
  <2>2. Len(Append(p, n)) > 1
    BY <1>1, <1>2
  <2>3. QED  BY <2>1, <2>2
<1>4. Last(Append(p, n)) = n
  BY <1>2 DEF Last
<1>5. Front(Append(p, n)) = p
  BY <1>1 DEF Front
<1>6. QED
  BY <1>1, <1>2, <1>3, <1>4, <1>5 DEF Path

\* A path determines the directory it is in and its last name.
LEMMA PathUnique ==
  ASSUME NEW p \in Path, NEW q \in Path, NEW m \in Node, NEW n \in Node,
         Append(p, m) = Append(q, n)
  PROVE  p = q /\ m = n
<1>1. p = Front(Append(p, m)) /\ m = Last(Append(p, m))
  BY PathAppend
<1>2. q = Front(Append(q, n)) /\ n = Last(Append(q, n))
  BY PathAppend
<1>3. QED
  BY <1>1, <1>2

LEMMA PathLast ==
  ASSUME NEW p \in Path
  PROVE  Last(p) \in Node /\ Len(p) \in Nat \ {0}
<1>1. p \in Seq(Node) /\ Len(p) \in Nat \ {0}
  BY LenProperties, EmptySeq DEF Path
<1>2. QED
  BY <1>1, ElementOfSeq DEF Last

LEMMA TopPath ==
  /\ <<Top>> \in Path /\ Len(<<Top>>) = 1 /\ Last(<<Top>>) = Top
  /\ Root = [path |-> <<Top>>, callbackDone |-> FALSE]
  BY TreeAssumption, WalkAssumption DEF Path, Last

-----------------------------------------------------------------------------
(* The bag of calls.                                                       *)

LEMMA NoCalls == DOMAIN EmptyBag = {}
  BY DEF EmptyBag, SetToBag

LEMMA OneMoreCall ==
  ASSUME NEW b, NEW c, c \notin DOMAIN b, \A d \in DOMAIN b : b[d] = 1
  PROVE  /\ DOMAIN (b (+) SetToBag({c})) = DOMAIN b \cup {c}
         /\ \A d \in DOMAIN b \cup {c} : (b (+) SetToBag({c}))[d] = 1
<1>1. DOMAIN SetToBag({c}) = {c} /\ SetToBag({c})[c] = 1
  BY DEF SetToBag
<1>2. b (+) SetToBag({c}) =
        [e \in DOMAIN b \cup {c} |->
           (IF e \in DOMAIN b THEN b[e] ELSE 0)
           + (IF e \in {c} THEN SetToBag({c})[e] ELSE 0)]
  BY <1>1 DEF (+)
<1> HIDE DEF SetToBag, (+)
<1>3. QED
  BY <1>1, <1>2

LEMMA CallsGrow ==
  ASSUME NEW b, NEW c
  PROVE  DOMAIN (b (+) SetToBag({c})) = DOMAIN b \cup {c}
  BY DEF (+), SetToBag

-----------------------------------------------------------------------------
(* The invariant of a walk.  A worker that begins to read a directory must *)
(* find that no entry of it was called or enqueued before: that is the     *)
(* case because every path that was is an entry of a directory that        *)
(* somebody has begun to read, and items differ in their paths.            *)

Task == [stage : {"none", "visit", "descend", "entries", "report"},
         rest : Seq(Node), skipFiles : BOOLEAN, err : Result]

\* Has somebody begun to read the entries of item x?  Is the call for x behind it?
ReadBegun(x) ==
  \/ x \in walked
  \/ \E w \in Walking : held[w] = x /\ task[w].stage \in {"entries", "report"}

VisitDone(x) ==
  \/ x \in walked
  \/ \E w \in Walking : held[w] = x /\ task[w].stage # "visit"

TaskInv ==
  /\ setup \in Setups
  /\ task \in [Worker -> Task]
  /\ \A w \in Worker : task[w].stage = "none" <=> w \notin Walking
  /\ \A w \in Walking : task[w].stage = "visit" => ~held[w].callbackDone
  /\ \A w \in Walking : task[w].stage = "report" => task[w].err # Nil

ItemInv ==
  /\ \A x \in found : x.path \in Path /\ x \in [path : Path, callbackDone : BOOLEAN]
  /\ \A x, y \in found : x.path = y.path => x = y

ReachInv ==
  \A p \in Reached :
    \/ p = <<Top>>
    \/ \E x \in found, n \in Node : p = Append(x.path, n) /\ ReadBegun(x)

\* The entries that are still to be looked at are new.
RestInv ==
  \A w \in Walking : task[w].stage = "entries" =>
    /\ Distinct(task[w].rest)
    /\ \A n \in Range(task[w].rest) : Append(Dir(w), n) \notin Reached

CallInv ==
  /\ \A x \in found, c \in Made : c.path = x.path /\ ~x.callbackDone => VisitDone(x)
  /\ \A c \in Made : c.err # Nil => \E x \in walked : x.path = c.path
  /\ CalledOnce

DepthInv ==
  MaxDepth > 0 =>
    /\ \A p \in Reached : Len(p) - 1 <= MaxDepth
    /\ \A w \in Walking : task[w].stage = "entries" => Len(Dir(w)) - 1 < MaxDepth

HistInv == opened \cup broken \subseteq {it.path : it \in found}

WalkInv ==
  /\ TaskInv
  /\ ItemInv
  /\ ReachInv
  /\ RestInv
  /\ CallInv
  /\ DepthInv
  /\ HistInv

\* What holds of the pool besides.
PoolInv == IInv /\ Apart

\* Every path of nodes can be the path of a work item.
AnyPath == \A p \in Seq(Node), b \in BOOLEAN : [path |-> p, callbackDone |-> b] \in Item

-----------------------------------------------------------------------------
(* The steps of a walk.                                                    *)

\* The steps of the pool a walk() does not notice.
QuietPool ==
  \/ MainStep \/ Terminated \/ UNCHANGED poolVars
  \/ \E w \in Worker : \/ ExitIdle(w) \/ EnqueueSend(w) \/ EnqueueDrop(w)
                       \/ SendResult(w) \/ ExitReporting(w)

LEMMA WalkCases ==
  ASSUME [WalkNext]_walkVars
  PROVE  \/ QuietPool /\ UNCHANGED detail
         \/ \E w \in Worker : Take(w)
         \/ \E w \in Worker : Visit(w)
         \/ \E w \in Worker : StopAtMaxDepth(w)
         \/ \E w \in Worker : ReadDir(w)
         \/ \E w \in Worker : EndDir(w)
         \/ \E w \in Worker : ReportError(w)
         \/ \E w \in Worker : SkipEntry(w) \/ EnqueueDir(w) \/ VisitEntry(w)
<1>1. CASE UNCHANGED walkVars
  BY <1>1 DEF walkVars, QuietPool
<1>2. CASE WalkMainStep \/ (Terminated /\ UNCHANGED detail)
  BY <1>2 DEF WalkMainStep, QuietPool
<1>3. CASE \E w \in Worker : WalkStep(w)
  BY <1>3 DEF WalkStep, QuietPool
<1>4. QED
  BY <1>1, <1>2, <1>3 DEF WalkNext

\* Quiet steps change nothing the invariant is about.
LEMMA QuietEffect ==
  ASSUME TypeOK, QuietPool
  PROVE  /\ found' = found /\ walked' = walked /\ failed' = failed
         /\ Walking' = Walking /\ \A w \in Walking : held'[w] = held[w]
<1>1. /\ pc \in [Worker -> {"idle", "walking", "offering", "reporting", "exited"}]
      /\ held \in [Worker -> Item \cup {NoItem}]
  BY DEF TypeOK
<1> USE DEF mainVars, workerVars, history
<1>2. CASE MainStep
  <2>1. pc' = pc /\ held' = held /\ found' = found /\ walked' = walked /\ failed' = failed
    BY <1>2 DEF MainStep, SendWork, RecvEnqueue, RecvError, RecvNil, PollItem, PollEmpty,
                CloseDone, WaitWorkers
  <2>2. QED  BY <2>1 DEF Walking
<1>3. CASE Terminated \/ UNCHANGED poolVars
  BY <1>3 DEF Terminated, poolVars, Walking
<1>4. ASSUME NEW w \in Worker, EnqueueSend(w) \/ EnqueueDrop(w)
      PROVE  /\ found' = found /\ walked' = walked /\ failed' = failed
             /\ Walking' = Walking /\ \A v \in Walking : held'[v] = held[v]
  BY <1>1, <1>4 DEF EnqueueSend, EnqueueDrop, Walking
<1>5. ASSUME NEW w \in Worker, ExitIdle(w) \/ SendResult(w) \/ ExitReporting(w)
      PROVE  /\ found' = found /\ walked' = walked /\ failed' = failed
             /\ Walking' = Walking /\ \A v \in Walking : held'[v] = held[v]
  <2>1. w \notin Walking /\ Walking' = Walking
    BY <1>1, <1>5 DEF ExitIdle, SendResult, ExitReporting, Walking
  <2>2. \A v \in Walking : held'[v] = held[v]
    BY <1>1, <1>5, <2>1 DEF ExitIdle, SendResult, ExitReporting, Walking
  <2>3. QED  BY <1>5, <2>1, <2>2 DEF ExitIdle, SendResult, ExitReporting
<1>6. QED
  BY <1>2, <1>3, <1>4, <1>5 DEF QuietPool

\* A worker that takes an item,
LEMMA TakeEffect ==
  ASSUME TypeOK, ItemsFound, TaskInv, NEW w \in Worker, Take(w)
  PROVE  /\ w \notin Walking /\ Walking' = Walking \cup {w}
         /\ held'[w] \in found /\ \A v \in Walking : held'[v] = held[v]
         /\ found' = found /\ walked' = walked /\ failed' = failed
         /\ task'[w] = [NoTask EXCEPT !.stage = IF held'[w].callbackDone THEN "descend"
                                                ELSE "visit"]
         /\ \A v \in Worker \ {w} : task'[v] = task[v]
         /\ task' = [task EXCEPT ![w] = task'[w]]
         /\ UNCHANGED <<setup, seen, calls, opened, broken>>
<1>1. /\ pc \in [Worker -> {"idle", "walking", "offering", "reporting", "exited"}]
      /\ held \in [Worker -> Item \cup {NoItem}]
      /\ workc \in Seq(Item)
      /\ task \in [Worker -> Task]
  BY DEF TypeOK, TaskInv
<1>2. Head(workc) \in Range(workc)
  BY <1>1, ElemsHeadTail DEF Take, TakeWork
<1>3. Head(workc) \in found
  BY <1>2 DEF ItemsFound, Waiting
<1>4. w \notin Walking /\ Walking' = Walking \cup {w} /\ held'[w] = Head(workc)
  BY <1>1 DEF Take, TakeWork, Walking
<1>5. \A v \in Walking : held'[v] = held[v]
  BY <1>1, <1>4 DEF Take, TakeWork, Walking
<1>6. found' = found /\ walked' = walked /\ failed' = failed
  BY DEF Take, TakeWork, history
<1>7. task' = [task EXCEPT ![w] = [NoTask EXCEPT !.stage =
                 IF Head(workc).callbackDone THEN "descend" ELSE "visit"]]
  BY DEF Take
<1>8. QED
  BY <1>1, <1>3, <1>4, <1>5, <1>6, <1>7 DEF Take

\* goes on in walk(),
LEMMA ContinueEffect ==
  ASSUME TypeOK, TaskInv, NEW w \in Worker, NEW t, Continue(w, t)
  PROVE  /\ w \in Walking /\ Walking' = Walking /\ held' = held
         /\ found' = found /\ walked' = walked /\ failed' = failed
         /\ task' = [task EXCEPT ![w] = t]
         /\ task'[w] = t /\ \A v \in Worker \ {w} : task'[v] = task[v]
  BY DEF TypeOK, TaskInv, Continue, poolVars, Walking

\* enqueues an item,
LEMMA EnqueueEffect ==
  ASSUME TypeOK, TaskInv, NEW w \in Worker, NEW it, NEW t, Enqueue(w, it, t)
  PROVE  /\ w \in Walking /\ Walking' = Walking /\ held' = held
         /\ found' = found \cup {it} /\ walked' = walked /\ failed' = failed
         /\ task' = [task EXCEPT ![w] = t]
         /\ task'[w] = t /\ \A v \in Worker \ {w} : task'[v] = task[v]
  BY DEF TypeOK, TaskInv, Enqueue, Offer, Walking

\* or returns from walk().
LEMMA ReturnEffect ==
  ASSUME TypeOK, TaskInv, NEW w \in Worker, NEW r, Return(w, r)
  PROVE  /\ w \in Walking /\ Walking' = Walking \ {w} /\ held' = held
         /\ found' = found /\ walked' = walked \cup {held[w]}
         /\ failed' = failed \cup ({r} \ {Nil})
         /\ task' = [task EXCEPT ![w] = NoTask]
         /\ task'[w] = NoTask /\ \A v \in Worker \ {w} : task'[v] = task[v]
  BY DEF TypeOK, TaskInv, Return, Finish, Walking

\* The items the workers hold.
LEMMA HeldItemFacts ==
  ASSUME TypeOK, ItemsFound, Apart, ItemInv
  PROVE  /\ \A w \in Walking : held[w] \in found /\ held[w] \notin walked /\ Dir(w) \in Path
         /\ \A v, w \in Walking : held[v] = held[w] => v = w
         /\ \A v, w \in Walking : Dir(v) = Dir(w) => v = w
         /\ walked \subseteq found
<1>1. \A w \in Walking : held[w] \in found
  BY DEF ItemsFound, Handled
<1>2. \A w \in Walking : held[w] \notin walked
  BY DEF Apart, Disjoint, HeldItems
<1>3. \A v, w \in Walking : held[v] = held[w] => v = w
  BY DEF Apart, NoRepetition
<1>4. walked \subseteq found
  BY DEF ItemsFound
<1>5. \A w \in Walking : Dir(w) \in Path
  BY <1>1 DEF ItemInv, Dir
<1>6. \A v, w \in Walking : Dir(v) = Dir(w) => v = w
  BY <1>1, <1>3 DEF ItemInv, Dir
<1>7. QED
  BY <1>1, <1>2, <1>3, <1>4, <1>5, <1>6

\* The entry readDir looks at was neither called nor enqueued before.
LEMMA EntryIsNew ==
  ASSUME PoolInv, WalkInv, NEW w \in Worker, AtEntry(w)
  PROVE  /\ w \in Walking /\ held[w] \in found
         /\ task[w].stage = "entries" /\ task[w].rest # <<>>
         /\ task[w].rest \in Seq(Node) /\ task[w].skipFiles \in BOOLEAN /\ task[w].err \in Result
         /\ Entry(w) \in Node /\ Tail(task[w].rest) \in Seq(Node)
         /\ Range(task[w].rest) = {Entry(w)} \cup Range(Tail(task[w].rest))
         /\ Entry(w) \notin Range(Tail(task[w].rest)) /\ Distinct(Tail(task[w].rest))
         /\ Dir(w) \in Path
         /\ EntryPath(w) = Append(Dir(w), Entry(w))
         /\ EntryPath(w) \in Path /\ EntryPath(w) # <<Top>>
         /\ Last(EntryPath(w)) = Entry(w) /\ Front(EntryPath(w)) = Dir(w)
         /\ Len(EntryPath(w)) = Len(Dir(w)) + 1 /\ Len(Dir(w)) \in Nat
         /\ EntryPath(w) \notin Reached
         /\ \A c \in Made : c.path # EntryPath(w)
         /\ \A x \in found : x.path # EntryPath(w)
<1>1. w \in Walking /\ task[w].stage = "entries" /\ task[w].rest # <<>> /\ task[w] \in Task
  BY DEF AtEntry, InStage, Walking, WalkInv, TaskInv
<1>2. Dir(w) \in Path /\ held[w] \in found
  BY <1>1, HeldItemFacts DEF PoolInv, IInv, WalkInv
<1>3. task[w].rest \in Seq(Node) /\ task[w].skipFiles \in BOOLEAN /\ task[w].err \in Result
  BY <1>1 DEF Task
<1>4. /\ Entry(w) \in Node /\ Tail(task[w].rest) \in Seq(Node)
      /\ Range(task[w].rest) = {Entry(w)} \cup Range(Tail(task[w].rest))
  BY <1>1, <1>3, ElemsHeadTail DEF Entry
<1>5. /\ Distinct(task[w].rest)
      /\ \A n \in Range(task[w].rest) : Append(Dir(w), n) \notin Reached
  BY <1>1 DEF WalkInv, RestInv
<1>6. Entry(w) \notin Range(Tail(task[w].rest)) /\ Distinct(Tail(task[w].rest))
  BY <1>1, <1>3, <1>5, DistinctHeadTail DEF Entry
<1>7. /\ EntryPath(w) \in Path /\ EntryPath(w) # <<Top>>
      /\ Last(EntryPath(w)) = Entry(w) /\ Front(EntryPath(w)) = Dir(w)
      /\ Len(EntryPath(w)) = Len(Dir(w)) + 1 /\ Len(Dir(w)) \in Nat
  BY <1>2, <1>4, PathAppend DEF EntryPath
<1>8. EntryPath(w) \notin Reached
  BY <1>4, <1>5 DEF EntryPath
<1>9. (\A c \in Made : c.path # EntryPath(w)) /\ (\A x \in found : x.path # EntryPath(w))
  BY <1>8 DEF Reached
<1>10. QED
  BY <1>1, <1>2, <1>3, <1>4, <1>6, <1>7, <1>8, <1>9 DEF EntryPath

\* What the user's function answers is an error or nil.
LEMMA AnswerType ==
  ASSUME NEW p \in Path, NEW e \in Result, NEW a \in UserAnswers(p, e)
  PROVE  a \in Result
<1>1. CASE e = Nil
  BY <1>1, PathLast, WalkAssumption DEF UserAnswers
<1>2. CASE e # Nil
  BY <1>2, WalkAssumption DEF UserAnswers
<1>3. QED
  BY <1>1, <1>2

\* A call of fn adds at most one call of the user's function.
LEMMA CallFnEffect ==
  ASSUME NEW p, NEW e, NEW a, NEW r, CallFn(p, e, a, r)
  PROVE  \/ calls' = calls
         \/ calls' = calls (+) SetToBag({[path |-> p, err |-> e, ret |-> a]})
  BY DEF CallFn

\* A step of readDir's loop.
LEMMA EntryEffect ==
  ASSUME PoolInv, WalkInv, NEW w \in Worker, SkipEntry(w) \/ EnqueueDir(w) \/ VisitEntry(w)
  PROVE  /\ Walking' = Walking /\ held' = held /\ walked' = walked /\ failed' = failed
         /\ UNCHANGED <<setup, opened, broken>>
         /\ task' = [task EXCEPT ![w] = task'[w]] /\ task'[w] \in Task
         /\ task'[w].stage = "entries"
         /\ task'[w].rest = Tail(task[w].rest) \/ task'[w].rest = <<>>
         /\ \A v \in Worker \ {w} : task'[v] = task[v]
         /\ \/ found' = found
            \/ \E b \in BOOLEAN : found' = found \cup {[path |-> EntryPath(w), callbackDone |-> b]}
         /\ \/ calls' = calls
            \/ \E a \in Result : calls' = calls (+) SetToBag({[path |-> EntryPath(w),
                                                               err |-> Nil, ret |-> a]})
<1>1. TypeOK /\ TaskInv /\ AtEntry(w)
  BY DEF PoolInv, IInv, WalkInv, SkipEntry, EnqueueDir, VisitEntry
<1>2. task[w] \in Task /\ task[w].stage = "entries" /\ Tail(task[w].rest) \in Seq(Node)
  BY <1>1, EntryIsNew DEF TaskInv
<1>3. /\ NextEntry(w) \in Task /\ NextEntry(w).stage = "entries"
      /\ NextEntry(w).rest = Tail(task[w].rest)
  BY <1>2 DEF NextEntry, Task
<1>4. LET t == [NextEntry(w) EXCEPT !.skipFiles = TRUE]
      IN  t \in Task /\ t.stage = "entries" /\ t.rest = Tail(task[w].rest)
  BY <1>3 DEF Task
<1>5. ASSUME NEW e \in Result
      PROVE  /\ LeaveLoop(w, e) \in Task /\ LeaveLoop(w, e).stage = "entries"
             /\ LeaveLoop(w, e).rest = <<>>
  <2>1. <<>> \in Seq(Node)
    BY EmptySeq
  <2>2. QED  BY <1>2, <1>5, <2>1 DEF LeaveLoop, Task
<1>6. CASE SkipEntry(w)
  <2>1. Continue(w, NextEntry(w)) /\ UNCHANGED <<setup, seen, calls, opened, broken>>
    BY <1>6 DEF SkipEntry
  <2>2. QED  BY <1>1, <1>3, <2>1, ContinueEffect
<1>7. CASE EnqueueDir(w)
  <2>1. /\ Enqueue(w, [path |-> EntryPath(w), callbackDone |-> FALSE], NextEntry(w))
        /\ UNCHANGED <<setup, seen, calls, opened, broken>>
    BY <1>7 DEF EnqueueDir
  <2>2. QED  BY <1>1, <1>3, <2>1, EnqueueEffect
<1>8. CASE VisitEntry(w)
  <2>1. PICK a \in UserAnswers(EntryPath(w), Nil), r \in Result :
           /\ CallFn(EntryPath(w), Nil, a, r)
           /\ \/ Enqueue(w, [path |-> EntryPath(w), callbackDone |-> TRUE], NextEntry(w))
              \/ Continue(w, NextEntry(w))
              \/ Continue(w, [NextEntry(w) EXCEPT !.skipFiles = TRUE])
              \/ Continue(w, LeaveLoop(w, EntryError(Entry(w), r)))
    BY <1>8 DEF VisitEntry
  <2>2. a \in Result
    BY <1>1, EntryIsNew, AnswerType DEF Result
  <2>3. EntryError(Entry(w), r) \in Result
    BY DEF EntryError, Result
  <2>4. UNCHANGED <<setup, opened, broken>>
    BY <1>8 DEF VisitEntry
  <2>5. \/ calls' = calls
        \/ \E b \in Result : calls' = calls (+) SetToBag({[path |-> EntryPath(w),
                                                           err |-> Nil, ret |-> b]})
    BY <2>1, <2>2, CallFnEffect
  <2>6. CASE Enqueue(w, [path |-> EntryPath(w), callbackDone |-> TRUE], NextEntry(w))
    BY <1>1, <1>3, <2>4, <2>5, <2>6, EnqueueEffect
  <2>7. CASE Continue(w, NextEntry(w))
    BY <1>1, <1>3, <2>4, <2>5, <2>7, ContinueEffect
  <2>8. CASE Continue(w, [NextEntry(w) EXCEPT !.skipFiles = TRUE])
    BY <1>1, <1>4, <2>4, <2>5, <2>8, ContinueEffect
  <2>9. CASE Continue(w, LeaveLoop(w, EntryError(Entry(w), r)))
    BY <1>1, <1>5, <2>3, <2>4, <2>5, <2>9, ContinueEffect
  <2>10. QED  BY <2>1, <2>6, <2>7, <2>8, <2>9
<1>9. QED
  BY <1>6, <1>7, <1>8

LEMMA MaxDepthType == setup \in Setups => MaxDepth \in Int
  BY TreeAssumption DEF TreeAssumption, MaxDepth

\* The node a path leads to.
LEMMA ResolveType ==
  ASSUME NEW n \in Node
  PROVE  Resolve(n) \in Node \cup {NoNode}
  BY TreeAssumption DEF TreeAssumption, Resolve

\* The other steps of walk() and readDir().
LEMMA StageEffect ==
  ASSUME PoolInv, WalkInv, NEW w \in Worker,
         Visit(w) \/ StopAtMaxDepth(w) \/ ReadDir(w) \/ EndDir(w) \/ ReportError(w)
  PROVE  /\ w \in Walking /\ found' = found /\ held' = held /\ setup' = setup
         /\ \A v \in Worker \ {w} : task'[v] = task[v]
         /\ task' = [task EXCEPT ![w] = task'[w]] /\ task'[w] \in Task
         /\ \/ /\ Walking' = Walking /\ walked' = walked /\ failed' = failed
               /\ \/ task[w].stage = "visit" /\ task'[w].stage = "descend"
                  \/ /\ task[w].stage = "descend" /\ task'[w].stage = "entries"
                     /\ ~TooDeep(held[w])
                     /\ Distinct(task'[w].rest)
                  \/ /\ task[w].stage = "entries" /\ task'[w].stage = "report"
                     /\ task'[w].err # Nil
            \/ /\ Walking' = Walking \ {w} /\ walked' = walked \cup {held[w]}
               /\ task'[w].stage = "none"
         /\ \/ calls' = calls
            \/ \E e \in Result, a \in Result :
                 /\ calls' = calls (+) SetToBag({[path |-> Dir(w), err |-> e, ret |-> a]})
                 /\ \/ task[w].stage = "visit" /\ e = Nil
                    \/ task[w].stage = "report" /\ e # Nil /\ held[w] \in walked'
         /\ opened' \cup broken' \subseteq opened \cup broken \cup {Dir(w)}
<1>1. TypeOK /\ TaskInv
  BY DEF PoolInv, IInv, WalkInv
<1>2. /\ w \in Walking /\ task[w] \in Task
      /\ task[w].stage = "report" => task[w].err # Nil
  BY <1>1 DEF Visit, StopAtMaxDepth, ReadDir, EndDir, ReportError, InStage, Walking, TaskInv
<1>3. Dir(w) \in Path /\ Last(Dir(w)) \in Node
  BY <1>2, HeldItemFacts, PathLast DEF PoolInv, IInv, WalkInv
<1>4. NoTask \in Task /\ NoTask.stage = "none" /\ <<>> \in Seq(Node)
  BY EmptySeq DEF NoTask, Task, Result
<1>5. CASE Visit(w)
  <2>1. PICK a \in UserAnswers(Dir(w), Nil), r \in Result :
           /\ CallFn(Dir(w), Nil, a, r)
           /\ \/ Continue(w, [task[w] EXCEPT !.stage = "descend"])
              \/ Return(w, Nil)
              \/ Return(w, r)
    BY <1>5 DEF Visit
  <2>2. task[w].stage = "visit" /\ UNCHANGED <<setup, opened, broken>>
    BY <1>5 DEF Visit, InStage
  <2>3. /\ [task[w] EXCEPT !.stage = "descend"] \in Task
        /\ [task[w] EXCEPT !.stage = "descend"].stage = "descend"
    BY <1>2 DEF Task
  <2>4. a \in Result /\ Nil \in Result
    BY <1>3, AnswerType DEF Result
  <2>5. \/ calls' = calls
        \/ \E e \in Result, b \in Result :
             calls' = calls (+) SetToBag({[path |-> Dir(w), err |-> e, ret |-> b]}) /\ e = Nil
    BY <2>1, <2>4, CallFnEffect
  <2>6. CASE Continue(w, [task[w] EXCEPT !.stage = "descend"])
    BY <1>1, <2>2, <2>3, <2>5, <2>6, ContinueEffect
  <2>7. CASE Return(w, Nil) \/ Return(w, r)
    BY <1>1, <1>4, <2>2, <2>5, <2>7, ReturnEffect
  <2>8. QED  BY <2>1, <2>6, <2>7
<1>6. CASE StopAtMaxDepth(w)
  <2>1. Return(w, Nil) /\ UNCHANGED <<setup, seen, calls, opened, broken>>
    BY <1>6 DEF StopAtMaxDepth
  <2>2. QED  BY <1>1, <1>4, <2>1, ReturnEffect
<1>7. CASE ReadDir(w)
  <2>1. PICK r \in Readings(Resolve(Last(Dir(w))), Nil) :
           /\ Continue(w, [NoTask EXCEPT !.stage = "entries", !.rest = r.entries, !.err = r.err])
           /\ opened' = IF r.err = Nil THEN opened \cup {Dir(w)} ELSE opened
    BY <1>7 DEF ReadDir
  <2>2. Nil \notin {"notdir", "permission", "io"} /\ {"notdir", "permission", "io"} \subseteq Result
    BY PoolAssumption, WalkAssumption DEF Result
  <2>3. /\ r.entries \in Seq(Node) /\ IsInjective(r.entries)
        /\ r.err \in {Nil, "notdir", "permission", "io"}
    BY <1>3, <2>1, <2>2, ResolveType, ReadingsListEntries
  <2>4. Distinct(r.entries) /\ r.err \in Result
    BY <2>2, <2>3 DEF Distinct, IsInjective, Result
  <2> DEFINE t == [NoTask EXCEPT !.stage = "entries", !.rest = r.entries, !.err = r.err]
  <2>5. t \in Task /\ t.stage = "entries" /\ t.rest = r.entries
    BY <2>3, <2>4 DEF NoTask, Task
  <2> HIDE DEF t
  <2>6. Continue(w, t)
    BY <2>1 DEF t
  <2>7. task[w].stage = "descend" /\ ~TooDeep(held[w]) /\ UNCHANGED <<setup, seen, calls, broken>>
    BY <1>7 DEF ReadDir, InStage
  <2>8. QED  BY <1>1, <2>1, <2>4, <2>5, <2>6, <2>7, ContinueEffect
<1>8. CASE EndDir(w)
  <2>1. /\ task[w].stage = "entries" /\ UNCHANGED <<setup, seen, calls, opened>>
        /\ broken' = broken \/ broken' = broken \cup {Dir(w)}
        /\ \/ Return(w, Nil)
           \/ task[w].err # Nil /\ Continue(w, [task[w] EXCEPT !.stage = "report"])
    BY <1>8 DEF EndDir, InStage
  <2>2. /\ [task[w] EXCEPT !.stage = "report"] \in Task
        /\ [task[w] EXCEPT !.stage = "report"].stage = "report"
        /\ [task[w] EXCEPT !.stage = "report"].err = task[w].err
    BY <1>2 DEF Task
  <2>3. CASE Return(w, Nil)
    BY <1>1, <1>4, <2>1, <2>3, ReturnEffect
  <2>4. CASE task[w].err # Nil /\ Continue(w, [task[w] EXCEPT !.stage = "report"])
    BY <1>1, <2>1, <2>2, <2>4, ContinueEffect
  <2>5. QED  BY <2>1, <2>3, <2>4
<1>9. CASE ReportError(w)
  <2>1. PICK a \in UserAnswers(Dir(w), task[w].err), r \in Result :
           CallFn(Dir(w), task[w].err, a, r) /\ Return(w, r)
    BY <1>9 DEF ReportError
  <2>2. /\ task[w].stage = "report" /\ task[w].err # Nil /\ task[w].err \in Result
        /\ UNCHANGED <<setup, opened, broken>>
    BY <1>2, <1>9 DEF ReportError, InStage, Task
  <2>3. a \in Result
    BY <1>3, <2>1, <2>2, AnswerType
  <2>4. held[w] \in walked'
    BY <1>1, <2>1, ReturnEffect
  <2>5. \/ calls' = calls
        \/ \E e \in Result, b \in Result :
             /\ calls' = calls (+) SetToBag({[path |-> Dir(w), err |-> e, ret |-> b]})
             /\ e # Nil /\ held[w] \in walked'
    BY <2>1, <2>2, <2>3, <2>4, CallFnEffect
  <2>6. QED  BY <1>1, <1>4, <2>1, <2>2, <2>5, ReturnEffect
<1>10. QED
  BY <1>5, <1>6, <1>7, <1>8, <1>9

\* Every step of a walk is a step of the pool.
LEMMA WalkStepIsPoolStep ==
  ASSUME AnyPath, PoolInv, WalkInv, [WalkNext]_walkVars
  PROVE  [PoolNext]_poolVars
<1> USE DEF PoolNext, WorkerStep, ChannelStep, Result
<1>1. CASE QuietPool
  BY <1>1 DEF QuietPool
<1>2. ASSUME NEW w \in Worker, Take(w) PROVE PoolNext
  BY <1>2 DEF Take
<1>3. ASSUME NEW w \in Worker, NEW t, Continue(w, t) PROVE UNCHANGED poolVars
  BY <1>3 DEF Continue
<1>4. ASSUME NEW w \in Worker, NEW r \in Result, Return(w, r) PROVE PoolNext
  BY <1>4 DEF Return
<1>5. ASSUME NEW w \in Worker, NEW b \in BOOLEAN, NEW t, AtEntry(w),
             Enqueue(w, [path |-> EntryPath(w), callbackDone |-> b], t)
      PROVE  PoolNext
  <2> DEFINE it == [path |-> EntryPath(w), callbackDone |-> b]
  <2>1. EntryPath(w) \in Seq(Node) /\ \A x \in found : x.path # EntryPath(w)
    BY <1>5, EntryIsNew DEF Path
  <2>2. it \in Item \ found
    BY <2>1 DEF AnyPath
  <2>3. Offer(w, it)
    BY <1>5 DEF Enqueue
  <2> HIDE DEF it
  <2>4. QED  BY <2>2, <2>3
<1>6. ASSUME NEW w \in Worker,
             Visit(w) \/ StopAtMaxDepth(w) \/ ReadDir(w) \/ EndDir(w) \/ ReportError(w)
      PROVE  [PoolNext]_poolVars
  <2>1. Nil \in Result
    OBVIOUS
  <2>2. (\E t : Continue(w, t)) \/ (\E r \in Result : Return(w, r))
    BY <1>6, <2>1 DEF Visit, StopAtMaxDepth, ReadDir, EndDir, ReportError
  <2>3. QED  BY <1>3, <1>4, <2>2
<1>7. ASSUME NEW w \in Worker, SkipEntry(w) \/ EnqueueDir(w) \/ VisitEntry(w)
      PROVE  [PoolNext]_poolVars
  <2>1. AtEntry(w)
    BY <1>7 DEF SkipEntry, EnqueueDir, VisitEntry
  <2>2. \/ \E t : Continue(w, t)
        \/ \E b \in BOOLEAN : \E t : Enqueue(w, [path |-> EntryPath(w), callbackDone |-> b], t)
    BY <1>7 DEF SkipEntry, EnqueueDir, VisitEntry
  <2>3. QED  BY <1>3, <1>5, <2>1, <2>2
<1>8. QED
  BY <1>1, <1>2, <1>6, <1>7, WalkCases

-----------------------------------------------------------------------------
(* The invariant holds at the start.                                       *)

LEMMA WalkInvInit == WalkInit => WalkInv
<1>1. SUFFICES ASSUME WalkInit PROVE WalkInv
  OBVIOUS
<1>2. /\ Walking = {} /\ found = {Root} /\ walked = {}
      /\ task = [w \in Worker |-> NoTask]
      /\ setup \in Setups /\ opened = {} /\ broken = {} /\ Made = {}
  BY <1>1, NoCalls DEF WalkInit, PoolInit, Walking, Made, BagToSet
<1>3. NoTask \in Task /\ NoTask.stage = "none"
  BY EmptySeq DEF NoTask, Task, Result
<1>4. TaskInv
  BY <1>2, <1>3 DEF TaskInv
<1>5. Root.path = <<Top>> /\ Root \in [path : Path, callbackDone : BOOLEAN]
  BY TopPath
<1>6. Reached = {<<Top>>}
  BY <1>2, <1>5 DEF Reached
<1>7. ItemInv /\ ReachInv /\ RestInv /\ CallInv /\ HistInv
  BY <1>2, <1>5, <1>6, TopPath DEF ItemInv, ReachInv, RestInv, CallInv, CalledOnce, HistInv
<1>8. DepthInv
  BY <1>2, <1>6, TopPath, MaxDepthType DEF DepthInv
<1>9. QED
  BY <1>4, <1>7, <1>8 DEF WalkInv

-----------------------------------------------------------------------------
(* Every step keeps it.                                                    *)

\* The four kinds of steps, and what they do to the calls and the paths reached.
LEMMA StepKinds ==
  ASSUME [WalkNext]_walkVars
  PROVE  \/ QuietPool /\ UNCHANGED detail
         \/ \E w \in Worker : Take(w)
         \/ \E w \in Worker :
              Visit(w) \/ StopAtMaxDepth(w) \/ ReadDir(w) \/ EndDir(w) \/ ReportError(w)
         \/ \E w \in Worker : SkipEntry(w) \/ EnqueueDir(w) \/ VisitEntry(w)
  BY WalkCases

LEMMA QuietReached ==
  ASSUME TypeOK, ItemsFound, TaskInv,
         (QuietPool /\ UNCHANGED detail) \/ \E w \in Worker : Take(w)
  PROVE  found' = found /\ walked' = walked /\ calls' = calls /\ setup' = setup
         /\ Made' = Made /\ Reached' = Reached
<1>1. found' = found /\ walked' = walked /\ calls' = calls /\ setup' = setup
  BY QuietEffect, TakeEffect DEF detail
<1>2. QED
  BY <1>1 DEF Made, Reached

LEMMA StageReached ==
  ASSUME PoolInv, WalkInv, NEW w \in Worker,
         Visit(w) \/ StopAtMaxDepth(w) \/ ReadDir(w) \/ EndDir(w) \/ ReportError(w)
  PROVE  /\ Made \subseteq Made'
         /\ \A c \in Made' \ Made :
              /\ c.path = Dir(w) /\ c.err \in Result /\ c.ret \in Result
              /\ \/ task[w].stage = "visit" /\ c.err = Nil
                 \/ task[w].stage = "report" /\ c.err # Nil /\ held[w] \in walked'
         /\ Reached' = Reached
<1>1. /\ w \in Walking /\ found' = found
      /\ \/ calls' = calls
         \/ \E e \in Result, a \in Result :
              /\ calls' = calls (+) SetToBag({[path |-> Dir(w), err |-> e, ret |-> a]})
              /\ \/ task[w].stage = "visit" /\ e = Nil
                 \/ task[w].stage = "report" /\ e # Nil /\ held[w] \in walked'
  BY StageEffect
<1>2. Made = DOMAIN calls /\ Made' = DOMAIN calls'
  BY DEF Made, BagToSet
<1>3. /\ Made \subseteq Made'
      /\ \A c \in Made' \ Made :
           /\ c.path = Dir(w) /\ c.err \in Result /\ c.ret \in Result
           /\ \/ task[w].stage = "visit" /\ c.err = Nil
              \/ task[w].stage = "report" /\ c.err # Nil /\ held[w] \in walked'
  <2>1. CASE calls' = calls
    BY <1>2, <2>1
  <2>2. CASE calls' # calls
    <3>1. PICK e \in Result, a \in Result :
            /\ calls' = calls (+) SetToBag({[path |-> Dir(w), err |-> e, ret |-> a]})
            /\ \/ task[w].stage = "visit" /\ e = Nil
               \/ task[w].stage = "report" /\ e # Nil /\ held[w] \in walked'
      BY <1>1, <2>2
    <3>2. Made' = Made \cup {[path |-> Dir(w), err |-> e, ret |-> a]}
      BY <1>2, <3>1, CallsGrow
    <3>3. QED  BY <3>1, <3>2
  <2>3. QED  BY <2>1, <2>2
<1>4. Dir(w) \in {it.path : it \in found}
  BY <1>1, HeldItemFacts DEF PoolInv, IInv, WalkInv, Dir
<1>5. QED
  BY <1>1, <1>3, <1>4 DEF Reached

LEMMA EntryReached ==
  ASSUME PoolInv, WalkInv, NEW w \in Worker, SkipEntry(w) \/ EnqueueDir(w) \/ VisitEntry(w)
  PROVE  /\ AtEntry(w)
         /\ Made \subseteq Made' /\ found \subseteq found'
         /\ \A c \in Made' \ Made :
              c.path = EntryPath(w) /\ c.err = Nil /\ c.ret \in Result
         /\ \A x \in found' \ found :
              x.path = EntryPath(w) /\ x \in [path : Path, callbackDone : BOOLEAN]
         /\ \A x, y \in found' \ found : x = y
         /\ Reached \subseteq Reached' /\ Reached' \subseteq Reached \cup {EntryPath(w)}
<1>1. AtEntry(w)
  BY DEF SkipEntry, EnqueueDir, VisitEntry
<1>2. EntryPath(w) \in Path
  BY <1>1, EntryIsNew
<1>3. /\ \/ found' = found
         \/ \E b \in BOOLEAN : found' = found \cup {[path |-> EntryPath(w), callbackDone |-> b]}
      /\ \/ calls' = calls
         \/ \E a \in Result : calls' = calls (+) SetToBag({[path |-> EntryPath(w),
                                                            err |-> Nil, ret |-> a]})
  BY EntryEffect
<1>4. Made = DOMAIN calls /\ Made' = DOMAIN calls'
  BY DEF Made, BagToSet
<1>5. /\ Made \subseteq Made'
      /\ \A c \in Made' \ Made :
           c.path = EntryPath(w) /\ c.err = Nil /\ c.ret \in Result
  <2>1. CASE calls' = calls
    BY <1>4, <2>1
  <2>2. CASE calls' # calls
    <3>1. PICK a \in Result :
            calls' = calls (+) SetToBag({[path |-> EntryPath(w), err |-> Nil, ret |-> a]})
      BY <1>3, <2>2
    <3>2. Made' = Made \cup {[path |-> EntryPath(w), err |-> Nil, ret |-> a]}
      BY <1>4, <3>1, CallsGrow
    <3>3. QED  BY <3>1, <3>2
  <2>3. QED  BY <2>1, <2>2
<1>6. /\ found \subseteq found'
      /\ \A x \in found' \ found :
           x.path = EntryPath(w) /\ x \in [path : Path, callbackDone : BOOLEAN]
      /\ \A x, y \in found' \ found : x = y
  BY <1>2, <1>3
<1>7. QED
  BY <1>1, <1>5, <1>6 DEF Reached

\* What was begun stays begun.
LEMMA BegunStays ==
  ASSUME PoolInv, WalkInv, [WalkNext]_walkVars, NEW x
  PROVE  (ReadBegun(x) => ReadBegun(x)') /\ (VisitDone(x) => VisitDone(x)')
<1>1. TypeOK /\ TaskInv /\ ItemsFound
  BY DEF PoolInv, IInv, WalkInv
<1>2. ASSUME walked \subseteq walked',
             \A v \in Walking :
               \/ held[v] \in walked'
               \/ /\ v \in Walking' /\ held'[v] = held[v]
                  /\ task[v].stage # "visit" => task'[v].stage # "visit"
                  /\ task[v].stage \in {"entries", "report"} =>
                       task'[v].stage \in {"entries", "report"}
      PROVE  (ReadBegun(x) => ReadBegun(x)') /\ (VisitDone(x) => VisitDone(x)')
  BY <1>2 DEF ReadBegun, VisitDone
<1>3. CASE QuietPool /\ UNCHANGED detail
  BY <1>1, <1>2, <1>3, QuietEffect DEF detail
<1>4. ASSUME NEW w \in Worker, Take(w)
      PROVE  (ReadBegun(x) => ReadBegun(x)') /\ (VisitDone(x) => VisitDone(x)')
  <2>1. \A v \in Walking : v \in Worker \ {w}
    BY <1>1, <1>4, TakeEffect DEF Walking
  <2>2. QED  BY <1>1, <1>2, <1>4, <2>1, TakeEffect
<1>5. ASSUME NEW w \in Worker,
             Visit(w) \/ StopAtMaxDepth(w) \/ ReadDir(w) \/ EndDir(w) \/ ReportError(w)
      PROVE  (ReadBegun(x) => ReadBegun(x)') /\ (VisitDone(x) => VisitDone(x)')
  <2>1. Walking \subseteq Worker
    BY DEF Walking
  <2>2. QED  BY <1>2, <1>5, <2>1, StageEffect
<1>6. ASSUME NEW w \in Worker, SkipEntry(w) \/ EnqueueDir(w) \/ VisitEntry(w)
      PROVE  (ReadBegun(x) => ReadBegun(x)') /\ (VisitDone(x) => VisitDone(x)')
  <2>1. Walking \subseteq Worker
    BY DEF Walking
  <2>2. QED  BY <1>2, <1>6, <2>1, EntryEffect
<1>7. QED
  BY <1>3, <1>4, <1>5, <1>6, StepKinds

LEMMA TaskInvStep ==
  ASSUME PoolInv, WalkInv, [WalkNext]_walkVars
  PROVE  TaskInv'
<1>1. TypeOK /\ TaskInv /\ ItemsFound /\ Walking \subseteq Worker
  BY DEF PoolInv, IInv, WalkInv, Walking
<1>2. CASE QuietPool /\ UNCHANGED detail
  BY <1>1, <1>2, QuietEffect DEF detail, TaskInv
<1>3. ASSUME NEW w \in Worker, Take(w) PROVE TaskInv'
  <2>1. NoTask \in Task
    BY EmptySeq DEF NoTask, Task, Result
  <2>2. \A s \in {"visit", "descend"} :
          [NoTask EXCEPT !.stage = s] \in Task /\ [NoTask EXCEPT !.stage = s].stage = s
    BY <2>1 DEF Task
  <2>3. /\ task'[w] \in Task
        /\ task'[w].stage = IF held'[w].callbackDone THEN "descend" ELSE "visit"
    BY <1>1, <1>3, <2>2, TakeEffect
  <2>4. /\ task'[w].stage \in {"visit", "descend"}
        /\ task'[w].stage = "visit" => ~held'[w].callbackDone
    BY <2>3
  <2>5. /\ Walking' = Walking \cup {w} /\ setup' = setup
        /\ \A v \in Worker \ {w} : task'[v] = task[v]
        /\ \A v \in Walking : v # w /\ held'[v] = held[v]
        /\ task' = [task EXCEPT ![w] = task'[w]]
    BY <1>1, <1>3, TakeEffect
  <2>6. QED  BY <1>1, <2>3, <2>4, <2>5 DEF TaskInv
<1>4. ASSUME NEW w \in Worker,
             Visit(w) \/ StopAtMaxDepth(w) \/ ReadDir(w) \/ EndDir(w) \/ ReportError(w)
      PROVE  TaskInv'
  BY <1>1, <1>4, StageEffect DEF TaskInv
<1>5. ASSUME NEW w \in Worker, SkipEntry(w) \/ EnqueueDir(w) \/ VisitEntry(w)
      PROVE  TaskInv'
  <2>1. w \in Walking
    BY <1>5, EntryReached, EntryIsNew
  <2>2. QED  BY <1>1, <1>5, <2>1, EntryEffect DEF TaskInv
<1>6. QED
  BY <1>2, <1>3, <1>4, <1>5, StepKinds

LEMMA ItemInvStep ==
  ASSUME PoolInv, WalkInv, [WalkNext]_walkVars
  PROVE  ItemInv'
<1>1. TypeOK /\ TaskInv /\ ItemsFound /\ ItemInv
  BY DEF PoolInv, IInv, WalkInv
<1>2. CASE found' = found
  BY <1>1, <1>2 DEF ItemInv
<1>3. ASSUME NEW w \in Worker, SkipEntry(w) \/ EnqueueDir(w) \/ VisitEntry(w)
      PROVE  ItemInv'
  <2>1. \A x \in found : x.path # EntryPath(w)
    BY <1>3, EntryReached, EntryIsNew
  <2>2. EntryPath(w) \in Path
    BY <1>3, EntryReached, EntryIsNew
  <2>3. QED  BY <1>1, <1>3, <2>1, <2>2, EntryReached DEF ItemInv
<1>4. QED
  BY <1>1, <1>2, <1>3, StepKinds, QuietReached, StageEffect

LEMMA ReachInvStep ==
  ASSUME PoolInv, WalkInv, [WalkNext]_walkVars
  PROVE  ReachInv'
<1>1. TypeOK /\ TaskInv /\ ItemsFound /\ ReachInv
  BY DEF PoolInv, IInv, WalkInv
<1>2. \A x : ReadBegun(x) => ReadBegun(x)'
  BY BegunStays
<1>3. CASE found' = found /\ Reached' = Reached
  BY <1>1, <1>2, <1>3 DEF ReachInv
<1>4. ASSUME NEW w \in Worker, SkipEntry(w) \/ EnqueueDir(w) \/ VisitEntry(w)
      PROVE  ReachInv'
  <2>1. /\ w \in Walking /\ held[w] \in found /\ task[w].stage = "entries"
        /\ Entry(w) \in Node /\ EntryPath(w) = Append(held[w].path, Entry(w))
    BY <1>4, EntryReached, EntryIsNew DEF Dir
  <2>2. ReadBegun(held[w])
    BY <2>1 DEF ReadBegun
  <2>3. QED  BY <1>1, <1>2, <1>4, <2>1, <2>2, EntryReached DEF ReachInv
<1>5. QED
  BY <1>1, <1>3, <1>4, StepKinds, QuietReached, StageEffect, StageReached

\* Before a worker begins to read its directory, no entry of it is known.
LEMMA EntriesUnknown ==
  ASSUME PoolInv, WalkInv, NEW w \in Walking,
         task[w].stage \notin {"entries", "report"}, NEW n \in Node
  PROVE  Append(Dir(w), n) \notin Reached
<1>1. SUFFICES ASSUME Append(Dir(w), n) \in Reached PROVE FALSE
  OBVIOUS
<1>2. Dir(w) \in Path /\ held[w] \in found /\ held[w] \notin walked
  BY HeldItemFacts DEF PoolInv, IInv, WalkInv
<1>3. Append(Dir(w), n) # <<Top>>
  BY <1>2, PathAppend
<1>4. PICK x \in found, m \in Node : Append(Dir(w), n) = Append(x.path, m) /\ ReadBegun(x)
  BY <1>1, <1>3 DEF WalkInv, ReachInv
<1>5. x.path = Dir(w)
  BY <1>2, <1>4, PathUnique DEF WalkInv, ItemInv
<1>6. x = held[w]
  BY <1>2, <1>5 DEF WalkInv, ItemInv, Dir
<1>7. PICK v \in Walking : held[v] = held[w] /\ task[v].stage \in {"entries", "report"}
  BY <1>2, <1>4, <1>6 DEF ReadBegun
<1>8. v = w
  BY <1>7, HeldItemFacts DEF PoolInv, IInv, WalkInv
<1>9. QED
  BY <1>7, <1>8

LEMMA RestInvStep ==
  ASSUME PoolInv, WalkInv, [WalkNext]_walkVars
  PROVE  RestInv'
<1>1. TypeOK /\ TaskInv /\ ItemsFound /\ RestInv /\ Walking \subseteq Worker
  BY DEF PoolInv, IInv, WalkInv, Walking
<1>2. CASE QuietPool /\ UNCHANGED detail
  BY <1>1, <1>2, QuietEffect, QuietReached DEF detail, RestInv, Dir
<1>3. ASSUME NEW w \in Worker, Take(w) PROVE RestInv'
  <2>1. task'[w].stage # "entries"
    BY <1>1, <1>3, TakeEffect DEF NoTask
  <2>2. \A v \in Walking' \ {w} : v \in Walking /\ held'[v] = held[v] /\ task'[v] = task[v]
    BY <1>1, <1>3, TakeEffect
  <2>3. Reached' = Reached
    BY <1>1, <1>3, QuietReached
  <2>4. QED  BY <1>1, <2>1, <2>2, <2>3 DEF RestInv, Dir
<1>4. ASSUME NEW w \in Worker,
             Visit(w) \/ StopAtMaxDepth(w) \/ ReadDir(w) \/ EndDir(w) \/ ReportError(w)
      PROVE  RestInv'
  <2>1. \A v \in Walking' \ {w} :
          task'[v].stage = "entries" =>
            /\ Distinct(task'[v].rest)
            /\ \A n \in Range(task'[v].rest) : Append(Dir(v)', n) \notin Reached'
    BY <1>1, <1>4, StageEffect, StageReached DEF RestInv, Dir
  <2>2. ASSUME w \in Walking', task'[w].stage = "entries"
        PROVE  /\ Distinct(task'[w].rest)
               /\ \A n \in Range(task'[w].rest) : Append(Dir(w)', n) \notin Reached'
    <3>1. /\ w \in Walking /\ task[w].stage = "descend" /\ Distinct(task'[w].rest)
          /\ task'[w] \in Task /\ Dir(w)' = Dir(w)
      BY <1>4, <2>2, StageEffect DEF Dir
    <3>2. task'[w].rest \in Seq(Node)
      BY <3>1 DEF Task
    <3>3. Range(task'[w].rest) \subseteq Node
      BY <3>2, ElementOfSeq, LenProperties DEF Range
    <3>4. \A n \in Node : Append(Dir(w), n) \notin Reached
      BY <3>1, EntriesUnknown
    <3>5. QED  BY <1>4, <3>1, <3>3, <3>4, StageReached
  <2>3. QED  BY <2>1, <2>2 DEF RestInv
<1>5. ASSUME NEW w \in Worker, SkipEntry(w) \/ EnqueueDir(w) \/ VisitEntry(w)
      PROVE  RestInv'
  <2>1. /\ AtEntry(w) /\ w \in Walking /\ task[w].stage = "entries"
        /\ Reached' \subseteq Reached \cup {EntryPath(w)}
        /\ EntryPath(w) = Append(Dir(w), Entry(w)) /\ Entry(w) \in Node /\ Dir(w) \in Path
        /\ Range(task[w].rest) = {Entry(w)} \cup Range(Tail(task[w].rest))
        /\ Entry(w) \notin Range(Tail(task[w].rest)) /\ Distinct(Tail(task[w].rest))
    BY <1>5, EntryReached, EntryIsNew
  <2>2. /\ Walking' = Walking /\ \A v : Dir(v)' = Dir(v)
        /\ task'[w].rest = Tail(task[w].rest) \/ task'[w].rest = <<>>
        /\ \A v \in Worker \ {w} : task'[v] = task[v]
    BY <1>5, EntryEffect DEF Dir
  <2>3. ASSUME NEW v \in Walking, NEW n \in Node, Append(Dir(v), n) = EntryPath(w)
        PROVE  v = w /\ n = Entry(w)
    <3>1. Dir(v) \in Path
      BY HeldItemFacts DEF PoolInv, IInv, WalkInv
    <3>2. Dir(v) = Dir(w) /\ n = Entry(w)
      BY <2>1, <2>3, <3>1, PathUnique
    <3>3. QED  BY <2>1, <3>2, HeldItemFacts DEF PoolInv, IInv, WalkInv
  <2>4. \A v \in Walking : Range(task[v].rest) \subseteq Node
    <3>1. \A v \in Walking : task[v].rest \in Seq(Node)
      BY <1>1 DEF TaskInv, Task
    <3>2. QED  BY <3>1, ElementOfSeq, LenProperties DEF Range
  <2>5. ASSUME NEW v \in Walking', task'[v].stage = "entries"
        PROVE  /\ Distinct(task'[v].rest)
               /\ \A n \in Range(task'[v].rest) : Append(Dir(v)', n) \notin Reached'
    <3>1. CASE v # w
      <4>1. /\ Distinct(task[v].rest)
            /\ \A n \in Range(task[v].rest) : n \in Node /\ Append(Dir(v), n) \notin Reached
        BY <1>1, <2>2, <2>4, <2>5, <3>1 DEF RestInv
      <4>2. \A n \in Range(task[v].rest) : Append(Dir(v), n) # EntryPath(w)
        BY <2>2, <2>3, <2>5, <3>1, <4>1
      <4>3. task'[v] = task[v]
        BY <1>1, <2>2, <2>5, <3>1
      <4>4. QED  BY <2>1, <2>2, <4>1, <4>2, <4>3
    <3>2. CASE v = w
      <4>1. /\ \A n \in Range(task[w].rest) : n \in Node /\ Append(Dir(w), n) \notin Reached
        BY <1>1, <2>1, <2>4 DEF RestInv
      <4>2. \A n \in Range(Tail(task[w].rest)) : Append(Dir(w), n) # EntryPath(w)
        BY <2>1, <2>3, <4>1
      <4>3. CASE task'[w].rest = <<>>
        BY <3>2, <4>3, ElemsEmpty DEF Distinct
      <4>4. CASE task'[w].rest = Tail(task[w].rest)
        BY <2>1, <2>2, <3>2, <4>1, <4>2, <4>4
      <4>5. QED  BY <2>2, <4>3, <4>4
    <3>3. QED  BY <3>1, <3>2
  <2>6. QED  BY <2>5 DEF RestInv
<1>6. QED
  BY <1>2, <1>3, <1>4, <1>5, StepKinds

LEMMA CallInvStep ==
  ASSUME PoolInv, WalkInv, [WalkNext]_walkVars
  PROVE  CallInv'
<1>1. TypeOK /\ TaskInv /\ ItemsFound /\ CallInv /\ walked \subseteq found
  BY HeldItemFacts DEF PoolInv, IInv, WalkInv
<1>2. /\ \A x \in found, c \in Made : c.path = x.path /\ ~x.callbackDone => VisitDone(x)'
      /\ \A x : VisitDone(x) => VisitDone(x)'
  BY <1>1, BegunStays DEF CallInv
<1>3. Made = DOMAIN calls /\ Made' = DOMAIN calls'
  BY DEF Made, BagToSet
<1>4. CASE found' = found /\ walked' = walked /\ calls' = calls /\ Made' = Made
  <2>1. CalledOnce'
    BY <1>1, <1>4 DEF CallInv, CalledOnce
  <2>2. QED  BY <1>1, <1>2, <1>4, <2>1 DEF CallInv
<1>5. ASSUME NEW p, NEW e, NEW a, calls' = calls (+) SetToBag({[path |-> p, err |-> e, ret |-> a]}),
             \A c \in Made : ~(c.path = p /\ (c.err = Nil <=> e = Nil))
      PROVE  CalledOnce'
  <2> DEFINE c == [path |-> p, err |-> e, ret |-> a]
  <2>1. c.path = p /\ c.err = e
    OBVIOUS
  <2>2. c \notin Made
    BY <1>5, <2>1
  <2>3. \A d \in Made : calls[d] = 1
    BY <1>1 DEF CallInv, CalledOnce
  <2>4. calls' = calls (+) SetToBag({c})
    BY <1>5
  <2> HIDE DEF c
  <2>5. Made' = Made \cup {c} /\ \A d \in Made' : calls'[d] = 1
    <3>1. c \notin DOMAIN calls /\ \A d \in DOMAIN calls : calls[d] = 1
      BY <1>3, <2>2, <2>3
    <3>2. /\ DOMAIN (calls (+) SetToBag({c})) = DOMAIN calls \cup {c}
          /\ \A d \in DOMAIN calls \cup {c} : (calls (+) SetToBag({c}))[d] = 1
      BY <3>1, OneMoreCall
    <3>3. QED  BY <1>3, <2>4, <3>2
  <2>6. \A d, f \in Made : d.path = f.path /\ (d.err = Nil <=> f.err = Nil) => d = f
    BY <1>1 DEF CallInv, CalledOnce
  <2>7. QED  BY <1>5, <2>1, <2>5, <2>6 DEF CalledOnce
<1>6. ASSUME calls' = calls PROVE CalledOnce'
  <2>1. Made' = Made
    BY <1>3, <1>6
  <2>2. QED  BY <1>1, <1>6, <2>1 DEF CallInv, CalledOnce
<1>7. ASSUME NEW w \in Worker,
             Visit(w) \/ StopAtMaxDepth(w) \/ ReadDir(w) \/ EndDir(w) \/ ReportError(w)
      PROVE  CallInv'
  <2>1. /\ w \in Walking /\ held[w] \in found /\ held[w] \notin walked
        /\ found' = found /\ walked \subseteq walked'
        /\ \A v \in Walking : held[v] = held[w] => v = w
    BY <1>7, StageEffect, HeldItemFacts DEF PoolInv, IInv, WalkInv
  <2>2. PICK it : it = held[w]
    OBVIOUS
  <2>3. it \in found /\ it.path = Dir(w) /\ \A x \in found : x.path = Dir(w) => x = it
    BY <2>1, <2>2 DEF WalkInv, ItemInv, Dir
  <2>4. /\ Made \subseteq Made'
        /\ \A c \in Made' \ Made :
             /\ c.path = Dir(w)
             /\ \/ task[w].stage = "visit" /\ c.err = Nil
                \/ task[w].stage = "report" /\ c.err # Nil /\ it \in walked'
    BY <1>7, <2>2, StageReached
  <2>5. Made' # Made => VisitDone(it)'
    <3>1. CASE task[w].stage # "visit"
      <4>1. VisitDone(it)
        BY <2>1, <2>2, <3>1 DEF VisitDone
      <4>2. QED  BY <1>2, <4>1
    <3>2. CASE task[w].stage = "visit"
      <4>1. \/ task'[w].stage = "descend" /\ Walking' = Walking
            \/ it \in walked'
        BY <1>7, <2>2, <3>2, StageEffect
      <4>2. held' = held
        BY <1>7, StageEffect
      <4>3. QED  BY <2>1, <2>2, <4>1, <4>2 DEF VisitDone
    <3>3. QED  BY <3>1, <3>2
  <2>6. \A x \in found', c \in Made' : c.path = x.path /\ ~x.callbackDone => VisitDone(x)'
    <3>1. SUFFICES ASSUME NEW x \in found, NEW c \in Made', c.path = x.path, ~x.callbackDone
                   PROVE  VisitDone(x)'
      BY <2>1
    <3>2. CASE c \in Made
      BY <1>2, <3>1, <3>2
    <3>3. CASE c \notin Made
      <4>1. x = it
        BY <2>3, <2>4, <3>1, <3>3
      <4>2. VisitDone(it)'
        BY <2>5, <3>1, <3>3
      <4>3. QED  BY <4>1, <4>2
    <3>4. QED  BY <3>2, <3>3
  <2>7. \A c \in Made' : c.err # Nil => \E x \in walked' : x.path = c.path
    BY <1>1, <2>1, <2>3, <2>4 DEF CallInv
  <2>8. CASE calls' # calls
    <3>1. PICK e \in Result, a \in Result :
            /\ calls' = calls (+) SetToBag({[path |-> Dir(w), err |-> e, ret |-> a]})
            /\ \/ task[w].stage = "visit" /\ e = Nil
               \/ task[w].stage = "report" /\ e # Nil
      BY <1>7, <2>8, StageEffect
    <3>2. CASE task[w].stage = "visit"
      <4>1. ~VisitDone(held[w])
        BY <2>1, <3>2 DEF VisitDone
      <4>2. ~held[w].callbackDone
        BY <1>1, <2>1, <3>2 DEF TaskInv
      <4>3. \A c \in Made : c.path # Dir(w)
        BY <1>1, <2>1, <4>1, <4>2 DEF CallInv, Dir
      <4>4. CalledOnce'
        BY <1>5, <3>1, <4>3
      <4>5. QED  BY <2>6, <2>7, <4>4 DEF CallInv
    <3>3. CASE task[w].stage = "report" /\ e # Nil
      <4>1. \A c \in Made : c.path = Dir(w) => c.err = Nil
        BY <1>1, <2>1, <2>2, <2>3 DEF CallInv
      <4>2. CalledOnce'
        BY <1>5, <3>1, <3>3, <4>1
      <4>3. QED  BY <2>6, <2>7, <4>2 DEF CallInv
    <3>4. QED  BY <3>1, <3>2, <3>3
  <2>9. QED  BY <1>6, <2>6, <2>7, <2>8 DEF CallInv
<1>8. ASSUME NEW w \in Worker, SkipEntry(w) \/ EnqueueDir(w) \/ VisitEntry(w)
      PROVE  CallInv'
  <2>1. /\ \A c \in Made : c.path # EntryPath(w)
        /\ \A x \in found : x.path # EntryPath(w)
    BY <1>8, EntryReached, EntryIsNew
  <2>2. /\ Made \subseteq Made' /\ found \subseteq found' /\ walked' = walked
        /\ \A c \in Made' \ Made : c.path = EntryPath(w) /\ c.err = Nil
        /\ \A x \in found' \ found : x.path = EntryPath(w)
    BY <1>8, EntryReached, EntryEffect
  <2>3. Made' # Made => \A x \in found' \ found : x.callbackDone
    <3>1. CASE VisitEntry(w)
      <4>1. found' = found \/ found' = found \cup {[path |-> EntryPath(w), callbackDone |-> TRUE]}
        BY <1>1, <3>1, EnqueueEffect, ContinueEffect DEF VisitEntry
      <4>2. QED  BY <4>1
    <3>2. CASE ~VisitEntry(w)
      <4>1. calls' = calls
        BY <1>8, <3>2 DEF SkipEntry, EnqueueDir
      <4>2. QED  BY <1>3, <4>1
    <3>3. QED  BY <3>1, <3>2
  <2>4. \A x \in found', c \in Made' : c.path = x.path /\ ~x.callbackDone => VisitDone(x)'
    <3>1. SUFFICES ASSUME NEW x \in found', NEW c \in Made', c.path = x.path, ~x.callbackDone
                   PROVE  VisitDone(x)'
      OBVIOUS
    <3>2. CASE x \in found /\ c \in Made
      BY <1>2, <3>1, <3>2
    <3>3. CASE x \in found /\ c \notin Made
      BY <2>1, <2>2, <3>1, <3>3
    <3>4. CASE x \notin found /\ c \in Made
      BY <2>1, <2>2, <3>1, <3>4
    <3>5. CASE x \notin found /\ c \notin Made
      BY <2>3, <3>1, <3>5
    <3>6. QED  BY <3>2, <3>3, <3>4, <3>5
  <2>5. \A c \in Made' : c.err # Nil => \E x \in walked' : x.path = c.path
    BY <1>1, <2>2 DEF CallInv
  <2>6. CalledOnce'
    <3>1. CASE calls' # calls
      <4>1. PICK a \in Result :
              calls' = calls (+) SetToBag({[path |-> EntryPath(w), err |-> Nil, ret |-> a]})
        BY <1>8, <3>1, EntryEffect
      <4>2. \A c \in Made : ~(c.path = EntryPath(w) /\ (c.err = Nil <=> Nil = Nil))
        BY <2>1
      <4>3. QED  BY <1>5, <4>1, <4>2
    <3>2. QED  BY <1>6, <3>1
  <2>7. QED  BY <2>4, <2>5, <2>6 DEF CallInv
<1>9. QED
  BY <1>1, <1>4, <1>7, <1>8, StepKinds, QuietReached

LEMMA DepthInvStep ==
  ASSUME PoolInv, WalkInv, [WalkNext]_walkVars
  PROVE  DepthInv'
<1>1. TypeOK /\ TaskInv /\ ItemsFound /\ DepthInv /\ Walking \subseteq Worker
  BY DEF PoolInv, IInv, WalkInv, Walking
<1>2. MaxDepth \in Int /\ \A w \in Walking : Dir(w) \in Path /\ Len(Dir(w)) \in Nat
  BY <1>1, MaxDepthType, HeldItemFacts, PathLast DEF PoolInv, IInv, WalkInv, TaskInv
<1>3. CASE QuietPool /\ UNCHANGED detail
  BY <1>1, <1>3, QuietEffect, QuietReached DEF detail, DepthInv, MaxDepth, Dir
<1>4. ASSUME NEW w \in Worker, Take(w) PROVE DepthInv'
  <2>1. task'[w].stage # "entries" /\ setup' = setup /\ Reached' = Reached
    BY <1>1, <1>4, TakeEffect, QuietReached DEF NoTask
  <2>2. \A v \in Walking' \ {w} : v \in Walking /\ held'[v] = held[v] /\ task'[v] = task[v]
    BY <1>1, <1>4, TakeEffect
  <2>3. QED  BY <1>1, <2>1, <2>2 DEF DepthInv, MaxDepth, Dir
<1>5. ASSUME NEW w \in Worker,
             Visit(w) \/ StopAtMaxDepth(w) \/ ReadDir(w) \/ EndDir(w) \/ ReportError(w)
      PROVE  DepthInv'
  <2>1. setup' = setup /\ Reached' = Reached /\ Walking' \subseteq Walking /\ held' = held
    BY <1>5, StageEffect, StageReached
  <2>2. \A v \in Walking' \ {w} : task'[v] = task[v]
    BY <1>1, <1>5, <2>1, StageEffect
  <2>3. task'[w].stage = "entries" => w \in Walking /\ ~TooDeep(held[w])
    BY <1>5, StageEffect
  <2>4. MaxDepth > 0 /\ task'[w].stage = "entries" => Len(Dir(w)) - 1 < MaxDepth
    BY <1>2, <2>3 DEF TooDeep, Depth, Dir
  <2>5. QED  BY <1>1, <2>1, <2>2, <2>4 DEF DepthInv, MaxDepth, Dir
<1>6. ASSUME NEW w \in Worker, SkipEntry(w) \/ EnqueueDir(w) \/ VisitEntry(w)
      PROVE  DepthInv'
  <2>1. /\ w \in Walking /\ task[w].stage = "entries"
        /\ Len(EntryPath(w)) = Len(Dir(w)) + 1
        /\ Reached' \subseteq Reached \cup {EntryPath(w)}
    BY <1>6, EntryReached, EntryIsNew
  <2>2. setup' = setup /\ Walking' = Walking /\ held' = held
    BY <1>6, EntryEffect
  <2>3. \A v \in Walking \ {w} : task'[v] = task[v]
    BY <1>1, <1>6, EntryEffect
  <2>4. MaxDepth > 0 => Len(Dir(w)) - 1 < MaxDepth
    BY <1>1, <2>1 DEF DepthInv
  <2>5. MaxDepth > 0 => Len(EntryPath(w)) - 1 <= MaxDepth
    BY <1>2, <2>1, <2>4
  <2>6. QED  BY <1>1, <2>1, <2>2, <2>3, <2>4, <2>5 DEF DepthInv, MaxDepth, Dir
<1>7. QED
  BY <1>3, <1>4, <1>5, <1>6, StepKinds

LEMMA HistInvStep ==
  ASSUME PoolInv, WalkInv, [WalkNext]_walkVars
  PROVE  HistInv'
<1>1. TypeOK /\ TaskInv /\ ItemsFound /\ HistInv
  BY DEF PoolInv, IInv, WalkInv
<1>2. CASE (QuietPool /\ UNCHANGED detail) \/ \E w \in Worker : Take(w)
  <2>1. opened' = opened /\ broken' = broken
    BY <1>1, <1>2, TakeEffect DEF detail
  <2>2. QED  BY <1>1, <1>2, <2>1, QuietReached DEF HistInv
<1>3. ASSUME NEW w \in Worker,
             Visit(w) \/ StopAtMaxDepth(w) \/ ReadDir(w) \/ EndDir(w) \/ ReportError(w)
      PROVE  HistInv'
  <2>1. /\ w \in Walking /\ found' = found
        /\ opened' \cup broken' \subseteq opened \cup broken \cup {Dir(w)}
    BY <1>3, StageEffect
  <2>2. Dir(w) \in {it.path : it \in found}
    BY <2>1, HeldItemFacts DEF PoolInv, IInv, WalkInv, Dir
  <2>3. QED  BY <1>1, <2>1, <2>2 DEF HistInv
<1>4. ASSUME NEW w \in Worker, SkipEntry(w) \/ EnqueueDir(w) \/ VisitEntry(w)
      PROVE  HistInv'
  <2>1. opened' = opened /\ broken' = broken /\ found \subseteq found'
    BY <1>4, EntryEffect
  <2>2. QED  BY <1>1, <2>1 DEF HistInv
<1>5. QED
  BY <1>2, <1>3, <1>4, StepKinds

-----------------------------------------------------------------------------
(* The theorems.                                                           *)

LEMMA WalkInvStep ==
  AnyPath /\ PoolInv /\ WalkInv /\ [WalkNext]_walkVars => (PoolInv /\ WalkInv)'
<1>1. SUFFICES ASSUME AnyPath, PoolInv, WalkInv, [WalkNext]_walkVars
               PROVE  PoolInv' /\ WalkInv'
  OBVIOUS
<1>2. [PoolNext]_poolVars
  BY <1>1, WalkStepIsPoolStep
<1>3. PoolInv'
  BY <1>1, <1>2, IInvStep, ApartStep DEF PoolInv, IInv
<1>4. WalkInv'
  BY <1>1, TaskInvStep, ItemInvStep, ReachInvStep, RestInvStep, CallInvStep, DepthInvStep,
     HistInvStep DEF WalkInv
<1>5. QED
  BY <1>3, <1>4

LEMMA WalkInvariant ==
  ASSUME AnyPath
  PROVE  WalkSafety => [](PoolInv /\ WalkInv)
<1>1. WalkInit => PoolInv /\ WalkInv
  BY IInvInit, ApartInit, WalkInvInit DEF WalkInit, PoolInv
<1>2. PoolInv /\ WalkInv /\ [WalkNext]_walkVars => (PoolInv /\ WalkInv)'
  BY WalkInvStep
<1>3. QED
  BY <1>1, <1>2, PTL DEF WalkSafety

\* A walk is a run of the pool: walk() hands every item to enqueue() once, so all that
\* was proved about the pool holds for the walk (fastwalk.go:550-555, 611-640).
THEOREM WalkIsPoolRun ==
  ASSUME AnyPath
  PROVE  WalkSafety => PoolSafety
<1>1. WalkInit => PoolInit
  BY DEF WalkInit
<1>2. PoolInv /\ WalkInv /\ [WalkNext]_walkVars => [PoolNext]_poolVars
  BY WalkStepIsPoolStep
<1>3. QED
  BY <1>1, <1>2, WalkInvariant, PTL DEF WalkSafety, PoolSafety

\* Whichever workers get to a path, through whichever directories and links, walkFn is
\* called for it at most once without an error and at most once with one: nobody else
\* has called or enqueued an entry when readDir's loop comes to it, and callbackDone
\* keeps a traversed link from being called again (fastwalk.go:623, 642-662).
THEOREM CalledOnceAlways ==
  ASSUME AnyPath
  PROVE  WalkSafety => []CalledOnce
<1>1. WalkInv => CalledOnce
  BY DEF WalkInv, CallInv
<1>2. QED
  BY <1>1, WalkInvariant, PTL

\* No call is made below MaxDepth, through however many links (fastwalk.go:653-656).
THEOREM DepthRespectedAlways ==
  ASSUME AnyPath
  PROVE  WalkSafety => []DepthRespected
<1>1. WalkInv => DepthRespected
  BY DEF WalkInv, DepthInv, DepthRespected, Reached
<1>2. QED
  BY <1>1, WalkInvariant, PTL

\* Walk returns nil only when every directory and link it has found was walked and no
\* walk() failed, and an error only if a walk() did.
THEOREM WalkLosesNothing ==
  ASSUME AnyPath
  PROVE  WalkSafety => [](NoLostWork /\ ErrorsSurface)
<1>1. QED
  BY WalkIsPoolRun, NothingLost, ErrorsReported, PTL
=============================================================================
