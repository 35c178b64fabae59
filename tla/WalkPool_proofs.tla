--------------------------- MODULE WalkPool_proofs ---------------------------
(***************************************************************************)
(* Proofs about WalkPool, for any number of workers, items and errors:     *)
(* type correctness, the agreement of the counter out with the channels    *)
(* and the workers, what a nil or an error result of Walk means, that no   *)
(* item is ever copied, that the pool implements WalkContract, and that    *)
(* DefaultNumWorkers gives it workers.                                     *)
(***************************************************************************)
EXTENDS WalkPool, FiniteSetTheorems, SequenceTheorems, TLAPS

-----------------------------------------------------------------------------
(* What the operations on the stack and the channels do to their elements. *)

\* Sending to a channel, or pushing on the stack, adds one element.
LEMMA ElemsAppend ==
  ASSUME NEW S, NEW s \in Seq(S), NEW e \in S
  PROVE  Range(Append(s, e)) = Range(s) \cup {e}
<1>1. /\ Append(s, e) \in Seq(S)
      /\ Len(Append(s, e)) = Len(s) + 1
      /\ \A i \in 1 .. Len(s) : Append(s, e)[i] = s[i]
      /\ Append(s, e)[Len(s) + 1] = e
  BY AppendProperties
<1>2. DOMAIN s = 1 .. Len(s) /\ DOMAIN Append(s, e) = 1 .. Len(s) + 1 /\ Len(s) \in Nat
  BY <1>1, LenProperties
<1>3. QED
  BY <1>1, <1>2 DEF Range

\* Receiving from a channel removes its head and no other element.
LEMMA ElemsHeadTail ==
  ASSUME NEW S, NEW s \in Seq(S), s # <<>>
  PROVE  /\ Head(s) \in S
         /\ Tail(s) \in Seq(S)
         /\ Len(Tail(s)) = Len(s) - 1
         /\ Range(s) = {Head(s)} \cup Range(Tail(s))
<1>1. /\ Head(s) \in S
      /\ Tail(s) \in Seq(S)
      /\ Len(Tail(s)) = Len(s) - 1
      /\ \A i \in 1 .. Len(Tail(s)) : Tail(s)[i] = s[i + 1]
  BY HeadTailProperties
<1>2. /\ Len(s) \in Nat \ {0}
      /\ DOMAIN s = 1 .. Len(s)
      /\ DOMAIN Tail(s) = 1 .. (Len(s) - 1)
  BY <1>1, LenProperties, EmptySeq
<1>3. Head(s) = s[1]
  BY <1>2
<1>4. \A i \in DOMAIN s : s[i] \in {Head(s)} \cup Range(Tail(s))
  <2>1. TAKE i \in DOMAIN s
  <2>2. CASE i = 1  BY <2>2, <1>3
  <2>3. CASE i # 1
    <3>1. i - 1 \in DOMAIN Tail(s) /\ Tail(s)[i - 1] = s[i]
      BY <2>3, <2>1, <1>1, <1>2
    <3>2. QED  BY <3>1 DEF Range
  <2>4. QED  BY <2>2, <2>3
<1>5. \A i \in DOMAIN Tail(s) : i + 1 \in DOMAIN s /\ Tail(s)[i] = s[i + 1]
  BY <1>1, <1>2
<1>6. 1 \in DOMAIN s
  BY <1>2
<1>7. QED
  BY <1>1, <1>3, <1>4, <1>5, <1>6 DEF Range

\* Popping the stack removes its top and no other element.
LEMMA ElemsPop ==
  ASSUME NEW S, NEW s \in Seq(S), s # <<>>
  PROVE  /\ s[Len(s)] \in S
         /\ SubSeq(s, 1, Len(s) - 1) \in Seq(S)
         /\ Len(SubSeq(s, 1, Len(s) - 1)) = Len(s) - 1
         /\ Range(s) = {s[Len(s)]} \cup Range(SubSeq(s, 1, Len(s) - 1))
<1> DEFINE front == SubSeq(s, 1, Len(s) - 1)
<1>1. Len(s) \in Nat \ {0} /\ DOMAIN s = 1 .. Len(s) /\ \A i \in 1 .. Len(s) : s[i] \in S
  BY LenProperties, EmptySeq, ElementOfSeq
<1>2. /\ front \in Seq(S)
      /\ Len(front) = Len(s) - 1
      /\ \A i \in 1 .. Len(s) - 1 : front[i] = s[i]
  <2>1. Len(s) - 1 \in Int /\ \A i \in 1 .. Len(s) - 1 : s[i] \in S
    BY <1>1
  <2>2. /\ front \in Seq(S)
        /\ Len(front) = IF 1 <= Len(s) - 1 THEN (Len(s) - 1) - 1 + 1 ELSE 0
        /\ \A i \in 1 .. (Len(s) - 1) - 1 + 1 : front[i] = s[1 + i - 1]
    BY <2>1, SubSeqProperties
  <2>3. QED  BY <2>2, <1>1
<1>3. DOMAIN front = 1 .. Len(s) - 1
  BY <1>2, LenProperties
<1> HIDE DEF front
<1>4. Range(s) = {s[Len(s)]} \cup Range(front)
  BY <1>1, <1>2, <1>3 DEF Range
<1>5. QED
  BY <1>1, <1>2, <1>4 DEF front

LEMMA ElemsEmpty == Range(<<>>) = {}
  BY DEF Range

LEMMA WorkersFinite == /\ NumWorkers \in Nat \ {0}
                       /\ IsFiniteSet(Busy)
                       /\ Cardinality(Busy) \in Nat
<1>1. IsFiniteSet(Worker) /\ Worker # {}
  BY PoolAssumption
<1>2. Busy \in SUBSET Worker
  BY DEF Busy, Walking, Reporting
<1>3. QED
  BY <1>1, <1>2, FS_CardinalityType, FS_EmptySet, FS_Subset DEF NumWorkers


-----------------------------------------------------------------------------
(* Every step of the pool is one of the named actions.                     *)
LEMMA NextCases ==
  ASSUME [PoolNext]_poolVars
  PROVE  \/ SendWork \/ RecvEnqueue \/ RecvError \/ RecvNil
         \/ PollItem \/ PollEmpty \/ CloseDone \/ WaitWorkers
         \/ \E w \in Worker : TakeWork(w)
         \/ \E w \in Worker : ExitIdle(w)
         \/ \E w \in Worker, it \in Item \ found : Offer(w, it)
         \/ \E w \in Worker : EnqueueSend(w)
         \/ \E w \in Worker : EnqueueDrop(w)
         \/ \E w \in Worker, r \in Result : Finish(w, r)
         \/ \E w \in Worker : SendResult(w)
         \/ \E w \in Worker : ExitReporting(w)
         \/ UNCHANGED poolVars
  BY DEF PoolNext, MainStep, WorkerStep, ChannelStep, Terminated

-----------------------------------------------------------------------------
(* Type correctness.                                                       *)
LEMMA TypeInit == PoolInit => TypeOK
<1>1. SUFFICES ASSUME PoolInit PROVE TypeOK
  OBVIOUS
<1>2. /\ todo \in Seq(Item)
      /\ workc \in Seq(Item) /\ Len(workc) = 0
      /\ enqueuec \in Seq(Item) /\ Len(enqueuec) = 0
      /\ resc \in Seq(Result) /\ Len(resc) = 0
  BY <1>1, PoolAssumption, EmptySeq DEF PoolInit
<1>3. NumWorkers \in Nat
  BY WorkersFinite
<1>4. /\ pc \in [Worker -> {"idle", "walking", "offering", "reporting", "exited"}]
      /\ held \in [Worker -> Item \cup {NoItem}]
      /\ offer \in [Worker -> Item \cup {NoItem}]
      /\ answer \in [Worker -> Result]
      /\ \A w \in Worker : pc[w] = "idle"
  BY <1>1 DEF PoolInit, Result
<1>5. Walking = {} /\ Offering = {}
  BY <1>4 DEF Walking, Offering
<1>6. /\ main \in {"select", "poll", "close", "wait", "returned"}
      /\ out \in Int /\ ret \in Result
      /\ found \in SUBSET Item /\ walked \in SUBSET Item /\ failed \in SUBSET Err
  BY <1>1, PoolAssumption DEF PoolInit, Result
<1>7. donec \in BOOLEAN
  BY <1>1, Zenon DEF PoolInit
<1>8. QED
  BY <1>2, <1>3, <1>4, <1>5, <1>6, <1>7 DEF TypeOK

LEMMA TypeStep == TypeOK /\ [PoolNext]_poolVars => TypeOK'
<1>1. SUFFICES ASSUME TypeOK, [PoolNext]_poolVars PROVE TypeOK'
  OBVIOUS
<1>0. NumWorkers \in Nat
  BY WorkersFinite
<1> USE TypeOK, <1>0 DEF TypeOK, mainVars, workerVars, history, Walking, Offering
<1>2. CASE SendWork
  <2>1. /\ todo[Len(todo)] \in Item
        /\ SubSeq(todo, 1, Len(todo) - 1) \in Seq(Item)
    BY <1>2, ElemsPop DEF SendWork
  <2>2. /\ Append(workc, todo[Len(todo)]) \in Seq(Item)
        /\ Len(Append(workc, todo[Len(todo)])) = Len(workc) + 1
        /\ Len(workc) \in Nat
    BY <2>1, AppendProperties, LenProperties
  <2>3. workc' \in Seq(Item) /\ Len(workc') <= NumWorkers
    BY <1>2, <2>2 DEF SendWork
  <2>4. todo' \in Seq(Item) /\ out' \in Int
    BY <1>2, <2>1 DEF SendWork
  <2>5. QED  BY <1>2, <2>3, <2>4 DEF SendWork
<1>3. ASSUME enqueuec # <<>>, enqueuec' = Tail(enqueuec),
             todo' = Append(todo, Head(enqueuec))
      PROVE  /\ todo' \in Seq(Item)
             /\ enqueuec' \in Seq(Item) /\ Len(enqueuec') <= NumWorkers
  <2>1. /\ Head(enqueuec) \in Item
        /\ Tail(enqueuec) \in Seq(Item)
        /\ Len(Tail(enqueuec)) = Len(enqueuec) - 1
    BY <1>3, ElemsHeadTail
  <2>2. Append(todo, Head(enqueuec)) \in Seq(Item) /\ Len(enqueuec) \in Nat
    BY <2>1, AppendProperties, LenProperties
  <2>3. QED  BY <1>3, <2>1, <2>2
<1>4. CASE RecvEnqueue
  <2>1. /\ todo' \in Seq(Item)
        /\ enqueuec' \in Seq(Item) /\ Len(enqueuec') <= NumWorkers
    BY <1>3, <1>4 DEF RecvEnqueue
  <2>2. QED  BY <2>1, <1>4 DEF RecvEnqueue
<1>5. CASE PollItem
  <2>1. /\ todo' \in Seq(Item)
        /\ enqueuec' \in Seq(Item) /\ Len(enqueuec') <= NumWorkers
    BY <1>3, <1>5 DEF PollItem
  <2>2. QED  BY <2>1, <1>5 DEF PollItem
<1>6. ASSUME resc # <<>>, resc' = Tail(resc)
      PROVE  /\ Head(resc) \in Result
             /\ resc' \in Seq(Result) /\ Len(resc') <= NumWorkers
  <2>1. /\ Head(resc) \in Result
        /\ Tail(resc) \in Seq(Result)
        /\ Len(Tail(resc)) = Len(resc) - 1
        /\ Len(resc) \in Nat
    BY <1>6, ElemsHeadTail, LenProperties
  <2>2. QED  BY <1>6, <2>1
<1>7. CASE RecvError
  <2>1. /\ ret' \in Result
        /\ resc' \in Seq(Result) /\ Len(resc') <= NumWorkers
    BY <1>6, <1>7 DEF RecvError
  <2>2. QED  BY <2>1, <1>7 DEF RecvError
<1>8. CASE RecvNil
  <2>1. resc' \in Seq(Result) /\ Len(resc') <= NumWorkers
    BY <1>6, <1>8 DEF RecvNil
  <2>2. main' \in {"select", "poll"} /\ out' \in Int
    BY <1>8 DEF RecvNil
  <2>3. QED  BY <2>1, <2>2, <1>8 DEF RecvNil
<1>9. CASE PollEmpty
  BY <1>9 DEF PollEmpty, Result
<1>10. CASE CloseDone
  BY <1>10 DEF CloseDone
<1>11. CASE WaitWorkers
  BY <1>11 DEF WaitWorkers
<1>12. ASSUME NEW w \in Worker, TakeWork(w) PROVE TypeOK'
  <2>1. /\ Head(workc) \in Item
        /\ Tail(workc) \in Seq(Item)
        /\ Len(Tail(workc)) = Len(workc) - 1
        /\ Len(workc) \in Nat
    BY <1>12, ElemsHeadTail, LenProperties DEF TakeWork
  <2>2. workc' \in Seq(Item) /\ Len(workc') <= NumWorkers
    BY <1>12, <2>1 DEF TakeWork
  <2>3. /\ held' \in [Worker -> Item \cup {NoItem}]
        /\ pc' \in [Worker -> {"idle", "walking", "offering", "reporting", "exited"}]
        /\ \A v \in Worker : pc'[v] \in {"walking", "offering"} => held'[v] \in Item
    BY <1>12, <2>1 DEF TakeWork
  <2>4. QED  BY <1>12, <2>2, <2>3 DEF TakeWork
<1>13. ASSUME NEW w \in Worker, ExitIdle(w) PROVE TypeOK'
  BY <1>13 DEF ExitIdle
<1>14. ASSUME NEW w \in Worker, ExitReporting(w) PROVE TypeOK'
  BY <1>14 DEF ExitReporting
<1>15. ASSUME NEW w \in Worker, NEW it \in Item, Offer(w, it) PROVE TypeOK'
  BY <1>15 DEF Offer
<1>16. ASSUME NEW w \in Worker, EnqueueSend(w) PROVE TypeOK'
  <2>1. /\ Append(enqueuec, offer[w]) \in Seq(Item)
        /\ Len(Append(enqueuec, offer[w])) = Len(enqueuec) + 1
        /\ Len(enqueuec) \in Nat
    BY <1>16, AppendProperties, LenProperties DEF EnqueueSend
  <2>2. enqueuec' \in Seq(Item) /\ Len(enqueuec') <= NumWorkers
    BY <1>16, <2>1 DEF EnqueueSend
  <2>3. QED  BY <1>16, <2>2 DEF EnqueueSend
<1>17. ASSUME NEW w \in Worker, EnqueueDrop(w) PROVE TypeOK'
  BY <1>17 DEF EnqueueDrop
<1>18. ASSUME NEW w \in Worker, NEW r \in Result, Finish(w, r) PROVE TypeOK'
  BY <1>18 DEF Finish, Result
<1>19. ASSUME NEW w \in Worker, SendResult(w) PROVE TypeOK'
  <2>1. /\ Append(resc, answer[w]) \in Seq(Result)
        /\ Len(Append(resc, answer[w])) = Len(resc) + 1
        /\ Len(resc) \in Nat
    BY AppendProperties, LenProperties
  <2>2. resc' \in Seq(Result) /\ Len(resc') <= NumWorkers
    BY <1>19, <2>1 DEF SendResult
  <2>3. QED  BY <1>19, <2>2 DEF SendResult
<1>20. CASE UNCHANGED poolVars
  BY <1>20 DEF poolVars
<1>21. QED
  BY <1>1, <1>2, <1>4, <1>5, <1>7, <1>8, <1>9, <1>10, <1>11, <1>12, <1>13, <1>14,
     <1>15, <1>16, <1>17, <1>18, <1>19, <1>20, NextCases

\* TypeOK holds in every reachable state, for any number of workers: no channel
\* is filled beyond its capacity, and every worker in walk() has an item.
THEOREM TypeCorrect == PoolSafety => []TypeOK
<1>1. QED
  BY TypeInit, TypeStep, PTL DEF PoolSafety

-----------------------------------------------------------------------------
(* The counter out.  A step changes one channel or one worker of the sum.  *)
LEMMA CountStep == TypeOK /\ OutCount /\ [PoolNext]_poolVars => OutCount'
<1>1. SUFFICES ASSUME TypeOK, OutCount, [PoolNext]_poolVars, ~donec'
               PROVE  out' = Len(workc') + Len(resc') + Cardinality(Busy')
  BY DEF OutCount
<1>2. /\ out \in Int
      /\ workc \in Seq(Item) /\ Len(workc) \in Nat
      /\ resc \in Seq(Result) /\ Len(resc) \in Nat
      /\ IsFiniteSet(Busy) /\ Cardinality(Busy) \in Nat
      /\ todo \in Seq(Item)
      /\ answer \in [Worker -> Result]
      /\ pc \in [Worker -> {"idle", "walking", "offering", "reporting", "exited"}]
  BY <1>1, WorkersFinite, LenProperties DEF TypeOK
<1>3. ~donec => out = Len(workc) + Len(resc) + Cardinality(Busy)
  BY <1>1 DEF OutCount
<1>4. Busy = {w \in Worker : pc[w] \in {"walking", "offering", "reporting"}}
  BY DEF Busy, Walking, Reporting
<1>5. Busy' = {w \in Worker : pc'[w] \in {"walking", "offering", "reporting"}}
  BY DEF Busy, Walking, Reporting
<1> USE DEF mainVars, workerVars, history
<1>6. CASE SendWork
  <2>1. todo[Len(todo)] \in Item
    BY <1>2, <1>6, ElemsPop DEF SendWork
  <2>2. Len(workc') = Len(workc) + 1
    BY <1>2, <1>6, <2>1, AppendProperties DEF SendWork
  <2>3. ~donec /\ Busy' = Busy /\ resc' = resc /\ out' = out + 1
    BY <1>1, <1>4, <1>5, <1>6 DEF SendWork
  <2>4. QED  BY <1>2, <1>3, <2>2, <2>3
<1>7. ASSUME RecvError \/ RecvNil
      PROVE  out' = Len(workc') + Len(resc') + Cardinality(Busy')
  <2>1. Len(resc') = Len(resc) - 1
    BY <1>2, <1>7, ElemsHeadTail DEF RecvError, RecvNil
  <2>2. ~donec /\ Busy' = Busy /\ workc' = workc /\ out' = out - 1
    BY <1>1, <1>4, <1>5, <1>7 DEF RecvError, RecvNil
  <2>3. QED  BY <1>2, <1>3, <2>1, <2>2
<1>8. ASSUME out' = out, donec' = donec, workc' = workc, resc' = resc, Busy' = Busy
      PROVE  out' = Len(workc') + Len(resc') + Cardinality(Busy')
  BY <1>1, <1>3, <1>8
<1>9. ASSUME RecvEnqueue \/ PollItem \/ PollEmpty \/ WaitWorkers
      PROVE  out' = Len(workc') + Len(resc') + Cardinality(Busy')
  BY <1>4, <1>5, <1>8, <1>9 DEF RecvEnqueue, PollItem, PollEmpty, WaitWorkers
<1>10. CASE CloseDone
  BY <1>1, <1>10 DEF CloseDone
<1>11. ASSUME NEW w \in Worker, TakeWork(w)
       PROVE  out' = Len(workc') + Len(resc') + Cardinality(Busy')
  <2>1. Len(workc') = Len(workc) - 1
    BY <1>2, <1>11, ElemsHeadTail DEF TakeWork
  <2>2. w \notin Busy /\ Busy' = Busy \cup {w}
    BY <1>2, <1>4, <1>5, <1>11 DEF TakeWork
  <2>3. Cardinality(Busy') = Cardinality(Busy) + 1
    BY <1>2, <2>2, FS_AddElement
  <2>4. ~donec /\ out' = out /\ resc' = resc
    BY <1>1, <1>11 DEF TakeWork
  <2>5. QED  BY <1>2, <1>3, <2>1, <2>3, <2>4
<1>12. ASSUME NEW w \in Worker, SendResult(w)
       PROVE  out' = Len(workc') + Len(resc') + Cardinality(Busy')
  <2>1. Len(resc') = Len(resc) + 1
    BY <1>2, <1>12, AppendProperties DEF SendResult
  <2>2. w \in Busy /\ Busy' = Busy \ {w}
    BY <1>2, <1>4, <1>5, <1>12 DEF SendResult
  <2>3. Cardinality(Busy') = Cardinality(Busy) - 1
    BY <1>2, <2>2, FS_RemoveElement
  <2>4. ~donec /\ out' = out /\ workc' = workc
    BY <1>1, <1>12 DEF SendResult
  <2>5. QED  BY <1>2, <1>3, <2>1, <2>3, <2>4
<1>13. ASSUME NEW w \in Worker, NEW it \in Item, Offer(w, it)
       PROVE  out' = Len(workc') + Len(resc') + Cardinality(Busy')
  BY <1>2, <1>4, <1>5, <1>8, <1>13 DEF Offer
<1>14. ASSUME NEW w \in Worker, EnqueueSend(w)
       PROVE  out' = Len(workc') + Len(resc') + Cardinality(Busy')
  BY <1>2, <1>4, <1>5, <1>8, <1>14 DEF EnqueueSend
<1>15. ASSUME NEW w \in Worker, NEW r \in Result, Finish(w, r)
       PROVE  out' = Len(workc') + Len(resc') + Cardinality(Busy')
  BY <1>2, <1>4, <1>5, <1>8, <1>15 DEF Finish
<1>16. ASSUME NEW w \in Worker, EnqueueDrop(w) \/ ExitIdle(w) \/ ExitReporting(w)
       PROVE  FALSE
  BY <1>1, <1>16 DEF EnqueueDrop, ExitIdle, ExitReporting
<1>17. CASE UNCHANGED poolVars
  BY <1>4, <1>5, <1>8, <1>17 DEF poolVars
<1>18. QED
  BY <1>1, <1>6, <1>7, <1>9, <1>10, <1>11, <1>12, <1>13, <1>14, <1>15, <1>16, <1>17,
     NextCases

-----------------------------------------------------------------------------
(* Where the coordinator is, and what donec and the workers say about it.  *)
LEMMA MainStepInv == TypeOK /\ MainInv /\ [PoolNext]_poolVars => MainInv'
<1>1. SUFFICES ASSUME TypeOK, MainInv, [PoolNext]_poolVars PROVE MainInv'
  OBVIOUS
<1>2. /\ main \in {"select", "poll", "close", "wait", "returned"}
      /\ pc \in [Worker -> {"idle", "walking", "offering", "reporting", "exited"}]
  BY <1>1 DEF TypeOK
<1> USE <1>1, <1>2 DEF MainInv, Quitting, mainVars, workerVars, history
<1>3. CASE SendWork
  BY <1>3 DEF SendWork
<1>4. CASE RecvEnqueue
  BY <1>4 DEF RecvEnqueue
<1>5. CASE RecvError
  BY <1>5 DEF RecvError
<1>6. CASE RecvNil
  BY <1>6 DEF RecvNil
<1>7. CASE PollItem
  BY <1>7 DEF PollItem
<1>8. CASE PollEmpty
  BY <1>8 DEF PollEmpty
<1>9. CASE CloseDone
  BY <1>9 DEF CloseDone
<1>10. CASE WaitWorkers
  BY <1>10 DEF WaitWorkers
<1>11. ASSUME NEW w \in Worker, TakeWork(w) PROVE MainInv'
  BY <1>11 DEF TakeWork
<1>12. ASSUME NEW w \in Worker, ExitIdle(w) PROVE MainInv'
  BY <1>12 DEF ExitIdle
<1>13. ASSUME NEW w \in Worker, NEW it \in Item, Offer(w, it) PROVE MainInv'
  BY <1>13 DEF Offer
<1>14. ASSUME NEW w \in Worker, EnqueueSend(w) PROVE MainInv'
  BY <1>14 DEF EnqueueSend
<1>15. ASSUME NEW w \in Worker, EnqueueDrop(w) PROVE MainInv'
  BY <1>15 DEF EnqueueDrop
<1>16. ASSUME NEW w \in Worker, NEW r \in Result, Finish(w, r) PROVE MainInv'
  BY <1>16 DEF Finish
<1>17. ASSUME NEW w \in Worker, SendResult(w) PROVE MainInv'
  BY <1>17 DEF SendResult
<1>18. ASSUME NEW w \in Worker, ExitReporting(w) PROVE MainInv'
  BY <1>18 DEF ExitReporting
<1>19. CASE UNCHANGED poolVars
  BY <1>19 DEF poolVars
<1>20. QED
  BY <1>1, <1>3, <1>4, <1>5, <1>6, <1>7, <1>8, <1>9, <1>10, <1>11, <1>12, <1>13,
     <1>14, <1>15, <1>16, <1>17, <1>18, <1>19, NextCases

-----------------------------------------------------------------------------
(* Items.  Pending is where the pool knows an item from; the only step that *)
(* forgets one is a drop by enqueue, which needs a closed donec.           *)
Pending == Waiting \cup Handled \cup walked

\* No step loses an item it still has to walk while donec is open, and no step
\* brings in an item that was not created by a worker.
ItemsStay ==
  /\ ~donec' => Pending \cup (found' \ found) \subseteq Pending'
  /\ Pending' \subseteq Pending \cup (found' \ found)
  /\ found \subseteq found'

LEMMA ItemsStep == TypeOK /\ [PoolNext]_poolVars => ItemsStay
<1>1. SUFFICES ASSUME TypeOK, [PoolNext]_poolVars PROVE ItemsStay
  OBVIOUS
<1>2. /\ todo \in Seq(Item) /\ workc \in Seq(Item) /\ enqueuec \in Seq(Item)
      /\ pc \in [Worker -> {"idle", "walking", "offering", "reporting", "exited"}]
      /\ held \in [Worker -> Item \cup {NoItem}]
      /\ offer \in [Worker -> Item \cup {NoItem}]
      /\ \A w \in Worker : pc[w] = "offering" => offer[w] \in Item
  BY <1>1 DEF TypeOK, Offering
<1> USE DEF mainVars, workerVars, history
<1>3. ASSUME found' = found, walked' = walked, Waiting' = Waiting, Handled' = Handled
      PROVE  ItemsStay
  BY <1>3 DEF ItemsStay, Pending
<1>4. ASSUME pc' = pc, held' = held, offer' = offer
      PROVE  Handled' = Handled
  BY <1>4 DEF Handled, Walking, Offering
<1>5. CASE SendWork
  <2>1. /\ todo[Len(todo)] \in Item
        /\ Range(todo) = {todo[Len(todo)]} \cup Range(todo')
    BY <1>2, <1>5, ElemsPop DEF SendWork
  <2>2. Range(workc') = Range(workc) \cup {todo[Len(todo)]}
    BY <1>2, <1>5, <2>1, ElemsAppend DEF SendWork
  <2>3. Waiting' = Waiting
    BY <1>5, <2>1, <2>2 DEF Waiting, SendWork
  <2>4. QED  BY <1>3, <1>4, <1>5, <2>3 DEF SendWork
<1>6. CASE RecvEnqueue \/ PollItem
  <2>1. /\ Head(enqueuec) \in Item
        /\ Range(enqueuec) = {Head(enqueuec)} \cup Range(enqueuec')
    BY <1>2, <1>6, ElemsHeadTail DEF RecvEnqueue, PollItem
  <2>2. Range(todo') = Range(todo) \cup {Head(enqueuec)}
    <3>1. todo' = Append(todo, Head(enqueuec))
      BY <1>6 DEF RecvEnqueue, PollItem
    <3>2. QED  BY <1>2, <2>1, <3>1, ElemsAppend
  <2>3. Waiting' = Waiting
    BY <1>6, <2>1, <2>2 DEF Waiting, RecvEnqueue, PollItem
  <2>4. QED  BY <1>3, <1>4, <1>6, <2>3 DEF RecvEnqueue, PollItem
<1>7. CASE RecvError \/ RecvNil \/ PollEmpty \/ CloseDone \/ WaitWorkers
  <2>1. Waiting' = Waiting
    BY <1>7 DEF Waiting, RecvError, RecvNil, PollEmpty, CloseDone, WaitWorkers
  <2>2. QED
    BY <1>3, <1>4, <1>7, <2>1 DEF RecvError, RecvNil, PollEmpty, CloseDone, WaitWorkers
<1>8. ASSUME NEW w \in Worker, TakeWork(w) PROVE ItemsStay
  <2>1. Range(workc) = {Head(workc)} \cup Range(workc')
    BY <1>2, <1>8, ElemsHeadTail DEF TakeWork
  <2>2. Handled' = Handled \cup {Head(workc)}
    <3>1. Walking' = Walking \cup {w} /\ w \notin Walking /\ Offering' = Offering
      BY <1>2, <1>8 DEF TakeWork, Walking, Offering
    <3>2. held'[w] = Head(workc) /\ \A v \in Walking : held'[v] = held[v]
      BY <1>2, <1>8, <3>1 DEF TakeWork, Walking
    <3>3. {held'[v] : v \in Walking'} = {held[v] : v \in Walking} \cup {Head(workc)}
      BY <3>1, <3>2
    <3>4. {offer'[v] : v \in Offering'} = {offer[v] : v \in Offering}
      BY <1>8, <3>1 DEF TakeWork
    <3>5. QED  BY <3>3, <3>4 DEF Handled
  <2>3. QED  BY <1>8, <2>1, <2>2 DEF TakeWork, ItemsStay, Pending, Waiting
<1>9. ASSUME NEW w \in Worker, ExitIdle(w) \/ ExitReporting(w) \/ SendResult(w)
      PROVE  ItemsStay
  <2>1. Walking' = Walking /\ Offering' = Offering /\ w \notin Walking
    BY <1>2, <1>9 DEF ExitIdle, ExitReporting, SendResult, Walking, Offering
  <2>2. offer' = offer /\ \A v \in Walking : held'[v] = held[v]
    BY <1>2, <1>9, <2>1 DEF ExitIdle, ExitReporting, SendResult, Walking
  <2>3. Handled' = Handled
    BY <2>1, <2>2 DEF Handled
  <2>4. QED
    BY <1>3, <1>9, <2>3 DEF ExitIdle, ExitReporting, SendResult, Waiting
<1>10. ASSUME NEW w \in Worker, NEW it \in Item \ found, Offer(w, it) PROVE ItemsStay
  <2>1. Walking' = Walking /\ Offering' = Offering \cup {w} /\ w \notin Offering
    BY <1>2, <1>10 DEF Offer, Walking, Offering
  <2>2. held' = held /\ offer'[w] = it /\ \A v \in Offering : offer'[v] = offer[v]
    BY <1>2, <1>10, <2>1 DEF Offer, Offering
  <2>3. {offer'[v] : v \in Offering'} = {offer[v] : v \in Offering} \cup {it}
    BY <2>1, <2>2
  <2>4. Handled' = Handled \cup {it}
    BY <2>1, <2>2, <2>3 DEF Handled
  <2>5. QED  BY <1>10, <2>4 DEF Offer, ItemsStay, Pending, Waiting
<1>11. ASSUME NEW w \in Worker, EnqueueSend(w) \/ EnqueueDrop(w)
       PROVE  Handled = Handled' \cup {offer[w]}
  <2>1. Walking' = Walking /\ Offering = Offering' \cup {w} /\ w \notin Offering'
    BY <1>2, <1>11 DEF EnqueueSend, EnqueueDrop, Walking, Offering
  <2>2. held' = held /\ \A v \in Offering' : offer'[v] = offer[v]
    BY <1>2, <1>11, <2>1 DEF EnqueueSend, EnqueueDrop, Offering
  <2>3. {offer[v] : v \in Offering} = {offer'[v] : v \in Offering'} \cup {offer[w]}
    BY <2>1, <2>2
  <2>4. QED  BY <2>1, <2>2, <2>3 DEF Handled
<1>12. ASSUME NEW w \in Worker, EnqueueSend(w) PROVE ItemsStay
  <2>1. Range(enqueuec') = Range(enqueuec) \cup {offer[w]}
    BY <1>2, <1>12, ElemsAppend DEF EnqueueSend
  <2>2. QED
    BY <1>11, <1>12, <2>1 DEF EnqueueSend, ItemsStay, Pending, Waiting
<1>13. ASSUME NEW w \in Worker, EnqueueDrop(w) PROVE ItemsStay
  BY <1>11, <1>13 DEF EnqueueDrop, ItemsStay, Pending, Waiting
<1>14. ASSUME NEW w \in Worker, NEW r \in Result, Finish(w, r) PROVE ItemsStay
  <2>1. Walking = Walking' \cup {w} /\ Offering' = Offering
    BY <1>2, <1>14 DEF Finish, Walking, Offering
  <2>2. {held[v] : v \in Walking} = {held[v] : v \in Walking'} \cup {held[w]}
    BY <2>1
  <2>3. Handled = Handled' \cup {held[w]}
    BY <1>14, <2>1, <2>2 DEF Finish, Handled
  <2>4. QED  BY <1>14, <2>3 DEF Finish, ItemsStay, Pending, Waiting
<1>15. CASE UNCHANGED poolVars
  BY <1>3, <1>4, <1>15 DEF poolVars, Waiting
<1>16. QED
  BY <1>1, <1>5, <1>6, <1>7, <1>8, <1>9, <1>10, <1>12, <1>13, <1>14, <1>15, NextCases

-----------------------------------------------------------------------------
(* Errors.  An answer stays in a worker's hands or in resc until the       *)
(* coordinator receives it, or is left behind once donec is closed.        *)
AnswersStay ==
  /\ ~Quitting' => Answers \cup (failed' \ failed) \subseteq Answers' \cup {Nil}
  /\ Answers' \cup {ret'} \subseteq Answers \cup {ret, Nil} \cup (failed' \ failed) \cup failed
  /\ failed \subseteq failed'

LEMMA AnswersStep == TypeOK /\ MainInv /\ [PoolNext]_poolVars => AnswersStay
<1>1. SUFFICES ASSUME TypeOK, MainInv, [PoolNext]_poolVars PROVE AnswersStay
  OBVIOUS
<1>2. /\ resc \in Seq(Result)
      /\ pc \in [Worker -> {"idle", "walking", "offering", "reporting", "exited"}]
      /\ answer \in [Worker -> Result]
      /\ donec => Quitting
  BY <1>1 DEF TypeOK, MainInv, Quitting
<1> USE DEF mainVars, workerVars, history
<1>3. ASSUME Reporting' = Reporting, answer' = answer, resc' = resc,
             failed' = failed, ret' = ret
      PROVE  AnswersStay
  BY <1>3 DEF AnswersStay, Answers
<1>4. ASSUME pc' = pc, answer' = answer, resc' = resc, failed' = failed, ret' = ret
      PROVE  AnswersStay
  BY <1>3, <1>4 DEF Reporting
<1>5. CASE SendWork \/ RecvEnqueue \/ PollItem \/ CloseDone \/ WaitWorkers
  BY <1>4, <1>5 DEF SendWork, RecvEnqueue, PollItem, CloseDone, WaitWorkers
<1>6. CASE PollEmpty
  <2>1. Answers' = Answers /\ failed' = failed
    BY <1>6 DEF PollEmpty, Answers, Reporting
  <2>2. QED  BY <1>6, <2>1 DEF PollEmpty, AnswersStay
<1>7. ASSUME RecvError \/ RecvNil
      PROVE  Answers = Answers' \cup {Head(resc)}
  <2>1. Range(resc) = {Head(resc)} \cup Range(resc')
    BY <1>2, <1>7, ElemsHeadTail DEF RecvError, RecvNil
  <2>2. {answer'[w] : w \in Reporting'} = {answer[w] : w \in Reporting}
    BY <1>7 DEF RecvError, RecvNil, Reporting
  <2>3. QED  BY <2>1, <2>2 DEF Answers
<1>8. CASE RecvError
  BY <1>7, <1>8 DEF RecvError, AnswersStay, Quitting
<1>9. CASE RecvNil
  BY <1>7, <1>9 DEF RecvNil, AnswersStay
<1>10. ASSUME NEW w \in Worker, TakeWork(w) PROVE AnswersStay
  BY <1>2, <1>3, <1>10 DEF TakeWork, Reporting
<1>11. ASSUME NEW w \in Worker, ExitIdle(w) PROVE AnswersStay
  BY <1>2, <1>3, <1>11 DEF ExitIdle, Reporting
<1>12. ASSUME NEW w \in Worker, NEW it \in Item, Offer(w, it) PROVE AnswersStay
  BY <1>2, <1>3, <1>12 DEF Offer, Reporting
<1>13. ASSUME NEW w \in Worker, EnqueueSend(w) PROVE AnswersStay
  BY <1>2, <1>3, <1>13 DEF EnqueueSend, Reporting
<1>14. ASSUME NEW w \in Worker, EnqueueDrop(w) PROVE AnswersStay
  BY <1>2, <1>3, <1>14 DEF EnqueueDrop, Reporting
<1>15. ASSUME NEW w \in Worker, NEW r \in Result, Finish(w, r) PROVE AnswersStay
  <2>1. Reporting' = Reporting \cup {w} /\ w \notin Reporting
    BY <1>2, <1>15 DEF Finish, Reporting
  <2>2. answer'[w] = r /\ \A v \in Reporting : answer'[v] = answer[v]
    BY <1>2, <1>15, <2>1 DEF Finish, Reporting
  <2>3. {answer'[v] : v \in Reporting'} = {answer[v] : v \in Reporting} \cup {r}
    BY <2>1, <2>2
  <2>4. Answers' = Answers \cup {r}
    BY <1>15, <2>3 DEF Finish, Answers
  <2>5. QED  BY <1>15, <2>4 DEF Finish, AnswersStay
<1>16. ASSUME NEW w \in Worker, SendResult(w) \/ ExitReporting(w)
       PROVE  {answer[v] : v \in Reporting} = {answer'[v] : v \in Reporting'} \cup {answer[w]}
  <2>1. Reporting = Reporting' \cup {w}
    BY <1>2, <1>16 DEF SendResult, ExitReporting, Reporting
  <2>2. answer' = answer
    BY <1>16 DEF SendResult, ExitReporting
  <2>3. QED  BY <2>1, <2>2
<1>17. ASSUME NEW w \in Worker, SendResult(w) PROVE AnswersStay
  <2>1. Range(resc') = Range(resc) \cup {answer[w]}
    BY <1>2, <1>17, ElemsAppend DEF SendResult
  <2>2. Answers' = Answers
    BY <1>16, <1>17, <2>1 DEF Answers
  <2>3. QED  BY <1>17, <2>2 DEF SendResult, AnswersStay
<1>18. ASSUME NEW w \in Worker, ExitReporting(w) PROVE AnswersStay
  <2>1. Answers' \subseteq Answers
    BY <1>16, <1>18 DEF Answers, ExitReporting
  <2>2. Quitting'
    BY <1>2, <1>18 DEF Quitting, ExitReporting
  <2>3. QED  BY <1>18, <2>1, <2>2 DEF ExitReporting, AnswersStay
<1>19. CASE UNCHANGED poolVars
  BY <1>4, <1>19 DEF poolVars
<1>20. QED
  BY <1>1, <1>5, <1>6, <1>8, <1>9, <1>10, <1>11, <1>12, <1>13, <1>14, <1>15, <1>17,
     <1>18, <1>19, NextCases

-----------------------------------------------------------------------------
(* The decision to return nil.                                             *)

\* The comment at fastwalk.go:494: out = 0 and an empty stack leave only enqueuec.
LEMMA PollQuiet == TypeOK /\ OutCount /\ MainInv => QuietAtPoll
<1>1. SUFFICES ASSUME TypeOK, OutCount, MainInv, main = "poll"
               PROVE  Busy = {} /\ workc = <<>> /\ resc = <<>> /\ todo = <<>>
  BY DEF QuietAtPoll
<1>2. out = 0 /\ todo = <<>> /\ ~donec
  BY <1>1 DEF MainInv
<1>3. /\ workc \in Seq(Item) /\ Len(workc) \in Nat
      /\ resc \in Seq(Result) /\ Len(resc) \in Nat
      /\ IsFiniteSet(Busy) /\ Cardinality(Busy) \in Nat
  BY <1>1, WorkersFinite, LenProperties DEF TypeOK
<1>4. Len(workc) = 0 /\ Len(resc) = 0 /\ Cardinality(Busy) = 0
  BY <1>1, <1>2, <1>3 DEF OutCount
<1>5. workc = <<>> /\ resc = <<>>
  BY <1>3, <1>4, EmptySeq
<1>6. Busy = {}
  BY <1>3, <1>4, FS_EmptySet
<1>7. QED
  BY <1>2, <1>5, <1>6

LEMMA QuietStep == IInv /\ [PoolNext]_poolVars => QuietAfterNil'
<1>1. SUFFICES ASSUME IInv, [PoolNext]_poolVars, Quitting', ret' = Nil
               PROVE  Busy' = {} /\ workc' = <<>> /\ walked' = found' /\ failed' = {}
  BY DEF QuietAfterNil
<1>2. /\ TypeOK /\ OutCount /\ MainInv /\ ItemsKept /\ ItemsFound
      /\ ErrorsKept /\ QuietAfterNil
      /\ pc \in [Worker -> {"idle", "walking", "offering", "reporting", "exited"}]
  BY <1>1 DEF IInv, TypeOK
<1>3. /\ Busy = {w \in Worker : pc[w] \in {"walking", "offering", "reporting"}}
      /\ Busy' = {w \in Worker : pc'[w] \in {"walking", "offering", "reporting"}}
  BY DEF Busy, Walking, Reporting
<1> USE DEF mainVars, workerVars, history
<1>4. CASE PollEmpty
  <2>1. Busy = {} /\ workc = <<>> /\ resc = <<>> /\ todo = <<>> /\ enqueuec = <<>>
    BY <1>2, <1>4, PollQuiet DEF QuietAtPoll, PollEmpty
  <2>2. Walking = {} /\ Offering = {} /\ Reporting = {}
    BY <2>1 DEF Busy, Walking, Offering
  <2>3. Waiting = {} /\ Handled = {} /\ Answers = {}
    BY <2>1, <2>2, ElemsEmpty DEF Waiting, Handled, Answers
  <2>4. ~Quitting
    BY <1>4 DEF PollEmpty, Quitting
  <2>5. walked = found /\ failed = {}
    BY <1>2, <2>3, <2>4 DEF ItemsKept, ItemsFound, ErrorsKept
  <2>6. QED  BY <1>3, <1>4, <2>1, <2>5 DEF PollEmpty
<1>5. CASE RecvError
  BY <1>1, <1>5 DEF RecvError
<1>6. CASE SendWork \/ RecvEnqueue \/ RecvNil \/ PollItem
  BY <1>1, <1>6 DEF SendWork, RecvEnqueue, RecvNil, PollItem, Quitting
<1>7. ASSUME Quitting, ret = Nil
      PROVE  Busy = {} /\ workc = <<>> /\ walked = found /\ failed = {}
  BY <1>2, <1>7 DEF QuietAfterNil
<1>8. CASE CloseDone \/ WaitWorkers \/ UNCHANGED poolVars
  <2>1. Quitting /\ ret = Nil
    BY <1>1, <1>8 DEF CloseDone, WaitWorkers, poolVars, Quitting
  <2>2. Busy' = Busy
    BY <1>3, <1>8 DEF CloseDone, WaitWorkers, poolVars
  <2>3. QED  BY <1>7, <1>8, <2>1, <2>2 DEF CloseDone, WaitWorkers, poolVars
<1>9. ASSUME NEW w \in Worker, main' = main, ret' = ret, w \in Busy \/ TakeWork(w)
      PROVE  FALSE
  <2>1. Quitting /\ ret = Nil
    BY <1>1, <1>9 DEF Quitting
  <2>2. QED  BY <1>7, <1>9, <2>1 DEF TakeWork
<1>10. ASSUME NEW w \in Worker, TakeWork(w) PROVE FALSE
  BY <1>9, <1>10 DEF TakeWork
<1>11. ASSUME NEW w \in Worker, NEW it \in Item, Offer(w, it) PROVE FALSE
  BY <1>3, <1>9, <1>11 DEF Offer
<1>12. ASSUME NEW w \in Worker, EnqueueSend(w) PROVE FALSE
  BY <1>3, <1>9, <1>12 DEF EnqueueSend
<1>13. ASSUME NEW w \in Worker, EnqueueDrop(w) PROVE FALSE
  BY <1>3, <1>9, <1>13 DEF EnqueueDrop
<1>14. ASSUME NEW w \in Worker, NEW r \in Result, Finish(w, r) PROVE FALSE
  BY <1>3, <1>9, <1>14 DEF Finish
<1>15. ASSUME NEW w \in Worker, SendResult(w) PROVE FALSE
  BY <1>3, <1>9, <1>15 DEF SendResult
<1>16. ASSUME NEW w \in Worker, ExitReporting(w) PROVE FALSE
  BY <1>3, <1>9, <1>16 DEF ExitReporting
<1>17. ASSUME NEW w \in Worker, ExitIdle(w)
       PROVE  Busy' = {} /\ workc' = <<>> /\ walked' = found' /\ failed' = {}
  <2>1. Quitting /\ ret = Nil
    BY <1>1, <1>17 DEF ExitIdle, Quitting
  <2>2. Busy' = Busy
    BY <1>2, <1>3, <1>17 DEF ExitIdle
  <2>3. QED  BY <1>7, <1>17, <2>1, <2>2 DEF ExitIdle
<1>18. QED
  BY <1>1, <1>4, <1>5, <1>6, <1>8, <1>10, <1>11, <1>12, <1>13, <1>14, <1>15, <1>16,
     <1>17, NextCases

-----------------------------------------------------------------------------
(* The inductive invariant.                                                *)
LEMMA IInvInit == PoolInit => IInv
<1>1. SUFFICES ASSUME PoolInit PROVE IInv
  OBVIOUS
<1>2. TypeOK
  BY <1>1, TypeInit
<1>3. Walking = {} /\ Offering = {} /\ Reporting = {} /\ Busy = {}
  BY <1>1 DEF PoolInit, Walking, Offering, Reporting, Busy
<1>4. /\ workc = <<>> /\ enqueuec = <<>> /\ resc = <<>>
      /\ Len(workc) = 0 /\ Len(resc) = 0 /\ Cardinality(Busy) = 0
  BY <1>1, <1>3, FS_EmptySet, EmptySeq DEF PoolInit
<1>5. OutCount
  BY <1>1, <1>4 DEF PoolInit, OutCount
<1>6. Range(<<Root>>) = {Root}
  BY DEF Range
<1>7. Waiting = {Root} /\ Handled = {} /\ Answers = {}
  BY <1>1, <1>3, <1>4, <1>6, ElemsEmpty DEF PoolInit, Waiting, Handled, Answers
<1>8. main = "select" /\ ret = Nil /\ walked = {} /\ failed = {} /\ found = {Root}
  BY <1>1 DEF PoolInit
<1>9. MainInv
  BY <1>1 DEF PoolInit, MainInv, Quitting
<1>10. ItemsKept /\ ItemsFound /\ ErrorsKept /\ ErrorsReal /\ QuietAfterNil
  BY <1>7, <1>8 DEF ItemsKept, ItemsFound, ErrorsKept, ErrorsReal, QuietAfterNil, Quitting
<1>11. QED
  BY <1>2, <1>5, <1>9, <1>10 DEF IInv

LEMMA IInvStep == IInv /\ [PoolNext]_poolVars => IInv'
<1>1. SUFFICES ASSUME IInv, [PoolNext]_poolVars PROVE IInv'
  OBVIOUS
<1>2. TypeOK /\ OutCount /\ MainInv
  BY <1>1 DEF IInv
<1>3. TypeOK' /\ OutCount' /\ MainInv'
  BY <1>1, <1>2, TypeStep, CountStep, MainStepInv
<1>4. Quitting => Quitting'
  BY <1>1, NextCases
  DEF Quitting, poolVars, SendWork, RecvEnqueue, RecvError, RecvNil, PollItem, PollEmpty,
      CloseDone, WaitWorkers, TakeWork, ExitIdle, Offer, EnqueueSend, EnqueueDrop,
      Finish, SendResult, ExitReporting, mainVars, workerVars, history
<1>5. ItemsKept' /\ ItemsFound'
  <2>1. ItemsStay
    BY <1>1, <1>2, ItemsStep
  <2>2. ~Quitting' => ~donec'
    BY <1>3 DEF MainInv, Quitting
  <2>3. /\ ~Quitting => found \subseteq Pending
        /\ Pending \subseteq found
    BY <1>1 DEF IInv, ItemsKept, ItemsFound, Pending
  <2>4. /\ ~Quitting' => found' \subseteq Pending'
        /\ Pending' \subseteq found'
    BY <1>4, <2>1, <2>2, <2>3 DEF ItemsStay
  <2>5. QED  BY <2>4 DEF ItemsKept, ItemsFound, Pending
<1>6. ErrorsKept' /\ ErrorsReal'
  <2>1. AnswersStay
    BY <1>1, <1>2, AnswersStep
  <2>2. /\ ~Quitting => failed \subseteq Answers
        /\ Answers \cup {ret} \subseteq failed \cup {Nil}
    BY <1>1 DEF IInv, ErrorsKept, ErrorsReal
  <2>3. Nil \notin failed'
    BY <1>3, PoolAssumption DEF TypeOK
  <2>4. ~Quitting' => failed' \subseteq Answers'
    BY <1>4, <2>1, <2>2, <2>3 DEF AnswersStay
  <2>5. Answers' \cup {ret'} \subseteq failed' \cup {Nil}
    BY <2>1, <2>2 DEF AnswersStay
  <2>6. QED  BY <2>4, <2>5 DEF ErrorsKept, ErrorsReal
<1>7. QuietAfterNil'
  BY <1>1, QuietStep
<1>8. QED
  BY <1>3, <1>5, <1>6, <1>7 DEF IInv

\* IInv holds in every reachable state of the pool.
THEOREM InductiveInvariant == PoolSafety => []IInv
<1>1. QED
  BY IInvInit, IInvStep, PTL DEF PoolSafety

\* The counter out always agrees with the channels and the workers, for any number
\* of workers (fastwalk.go:483-493).
THEOREM OutCountCorrect == PoolSafety => []OutCount
<1>1. IInv => OutCount
  BY DEF IInv
<1>2. QED
  BY <1>1, InductiveInvariant, PTL

\* The comment at fastwalk.go:494 is right: when the coordinator polls enqueuec
\* before it quits, nobody else has work.
THEOREM PollIsQuiet == PoolSafety => []QuietAtPoll
<1>1. IInv => QuietAtPoll
  BY PollQuiet DEF IInv
<1>2. QED
  BY <1>1, InductiveInvariant, PTL

\* Walk returns nil only when every item handed to enqueue() was walked without
\* an error, for any number of workers, items and interleavings.
THEOREM NothingLost == PoolSafety => []NoLostWork
<1>1. IInv => NoLostWork
  BY DEF IInv, QuietAfterNil, NoLostWork
<1>2. QED
  BY <1>1, InductiveInvariant, PTL

\* Walk returns an error exactly when some walk() did before it decided, and then
\* one of theirs.
THEOREM ErrorsReported == PoolSafety => []ErrorsSurface
<1>1. IInv => ErrorsSurface
  <2>1. SUFFICES ASSUME IInv, Quitting
                 PROVE  (failed # {} => ret \in failed) /\ (ret # Nil => ret \in failed)
    BY DEF ErrorsSurface
  <2>2. ret # Nil => ret \in failed
    BY <2>1 DEF IInv, ErrorsReal
  <2>3. ret = Nil => failed = {}
    BY <2>1 DEF IInv, QuietAfterNil
  <2>4. QED  BY <2>2, <2>3
<1>2. QED
  BY <1>1, InductiveInvariant, PTL

\* The comment at fastwalk.go:427: once Walk has returned, no worker takes another
\* step, so walkFn is not called any more.
THEOREM SilenceAfterReturn == PoolSafety => SilentAfterReturn
<1>1. IInv /\ [PoolNext]_poolVars => [main # "returned"]_poolVars
  <2>1. SUFFICES ASSUME IInv, [PoolNext]_poolVars, main = "returned"
                 PROVE  UNCHANGED poolVars
    OBVIOUS
  <2>2. \A w \in Worker : pc[w] = "exited"
    BY <2>1 DEF IInv, MainInv
  <2>3. QED
    BY <2>1, <2>2, NextCases
    DEF SendWork, RecvEnqueue, RecvError, RecvNil, PollItem, PollEmpty, CloseDone,
        WaitWorkers, TakeWork, ExitIdle, Offer, EnqueueSend, EnqueueDrop, Finish,
        SendResult, ExitReporting
<1>2. QED
  BY <1>1, InductiveInvariant, PTL DEF PoolSafety, SilentAfterReturn


-----------------------------------------------------------------------------
(* Sequences without repetitions.                                          *)

Distinct(s) == \A i, j \in DOMAIN s : s[i] = s[j] => i = j

LEMMA DistinctAppend ==
  ASSUME NEW S, NEW s \in Seq(S), NEW e \in S, Distinct(s), e \notin Range(s)
  PROVE  Distinct(Append(s, e))
<1>1. /\ Append(s, e) \in Seq(S)
      /\ Len(Append(s, e)) = Len(s) + 1
      /\ \A i \in 1 .. Len(s) : Append(s, e)[i] = s[i]
      /\ Append(s, e)[Len(s) + 1] = e
  BY AppendProperties
<1>2. DOMAIN s = 1 .. Len(s) /\ DOMAIN Append(s, e) = 1 .. Len(s) + 1 /\ Len(s) \in Nat
  BY <1>1, LenProperties
<1>3. \A i \in 1 .. Len(s) : s[i] # e
  BY <1>2 DEF Range
<1>4. QED
  BY <1>1, <1>2, <1>3 DEF Distinct

LEMMA DistinctHeadTail ==
  ASSUME NEW S, NEW s \in Seq(S), s # <<>>, Distinct(s)
  PROVE  Distinct(Tail(s)) /\ Head(s) \notin Range(Tail(s))
<1>1. /\ Tail(s) \in Seq(S)
      /\ Len(Tail(s)) = Len(s) - 1
      /\ \A i \in 1 .. Len(Tail(s)) : Tail(s)[i] = s[i + 1]
  BY HeadTailProperties
<1>2. /\ Len(s) \in Nat \ {0}
      /\ DOMAIN s = 1 .. Len(s)
      /\ DOMAIN Tail(s) = 1 .. (Len(s) - 1)
  BY <1>1, LenProperties, EmptySeq
<1>3. Head(s) = s[1]
  BY <1>2
<1>4. \A i \in DOMAIN Tail(s) : i \in Int /\ i + 1 \in DOMAIN s /\ i + 1 # 1 /\ Tail(s)[i] = s[i + 1]
  BY <1>1, <1>2
<1>5. 1 \in DOMAIN s
  BY <1>2
<1>6. Distinct(Tail(s))
  <2>1. SUFFICES ASSUME NEW i \in DOMAIN Tail(s), NEW j \in DOMAIN Tail(s),
                        Tail(s)[i] = Tail(s)[j]
                 PROVE  i = j
    BY DEF Distinct
  <2>2. i + 1 = j + 1
    BY <2>1, <1>4 DEF Distinct
  <2>3. QED  BY <2>2, <1>4
<1>7. Head(s) \notin Range(Tail(s))
  BY <1>3, <1>4, <1>5 DEF Distinct, Range
<1>8. QED
  BY <1>6, <1>7

LEMMA DistinctPop ==
  ASSUME NEW S, NEW s \in Seq(S), s # <<>>, Distinct(s)
  PROVE  LET front == SubSeq(s, 1, Len(s) - 1)
         IN  Distinct(front) /\ s[Len(s)] \notin Range(front)
<1> DEFINE front == SubSeq(s, 1, Len(s) - 1)
<1>1. Len(s) \in Nat \ {0} /\ DOMAIN s = 1 .. Len(s) /\ \A i \in 1 .. Len(s) : s[i] \in S
  BY LenProperties, EmptySeq, ElementOfSeq
<1>2. /\ front \in Seq(S)
      /\ Len(front) = Len(s) - 1
      /\ \A i \in 1 .. Len(s) - 1 : front[i] = s[i]
  <2>1. Len(s) - 1 \in Int /\ \A i \in 1 .. Len(s) - 1 : s[i] \in S
    BY <1>1
  <2>2. /\ front \in Seq(S)
        /\ Len(front) = IF 1 <= Len(s) - 1 THEN (Len(s) - 1) - 1 + 1 ELSE 0
        /\ \A i \in 1 .. (Len(s) - 1) - 1 + 1 : front[i] = s[1 + i - 1]
    BY <2>1, SubSeqProperties
  <2>3. QED  BY <2>2, <1>1
<1>3. DOMAIN front = 1 .. Len(s) - 1
  BY <1>2, LenProperties
<1>4. \A i \in DOMAIN front : i \in DOMAIN s /\ i # Len(s) /\ front[i] = s[i]
  BY <1>1, <1>2, <1>3
<1>5. Len(s) \in DOMAIN s
  BY <1>1
<1> HIDE DEF front
<1>6. Distinct(front) /\ s[Len(s)] \notin Range(front)
  BY <1>4, <1>5 DEF Distinct, Range
<1>7. QED
  BY <1>6 DEF front

-----------------------------------------------------------------------------
(* OnePlace, one kind of place at a time.                                  *)

HeldItems    == {held[w] : w \in Walking}
OfferedItems == {offer[w] : w \in Offering}

\* No kind of place holds an item twice, no two of them share one, and none holds one
\* that was walked.
NoRepetition ==
  /\ Distinct(todo) /\ Distinct(workc) /\ Distinct(enqueuec)
  /\ \A v, w \in Walking : held[v] = held[w] => v = w
  /\ \A v, w \in Offering : offer[v] = offer[w] => v = w

Disjoint(T, W, Q, H, O, D) ==
  /\ T \cap W = {} /\ T \cap Q = {} /\ T \cap H = {} /\ T \cap O = {} /\ T \cap D = {}
  /\ W \cap Q = {} /\ W \cap H = {} /\ W \cap O = {} /\ W \cap D = {}
  /\ Q \cap H = {} /\ Q \cap O = {} /\ Q \cap D = {}
  /\ H \cap O = {} /\ H \cap D = {}
  /\ O \cap D = {}

Apart ==
  /\ NoRepetition
  /\ Disjoint(Range(todo), Range(workc), Range(enqueuec), HeldItems, OfferedItems, walked)

LEMMA ApartOnePlace == Apart => OnePlace
<1>1. SUFFICES ASSUME Apart PROVE OnePlace
  OBVIOUS
<1> DEFINE Set(k) == CASE k = "todo" -> Range(todo) [] k = "workc" -> Range(workc)
                       [] k = "enqueuec" -> Range(enqueuec) [] k = "held" -> HeldItems
                       [] k = "offer" -> OfferedItems
           Kinds == {"todo", "workc", "enqueuec", "held", "offer"}
<1>2. \A s \in Slot : s[1] \in Kinds /\ At(s) \in Set(s[1]) /\ s = <<s[1], s[2]>>
  <2>1. SUFFICES ASSUME NEW s \in Slot
                 PROVE  s[1] \in Kinds /\ At(s) \in Set(s[1]) /\ s = <<s[1], s[2]>>
    OBVIOUS
  <2>2. CASE s \in {"todo"} \X DOMAIN todo
    BY <2>2 DEF At, Range
  <2>3. CASE s \in {"workc"} \X DOMAIN workc
    BY <2>3 DEF At, Range
  <2>4. CASE s \in {"enqueuec"} \X DOMAIN enqueuec
    BY <2>4 DEF At, Range
  <2>5. CASE s \in {"held"} \X Walking
    BY <2>5 DEF At, HeldItems
  <2>6. CASE s \in {"offer"} \X Offering
    BY <2>6 DEF At, OfferedItems
  <2>7. QED  BY <2>2, <2>3, <2>4, <2>5, <2>6 DEF Slot
<1>3. \A j, k \in Kinds : j # k => Set(j) \cap Set(k) = {}
  BY <1>1 DEF Apart, Disjoint
<1>4. \A k \in Kinds : Set(k) \cap walked = {}
  BY <1>1 DEF Apart, Disjoint
<1>5. ASSUME NEW s \in Slot, NEW t \in Slot, s[1] = t[1], At(s) = At(t)
      PROVE  s = t
  <2>1. CASE s[1] = "todo"
    <3>1. s[2] \in DOMAIN todo /\ t[2] \in DOMAIN todo /\ todo[s[2]] = todo[t[2]]
      BY <1>5, <2>1 DEF Slot, At
    <3>2. QED  BY <1>1, <1>2, <1>5, <3>1 DEF Apart, NoRepetition, Distinct
  <2>2. CASE s[1] = "workc"
    <3>1. s[2] \in DOMAIN workc /\ t[2] \in DOMAIN workc /\ workc[s[2]] = workc[t[2]]
      BY <1>5, <2>2 DEF Slot, At
    <3>2. QED  BY <1>1, <1>2, <1>5, <3>1 DEF Apart, NoRepetition, Distinct
  <2>3. CASE s[1] = "enqueuec"
    <3>1. /\ s[2] \in DOMAIN enqueuec /\ t[2] \in DOMAIN enqueuec
          /\ enqueuec[s[2]] = enqueuec[t[2]]
      BY <1>5, <2>3 DEF Slot, At
    <3>2. QED  BY <1>1, <1>2, <1>5, <3>1 DEF Apart, NoRepetition, Distinct
  <2>4. CASE s[1] = "held"
    <3>1. s[2] \in Walking /\ t[2] \in Walking /\ held[s[2]] = held[t[2]]
      BY <1>5, <2>4 DEF Slot, At
    <3>2. QED  BY <1>1, <1>2, <1>5, <3>1 DEF Apart, NoRepetition
  <2>5. CASE s[1] = "offer"
    <3>1. s[2] \in Offering /\ t[2] \in Offering /\ offer[s[2]] = offer[t[2]]
      BY <1>5, <2>5 DEF Slot, At
    <3>2. QED  BY <1>1, <1>2, <1>5, <3>1 DEF Apart, NoRepetition
  <2>6. QED  BY <1>2, <2>1, <2>2, <2>3, <2>4, <2>5
<1> HIDE DEF Set, Kinds
<1>6. QED
  BY <1>2, <1>3, <1>4, <1>5 DEF OnePlace


-----------------------------------------------------------------------------
(* Every step moves at most one item, from one place to another.           *)
LEMMA ApartInit == PoolInit => Apart
<1>1. SUFFICES ASSUME PoolInit PROVE Apart
  OBVIOUS
<1>2. Walking = {} /\ Offering = {}
  BY <1>1 DEF PoolInit, Walking, Offering
<1>3. todo = <<Root>> /\ workc = <<>> /\ enqueuec = <<>> /\ walked = {}
  BY <1>1 DEF PoolInit
<1>4. Distinct(<<Root>>) /\ Distinct(<<>>)
  BY DEF Distinct
<1>5. NoRepetition
  BY <1>2, <1>3, <1>4 DEF NoRepetition
<1>6. HeldItems = {} /\ OfferedItems = {}
  BY <1>2 DEF HeldItems, OfferedItems
<1>7. Disjoint(Range(todo), {}, {}, {}, {}, {})
  BY DEF Disjoint
<1>8. QED
  BY <1>3, <1>5, <1>6, <1>7, ElemsEmpty DEF Apart

LEMMA ApartStep == TypeOK /\ ItemsFound /\ Apart /\ [PoolNext]_poolVars => Apart'
<1>1. SUFFICES ASSUME TypeOK, ItemsFound, Apart, [PoolNext]_poolVars PROVE Apart'
  OBVIOUS
<1>2. /\ todo \in Seq(Item) /\ workc \in Seq(Item) /\ enqueuec \in Seq(Item)
      /\ pc \in [Worker -> {"idle", "walking", "offering", "reporting", "exited"}]
      /\ held \in [Worker -> Item \cup {NoItem}]
      /\ offer \in [Worker -> Item \cup {NoItem}]
      /\ \A w \in Worker : pc[w] = "offering" => offer[w] \in Item
  BY <1>1 DEF TypeOK, Offering
<1>3. NoRepetition
  BY <1>1 DEF Apart
<1>4. Disjoint(Range(todo), Range(workc), Range(enqueuec), HeldItems, OfferedItems, walked)
  BY <1>1 DEF Apart
<1> USE DEF mainVars, workerVars, history
<1>5. ASSUME pc' = pc, held' = held, offer' = offer
      PROVE  /\ Walking' = Walking /\ Offering' = Offering
             /\ HeldItems' = HeldItems /\ OfferedItems' = OfferedItems
  BY <1>5 DEF HeldItems, OfferedItems, Walking, Offering
<1>6. CASE SendWork
  <2> DEFINE e == todo[Len(todo)]
  <2>1. e \in Item /\ Range(todo) = {e} \cup Range(todo')
    BY <1>2, <1>6, ElemsPop DEF SendWork
  <2>2. Distinct(todo') /\ e \notin Range(todo')
    BY <1>2, <1>3, <1>6, DistinctPop DEF SendWork, NoRepetition
  <2>3. workc' = Append(workc, e)
    BY <1>6 DEF SendWork
  <2> HIDE DEF e
  <2>4. e \notin Range(workc)
    BY <1>4, <2>1 DEF Disjoint
  <2>5. Distinct(workc') /\ Range(workc') = Range(workc) \cup {e}
    BY <1>2, <1>3, <2>1, <2>3, <2>4, DistinctAppend, ElemsAppend DEF NoRepetition
  <2>6. /\ Walking' = Walking /\ Offering' = Offering /\ held' = held /\ offer' = offer
        /\ HeldItems' = HeldItems /\ OfferedItems' = OfferedItems
        /\ enqueuec' = enqueuec /\ walked' = walked
    BY <1>5, <1>6 DEF SendWork
  <2>7. NoRepetition'
    BY <1>3, <2>2, <2>5, <2>6 DEF NoRepetition
  <2>8. Disjoint(Range(todo'), Range(workc'), Range(enqueuec'), HeldItems', OfferedItems', walked')
    BY <1>4, <2>1, <2>2, <2>5, <2>6 DEF Disjoint
  <2>9. QED  BY <2>7, <2>8 DEF Apart
<1>7. CASE RecvEnqueue \/ PollItem
  <2> DEFINE e == Head(enqueuec)
  <2>1. e \in Item /\ Range(enqueuec) = {e} \cup Range(enqueuec')
    BY <1>2, <1>7, ElemsHeadTail DEF RecvEnqueue, PollItem
  <2>2. Distinct(enqueuec') /\ e \notin Range(enqueuec')
    <3>1. enqueuec # <<>> /\ enqueuec' = Tail(enqueuec)
      BY <1>7 DEF RecvEnqueue, PollItem
    <3>2. QED  BY <1>2, <1>3, <3>1, DistinctHeadTail DEF NoRepetition
  <2>3. todo' = Append(todo, e)
    BY <1>7 DEF RecvEnqueue, PollItem
  <2> HIDE DEF e
  <2>4. e \notin Range(todo)
    BY <1>4, <2>1 DEF Disjoint
  <2>5. Distinct(todo') /\ Range(todo') = Range(todo) \cup {e}
    BY <1>2, <1>3, <2>1, <2>3, <2>4, DistinctAppend, ElemsAppend DEF NoRepetition
  <2>6. /\ Walking' = Walking /\ Offering' = Offering /\ held' = held /\ offer' = offer
        /\ HeldItems' = HeldItems /\ OfferedItems' = OfferedItems
        /\ workc' = workc /\ walked' = walked
    BY <1>5, <1>7 DEF RecvEnqueue, PollItem
  <2>7. NoRepetition'
    BY <1>3, <2>2, <2>5, <2>6 DEF NoRepetition
  <2>8. Disjoint(Range(todo'), Range(workc'), Range(enqueuec'), HeldItems', OfferedItems', walked')
    BY <1>4, <2>1, <2>2, <2>5, <2>6 DEF Disjoint
  <2>9. QED  BY <2>7, <2>8 DEF Apart
<1>8. ASSUME Walking' = Walking, Offering' = Offering, offer' = offer,
             \A v \in Walking : held'[v] = held[v],
             todo' = todo, workc' = workc, enqueuec' = enqueuec, walked' = walked
      PROVE  Apart'
  <2>1. HeldItems' = HeldItems /\ OfferedItems' = OfferedItems
    BY <1>8 DEF HeldItems, OfferedItems
  <2>2. NoRepetition'
    BY <1>3, <1>8 DEF NoRepetition
  <2>3. QED  BY <1>4, <1>8, <2>1, <2>2 DEF Apart
<1>9. CASE RecvError \/ RecvNil \/ PollEmpty \/ CloseDone \/ WaitWorkers \/ UNCHANGED poolVars
  BY <1>5, <1>8, <1>9
  DEF RecvError, RecvNil, PollEmpty, CloseDone, WaitWorkers, poolVars
<1>10. ASSUME NEW w \in Worker, ExitIdle(w) \/ ExitReporting(w) \/ SendResult(w)
       PROVE  Apart'
  <2>1. Walking' = Walking /\ Offering' = Offering /\ w \notin Walking
    BY <1>2, <1>10 DEF ExitIdle, ExitReporting, SendResult, Walking, Offering
  <2>2. offer' = offer /\ \A v \in Walking : held'[v] = held[v]
    BY <1>2, <1>10, <2>1 DEF ExitIdle, ExitReporting, SendResult, Walking
  <2>3. QED  BY <1>8, <1>10, <2>1, <2>2 DEF ExitIdle, ExitReporting, SendResult
<1>11. ASSUME NEW w \in Worker, TakeWork(w) PROVE Apart'
  <2> DEFINE e == Head(workc)
  <2>1. e \in Item /\ Range(workc) = {e} \cup Range(workc')
    BY <1>2, <1>11, ElemsHeadTail DEF TakeWork
  <2>2. Distinct(workc') /\ e \notin Range(workc')
    BY <1>2, <1>3, <1>11, DistinctHeadTail DEF TakeWork, NoRepetition
  <2>3. /\ Walking' = Walking \cup {w} /\ w \notin Walking /\ Offering' = Offering
        /\ held'[w] = e
    BY <1>2, <1>11 DEF TakeWork, Walking, Offering
  <2>4. \A v \in Walking : held'[v] = held[v]
    BY <1>2, <1>11, <2>3 DEF TakeWork, Walking
  <2> HIDE DEF e
  <2>5. HeldItems' = HeldItems \cup {e}
    BY <2>3, <2>4 DEF HeldItems
  <2>6. \A v \in Walking : held[v] # e
    BY <1>4, <2>1 DEF Disjoint, HeldItems
  <2>7. /\ offer' = offer /\ OfferedItems' = OfferedItems
        /\ todo' = todo /\ enqueuec' = enqueuec /\ walked' = walked
    BY <1>11, <2>3 DEF TakeWork, OfferedItems
  <2>8. \A u, v \in Walking' : held'[u] = held'[v] => u = v
    BY <1>3, <2>3, <2>4, <2>6 DEF NoRepetition
  <2>9. NoRepetition'
    BY <1>3, <2>2, <2>3, <2>7, <2>8 DEF NoRepetition
  <2>10. Disjoint(Range(todo'), Range(workc'), Range(enqueuec'), HeldItems', OfferedItems', walked')
    BY <1>4, <2>1, <2>2, <2>5, <2>7 DEF Disjoint
  <2>11. QED  BY <2>9, <2>10 DEF Apart
<1>12. ASSUME NEW w \in Worker, NEW it \in Item \ found, Offer(w, it) PROVE Apart'
  <2>1. /\ Walking' = Walking /\ Offering' = Offering \cup {w} /\ w \notin Offering
        /\ held' = held /\ offer'[w] = it
    BY <1>2, <1>12 DEF Offer, Walking, Offering
  <2>2. \A v \in Offering : offer'[v] = offer[v]
    BY <1>2, <1>12, <2>1 DEF Offer, Offering
  <2>3. /\ OfferedItems' = OfferedItems \cup {it} /\ HeldItems' = HeldItems
    BY <2>1, <2>2 DEF OfferedItems, HeldItems
  <2>4. /\ it \notin Range(todo) /\ it \notin Range(workc) /\ it \notin Range(enqueuec)
        /\ it \notin HeldItems /\ it \notin OfferedItems /\ it \notin walked
    BY <1>1, <1>12 DEF ItemsFound, Waiting, Handled, HeldItems, OfferedItems
  <2>5. todo' = todo /\ workc' = workc /\ enqueuec' = enqueuec /\ walked' = walked
    BY <1>12 DEF Offer
  <2>6. \A u, v \in Offering' : offer'[u] = offer'[v] => u = v
    BY <1>3, <2>1, <2>2, <2>4 DEF NoRepetition, OfferedItems
  <2>7. NoRepetition'
    BY <1>3, <2>1, <2>5, <2>6 DEF NoRepetition
  <2>8. Disjoint(Range(todo'), Range(workc'), Range(enqueuec'), HeldItems', OfferedItems', walked')
    BY <1>4, <2>3, <2>4, <2>5 DEF Disjoint
  <2>9. QED  BY <2>7, <2>8 DEF Apart
<1>13. ASSUME NEW w \in Worker, EnqueueSend(w) \/ EnqueueDrop(w)
       PROVE  /\ Walking' = Walking /\ held' = held /\ HeldItems' = HeldItems
              /\ w \in Offering /\ Offering' = Offering \ {w}
              /\ \A v \in Offering' : offer'[v] = offer[v]
              /\ OfferedItems = OfferedItems' \cup {offer[w]}
              /\ offer[w] \notin OfferedItems' /\ offer[w] \in Item
              /\ \A u, v \in Offering' : offer'[u] = offer'[v] => u = v
  <2>1. /\ Walking' = Walking /\ held' = held
        /\ w \in Offering /\ Offering' = Offering \ {w}
    BY <1>2, <1>13 DEF EnqueueSend, EnqueueDrop, Walking, Offering
  <2>2. \A v \in Offering' : offer'[v] = offer[v]
    BY <1>2, <1>13, <2>1 DEF EnqueueSend, EnqueueDrop, Offering
  <2>3. HeldItems' = HeldItems
    BY <2>1 DEF HeldItems
  <2>4. /\ OfferedItems = OfferedItems' \cup {offer[w]}
        /\ offer[w] \notin OfferedItems'
    BY <1>3, <2>1, <2>2 DEF OfferedItems, NoRepetition
  <2>5. \A u, v \in Offering' : offer'[u] = offer'[v] => u = v
    BY <1>3, <2>1, <2>2 DEF NoRepetition
  <2>6. offer[w] \in Item
    BY <1>2, <2>1 DEF Offering
  <2>7. QED  BY <2>1, <2>2, <2>3, <2>4, <2>5, <2>6
<1>14. ASSUME NEW w \in Worker, EnqueueSend(w) PROVE Apart'
  <2>1. offer[w] \notin Range(enqueuec)
    BY <1>4, <1>13, <1>14 DEF Disjoint
  <2>2. Distinct(enqueuec') /\ Range(enqueuec') = Range(enqueuec) \cup {offer[w]}
    BY <1>2, <1>3, <1>13, <1>14, <2>1, DistinctAppend, ElemsAppend
    DEF EnqueueSend, NoRepetition
  <2>3. todo' = todo /\ workc' = workc /\ walked' = walked
    BY <1>14 DEF EnqueueSend
  <2>4. NoRepetition'
    BY <1>3, <1>13, <1>14, <2>2, <2>3 DEF NoRepetition
  <2>5. Disjoint(Range(todo'), Range(workc'), Range(enqueuec'), HeldItems', OfferedItems', walked')
    BY <1>4, <1>13, <1>14, <2>2, <2>3 DEF Disjoint
  <2>6. QED  BY <2>4, <2>5 DEF Apart
<1>15. ASSUME NEW w \in Worker, EnqueueDrop(w) PROVE Apart'
  <2>1. todo' = todo /\ workc' = workc /\ enqueuec' = enqueuec /\ walked' = walked
    BY <1>15 DEF EnqueueDrop
  <2>2. NoRepetition'
    BY <1>3, <1>13, <1>15, <2>1 DEF NoRepetition
  <2>3. Disjoint(Range(todo'), Range(workc'), Range(enqueuec'), HeldItems', OfferedItems', walked')
    BY <1>4, <1>13, <1>15, <2>1 DEF Disjoint
  <2>4. QED  BY <2>2, <2>3 DEF Apart
<1>16. ASSUME NEW w \in Worker, NEW r \in Result, Finish(w, r) PROVE Apart'
  <2>1. /\ Walking' = Walking \ {w} /\ w \in Walking /\ Offering' = Offering
        /\ held' = held /\ offer' = offer /\ walked' = walked \cup {held[w]}
        /\ todo' = todo /\ workc' = workc /\ enqueuec' = enqueuec
    BY <1>2, <1>16 DEF Finish, Walking, Offering
  <2>2. /\ HeldItems = HeldItems' \cup {held[w]} /\ held[w] \notin HeldItems'
        /\ OfferedItems' = OfferedItems
    BY <1>3, <2>1 DEF HeldItems, OfferedItems, NoRepetition
  <2>3. NoRepetition'
    BY <1>3, <2>1 DEF NoRepetition
  <2>4. Disjoint(Range(todo'), Range(workc'), Range(enqueuec'), HeldItems', OfferedItems', walked')
    BY <1>4, <2>1, <2>2 DEF Disjoint
  <2>5. QED  BY <2>3, <2>4 DEF Apart
<1>17. QED
  BY <1>1, <1>6, <1>7, <1>9, <1>10, <1>11, <1>12, <1>14, <1>15, <1>16, NextCases

LEMMA ApartAlways == PoolSafety => []Apart
<1>1. IInv /\ Apart /\ [PoolNext]_poolVars => Apart'
  BY ApartStep DEF IInv
<1>2. QED
  BY <1>1, ApartInit, InductiveInvariant, PTL DEF PoolSafety

\* An item is never in two places at once and never waits or is walked again once it
\* was walked, for any number of workers and items: enqueue and the coordinator hand
\* every walkItem on exactly once (fastwalk.go:481-487, 519, 550-555).
THEOREM OnePlaceAlways == PoolSafety => []OnePlace
<1>1. QED
  BY ApartOnePlace, ApartAlways, PTL

-----------------------------------------------------------------------------
(* The refinement.  Only creating an item, finishing one and returning are *)
(* steps of the contract; everything else is internal to the queue.        *)
LEMMA ContractInit == PoolInit => Contract!Init
  BY DEF PoolInit, Contract!Init

LEMMA ContractStep ==
  IInv /\ Apart /\ [PoolNext]_poolVars => [Contract!Next]_(Contract!contractVars)
<1>1. SUFFICES ASSUME IInv, Apart, [PoolNext]_poolVars
               PROVE  Contract!Next \/ UNCHANGED Contract!contractVars
  OBVIOUS
<1>2. /\ main \in {"select", "poll", "close", "wait", "returned"}
      /\ ret \in Result
      /\ pc \in [Worker -> {"idle", "walking", "offering", "reporting", "exited"}]
      /\ \A w \in Walking : held[w] \in Item
  BY <1>1 DEF IInv, TypeOK
<1>3. main = "returned" => \A w \in Worker : pc[w] = "exited"
  BY <1>1 DEF IInv, MainInv
<1>4. \A w \in Walking : held[w] \in found \ walked
  BY <1>1 DEF IInv, ItemsFound, Handled, Apart, Disjoint, HeldItems
<1> USE DEF mainVars, workerVars, history
<1>5. ASSUME found' = found, walked' = walked, failed' = failed, ret' = ret, main' = main
      PROVE  UNCHANGED Contract!contractVars
  BY <1>5 DEF Contract!contractVars
<1>6. ASSUME found' = found, walked' = walked, failed' = failed,
             main # "returned", main' # "returned"
      PROVE  UNCHANGED Contract!contractVars
  BY <1>6 DEF Contract!contractVars
<1>7. CASE SendWork \/ RecvEnqueue \/ RecvError \/ RecvNil \/ PollItem \/ PollEmpty \/ CloseDone
  BY <1>6, <1>7 DEF SendWork, RecvEnqueue, RecvError, RecvNil, PollItem, PollEmpty, CloseDone
<1>8. CASE WaitWorkers
  <2>1. /\ Quitting /\ main # "returned" /\ main' = "returned"
        /\ ret' = ret /\ found' = found /\ walked' = walked /\ failed' = failed
    BY <1>8 DEF WaitWorkers, Quitting
  <2>2. CASE ret = Nil
    <3>1. walked = found /\ failed = {}
      BY <1>1, <2>1, <2>2 DEF IInv, QuietAfterNil
    <3>2. Contract!ReturnNil
      BY <2>1, <2>2, <3>1 DEF Contract!ReturnNil, Contract!Running
    <3>3. QED  BY <3>2 DEF Contract!Next
  <2>3. CASE ret # Nil
    <3>1. ret \in failed /\ ret \in Err
      BY <1>1, <1>2, <2>3 DEF IInv, ErrorsReal, Result
    <3>2. Contract!ReturnError(ret)
      BY <2>1, <3>1 DEF Contract!ReturnError, Contract!Running
    <3>3. QED  BY <3>1, <3>2 DEF Contract!Next
  <2>4. QED  BY <2>2, <2>3
<1>9. ASSUME NEW w \in Worker, NEW it \in Item \ found, Offer(w, it)
      PROVE  Contract!Next
  <2>1. w \in Walking /\ main # "returned" /\ main' = main
    BY <1>3, <1>9 DEF Offer, Walking
  <2>2. found \ walked # {}
    BY <1>4, <2>1
  <2>3. Contract!Discover(it)
    BY <1>9, <2>1, <2>2 DEF Offer, Contract!Discover, Contract!Running
  <2>4. QED  BY <1>9, <2>3 DEF Contract!Next
<1>10. ASSUME NEW w \in Worker, NEW r \in Result, Finish(w, r)
       PROVE  Contract!Next
  <2>1. w \in Walking /\ main # "returned" /\ main' = main
    BY <1>3, <1>10 DEF Finish, Walking
  <2>2. held[w] \in Item /\ held[w] \in found \ walked
    BY <1>2, <1>4, <2>1
  <2>3. Contract!Complete(held[w], r)
    BY <1>10, <2>1, <2>2 DEF Finish, Contract!Complete, Contract!Running
  <2>4. QED  BY <2>2, <2>3 DEF Contract!Next, Result
<1>11. ASSUME NEW w \in Worker,
              \/ TakeWork(w) \/ ExitIdle(w) \/ EnqueueSend(w) \/ EnqueueDrop(w)
              \/ SendResult(w) \/ ExitReporting(w)
       PROVE  UNCHANGED Contract!contractVars
  BY <1>5, <1>11
  DEF TakeWork, ExitIdle, EnqueueSend, EnqueueDrop, SendResult, ExitReporting
<1>12. CASE UNCHANGED poolVars
  BY <1>5, <1>12 DEF poolVars
<1>13. QED
  BY <1>1, <1>7, <1>8, <1>9, <1>10, <1>11, <1>12, NextCases

\* The queue, the channels and the goroutines keep the promise of WalkContract, for
\* any number of workers: every item is worked on at most once, Walk returns nil only
\* when all of them were, and nothing happens after it returned (fastwalk.go:472-527, 550-555).
THEOREM PoolImplementsContract == PoolSafety => ImplementsContract
<1>1. IInv /\ Apart /\ [PoolNext]_poolVars => [Contract!Next]_(Contract!contractVars)
  BY ContractStep
<1>2. QED
  BY <1>1, ContractInit, InductiveInvariant, ApartAlways, PTL
  DEF PoolSafety, ImplementsContract, Contract!Spec

-----------------------------------------------------------------------------
(* The number of workers, which PoolAssumption takes to be positive.       *)

Sizing == INSTANCE NumWorkers

\* What is configured, what GOMAXPROCS is set to and whatever the system says of its
\* cores: there is at least one worker (fastwalk.go:433-444 relies on it).
THEOREM SomeWorker ==
  ASSUME NEW conf \in Int, NEW m \in Sizing!Machine
  PROVE  Sizing!NumWorkers(conf, m) \in Nat \ {0}
<1>1. m.cpus \in Nat \ {0} /\ m.procs \in Nat \ {0} /\ m.perfCores \in Nat \cup {-1}
  BY DEF Sizing!Machine
<1>2. Sizing!DefaultNumWorkers(m) \in Nat \ {0}
  BY <1>1 DEF Sizing!DefaultNumWorkers, Sizing!DarwinNumPerfCores, Sizing!Clamped
<1> QED
  BY <1>2 DEF Sizing!NumWorkers

\* fastwalk.go:67-70: unless configured, there are 4 to 32 workers; on darwin this is so
\* where the number of performance cores is not known.
THEOREM DefaultClamped ==
  ASSUME NEW m \in Sizing!Machine, ~m.darwin \/ m.procs # m.cpus \/ ~m.arm64
  PROVE  Sizing!DefaultNumWorkers(m) \in 4 .. 32
<1>1. m.cpus \in Nat \ {0} /\ m.procs \in Nat \ {0} /\ m.perfCores \in Nat \cup {-1}
  BY DEF Sizing!Machine
<1> QED
  BY <1>1 DEF Sizing!DefaultNumWorkers, Sizing!DarwinNumPerfCores, Sizing!Clamped
=============================================================================
