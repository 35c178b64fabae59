------------------------------ MODULE WalkPool ------------------------------
(***************************************************************************)
(* The concurrent core of fastwalk: the coordinating loop of Walk, the     *)
(* worker goroutines started by it (doWork) and the four channels between  *)
(* them (fastwalk.go).                                                     *)
(*                                                                         *)
(* What a worker does with a directory is reduced here to what the queue   *)
(* sees of it: a call of walk() creates work items one after the other,    *)
(* handing each to enqueue(), and then returns nil or an error.  Which     *)
(* items and which error is left open; module FastWalk fills that in.      *)
(* An element of Item is the identity of one walkItem value: every call of *)
(* enqueue() creates a new one.                                            *)
(***************************************************************************)
EXTENDS Integers, Sequences, FiniteSets, Functions

CONSTANTS
  Worker,    \* the worker goroutines; numWorkers is their number
  Item,      \* identities of work items
  Root,      \* the item todo starts with
  NoItem,    \* "no item"
  Err,       \* the non-nil errors a walk() can return
  Nil        \* the nil error

ASSUME PoolAssumption ==
  /\ IsFiniteSet(Worker)
  /\ Worker # {}
  /\ Root \in Item
  /\ NoItem \notin Item
  /\ Nil \notin Err

VARIABLES
  main,      \* where Walk is: in its loop, polling, returning, returned
  todo,      \* the stack of items nobody works on yet
  out,       \* the number of items sent to workc whose result is not in yet
  ret,       \* the error Walk returns, once it has left its loop
  donec,     \* has donec been closed?
  workc,     \* buffered channel of items, to the workers
  enqueuec,  \* buffered channel of items, from the workers
  resc,      \* buffered channel of results, from the workers
  pc,        \* where each worker is
  held,      \* the item a worker is walking
  offer,     \* the item a worker is handing to enqueue()
  answer,    \* what a worker's walk() returned
  found,     \* history: every item ever created
  walked,    \* history: the items whose walk() has returned
  failed     \* history: the errors walk() has returned

mainVars   == <<main, todo, out, ret, donec>>
workerVars == <<pc, held, offer, answer>>
history    == <<found, walked, failed>>
poolVars   == <<main, todo, out, ret, donec, workc, enqueuec, resc,
                pc, held, offer, answer, found, walked, failed>>

NumWorkers == Cardinality(Worker)      \* the capacity of every channel
Result     == Err \cup {Nil}

\* Walk has left its loop: it is running its deferred calls, or has returned.
Quitting == main \in {"close", "wait", "returned"}

\* Workers inside walk(), those of them inside enqueue(), those delivering a
\* result, and all that have taken an item and not delivered its result.
Walking   == {w \in Worker : pc[w] \in {"walking", "offering"}}
Offering  == {w \in Worker : pc[w] = "offering"}
Reporting == {w \in Worker : pc[w] = "reporting"}
Busy      == Walking \cup Reporting

-----------------------------------------------------------------------------
PoolInit ==
  /\ main = "select"
  /\ todo = <<Root>>
  /\ out = 0
  /\ ret = Nil
  /\ donec = FALSE
  /\ workc = <<>>
  /\ enqueuec = <<>>
  /\ resc = <<>>
  /\ pc = [w \in Worker |-> "idle"]
  /\ held = [w \in Worker |-> NoItem]
  /\ offer = [w \in Worker |-> NoItem]
  /\ answer = [w \in Worker |-> Nil]
  /\ found = {Root}
  /\ walked = {}
  /\ failed = {}

-----------------------------------------------------------------------------
(* The cases of Walk's select statement.                                   *)

\* Faulty variants: the item sent is not counted, or stays on the stack.
SendUncounted ==
  /\ main = "select"
  /\ todo # <<>>
  /\ Len(workc) < NumWorkers
  /\ workc' = Append(workc, todo[Len(todo)])
  /\ todo' = SubSeq(todo, 1, Len(todo) - 1)
  /\ UNCHANGED <<main, out, ret, donec, enqueuec, resc, workerVars, history>>

SendTwice ==
  /\ main = "select"
  /\ todo # <<>>
  /\ Len(workc) < NumWorkers
  /\ workc' = Append(workc, todo[Len(todo)])
  /\ out' = out + 1
  /\ UNCHANGED <<main, todo, ret, donec, enqueuec, resc, workerVars, history>>

\* case workc <- workItem (disabled by workc = nil when todo is empty)
SendWork ==
  /\ main = "select"
  /\ todo # <<>>
  /\ Len(workc) < NumWorkers
  /\ workc' = Append(workc, todo[Len(todo)])
  /\ todo' = SubSeq(todo, 1, Len(todo) - 1)
  /\ out' = out + 1
  /\ UNCHANGED <<main, ret, donec, enqueuec, resc, workerVars, history>>

\* case it := <-w.enqueuec
RecvEnqueue ==
  /\ main = "select"
  /\ enqueuec # <<>>
  /\ todo' = Append(todo, Head(enqueuec))
  /\ enqueuec' = Tail(enqueuec)
  /\ UNCHANGED <<main, out, ret, donec, workc, resc, workerVars, history>>

\* Faulty variant: Walk stops but forgets the error.
RecvErrorForgotten ==
  /\ main = "select"
  /\ resc # <<>>
  /\ Head(resc) # Nil
  /\ resc' = Tail(resc)
  /\ out' = out - 1
  /\ main' = "close"
  /\ UNCHANGED <<todo, ret, donec, workc, enqueuec, workerVars, history>>

\* case err := <-w.resc, with a non-nil error
RecvError ==
  /\ main = "select"
  /\ resc # <<>>
  /\ Head(resc) # Nil
  /\ resc' = Tail(resc)
  /\ out' = out - 1
  /\ ret' = Head(resc)
  /\ main' = "close"
  /\ UNCHANGED <<todo, donec, workc, enqueuec, workerVars, history>>

\* Faulty variant: the stack is not looked at.
RecvNilHasty ==
  /\ main = "select"
  /\ resc # <<>>
  /\ Head(resc) = Nil
  /\ resc' = Tail(resc)
  /\ out' = out - 1
  /\ main' = IF out' = 0 THEN "poll" ELSE "select"
  /\ UNCHANGED <<todo, ret, donec, workc, enqueuec, workerVars, history>>

\* case err := <-w.resc, with nil
RecvNil ==
  /\ main = "select"
  /\ resc # <<>>
  /\ Head(resc) = Nil
  /\ resc' = Tail(resc)
  /\ out' = out - 1
  /\ main' = IF out' = 0 /\ todo = <<>> THEN "poll" ELSE "select"
  /\ UNCHANGED <<todo, ret, donec, workc, enqueuec, workerVars, history>>

\* The inner select: its receive case ...
PollItem ==
  /\ main = "poll"
  /\ enqueuec # <<>>
  /\ todo' = Append(todo, Head(enqueuec))
  /\ enqueuec' = Tail(enqueuec)
  /\ main' = "select"
  /\ UNCHANGED <<out, ret, donec, workc, resc, workerVars, history>>

\* Faulty variant: Walk quits without looking at enqueuec.
PollNothing ==
  /\ main = "poll"
  /\ ret' = Nil
  /\ main' = "close"
  /\ UNCHANGED <<todo, out, donec, workc, enqueuec, resc, workerVars, history>>

\* ... and its default case, return nil.
PollEmpty ==
  /\ main = "poll"
  /\ enqueuec = <<>>
  /\ ret' = Nil
  /\ main' = "close"
  /\ UNCHANGED <<todo, out, donec, workc, enqueuec, resc, workerVars, history>>

(* The deferred calls of Walk: close(w.donec) first, wg.Wait() last.       *)
CloseDone ==
  /\ main = "close"
  /\ donec' = TRUE
  /\ main' = "wait"
  /\ UNCHANGED <<todo, out, ret, workc, enqueuec, resc, workerVars, history>>

\* Faulty variant: Walk returns without waiting for the workers.
WaitForNobody ==
  /\ main = "wait"
  /\ main' = "returned"
  /\ UNCHANGED <<todo, out, ret, donec, workc, enqueuec, resc, workerVars,
                 history>>

WaitWorkers ==
  /\ main = "wait"
  /\ \A w \in Worker : pc[w] = "exited"
  /\ main' = "returned"
  /\ UNCHANGED <<todo, out, ret, donec, workc, enqueuec, resc, workerVars,
                 history>>

MainStep ==
  \/ SendWork \/ RecvEnqueue \/ RecvError \/ RecvNil
  \/ PollItem \/ PollEmpty \/ CloseDone \/ WaitWorkers

-----------------------------------------------------------------------------
(* A worker: doWork, with walk() as an open sequence of enqueue() calls.   *)

\* case it := <-w.workc
TakeWork(w) ==
  /\ pc[w] = "idle"
  /\ workc # <<>>
  /\ held' = [held EXCEPT ![w] = Head(workc)]
  /\ workc' = Tail(workc)
  /\ pc' = [pc EXCEPT ![w] = "walking"]
  /\ UNCHANGED <<mainVars, enqueuec, resc, offer, answer, history>>

\* Faulty variant: the case leaves the select statement, but not the loop.
ExitIdleBreak(w) ==
  /\ pc[w] = "idle"
  /\ donec
  /\ UNCHANGED poolVars

\* case <-w.donec of the outer select
ExitIdle(w) ==
  /\ pc[w] = "idle"
  /\ donec
  /\ pc' = [pc EXCEPT ![w] = "exited"]
  /\ UNCHANGED <<mainVars, workc, enqueuec, resc, held, offer, answer, history>>

\* walk() creates the item it and calls enqueue(it).
Offer(w, it) ==
  /\ pc[w] = "walking"
  /\ pc' = [pc EXCEPT ![w] = "offering"]
  /\ offer' = [offer EXCEPT ![w] = it]
  /\ found' = found \cup {it}
  /\ UNCHANGED <<mainVars, workc, enqueuec, resc, held, answer, walked, failed>>

\* Faulty variant: the channel has no limit.
EnqueueUnbounded(w) ==
  /\ pc[w] = "offering"
  /\ enqueuec' = Append(enqueuec, offer[w])
  /\ offer' = [offer EXCEPT ![w] = NoItem]
  /\ pc' = [pc EXCEPT ![w] = "walking"]
  /\ UNCHANGED <<mainVars, workc, resc, held, answer, history>>

\* enqueue: case w.enqueuec <- it
EnqueueSend(w) ==
  /\ pc[w] = "offering"
  /\ Len(enqueuec) < NumWorkers
  /\ enqueuec' = Append(enqueuec, offer[w])
  /\ offer' = [offer EXCEPT ![w] = NoItem]
  /\ pc' = [pc EXCEPT ![w] = "walking"]
  /\ UNCHANGED <<mainVars, workc, resc, held, answer, history>>

\* Faulty variant: the item is dropped whenever the channel is not ready.
EnqueueDropFull(w) ==
  /\ pc[w] = "offering"
  /\ donec \/ Len(enqueuec) = NumWorkers
  /\ offer' = [offer EXCEPT ![w] = NoItem]
  /\ pc' = [pc EXCEPT ![w] = "walking"]
  /\ UNCHANGED <<mainVars, workc, enqueuec, resc, held, answer, history>>

\* enqueue: case <-w.donec; the item is dropped
EnqueueDrop(w) ==
  /\ pc[w] = "offering"
  /\ donec
  /\ offer' = [offer EXCEPT ![w] = NoItem]
  /\ pc' = [pc EXCEPT ![w] = "walking"]
  /\ UNCHANGED <<mainVars, workc, enqueuec, resc, held, answer, history>>

\* walk() returns r; the inner select of doWork is entered.
Finish(w, r) ==
  /\ pc[w] = "walking"
  /\ pc' = [pc EXCEPT ![w] = "reporting"]
  /\ answer' = [answer EXCEPT ![w] = r]
  /\ walked' = walked \cup {held[w]}
  /\ failed' = failed \cup ({r} \ {Nil})
  /\ UNCHANGED <<mainVars, workc, enqueuec, resc, held, offer, found>>

\* case w.resc <- w.walk(...)
SendResult(w) ==
  /\ pc[w] = "reporting"
  /\ Len(resc) < NumWorkers
  /\ resc' = Append(resc, answer[w])
  /\ held' = [held EXCEPT ![w] = NoItem]
  /\ pc' = [pc EXCEPT ![w] = "idle"]
  /\ UNCHANGED <<mainVars, workc, enqueuec, offer, answer, history>>

\* case <-w.donec of the inner select
ExitReporting(w) ==
  /\ pc[w] = "reporting"
  /\ donec
  /\ held' = [held EXCEPT ![w] = NoItem]
  /\ pc' = [pc EXCEPT ![w] = "exited"]
  /\ UNCHANGED <<mainVars, workc, enqueuec, resc, offer, answer, history>>

\* The steps of doWork and enqueue that do not depend on what walk() does.
ChannelStep(w) ==
  \/ TakeWork(w) \/ ExitIdle(w)
  \/ EnqueueSend(w) \/ EnqueueDrop(w)
  \/ SendResult(w) \/ ExitReporting(w)

\* A worker's step; every enqueue() call creates an item of its own.
WorkerStep(w) ==
  \/ ChannelStep(w)
  \/ \E it \in Item \ found : Offer(w, it)
  \/ \E r \in Result : Finish(w, r)

\* Walk has returned and all goroutines are gone.
Terminated == main = "returned" /\ UNCHANGED poolVars

PoolNext ==
  \/ MainStep
  \/ \E w \in Worker : WorkerStep(w)
  \/ Terminated

PoolSafety == PoolInit /\ [][PoolNext]_poolVars

\* Every runnable goroutine is eventually scheduled, and walk() returns.
PoolFairness ==
  /\ WF_poolVars(MainStep)
  /\ \A w \in Worker : WF_poolVars(WorkerStep(w))

PoolSpec == PoolSafety /\ PoolFairness

-----------------------------------------------------------------------------
(* Properties.                                                             *)

\* The types of the variables; no channel ever holds more than its capacity, and
\* a worker inside walk() or enqueue() has an item.
TypeOK ==
  /\ main \in {"select", "poll", "close", "wait", "returned"}
  /\ todo \in Seq(Item)
  /\ out \in Int
  /\ ret \in Result
  /\ donec \in BOOLEAN
  /\ workc \in Seq(Item) /\ Len(workc) <= NumWorkers
  /\ enqueuec \in Seq(Item) /\ Len(enqueuec) <= NumWorkers
  /\ resc \in Seq(Result) /\ Len(resc) <= NumWorkers
  /\ pc \in [Worker -> {"idle", "walking", "offering", "reporting", "exited"}]
  /\ held \in [Worker -> Item \cup {NoItem}]
  /\ offer \in [Worker -> Item \cup {NoItem}]
  /\ answer \in [Worker -> Result]
  /\ \A w \in Walking : held[w] \in Item
  /\ \A w \in Offering : offer[w] \in Item
  /\ found \in SUBSET Item
  /\ walked \in SUBSET Item
  /\ failed \in SUBSET Err

\* Until donec is closed, the counter out of the coordinator agrees with what
\* the two channels and the workers hold, though the coordinator sees neither
\* the workers nor, when it decides to quit, the channels (fastwalk.go:483-493).
OutCount == ~donec => out = Len(workc) + Len(resc) + Cardinality(Busy)

\* The comment at fastwalk.go:494: when the coordinator polls enqueuec before
\* quitting, no worker has work and neither channel it does not look at holds
\* anything, so an empty enqueuec means there is no work anywhere.
QuietAtPoll ==
  main = "poll" => /\ Busy = {}
                   /\ workc = <<>>
                   /\ resc = <<>>
                   /\ todo = <<>>

\* When Walk gives up its loop with a nil error, every item ever handed to
\* enqueue() has been walked and no walk() returned an error.
NoLostWork == Quitting /\ ret = Nil => walked = found /\ failed = {}

\* An error of walk() is never swallowed: Walk leaves its loop with an error
\* only if a walk() returned that error, and with one if any walk() did.
ErrorsSurface == Quitting => (failed # {} => ret \in failed) /\ (ret # Nil => ret \in failed)

\* Every place an item can be in: the stack, a channel, a worker's hands.
Slot ==
  ({"todo"} \X DOMAIN todo) \cup ({"workc"} \X DOMAIN workc)
  \cup ({"enqueuec"} \X DOMAIN enqueuec)
  \cup ({"held"} \X Walking) \cup ({"offer"} \X Offering)

At(s) ==
  CASE s[1] = "todo"     -> todo[s[2]]
    [] s[1] = "workc"    -> workc[s[2]]
    [] s[1] = "enqueuec" -> enqueuec[s[2]]
    [] s[1] = "held"     -> held[s[2]]
    [] s[1] = "offer"    -> offer[s[2]]

\* An item is never in two places, and never waits or is walked again once its
\* walk() has returned: no directory is read twice because of the queue.
OnePlace ==
  /\ \A s, t \in Slot : At(s) = At(t) => s = t
  /\ \A s \in Slot : At(s) \notin walked

\* The comment at fastwalk.go:427: once Walk has returned nothing happens any
\* more; in particular no worker calls walkFn.
SilentAfterReturn == [][main # "returned"]_poolVars

\* Walk returns, whatever the workers answer and in whatever order: neither the
\* bounded channels nor the workers left behind by an error block it forever.
Returns == <>(main = "returned")

-----------------------------------------------------------------------------
(* The inductive invariant behind the safety properties.  Until Walk has   *)
(* decided what to return, every item and every error is accounted for;    *)
(* after a decision to return nil nothing is left that could move.         *)

Waiting == Range(todo) \cup Range(workc) \cup Range(enqueuec)
Handled == {held[w] : w \in Walking} \cup {offer[w] : w \in Offering}
Answers == Range(resc) \cup {answer[w] : w \in Reporting}

MainInv ==
  /\ donec <=> main \in {"wait", "returned"}
  /\ main = "poll" => out = 0 /\ todo = <<>>
  /\ ~Quitting => ret = Nil
  /\ main = "returned" => \A w \in Worker : pc[w] = "exited"
  /\ ~donec => \A w \in Worker : pc[w] # "exited"

ItemsKept  == ~Quitting => found \subseteq Waiting \cup Handled \cup walked
ItemsFound == Waiting \cup Handled \cup walked \subseteq found
ErrorsKept == ~Quitting => failed \subseteq Answers
ErrorsReal == Answers \cup {ret} \subseteq failed \cup {Nil}

QuietAfterNil ==
  Quitting /\ ret = Nil => Busy = {} /\ workc = <<>> /\ walked = found /\ failed = {}

IInv ==
  /\ TypeOK
  /\ OutCount
  /\ MainInv
  /\ ItemsKept
  /\ ItemsFound
  /\ ErrorsKept
  /\ ErrorsReal
  /\ QuietAfterNil

\* The pool keeps the promise of WalkContract.
Contract == INSTANCE WalkContract WITH
  known    <- found,
  finished <- walked,
  errors   <- failed,
  status   <- IF main = "returned" THEN <<"returned", ret>> ELSE <<"running">>

ImplementsContract == Contract!Spec
=============================================================================
