------------------------ MODULE ProducerConsumerQueue ------------------------
(***************************************************************************)
(* One ProducerConsumerQueue<std::function<void()>> at the granularity of  *)
(* its mutex and condition variable, together with the two loops that      *)
(* consume from such a queue: WorkerThread::thread (blocking dequeue) and  *)
(* CxxThreadManager::flushRenderThreadQueue (tryDequeue).                  *)
(*                                                                         *)
(* Destroying a closure is not free of side effects: it may drop the last  *)
(* reference to a GL object, whose destructor enqueues a glDelete* closure *)
(* into the render queue - possibly the queue the closure came from.       *)
(* Release[i] is the closure that destroying i enqueues, or None.          *)
(***************************************************************************)
EXTENDS Naturals, Sequences, FiniteSets

CONSTANTS
    Threads,    \* the threads that use the queue
    Workers,    \* those that run WorkerThread::thread on it
    Items,      \* the closures
    None,       \* the null closure, and the owner of a free mutex
    Release     \* what the destruction of a closure enqueues

ASSUME QueueAssumption ==
    /\ IsFiniteSet(Threads)
    /\ Workers \subseteq Threads
    /\ None \notin Items
    /\ None \notin Threads
    /\ Release \in [Items -> Items \cup {None}]

VARIABLES
    mMutex,     \* the owner of the mutex
    mQueue,     \* the deque
    asleep,     \* threads blocked in mCondition.wait()
    pc,         \* where each thread is
    item,       \* the closure a thread is enqueueing, or holds after a dequeue
    doomed,     \* closures a thread is destroying
    after,      \* where a thread continues once they are destroyed
    entered,    \* history: items that entered the queue, in order
    handed,     \* history: items moved out of the front, in order
    cleared     \* history: items swapped out by clear(), in order

vars == <<mMutex, mQueue, asleep, pc, item, doomed, after,
          entered, handed, cleared>>
history == <<entered, handed, cleared>>

\* The lines at which a thread asks for the mutex, and where it is once it has it.
AfterLock ==
    [enqueue |-> "push", dequeue |-> "check", awake |-> "check",
     tryDequeue |-> "try", clear |-> "swap"]

LockPoints == {"enqueue", "dequeue", "awake", "tryDequeue", "clear"}
Critical == {"push", "notify", "check", "move", "try", "swap", "pop"}
Places == LockPoints \cup Critical \cup {"idle", "wait", "run", "destroy"}
Continuations == {"none", "idle", "dequeue", "tryDequeue", "pop"}

Elements(s) == {s[k] : k \in DOMAIN s}
Released == Elements(Release) \ {None}

Init ==
    /\ mMutex = None
    /\ mQueue = <<>>
    /\ asleep = {}
    /\ pc = [t \in Threads |-> IF t \in Workers THEN "dequeue" ELSE "idle"]
    /\ item = [t \in Threads |-> None]
    /\ doomed = [t \in Threads |-> <<>>]
    /\ after = [t \in Threads |-> "none"]
    /\ entered = <<>>
    /\ handed = <<>>
    /\ cleared = <<>>

-----------------------------------------------------------------------------
(* Calls made by the threads other than the workers. *)

\* performInRenderThread / WorkerThread::perform: each client closure is enqueued once.
CallEnqueue(t, i) ==
    /\ pc[t] = "idle"
    /\ i \notin Elements(entered) \cup Released
    /\ \A u \in Threads : item[u] # i
    /\ pc' = [pc EXCEPT ![t] = "enqueue"]
    /\ item' = [item EXCEPT ![t] = i]
    /\ UNCHANGED <<mMutex, mQueue, asleep, doomed, after, history>>

CallFlush(t) ==
    /\ pc[t] = "idle"
    /\ pc' = [pc EXCEPT ![t] = "tryDequeue"]
    /\ UNCHANGED <<mMutex, mQueue, asleep, item, doomed, after, history>>

CallClear(t) ==
    /\ pc[t] = "idle"
    /\ pc' = [pc EXCEPT ![t] = "clear"]
    /\ UNCHANGED <<mMutex, mQueue, asleep, item, doomed, after, history>>

Lock(t) ==
    /\ pc[t] \in LockPoints
    /\ mMutex = None
    /\ mMutex' = t
    /\ pc' = [pc EXCEPT ![t] = AfterLock[pc[t]]]
    /\ UNCHANGED <<mQueue, asleep, item, doomed, after, history>>

-----------------------------------------------------------------------------
(* enqueue() *)

\* Mutant: the item enters at the front.
PushFront(t) ==
    /\ pc[t] = "push"
    /\ mQueue' = <<item[t]>> \o mQueue
    /\ entered' = Append(entered, item[t])
    /\ item' = [item EXCEPT ![t] = None]
    /\ pc' = [pc EXCEPT ![t] = "notify"]
    /\ UNCHANGED <<mMutex, asleep, doomed, after, handed, cleared>>

Push(t) ==
    /\ pc[t] = "push"
    /\ mQueue' = Append(mQueue, item[t])
    /\ entered' = Append(entered, item[t])
    /\ item' = [item EXCEPT ![t] = None]
    /\ pc' = [pc EXCEPT ![t] = "notify"]
    /\ UNCHANGED <<mMutex, asleep, doomed, after, handed, cleared>>

\* Mutant: nobody is notified.
NotifyNobody(t) ==
    /\ pc[t] = "notify"
    /\ pc' = [pc EXCEPT ![t] = IF after[t] = "none" THEN "idle" ELSE "destroy"]
    /\ mMutex' = None
    /\ UNCHANGED <<mQueue, asleep, item, doomed, after, history>>

\* notify_one(), then the lock guard goes out of scope. The caller resumes:
\* a destructor that was enqueueing goes on with the closures still doomed.
Notify(t) ==
    /\ pc[t] = "notify"
    /\ LET resumed == IF after[t] = "none" THEN "idle" ELSE "destroy"
       IN  IF asleep = {}
           THEN /\ pc' = [pc EXCEPT ![t] = resumed]
                /\ UNCHANGED asleep
           ELSE \E w \in asleep :
                    /\ asleep' = asleep \ {w}
                    /\ pc' = [pc EXCEPT ![t] = resumed, ![w] = "awake"]
    /\ mMutex' = None
    /\ UNCHANGED <<mQueue, item, doomed, after, history>>

-----------------------------------------------------------------------------
(* dequeue() *)

\* while (shouldWait()) mCondition.wait(lock): waiting releases the mutex.
Wait(t) ==
    /\ pc[t] = "check"
    /\ IF mQueue = <<>>
       THEN /\ asleep' = asleep \cup {t}
            /\ mMutex' = None
            /\ pc' = [pc EXCEPT ![t] = "wait"]
       ELSE /\ pc' = [pc EXCEPT ![t] = "move"]
            /\ UNCHANGED <<asleep, mMutex>>
    /\ UNCHANGED <<mQueue, item, doomed, after, history>>

SpuriousWakeup(t) ==
    /\ t \in asleep
    /\ asleep' = asleep \ {t}
    /\ pc' = [pc EXCEPT ![t] = "awake"]
    /\ UNCHANGED <<mMutex, mQueue, item, doomed, after, history>>

\* ITEM item(std::move(mQueue.front()))
MoveFront(t) ==
    /\ pc[t] = "move"
    /\ item' = [item EXCEPT ![t] = Head(mQueue)]
    /\ handed' = Append(handed, Head(mQueue))
    /\ pc' = [pc EXCEPT ![t] = "pop"]
    /\ UNCHANGED <<mMutex, mQueue, asleep, doomed, after, entered, cleared>>

\* pop_front() and the end of the lock.
PopFront(t) ==
    /\ pc[t] = "pop"
    /\ mQueue' = Tail(mQueue)
    /\ mMutex' = None
    /\ pc' = [pc EXCEPT ![t] = "run"]
    /\ UNCHANGED <<asleep, item, doomed, after, history>>

-----------------------------------------------------------------------------
(* tryDequeue(item): the assignment to item happens under the lock, and    *)
(* destroys whatever closure the caller's variable still holds. (A thread  *)
(* whose destructor enqueues while it is here waits for itself for ever.)  *)

TryDequeue(t) ==
    /\ pc[t] = "try"
    /\ IF mQueue = <<>>
       THEN /\ mMutex' = None
            /\ pc' = [pc EXCEPT ![t] = "idle"]
            /\ UNCHANGED <<item, doomed, after, handed>>
       ELSE /\ item' = [item EXCEPT ![t] = Head(mQueue)]
            /\ handed' = Append(handed, Head(mQueue))
            /\ IF item[t] = None
               THEN /\ pc' = [pc EXCEPT ![t] = "pop"]
                    /\ UNCHANGED <<doomed, after>>
               ELSE /\ pc' = [pc EXCEPT ![t] = "destroy"]
                    /\ doomed' = [doomed EXCEPT ![t] = <<item[t]>>]
                    /\ after' = [after EXCEPT ![t] = "pop"]
            /\ UNCHANGED mMutex
    /\ UNCHANGED <<mQueue, asleep, entered, cleared>>

-----------------------------------------------------------------------------
(* The consumers' loops: action(); then the closure is destroyed - the     *)
(* temporary of the worker, `action = nullptr` of the flush - and the loop *)
(* dequeues again.                                                         *)

LoopPoint(t) == IF t \in Workers THEN "dequeue" ELSE "tryDequeue"

\* Mutant: no `action = nullptr`, the closure stays in the caller's variable.
RunKeepsAction(t) ==
    /\ pc[t] = "run"
    /\ pc' = [pc EXCEPT ![t] = LoopPoint(t)]
    /\ UNCHANGED <<mMutex, mQueue, asleep, item, doomed, after, history>>

Run(t) ==
    /\ pc[t] = "run"
    /\ doomed' = [doomed EXCEPT ![t] = <<item[t]>>]
    /\ item' = [item EXCEPT ![t] = None]
    /\ after' = [after EXCEPT ![t] = LoopPoint(t)]
    /\ pc' = [pc EXCEPT ![t] = "destroy"]
    /\ UNCHANGED <<mMutex, mQueue, asleep, history>>

\* Destroys the next doomed closure; its last reference may enqueue Release[i].
Destroy(t) ==
    /\ pc[t] = "destroy"
    /\ doomed[t] # <<>>
    /\ doomed' = [doomed EXCEPT ![t] = Tail(@)]
    /\ LET r == Release[Head(doomed[t])]
       IN  IF r = None
           THEN UNCHANGED <<item, pc>>
           ELSE /\ item' = [item EXCEPT ![t] = r]
                /\ pc' = [pc EXCEPT ![t] = "enqueue"]
    /\ UNCHANGED <<mMutex, mQueue, asleep, after, history>>

DestroyEnd(t) ==
    /\ pc[t] = "destroy"
    /\ doomed[t] = <<>>
    /\ pc' = [pc EXCEPT ![t] = after[t]]
    /\ after' = [after EXCEPT ![t] = "none"]
    /\ UNCHANGED <<mMutex, mQueue, asleep, item, doomed, history>>

\* clear(): the deque is moved to a local under the lock, the lock is
\* released, and only then are the closures destroyed.
Clear(t) ==
    /\ pc[t] = "swap"
    /\ doomed' = [doomed EXCEPT ![t] = mQueue]
    /\ cleared' = cleared \o mQueue
    /\ mQueue' = <<>>
    /\ mMutex' = None
    /\ after' = [after EXCEPT ![t] = "idle"]
    /\ pc' = [pc EXCEPT ![t] = "destroy"]
    /\ UNCHANGED <<asleep, item, entered, handed>>

-----------------------------------------------------------------------------
Client(t) ==
    /\ t \notin Workers
    /\ \/ \E i \in Items : CallEnqueue(t, i)
       \/ CallFlush(t)
       \/ CallClear(t)

Step(t) ==
    \/ Lock(t) \/ Push(t) \/ Notify(t)
    \/ Wait(t) \/ MoveFront(t) \/ PopFront(t)
    \/ TryDequeue(t) \/ Run(t) \/ Destroy(t) \/ DestroyEnd(t) \/ Clear(t)

Next == \E t \in Threads : Client(t) \/ Step(t) \/ SpuriousWakeup(t)

Spec == Init /\ [][Next]_vars

-----------------------------------------------------------------------------
(* Properties *)

\* Every variable keeps its type.
TypeOK ==
    /\ mMutex \in Threads \cup {None}
    /\ mQueue \in Seq(Items)
    /\ asleep \subseteq Threads
    /\ pc \in [Threads -> Places]
    /\ item \in [Threads -> Items \cup {None}]
    /\ doomed \in [Threads -> Seq(Items)]
    /\ after \in [Threads -> Continuations]
    /\ entered \in Seq(Items)
    /\ handed \in Seq(Items)
    /\ cleared \in Seq(Items)

\* The mutex is not recursive: no thread ever asks for it while it owns it. A
\* destructor that enqueues may therefore only run where the mutex is free:
\* clear() destroys after unlock, and the flush empties its variable before
\* it lets tryDequeue() assign to it.
NoSelfDeadlock ==
    \A t \in Threads : pc[t] \in LockPoints => mMutex # t

\* While a worker sleeps in wait(), every queued item has a thread on its way
\* to it - woken, about to check, or taking it - or the notify_one() of the
\* enqueue that brought it is still to come: no wake-up is lost.
OnTheWay == {t \in Threads : pc[t] \in {"awake", "check", "move", "pop"}}
Notifying == {t \in Threads : pc[t] = "notify"}

NoLostWakeup ==
    asleep # {} => Len(mQueue) <= Cardinality(OnTheWay) + Cardinality(Notifying)

\* The queue implements FifoQueue. Between moving the front item out and
\* pop_front() the moved-from element is still in the deque, but under the
\* lock: for everybody else it has left.
Taking == \E t \in Threads : pc[t] = "pop"
Contents == IF Taking THEN Tail(mQueue) ELSE mQueue

Fifo == INSTANCE FifoQueue WITH queue <- Contents
ImplementsFifoQueue == Fifo!Spec

=============================================================================
