--------------------- MODULE ProducerConsumerQueueProofs ---------------------
(***************************************************************************)
(* Proofs about ProducerConsumerQueue for every set of threads, workers    *)
(* and closures: type correctness, mutual exclusion, the absence of self-  *)
(* deadlock, and the implementation of FifoQueue.                          *)
(***************************************************************************)
EXTENDS ProducerConsumerQueue, FiniteSetTheorems, TLAPS

\* A thread is inside the critical section exactly when it owns the mutex.
MutualExclusion == \A t \in Threads : pc[t] \in Critical <=> mMutex = t

\* A thread's variable is empty whenever tryDequeue() may assign to it.
ItemInv ==
    \A t \in Threads :
        item[t] # None <=> pc[t] \in {"enqueue", "push", "pop", "run"}

\* Closures are being destroyed in three places, none of which holds the lock.
AfterInv ==
    \A t \in Threads :
        /\ after[t] # "pop"
        /\ pc[t] = "destroy" => after[t] # "none"

\* The thread that is taking sees a non-empty deque.
FrontInv == \A t \in Threads : pc[t] \in {"move", "pop"} => mQueue # <<>>

SleepInv == \A t \in Threads : t \in asleep <=> pc[t] = "wait"

IInv ==
    /\ TypeOK
    /\ MutualExclusion
    /\ ItemInv
    /\ AfterInv
    /\ FrontInv
    /\ SleepInv

USE DEF LockPoints, AfterLock, Critical, Places, Continuations, history

\* Every state the program starts in satisfies the invariant.
LEMMA InitIInv == Init => IInv
  BY QueueAssumption DEF Init, IInv, TypeOK, MutualExclusion, ItemInv, AfterInv,
     FrontInv, SleepInv

\* notify_one() moves its caller on and wakes at most one sleeper.
LEMMA NotifyEffect ==
  ASSUME IInv, NEW t \in Threads, Notify(t)
  PROVE  \E r \in {"idle", "destroy"}, w \in Threads :
           /\ w # t => pc[w] = "wait"
           /\ pc' = [pc EXCEPT ![t] = r, ![w] = IF w = t THEN r ELSE "awake"]
<1> USE DEF IInv, TypeOK
<1>1. CASE asleep = {}
  BY <1>1 DEF Notify
<1>2. CASE asleep # {}
  BY <1>2 DEF Notify, SleepInv
<1>3. QED
  BY <1>1, <1>2

\* Every step of a thread keeps the types.
LEMMA TypeStep == IInv /\ [Next]_vars => TypeOK'
<1> SUFFICES ASSUME IInv, [Next]_vars PROVE TypeOK'
  OBVIOUS
<1> USE DEF IInv, TypeOK
<1>1. CASE UNCHANGED vars
  BY <1>1 DEF vars
<1>2. ASSUME NEW t \in Threads, NEW i \in Items, CallEnqueue(t, i) PROVE TypeOK'
  BY <1>2 DEF CallEnqueue
<1>3. ASSUME NEW t \in Threads, CallFlush(t) PROVE TypeOK'
  BY <1>3 DEF CallFlush
<1>4. ASSUME NEW t \in Threads, CallClear(t) PROVE TypeOK'
  BY <1>4 DEF CallClear
<1>5. ASSUME NEW t \in Threads, Lock(t) PROVE TypeOK'
  BY <1>5 DEF Lock
<1>6. ASSUME NEW t \in Threads, Push(t) PROVE TypeOK'
  BY <1>6 DEF Push, ItemInv
<1>7. ASSUME NEW t \in Threads, Notify(t) PROVE TypeOK'
  BY <1>7 DEF Notify
<1>8. ASSUME NEW t \in Threads, Wait(t) PROVE TypeOK'
  BY <1>8 DEF Wait
<1>9. ASSUME NEW t \in Threads, SpuriousWakeup(t) PROVE TypeOK'
  BY <1>9 DEF SpuriousWakeup
<1>10. ASSUME NEW t \in Threads, MoveFront(t) PROVE TypeOK'
  BY <1>10 DEF MoveFront, FrontInv
<1>11. ASSUME NEW t \in Threads, PopFront(t) PROVE TypeOK'
  BY <1>11 DEF PopFront, FrontInv
<1>12. ASSUME NEW t \in Threads, TryDequeue(t) PROVE TypeOK'
  <2>1. item[t] = None
    BY <1>12 DEF TryDequeue, ItemInv
  <2>2. CASE mQueue = <<>>
    BY <1>12, <2>2 DEF TryDequeue
  <2>3. CASE mQueue # <<>>
    <3>1. Head(mQueue) \in Items
      BY <2>3
    <3>2. /\ item' = [item EXCEPT ![t] = Head(mQueue)]
          /\ handed' = Append(handed, Head(mQueue))
          /\ pc' = [pc EXCEPT ![t] = "pop"]
          /\ UNCHANGED <<mMutex, mQueue, asleep, doomed, after, entered, cleared>>
      BY <1>12, <2>1, <2>3 DEF TryDequeue
    <3>3. QED
      BY <3>1, <3>2
  <2>4. QED
    BY <2>2, <2>3
<1>13. ASSUME NEW t \in Threads, Run(t) PROVE TypeOK'
  BY <1>13 DEF Run, ItemInv, LoopPoint
<1>14. ASSUME NEW t \in Threads, Destroy(t) PROVE TypeOK'
  <2> DEFINE i == Head(doomed[t])
  <2>1. i \in Items /\ Tail(doomed[t]) \in Seq(Items)
    BY <1>14 DEF Destroy
  <2>2. CASE Release[i] = None
    BY <1>14, <2>1, <2>2 DEF Destroy
  <2>3. CASE Release[i] # None
    <3>1. Release[i] \in Items
      BY <2>1, <2>3, QueueAssumption
    <3>2. QED
      BY <1>14, <2>1, <2>3, <3>1 DEF Destroy
  <2>4. QED
    BY <2>2, <2>3
<1>15. ASSUME NEW t \in Threads, DestroyEnd(t) PROVE TypeOK'
  BY <1>15 DEF DestroyEnd, AfterInv
<1>16. ASSUME NEW t \in Threads, Clear(t) PROVE TypeOK'
  BY <1>16 DEF Clear
<1>17. QED
  BY <1>1, <1>2, <1>3, <1>4, <1>5, <1>6, <1>7, <1>8, <1>9, <1>10, <1>11, <1>12,
     <1>13, <1>14, <1>15, <1>16 DEF Next, Client, Step

\* Every step keeps the rest of the invariant.
LEMMA LockStep == IInv /\ [Next]_vars => MutualExclusion'
<1> SUFFICES ASSUME IInv, [Next]_vars PROVE MutualExclusion'
  OBVIOUS
<1> USE QueueAssumption DEF IInv, TypeOK, MutualExclusion
<1>1. CASE UNCHANGED vars
  BY <1>1 DEF vars
<1>2. ASSUME NEW t \in Threads, NEW i \in Items, CallEnqueue(t, i)
      PROVE MutualExclusion'
  BY <1>2 DEF CallEnqueue
<1>3. ASSUME NEW t \in Threads, CallFlush(t) PROVE MutualExclusion'
  BY <1>3 DEF CallFlush
<1>4. ASSUME NEW t \in Threads, CallClear(t) PROVE MutualExclusion'
  BY <1>4 DEF CallClear
<1>5. ASSUME NEW t \in Threads, Lock(t) PROVE MutualExclusion'
  BY <1>5 DEF Lock
<1>6. ASSUME NEW t \in Threads, Push(t) PROVE MutualExclusion'
  BY <1>6 DEF Push
<1>7. ASSUME NEW t \in Threads, Notify(t) PROVE MutualExclusion'
  <2>1. pc[t] = "notify" /\ mMutex = t /\ mMutex' = None
    BY <1>7 DEF Notify
  <2>2. QED
    BY <1>7, <2>1, NotifyEffect
<1>8. ASSUME NEW t \in Threads, Wait(t) PROVE MutualExclusion'
  BY <1>8 DEF Wait
<1>9. ASSUME NEW t \in Threads, SpuriousWakeup(t) PROVE MutualExclusion'
  BY <1>9 DEF SpuriousWakeup, SleepInv
<1>10. ASSUME NEW t \in Threads, MoveFront(t) PROVE MutualExclusion'
  BY <1>10 DEF MoveFront
<1>11. ASSUME NEW t \in Threads, PopFront(t) PROVE MutualExclusion'
  BY <1>11 DEF PopFront
<1>12. ASSUME NEW t \in Threads, TryDequeue(t) PROVE MutualExclusion'
  <2>1. item[t] = None /\ pc[t] = "try" /\ mMutex = t
    BY <1>12 DEF TryDequeue, ItemInv
  <2>2. CASE mQueue = <<>>
    BY <1>12, <2>1, <2>2 DEF TryDequeue
  <2>3. CASE mQueue # <<>>
    BY <1>12, <2>1, <2>3 DEF TryDequeue
  <2>4. QED
    BY <2>2, <2>3
<1>13. ASSUME NEW t \in Threads, Run(t) PROVE MutualExclusion'
  BY <1>13 DEF Run
<1>14. ASSUME NEW t \in Threads, Destroy(t) PROVE MutualExclusion'
  BY <1>14 DEF Destroy
<1>15. ASSUME NEW t \in Threads, DestroyEnd(t) PROVE MutualExclusion'
  BY <1>15 DEF DestroyEnd, AfterInv
<1>16. ASSUME NEW t \in Threads, Clear(t) PROVE MutualExclusion'
  BY <1>16 DEF Clear
<1>17. QED
  BY <1>1, <1>2, <1>3, <1>4, <1>5, <1>6, <1>7, <1>8, <1>9, <1>10, <1>11, <1>12,
     <1>13, <1>14, <1>15, <1>16 DEF Next, Client, Step

\* A consumer's variable is emptied before it is assigned to again.
LEMMA ItemStep == IInv /\ [Next]_vars => ItemInv'
<1> SUFFICES ASSUME IInv, [Next]_vars PROVE ItemInv'
  OBVIOUS
<1> USE QueueAssumption DEF IInv, TypeOK, ItemInv
<1>1. CASE UNCHANGED vars
  BY <1>1 DEF vars
<1>2. ASSUME NEW t \in Threads, NEW i \in Items, CallEnqueue(t, i) PROVE ItemInv'
  BY <1>2 DEF CallEnqueue
<1>3. ASSUME NEW t \in Threads, CallFlush(t) PROVE ItemInv'
  BY <1>3 DEF CallFlush
<1>4. ASSUME NEW t \in Threads, CallClear(t) PROVE ItemInv'
  BY <1>4 DEF CallClear
<1>5. ASSUME NEW t \in Threads, Lock(t) PROVE ItemInv'
  BY <1>5 DEF Lock
<1>6. ASSUME NEW t \in Threads, Push(t) PROVE ItemInv'
  BY <1>6 DEF Push
<1>7. ASSUME NEW t \in Threads, Notify(t) PROVE ItemInv'
  <2>1. pc[t] = "notify" /\ item' = item
    BY <1>7 DEF Notify
  <2>2. PICK r \in {"idle", "destroy"}, w \in Threads :
            /\ w # t => pc[w] = "wait"
            /\ pc' = [pc EXCEPT ![t] = r, ![w] = IF w = t THEN r ELSE "awake"]
    BY <1>7, NotifyEffect
  <2>3. ASSUME NEW u \in Threads
        PROVE  pc'[u] \in {"enqueue", "push", "pop", "run"}
                 <=> pc[u] \in {"enqueue", "push", "pop", "run"}
    BY <2>1, <2>2
  <2>4. QED
    BY <2>1, <2>3
<1>8. ASSUME NEW t \in Threads, Wait(t) PROVE ItemInv'
  BY <1>8 DEF Wait
<1>9. ASSUME NEW t \in Threads, SpuriousWakeup(t) PROVE ItemInv'
  BY <1>9 DEF SpuriousWakeup, SleepInv
<1>10. ASSUME NEW t \in Threads, MoveFront(t) PROVE ItemInv'
  <2>1. Head(mQueue) \in Items
    BY <1>10 DEF MoveFront, FrontInv
  <2>2. QED
    BY <1>10, <2>1 DEF MoveFront
<1>11. ASSUME NEW t \in Threads, PopFront(t) PROVE ItemInv'
  BY <1>11 DEF PopFront
<1>12. ASSUME NEW t \in Threads, TryDequeue(t) PROVE ItemInv'
  <2>1. CASE mQueue = <<>>
    BY <1>12, <2>1 DEF TryDequeue
  <2>2. CASE mQueue # <<>>
    <3>1. Head(mQueue) \in Items
      BY <2>2
    <3>2. item[t] = None
      BY <1>12 DEF TryDequeue
    <3>3. item' = [item EXCEPT ![t] = Head(mQueue)] /\ pc' = [pc EXCEPT ![t] = "pop"]
      BY <1>12, <2>2, <3>2 DEF TryDequeue
    <3>4. QED
      BY <3>1, <3>3
  <2>3. QED
    BY <2>1, <2>2
<1>13. ASSUME NEW t \in Threads, Run(t) PROVE ItemInv'
  BY <1>13 DEF Run, LoopPoint
<1>14. ASSUME NEW t \in Threads, Destroy(t) PROVE ItemInv'
  BY <1>14 DEF Destroy
<1>15. ASSUME NEW t \in Threads, DestroyEnd(t) PROVE ItemInv'
  BY <1>15 DEF DestroyEnd, AfterInv
<1>16. ASSUME NEW t \in Threads, Clear(t) PROVE ItemInv'
  BY <1>16 DEF Clear
<1>17. QED
  BY <1>1, <1>2, <1>3, <1>4, <1>5, <1>6, <1>7, <1>8,
     <1>9, <1>10, <1>11, <1>12, <1>13, <1>14, <1>15, <1>16 DEF Next, Client, Step

\* No destruction ever continues inside the critical section.
LEMMA AfterStep == IInv /\ [Next]_vars => AfterInv'
<1> SUFFICES ASSUME IInv, [Next]_vars PROVE AfterInv'
  OBVIOUS
<1> USE DEF IInv, TypeOK, AfterInv
<1>1. CASE UNCHANGED vars
  BY <1>1 DEF vars
<1>2. ASSUME NEW t \in Threads, NEW i \in Items, CallEnqueue(t, i) PROVE AfterInv'
  BY <1>2 DEF CallEnqueue
<1>3. ASSUME NEW t \in Threads, CallFlush(t) PROVE AfterInv'
  BY <1>3 DEF CallFlush
<1>4. ASSUME NEW t \in Threads, CallClear(t) PROVE AfterInv'
  BY <1>4 DEF CallClear
<1>5. ASSUME NEW t \in Threads, Lock(t) PROVE AfterInv'
  BY <1>5 DEF Lock
<1>6. ASSUME NEW t \in Threads, Push(t) PROVE AfterInv'
  BY <1>6 DEF Push
<1>7. ASSUME NEW t \in Threads, Notify(t) PROVE AfterInv'
  BY <1>7 DEF Notify, SleepInv
<1>8. ASSUME NEW t \in Threads, Wait(t) PROVE AfterInv'
  BY <1>8 DEF Wait
<1>9. ASSUME NEW t \in Threads, SpuriousWakeup(t) PROVE AfterInv'
  BY <1>9 DEF SpuriousWakeup
<1>10. ASSUME NEW t \in Threads, MoveFront(t) PROVE AfterInv'
  BY <1>10 DEF MoveFront
<1>11. ASSUME NEW t \in Threads, PopFront(t) PROVE AfterInv'
  BY <1>11 DEF PopFront
<1>12. ASSUME NEW t \in Threads, TryDequeue(t) PROVE AfterInv'
  BY <1>12 DEF TryDequeue, ItemInv
<1>13. ASSUME NEW t \in Threads, Run(t) PROVE AfterInv'
  BY <1>13 DEF Run, LoopPoint
<1>14. ASSUME NEW t \in Threads, Destroy(t) PROVE AfterInv'
  BY <1>14 DEF Destroy
<1>15. ASSUME NEW t \in Threads, DestroyEnd(t) PROVE AfterInv'
  BY <1>15 DEF DestroyEnd
<1>16. ASSUME NEW t \in Threads, Clear(t) PROVE AfterInv'
  BY <1>16 DEF Clear
<1>17. QED
  BY <1>1, <1>2, <1>3, <1>4, <1>5, <1>6, <1>7, <1>8,
     <1>9, <1>10, <1>11, <1>12, <1>13, <1>14, <1>15, <1>16 DEF Next, Client, Step

\* Between the check and pop_front() nobody empties the deque.
LEMMA FrontStep == IInv /\ [Next]_vars => FrontInv'
<1> SUFFICES ASSUME IInv, [Next]_vars PROVE FrontInv'
  OBVIOUS
<1> USE DEF IInv, TypeOK, FrontInv
<1>1. CASE UNCHANGED vars
  BY <1>1 DEF vars
<1>2. ASSUME NEW t \in Threads, NEW i \in Items, CallEnqueue(t, i) PROVE FrontInv'
  BY <1>2 DEF CallEnqueue
<1>3. ASSUME NEW t \in Threads, CallFlush(t) PROVE FrontInv'
  BY <1>3 DEF CallFlush
<1>4. ASSUME NEW t \in Threads, CallClear(t) PROVE FrontInv'
  BY <1>4 DEF CallClear
<1>5. ASSUME NEW t \in Threads, Lock(t) PROVE FrontInv'
  BY <1>5 DEF Lock
<1>6. ASSUME NEW t \in Threads, Push(t) PROVE FrontInv'
  BY <1>6 DEF Push, MutualExclusion
<1>7. ASSUME NEW t \in Threads, Notify(t) PROVE FrontInv'
  BY <1>7 DEF Notify, SleepInv
<1>8. ASSUME NEW t \in Threads, Wait(t) PROVE FrontInv'
  BY <1>8 DEF Wait
<1>9. ASSUME NEW t \in Threads, SpuriousWakeup(t) PROVE FrontInv'
  BY <1>9 DEF SpuriousWakeup
<1>10. ASSUME NEW t \in Threads, MoveFront(t) PROVE FrontInv'
  BY <1>10 DEF MoveFront
<1>11. ASSUME NEW t \in Threads, PopFront(t) PROVE FrontInv'
  BY <1>11 DEF PopFront, MutualExclusion
<1>12. ASSUME NEW t \in Threads, TryDequeue(t) PROVE FrontInv'
  BY <1>12 DEF TryDequeue, MutualExclusion
<1>13. ASSUME NEW t \in Threads, Run(t) PROVE FrontInv'
  BY <1>13 DEF Run
<1>14. ASSUME NEW t \in Threads, Destroy(t) PROVE FrontInv'
  BY <1>14 DEF Destroy
<1>15. ASSUME NEW t \in Threads, DestroyEnd(t) PROVE FrontInv'
  BY <1>15 DEF DestroyEnd, AfterInv
<1>16. ASSUME NEW t \in Threads, Clear(t) PROVE FrontInv'
  BY <1>16 DEF Clear, MutualExclusion
<1>17. QED
  BY <1>1, <1>2, <1>3, <1>4, <1>5, <1>6, <1>7, <1>8,
     <1>9, <1>10, <1>11, <1>12, <1>13, <1>14, <1>15, <1>16 DEF Next, Client, Step

\* The sleepers are exactly the threads inside wait().
LEMMA SleepStep == IInv /\ [Next]_vars => SleepInv'
<1> SUFFICES ASSUME IInv, [Next]_vars PROVE SleepInv'
  OBVIOUS
<1> USE DEF IInv, TypeOK, SleepInv
<1>1. CASE UNCHANGED vars
  BY <1>1 DEF vars
<1>2. ASSUME NEW t \in Threads, NEW i \in Items, CallEnqueue(t, i) PROVE SleepInv'
  BY <1>2 DEF CallEnqueue
<1>3. ASSUME NEW t \in Threads, CallFlush(t) PROVE SleepInv'
  BY <1>3 DEF CallFlush
<1>4. ASSUME NEW t \in Threads, CallClear(t) PROVE SleepInv'
  BY <1>4 DEF CallClear
<1>5. ASSUME NEW t \in Threads, Lock(t) PROVE SleepInv'
  BY <1>5 DEF Lock
<1>6. ASSUME NEW t \in Threads, Push(t) PROVE SleepInv'
  BY <1>6 DEF Push
<1>7. ASSUME NEW t \in Threads, Notify(t) PROVE SleepInv'
  BY <1>7 DEF Notify
<1>8. ASSUME NEW t \in Threads, Wait(t) PROVE SleepInv'
  BY <1>8 DEF Wait
<1>9. ASSUME NEW t \in Threads, SpuriousWakeup(t) PROVE SleepInv'
  BY <1>9 DEF SpuriousWakeup
<1>10. ASSUME NEW t \in Threads, MoveFront(t) PROVE SleepInv'
  BY <1>10 DEF MoveFront
<1>11. ASSUME NEW t \in Threads, PopFront(t) PROVE SleepInv'
  BY <1>11 DEF PopFront
<1>12. ASSUME NEW t \in Threads, TryDequeue(t) PROVE SleepInv'
  BY <1>12 DEF TryDequeue
<1>13. ASSUME NEW t \in Threads, Run(t) PROVE SleepInv'
  BY <1>13 DEF Run
<1>14. ASSUME NEW t \in Threads, Destroy(t) PROVE SleepInv'
  BY <1>14 DEF Destroy
<1>15. ASSUME NEW t \in Threads, DestroyEnd(t) PROVE SleepInv'
  BY <1>15 DEF DestroyEnd
<1>16. ASSUME NEW t \in Threads, Clear(t) PROVE SleepInv'
  BY <1>16 DEF Clear
<1>17. QED
  BY <1>1, <1>2, <1>3, <1>4, <1>5, <1>6, <1>7, <1>8,
     <1>9, <1>10, <1>11, <1>12, <1>13, <1>14, <1>15, <1>16 DEF Next, Client, Step

\* The invariant holds in every reachable state.
LEMMA InvariantIInv == Spec => []IInv
<1>1. IInv /\ [Next]_vars => IInv'
  BY TypeStep, LockStep, ItemStep, AfterStep, FrontStep, SleepStep DEF IInv
<1>2. QED
  BY InitIInv, <1>1, PTL DEF Spec

\* Every variable of the queue and of its users keeps its type.
THEOREM TypeCorrect == Spec => []TypeOK
<1>1. IInv => TypeOK
  BY DEF IInv
<1>2. QED
  BY InvariantIInv, <1>1, PTL

\* No thread ever waits for the mutex it owns, whatever the destructors of the
\* queued closures enqueue.
THEOREM NeverSelfDeadlocked == Spec => []NoSelfDeadlock
<1>1. IInv => NoSelfDeadlock
  BY DEF IInv, MutualExclusion, NoSelfDeadlock
<1>2. QED
  BY InvariantIInv, <1>1, PTL

-----------------------------------------------------------------------------
(* The refinement of FifoQueue. *)

\* While one thread is elsewhere in the critical section, nobody is taking.
LEMMA NobodyTaking ==
  ASSUME IInv, NEW t \in Threads, pc[t] \in Critical \ {"pop"}
  PROVE  ~Taking
BY DEF IInv, MutualExclusion, Taking

\* A step that moves no thread to or from "pop" leaves the contents alone.
LEMMA SameContents ==
  ASSUME mQueue' = mQueue, UNCHANGED history,
         \A t \in Threads : pc[t] = "pop" <=> pc'[t] = "pop"
  PROVE  UNCHANGED <<Contents, entered, handed, cleared>>
BY DEF Contents, Taking

\* Every step is one operation of the abstract queue, or changes nothing of it.
LEMMA FifoStep == IInv /\ [Next]_vars => [Fifo!Next]_<<Contents, entered, handed, cleared>>
<1> SUFFICES ASSUME IInv, [Next]_vars
      PROVE  [Fifo!Next]_<<Contents, entered, handed, cleared>>
  OBVIOUS
<1> USE DEF IInv, TypeOK
<1>1. CASE UNCHANGED vars
  BY <1>1, SameContents DEF vars
<1>2. ASSUME NEW t \in Threads, NEW i \in Items, CallEnqueue(t, i)
      PROVE  [Fifo!Next]_<<Contents, entered, handed, cleared>>
  BY <1>2, SameContents DEF CallEnqueue
<1>3. ASSUME NEW t \in Threads, CallFlush(t)
      PROVE  [Fifo!Next]_<<Contents, entered, handed, cleared>>
  BY <1>3, SameContents DEF CallFlush
<1>4. ASSUME NEW t \in Threads, CallClear(t)
      PROVE  [Fifo!Next]_<<Contents, entered, handed, cleared>>
  BY <1>4, SameContents DEF CallClear
<1>5. ASSUME NEW t \in Threads, Lock(t)
      PROVE  [Fifo!Next]_<<Contents, entered, handed, cleared>>
  BY <1>5, SameContents DEF Lock
<1>6. ASSUME NEW t \in Threads, Push(t)
      PROVE  [Fifo!Next]_<<Contents, entered, handed, cleared>>
  <2>1. item[t] \in Items
    BY <1>6 DEF Push, ItemInv
  <2>2. ~Taking /\ ~Taking'
    BY <1>6, NobodyTaking DEF Push, Taking
  <2>3. Contents' = Append(Contents, item[t])
    BY <1>6, <2>2 DEF Push, Contents
  <2>4. Fifo!Put(item[t])
    BY <1>6, <2>3 DEF Push, Fifo!Put
  <2>5. QED
    BY <2>1, <2>4 DEF Fifo!Next
<1>7. ASSUME NEW t \in Threads, Notify(t)
      PROVE  [Fifo!Next]_<<Contents, entered, handed, cleared>>
  <2>1. mQueue' = mQueue /\ UNCHANGED history /\ pc[t] = "notify"
    BY <1>7 DEF Notify
  <2>2. \A u \in Threads : pc[u] = "pop" <=> pc'[u] = "pop"
    BY <1>7, <2>1, NotifyEffect
  <2>3. QED
    BY <2>1, <2>2, SameContents
<1>8. ASSUME NEW t \in Threads, Wait(t)
      PROVE  [Fifo!Next]_<<Contents, entered, handed, cleared>>
  BY <1>8, SameContents DEF Wait
<1>9. ASSUME NEW t \in Threads, SpuriousWakeup(t)
      PROVE  [Fifo!Next]_<<Contents, entered, handed, cleared>>
  BY <1>9, SameContents DEF SpuriousWakeup, SleepInv
<1>10. ASSUME NEW t \in Threads, MoveFront(t)
      PROVE  [Fifo!Next]_<<Contents, entered, handed, cleared>>
  <2>1. ~Taking /\ Taking' /\ mQueue # <<>>
    BY <1>10, NobodyTaking DEF MoveFront, Taking, FrontInv
  <2>2. Fifo!Take
    BY <1>10, <2>1 DEF MoveFront, Contents, Fifo!Take
  <2>3. QED
    BY <2>2 DEF Fifo!Next
<1>11. ASSUME NEW t \in Threads, PopFront(t)
      PROVE  [Fifo!Next]_<<Contents, entered, handed, cleared>>
  <2>1. Taking /\ pc' = [pc EXCEPT ![t] = "run"]
    BY <1>11 DEF PopFront, Taking
  <2>2. ~Taking'
    BY <1>11, <2>1 DEF PopFront, Taking, MutualExclusion
  <2>3. QED
    BY <1>11, <2>1, <2>2 DEF PopFront, Contents
<1>12. ASSUME NEW t \in Threads, TryDequeue(t)
      PROVE  [Fifo!Next]_<<Contents, entered, handed, cleared>>
  <2>1. item[t] = None /\ ~Taking
    BY <1>12, NobodyTaking DEF TryDequeue, ItemInv
  <2>2. CASE mQueue = <<>>
    BY <1>12, <2>2, SameContents DEF TryDequeue
  <2>3. CASE mQueue # <<>>
    <3>1. pc' = [pc EXCEPT ![t] = "pop"]
      BY <1>12, <2>1, <2>3 DEF TryDequeue
    <3>2. Taking'
      BY <3>1 DEF Taking
    <3>3. Fifo!Take
      BY <1>12, <2>1, <2>3, <3>2 DEF TryDequeue, Contents, Fifo!Take
    <3>4. QED
      BY <3>3 DEF Fifo!Next
  <2>4. QED
    BY <2>2, <2>3
<1>13. ASSUME NEW t \in Threads, Run(t)
      PROVE  [Fifo!Next]_<<Contents, entered, handed, cleared>>
  BY <1>13, SameContents DEF Run
<1>14. ASSUME NEW t \in Threads, Destroy(t)
      PROVE  [Fifo!Next]_<<Contents, entered, handed, cleared>>
  BY <1>14, SameContents DEF Destroy
<1>15. ASSUME NEW t \in Threads, DestroyEnd(t)
      PROVE  [Fifo!Next]_<<Contents, entered, handed, cleared>>
  BY <1>15, SameContents DEF DestroyEnd, AfterInv
<1>16. ASSUME NEW t \in Threads, Clear(t)
      PROVE  [Fifo!Next]_<<Contents, entered, handed, cleared>>
  <2>1. ~Taking /\ ~Taking'
    BY <1>16, NobodyTaking DEF Clear, Taking
  <2>2. Fifo!Clear
    BY <1>16, <2>1 DEF Clear, Contents, Fifo!Clear
  <2>3. QED
    BY <2>2 DEF Fifo!Next
<1>17. QED
  BY <1>1, <1>2, <1>3, <1>4, <1>5, <1>6, <1>7, <1>8,
     <1>9, <1>10, <1>11, <1>12, <1>13, <1>14, <1>15, <1>16 DEF Next, Client, Step

\* The queue with its locks and wake-ups implements the atomic FIFO queue that
\* ThreadManager and ResourceLoading take it for.
THEOREM FifoRefinement == Spec => ImplementsFifoQueue
<1>1. Init => Fifo!Init
  BY DEF Init, Fifo!Init, Contents, Taking
<1>2. QED
  BY <1>1, FifoStep, InvariantIInv, PTL DEF Spec, ImplementsFifoQueue, Fifo!Spec

-----------------------------------------------------------------------------
(* No wake-up is lost. *)

\* Threads are finitely many.
LEMMA SomeThreads ==
  ASSUME NEW S, S \subseteq Threads
  PROVE  IsFiniteSet(S) /\ Cardinality(S) \in Nat
<1>1. IsFiniteSet(S)
  BY QueueAssumption, FS_Subset
<1>2. QED
  BY <1>1, FS_CardinalityType

\* A step that brings nothing, puts nobody to sleep and takes nobody off the way.
LEMMA NobodyLeaves ==
  ASSUME IInv, IInv', NoLostWakeup,
         asleep' # {} => asleep # {},
         Len(mQueue') <= Len(mQueue),
         OnTheWay \subseteq OnTheWay', Notifying \subseteq Notifying'
  PROVE  NoLostWakeup'
<1>1. /\ IsFiniteSet(OnTheWay') /\ IsFiniteSet(Notifying')
      /\ Cardinality(OnTheWay) \in Nat /\ Cardinality(Notifying) \in Nat
      /\ Cardinality(OnTheWay') \in Nat /\ Cardinality(Notifying') \in Nat
  BY SomeThreads DEF OnTheWay, Notifying
<1>2. /\ Cardinality(OnTheWay) <= Cardinality(OnTheWay')
      /\ Cardinality(Notifying) <= Cardinality(Notifying')
  BY <1>1, FS_Subset
<1>3. Len(mQueue) \in Nat /\ Len(mQueue') \in Nat
  BY DEF IInv, TypeOK
<1>4. QED
  BY <1>1, <1>2, <1>3 DEF NoLostWakeup

\* The cases where somebody arrives, is notified or leaves.
LEMMA WakeupStep ==
  ASSUME IInv, IInv', NoLostWakeup, [Next]_vars
  PROVE  NoLostWakeup'
<1> USE DEF IInv, TypeOK
<1>0. /\ Cardinality(OnTheWay) \in Nat /\ Cardinality(Notifying) \in Nat
      /\ Cardinality(OnTheWay') \in Nat /\ Cardinality(Notifying') \in Nat
      /\ IsFiniteSet(OnTheWay) /\ IsFiniteSet(Notifying)
      /\ Len(mQueue) \in Nat /\ Len(mQueue') \in Nat
  <2>1. OnTheWay \subseteq Threads /\ Notifying \subseteq Threads
    BY DEF OnTheWay, Notifying
  <2>2. OnTheWay' \subseteq Threads /\ Notifying' \subseteq Threads
    BY DEF OnTheWay, Notifying
  <2>3. QED
    BY <2>1, <2>2, SomeThreads
<1>1. CASE UNCHANGED vars
  BY <1>1, NobodyLeaves DEF vars, OnTheWay, Notifying
<1>2. ASSUME NEW t \in Threads, NEW i \in Items, CallEnqueue(t, i) PROVE NoLostWakeup'
  BY <1>2, NobodyLeaves DEF CallEnqueue, OnTheWay, Notifying
<1>3. ASSUME NEW t \in Threads, CallFlush(t) PROVE NoLostWakeup'
  BY <1>3, NobodyLeaves DEF CallFlush, OnTheWay, Notifying
<1>4. ASSUME NEW t \in Threads, CallClear(t) PROVE NoLostWakeup'
  BY <1>4, NobodyLeaves DEF CallClear, OnTheWay, Notifying
<1>5. ASSUME NEW t \in Threads, Lock(t) PROVE NoLostWakeup'
  BY <1>5, NobodyLeaves DEF Lock, OnTheWay, Notifying
<1>6. ASSUME NEW t \in Threads, Push(t) PROVE NoLostWakeup'
  <2>1. Len(mQueue') = Len(mQueue) + 1 /\ asleep' = asleep
    BY <1>6 DEF Push, ItemInv
  <2>2. OnTheWay' = OnTheWay /\ Notifying' = Notifying \cup {t} /\ t \notin Notifying
    BY <1>6 DEF Push, OnTheWay, Notifying
  <2>3. Cardinality(Notifying') = Cardinality(Notifying) + 1
    BY <1>0, <2>2, FS_AddElement
  <2>4. Cardinality(OnTheWay') = Cardinality(OnTheWay)
    BY <2>2
  <2>5. CASE asleep = {}
    BY <2>1, <2>5 DEF NoLostWakeup
  <2>6. CASE asleep # {}
    <3>1. Len(mQueue) <= Cardinality(OnTheWay) + Cardinality(Notifying)
      BY <2>6 DEF NoLostWakeup
    <3>2. Len(mQueue') <= Cardinality(OnTheWay') + Cardinality(Notifying')
      BY <1>0, <2>1, <2>3, <2>4, <3>1
    <3>3. QED
      BY <3>2 DEF NoLostWakeup
  <2>7. QED
    BY <2>5, <2>6
<1>7. ASSUME NEW t \in Threads, Notify(t) PROVE NoLostWakeup'
  <2>1. CASE asleep = {}
    BY <1>7, <2>1 DEF Notify, NoLostWakeup
  <2>2. CASE asleep # {}
    <3>1. PICK w \in asleep, r \in {"idle", "destroy"} :
              pc' = [pc EXCEPT ![t] = r, ![w] = "awake"]
      BY <1>7, <2>2 DEF Notify
    <3>2. w \in Threads /\ pc[w] = "wait" /\ pc[t] = "notify" /\ mQueue' = mQueue
      BY <1>7 DEF Notify, SleepInv
    <3>3. /\ OnTheWay' = OnTheWay \cup {w} /\ w \notin OnTheWay
          /\ Notifying' = Notifying \ {t} /\ t \in Notifying
      BY <3>1, <3>2 DEF OnTheWay, Notifying
    <3>4. /\ Cardinality(OnTheWay') = Cardinality(OnTheWay) + 1
          /\ Cardinality(Notifying') = Cardinality(Notifying) - 1
      BY <1>0, <3>3, FS_AddElement, FS_RemoveElement
    <3>5. Len(mQueue) <= Cardinality(OnTheWay) + Cardinality(Notifying)
      BY <2>2 DEF NoLostWakeup
    <3>6. Len(mQueue') = Len(mQueue)
      BY <3>2
    <3>7. Len(mQueue') <= Cardinality(OnTheWay') + Cardinality(Notifying')
      BY <1>0, <3>4, <3>5, <3>6
    <3>8. QED
      BY <3>7 DEF NoLostWakeup
  <2>3. QED
    BY <2>1, <2>2
<1>8. ASSUME NEW t \in Threads, Wait(t) PROVE NoLostWakeup'
  <2>1. CASE mQueue = <<>>
    <3>1. Len(mQueue') = 0
      BY <1>8, <2>1 DEF Wait
    <3>2. QED
      BY <1>0, <3>1 DEF NoLostWakeup
  <2>2. CASE mQueue # <<>>
    BY <1>8, <2>2, NobodyLeaves DEF Wait, OnTheWay, Notifying
  <2>3. QED
    BY <2>1, <2>2
<1>9. ASSUME NEW t \in Threads, SpuriousWakeup(t) PROVE NoLostWakeup'
  BY <1>9, NobodyLeaves DEF SpuriousWakeup, SleepInv, OnTheWay, Notifying
<1>10. ASSUME NEW t \in Threads, MoveFront(t) PROVE NoLostWakeup'
  BY <1>10, NobodyLeaves DEF MoveFront, OnTheWay, Notifying
<1>11. ASSUME NEW t \in Threads, PopFront(t) PROVE NoLostWakeup'
  <2>1. Len(mQueue') = Len(mQueue) - 1 /\ asleep' = asleep
    BY <1>11 DEF PopFront, FrontInv
  <2>2. OnTheWay' = OnTheWay \ {t} /\ t \in OnTheWay /\ Notifying' = Notifying
    BY <1>11 DEF PopFront, OnTheWay, Notifying
  <2>3. Cardinality(OnTheWay') = Cardinality(OnTheWay) - 1
    BY <1>0, <2>2, FS_RemoveElement
  <2>4. Cardinality(Notifying') = Cardinality(Notifying)
    BY <2>2
  <2>5. CASE asleep = {}
    BY <2>1, <2>5 DEF NoLostWakeup
  <2>6. CASE asleep # {}
    <3>1. Len(mQueue) <= Cardinality(OnTheWay) + Cardinality(Notifying)
      BY <2>6 DEF NoLostWakeup
    <3>2. Len(mQueue') <= Cardinality(OnTheWay') + Cardinality(Notifying')
      BY <1>0, <2>1, <2>3, <2>4, <3>1
    <3>3. QED
      BY <3>2 DEF NoLostWakeup
  <2>7. QED
    BY <2>5, <2>6
<1>12. ASSUME NEW t \in Threads, TryDequeue(t) PROVE NoLostWakeup'
  <2>1. mQueue' = mQueue /\ asleep' = asleep /\ pc[t] = "try"
    BY <1>12 DEF TryDequeue
  <2>2. \E p \in Places : pc' = [pc EXCEPT ![t] = p]
    BY <1>12 DEF TryDequeue
  <2>3. OnTheWay \subseteq OnTheWay' /\ Notifying \subseteq Notifying'
    BY <2>1, <2>2 DEF OnTheWay, Notifying
  <2>4. QED
    BY <1>0, <2>1, <2>3, NobodyLeaves
<1>13. ASSUME NEW t \in Threads, Run(t) PROVE NoLostWakeup'
  BY <1>13, NobodyLeaves DEF Run, OnTheWay, Notifying
<1>14. ASSUME NEW t \in Threads, Destroy(t) PROVE NoLostWakeup'
  BY <1>14, NobodyLeaves DEF Destroy, OnTheWay, Notifying
<1>15. ASSUME NEW t \in Threads, DestroyEnd(t) PROVE NoLostWakeup'
  BY <1>15, NobodyLeaves DEF DestroyEnd, OnTheWay, Notifying
<1>16. ASSUME NEW t \in Threads, Clear(t) PROVE NoLostWakeup'
  <2>1. Len(mQueue') = 0
    BY <1>16 DEF Clear
  <2>2. QED
    BY <1>0, <2>1 DEF NoLostWakeup
<1>17. QED
  BY <1>1, <1>2, <1>3, <1>4, <1>5, <1>6, <1>7, <1>8, <1>9, <1>10, <1>11, <1>12,
     <1>13, <1>14, <1>15, <1>16 DEF Next, Client, Step

\* No worker sleeps over a closure that nobody is on the way to: one
\* notify_one() per closure is enough, for any number of threads.
THEOREM EveryWakeupArrives == Spec => []NoLostWakeup
<1>1. Init => NoLostWakeup
  BY DEF Init, NoLostWakeup
<1>2. Spec => [](IInv /\ NoLostWakeup)
  <2>1. IInv /\ IInv' /\ NoLostWakeup /\ [Next]_vars => NoLostWakeup'
    BY WakeupStep
  <2>2. QED
    BY <1>1, <2>1, InvariantIInv, PTL DEF Spec
<1>3. QED
  BY <1>2, PTL
=============================================================================
