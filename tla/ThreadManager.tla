---------------------------- MODULE ThreadManager ----------------------------
(***************************************************************************)
(* The two threads of the engine from main() to exit: CxxThreadManager     *)
(* with its worker thread and its render-thread queue, the frame loop of   *)
(* GlfwWrapper::run, the set-up and tear-down of the application and of    *)
(* the Services pointers, and the reference-counted GL resources whose     *)
(* closures travel between the threads. Both queues are the atomic FIFO of *)
(* FifoQueue.                                                              *)
(*                                                                         *)
(* A resource is kept alive by its holders: the scene, the closures that   *)
(* load it, and the resource it is part of (a material holds a texture).   *)
(* Where the last holder lets go, the destructor runs, on that thread, and *)
(* posts the glDelete* closure of a GL object to the render queue.         *)
(***************************************************************************)
EXTENDS Naturals, Sequences, FiniteSets

CONSTANTS
    Resources,      \* the resources the scenes ask for
    None,           \* no resource, no closure
    Sub,            \* Sub[r]: the texture that r's setup requests, or None
    MaxLoads        \* bound: a scene creates a resource at most so often

ASSUME ThreadManagerAssumption ==
    /\ None \notin Resources
    /\ (Resources \cup {None}) \cap {"scene", "load", "setup"} = {}
    /\ Sub \in [Resources -> Resources \cup {None}]
    /\ \A r \in Resources : Sub[r] # None => Sub[Sub[r]] = None
    /\ MaxLoads \in Nat

VARIABLES
    pc,             \* where the main (render) thread is
    wpc,            \* where the worker thread is
    services,       \* the Services pointers that are not null
    window,         \* the window and its GL context exist
    jobs,           \* WorkerThread::mQueue
    mRenderThreadQueue,
    action,         \* closures the main thread has taken out of the queue
    job,            \* the closure the worker has taken out of its queue
    mShouldExit, mExited,
    holders,        \* who holds a reference to each resource
    created,        \* how many GL objects or materials were created for it
    deleted         \* how many glDelete* calls were made for it

vars == <<pc, wpc, services, window, jobs, mRenderThreadQueue, action, job,
          mShouldExit, mExited, holders, created, deleted>>

Closure == [kind : {"load", "setup", "delete"}, res : Resources]
           \cup [kind : {"stop"}, res : {None}]
Stop == [kind |-> "stop", res |-> None]

Load(r) == [kind |-> "load", res |-> r]
Setup(r) == [kind |-> "setup", res |-> r]
Delete(r) == [kind |-> "delete", res |-> r]
Idle == [kind |-> "none", res |-> None]

Holder == {"scene", "load", "setup"} \cup Resources
PlatformServices == {"threadManager", "fileSystem", "inputManager"}
ApplicationServices == {"resourceManager", "rendererResourceFactory", "sceneManager"}

GLObjects == {r \in Resources : Sub[r] = None}

Init ==
    /\ pc = "boot"
    /\ wpc = "loop"
    /\ services = PlatformServices
    /\ window = FALSE
    /\ jobs = <<>>
    /\ mRenderThreadQueue = <<>>
    /\ action = <<>>
    /\ job = Idle
    /\ mShouldExit = FALSE
    /\ mExited = FALSE
    /\ holders = [r \in Resources |-> {}]
    /\ created = [r \in Resources |-> 0]
    /\ deleted = [r \in Resources |-> 0]

-----------------------------------------------------------------------------
(* References *)

\* The holders after h lets go of r; a destroyed material lets go of its texture.
Without(h, r) ==
    LET left == [holders EXCEPT ![r] = @ \ {h}]
    IN  IF left[r] = {} /\ Sub[r] # None
        THEN [left EXCEPT ![Sub[r]] = @ \ {r}]
        ELSE left

\* Mutant: the texture that dies with its material is not deleted.
PostedForItself(h, r) ==
    IF r \in GLObjects /\ holders[r] # {} /\ Without(h, r)[r] = {}
    THEN <<Delete(r)>> ELSE <<>>

\* The closures posted by the destructors of the GL objects that die with that.
Posted(h, r) ==
    LET died(x) == x \in GLObjects /\ holders[x] # {} /\ Without(h, r)[x] = {}
    IN  IF died(r) THEN <<Delete(r)>>
        ELSE IF Sub[r] # None /\ died(Sub[r]) THEN <<Delete(Sub[r])>>
        ELSE <<>>

LetGo(h, r) ==
    /\ holders' = Without(h, r)
    /\ mRenderThreadQueue' = mRenderThreadQueue \o Posted(h, r)

\* What a closure holds while it exists: both share the loading context.
HoldsOf(c) == IF c.kind \in {"load", "setup"} THEN c.kind ELSE None

DestroyClosure(c) ==
    IF HoldsOf(c) = None
    THEN UNCHANGED <<holders, mRenderThreadQueue>>
    ELSE LetGo(HoldsOf(c), c.res)

\* getResource(name, async) on behalf of h: a live resource is shared, an
\* expired or unknown one is created and its loading posted to the worker.
Request(h, r) ==
    IF holders[r] # {}
    THEN /\ holders' = [holders EXCEPT ![r] = @ \cup {h}]
         /\ UNCHANGED <<jobs, created>>
    ELSE /\ created' = [created EXCEPT ![r] = @ + 1]
         /\ holders' = [holders EXCEPT ![r] = {h, "load"}]
         /\ jobs' = Append(jobs, Load(r))

-----------------------------------------------------------------------------
(* The main thread *)

\* The window and GLEW come up, or main() goes straight to its clean-up.
Boot ==
    /\ pc = "boot"
    /\ \E success \in BOOLEAN :
           /\ window' = success
           /\ pc' = IF success THEN "initialize" ELSE "stop"
    /\ UNCHANGED <<wpc, services, jobs, mRenderThreadQueue, action, job,
                   mShouldExit, mExited, holders, created, deleted>>

\* Application::initialize
Initialize ==
    /\ pc = "initialize"
    /\ services' = services \cup ApplicationServices
    /\ pc' = "frame"
    /\ UNCHANGED <<wpc, window, jobs, mRenderThreadQueue, action, job,
                   mShouldExit, mExited, holders, created, deleted>>

\* A scene asks for a resource, in its constructor or in a frame.
SceneRequests(r) ==
    /\ pc = "frame"
    /\ "scene" \notin holders[r]
    /\ created[r] < MaxLoads
    /\ Request("scene", r)
    /\ UNCHANGED <<pc, wpc, services, window, mRenderThreadQueue, action, job,
                   mShouldExit, mExited, deleted>>

\* A scene lets go of a resource: in a frame, or destroyed by shutdown().
SceneReleases(r) ==
    /\ pc \in {"frame", "shutdown"}
    /\ "scene" \in holders[r]
    /\ LetGo("scene", r)
    /\ UNCHANGED <<pc, wpc, services, window, jobs, action, job,
                   mShouldExit, mExited, created, deleted>>

\* The frame is drawn; the frame callback flushes the render queue.
EndFrame ==
    /\ pc = "frame"
    /\ pc' = "flush"
    /\ UNCHANGED <<wpc, services, window, jobs, mRenderThreadQueue, action, job,
                   mShouldExit, mExited, holders, created, deleted>>

FlushTake ==
    /\ pc = "flush"
    /\ mRenderThreadQueue # <<>>
    /\ action' = <<Head(mRenderThreadQueue)>>
    /\ mRenderThreadQueue' = Tail(mRenderThreadQueue)
    /\ pc' = "run"
    /\ UNCHANGED <<wpc, services, window, jobs, job,
                   mShouldExit, mExited, holders, created, deleted>>

\* action(): a setup requests the texture of a material (the lines of
\* loadPendingResources), a delete calls glDelete*.
FlushRun ==
    /\ pc = "run"
    /\ LET c == Head(action)
       IN  CASE c.kind = "setup" /\ Sub[c.res] # None ->
                    Request(c.res, Sub[c.res]) /\ UNCHANGED deleted
             [] c.kind = "delete" ->
                    /\ deleted' = [deleted EXCEPT ![c.res] = @ + 1]
                    /\ UNCHANGED <<holders, jobs, created>>
             [] OTHER -> UNCHANGED <<holders, jobs, created, deleted>>
    /\ pc' = "reset"
    /\ UNCHANGED <<wpc, services, window, mRenderThreadQueue, action, job,
                   mShouldExit, mExited>>

\* action = nullptr
FlushReset ==
    /\ pc = "reset"
    /\ DestroyClosure(Head(action))
    /\ action' = <<>>
    /\ pc' = "flush"
    /\ UNCHANGED <<wpc, services, window, jobs, job,
                   mShouldExit, mExited, created, deleted>>

\* The queue is empty: next frame, or the window was closed.
FlushEnd ==
    /\ pc = "flush"
    /\ mRenderThreadQueue = <<>>
    /\ pc' \in {"frame", "shutdown"}
    /\ UNCHANGED <<wpc, services, window, jobs, mRenderThreadQueue, action, job,
                   mShouldExit, mExited, holders, created, deleted>>

\* Mutant: one more flush, when the application and the window are gone.
ShutdownFlushes ==
    /\ pc = "shutdown"
    /\ \A r \in Resources : "scene" \notin holders[r]
    /\ services' = services \ ApplicationServices
    /\ window' = FALSE
    /\ pc' = "flush"
    /\ UNCHANGED <<wpc, jobs, mRenderThreadQueue, action, job,
                   mShouldExit, mExited, holders, created, deleted>>

\* Application::shutdown once the scene is gone, then destroyWindow().
Shutdown ==
    /\ pc = "shutdown"
    /\ \A r \in Resources : "scene" \notin holders[r]
    /\ services' = services \ ApplicationServices
    /\ window' = FALSE
    /\ pc' = "stop"
    /\ UNCHANGED <<wpc, jobs, mRenderThreadQueue, action, job,
                   mShouldExit, mExited, holders, created, deleted>>

\* Mutant: stop() sets the flag itself, ahead of the jobs that are queued.
StopAtOnce ==
    /\ pc \in {"stop", "destructor"}
    /\ mShouldExit' = TRUE
    /\ pc' = IF pc = "stop" THEN "spin" ELSE "join"
    /\ UNCHANGED <<wpc, services, window, jobs, mRenderThreadQueue, action, job,
                   mExited, holders, created, deleted>>

\* WorkerThread::stop(), from stopWorkerThreads() and again from the destructor.
PostStop ==
    /\ pc \in {"stop", "destructor"}
    /\ jobs' = Append(jobs, Stop)
    /\ pc' = IF pc = "stop" THEN "spin" ELSE "join"
    /\ UNCHANGED <<wpc, services, window, mRenderThreadQueue, action, job,
                   mShouldExit, mExited, holders, created, deleted>>

\* Mutant: the queue is cleared without waiting for the worker.
ClearWithoutWaiting ==
    /\ pc = "spin"
    /\ action' = mRenderThreadQueue
    /\ mRenderThreadQueue' = <<>>
    /\ pc' = "clear"
    /\ UNCHANGED <<wpc, services, window, jobs, job,
                   mShouldExit, mExited, holders, created, deleted>>

\* while (!exited()) yield(); mRenderThreadQueue.clear()
ClearRenderQueue ==
    /\ pc = "spin"
    /\ mExited
    /\ action' = mRenderThreadQueue
    /\ mRenderThreadQueue' = <<>>
    /\ pc' = "clear"
    /\ UNCHANGED <<wpc, services, window, jobs, job,
                   mShouldExit, mExited, holders, created, deleted>>

\* The cleared closures are destroyed one by one, outside the lock.
ClearNext ==
    /\ pc = "clear"
    /\ action # <<>>
    /\ DestroyClosure(Head(action))
    /\ action' = Tail(action)
    /\ UNCHANGED <<pc, wpc, services, window, jobs, job,
                   mShouldExit, mExited, created, deleted>>

\* The Services pointers go; the last reference to the thread manager is in
\* Services, so its destructor runs when the pointer is already null.
ResetServices ==
    /\ pc = "clear"
    /\ action = <<>>
    /\ services' = services \ PlatformServices
    /\ pc' = "destructor"
    /\ UNCHANGED <<wpc, window, jobs, mRenderThreadQueue, action, job,
                   mShouldExit, mExited, holders, created, deleted>>

\* ~WorkerThread joins, then its queue and the render queue are destroyed
\* with what is left in them.
DestroyManager ==
    /\ pc = "join"
    /\ wpc = "exited"
    /\ action' = jobs \o mRenderThreadQueue
    /\ jobs' = <<>>
    /\ mRenderThreadQueue' = <<>>
    /\ pc' = "destroy"
    /\ UNCHANGED <<wpc, services, window, job, mShouldExit, mExited,
                   holders, created, deleted>>

DestroyNext ==
    /\ pc = "destroy"
    /\ action # <<>>
    /\ DestroyClosure(Head(action))
    /\ action' = Tail(action)
    /\ UNCHANGED <<pc, wpc, services, window, jobs, job,
                   mShouldExit, mExited, created, deleted>>

Exit ==
    /\ pc = "destroy"
    /\ action = <<>>
    /\ pc' = "exit"
    /\ UNCHANGED <<wpc, services, window, jobs, mRenderThreadQueue, action, job,
                   mShouldExit, mExited, holders, created, deleted>>

-----------------------------------------------------------------------------
(* The worker thread *)

\* while (!mShouldExit) mQueue.dequeue()...
WorkerTake ==
    /\ wpc = "loop"
    /\ ~mShouldExit
    /\ jobs # <<>>
    /\ job' = Head(jobs)
    /\ jobs' = Tail(jobs)
    /\ wpc' = "run"
    /\ UNCHANGED <<pc, services, window, mRenderThreadQueue, action,
                   mShouldExit, mExited, holders, created, deleted>>

\* A load fails, or its setup is posted with another reference to the context.
WorkerLoad ==
    /\ wpc = "run"
    /\ job.kind = "load"
    /\ \/ UNCHANGED <<mRenderThreadQueue, holders>>
       \/ /\ mRenderThreadQueue' = Append(mRenderThreadQueue, Setup(job.res))
          /\ holders' = [holders EXCEPT ![job.res] = @ \cup {"setup"}]
    /\ wpc' = "reset"
    /\ UNCHANGED <<pc, services, window, jobs, action, job,
                   mShouldExit, mExited, created, deleted>>

WorkerStop ==
    /\ wpc = "run"
    /\ job.kind = "stop"
    /\ mShouldExit' = TRUE
    /\ wpc' = "reset"
    /\ UNCHANGED <<pc, services, window, jobs, mRenderThreadQueue, action, job,
                   mExited, holders, created, deleted>>

\* Mutant: the closure leaks, and with it the reference it holds.
WorkerLeaks ==
    /\ wpc = "reset"
    /\ job' = Idle
    /\ wpc' = "loop"
    /\ UNCHANGED <<pc, services, window, jobs, mRenderThreadQueue, action,
                   mShouldExit, mExited, holders, created, deleted>>

\* The temporary closure is destroyed at the end of the loop body.
WorkerReset ==
    /\ wpc = "reset"
    /\ DestroyClosure(job)
    /\ job' = Idle
    /\ wpc' = "loop"
    /\ UNCHANGED <<pc, services, window, jobs, action,
                   mShouldExit, mExited, created, deleted>>

\* Mutant: the loop never looks at mShouldExit again.
WorkerStays ==
    /\ wpc = "loop"
    /\ mShouldExit
    /\ UNCHANGED vars

WorkerExit ==
    /\ wpc = "loop"
    /\ mShouldExit
    /\ mExited' = TRUE
    /\ wpc' = "exited"
    /\ UNCHANGED <<pc, services, window, jobs, mRenderThreadQueue, action, job,
                   mShouldExit, holders, created, deleted>>

-----------------------------------------------------------------------------
MainStep ==
    \/ Boot \/ Initialize \/ EndFrame
    \/ FlushTake \/ FlushRun \/ FlushReset \/ FlushEnd
    \/ (pc = "shutdown" /\ \E r \in Resources : SceneReleases(r))
    \/ Shutdown \/ PostStop \/ ClearRenderQueue \/ ClearNext
    \/ ResetServices \/ DestroyManager \/ DestroyNext \/ Exit

WorkerStep ==
    WorkerTake \/ WorkerLoad \/ WorkerStop \/ WorkerReset \/ WorkerExit

SceneStep ==
    \E r \in Resources : SceneRequests(r) \/ SceneReleases(r)

\* After main() has returned the process is gone.
Terminated == pc = "exit" /\ UNCHANGED vars

Next == MainStep \/ WorkerStep \/ SceneStep \/ Terminated

\* The operating system runs both threads; scenes need not do anything.
Spec == Init /\ [][Next]_vars /\ WF_vars(MainStep) /\ WF_vars(WorkerStep)

-----------------------------------------------------------------------------
(* Properties *)

\* Every variable keeps its type.
TypeOK ==
    /\ pc \in {"boot", "initialize", "frame", "flush", "run", "reset", "shutdown",
               "stop", "spin", "clear", "destructor", "join", "destroy", "exit"}
    /\ wpc \in {"loop", "run", "reset", "exited"}
    /\ services \subseteq PlatformServices \cup ApplicationServices
    /\ window \in BOOLEAN
    /\ jobs \in Seq(Closure)
    /\ mRenderThreadQueue \in Seq(Closure)
    /\ action \in Seq(Closure)
    /\ job \in Closure \cup {Idle}
    /\ mShouldExit \in BOOLEAN
    /\ mExited \in BOOLEAN
    /\ holders \in [Resources -> SUBSET Holder]
    /\ created \in [Resources -> Nat]
    /\ deleted \in [Resources -> Nat]

\* stop() is an ordinary job: when the worker has left its loop, every load
\* posted before has been run, and no closure with a reference is left behind.
DrainedBeforeExit ==
    mExited => \A k \in DOMAIN jobs : jobs[k].kind = "stop"

\* Destructors of GL objects and loads dereference Services::threadManager()
\* and fileSystem() unchecked: nobody holds a resource, and no load runs,
\* once those pointers are null.
NothingOutlivesServices ==
    ~(PlatformServices \subseteq services) =>
        /\ \A r \in Resources : holders[r] = {}
        /\ wpc = "exited"

\* A setup on the render thread reaches the resource manager, the factory and
\* the GL context; a glDelete* the context. They exist whenever one runs.
ClosuresRunInContext ==
    pc = "run" => window /\ ApplicationServices \subseteq services

\* Every GL object is alive, waiting to be deleted, or deleted - exactly one of
\* the three - until clear() drops the deletions nobody will make any more.
Waiting(r) ==
    LET waiting(s) == {k \in DOMAIN s : s[k] = Delete(r)}
    IN  Cardinality(waiting(mRenderThreadQueue))
        + (IF pc = "run" THEN Cardinality(waiting(action)) ELSE 0)

GLAccounting ==
    /\ TypeOK
    /\ pc \in {"boot", "initialize", "frame", "flush", "run", "reset", "shutdown",
              "stop", "spin"} =>
          \A r \in GLObjects :
              created[r] = deleted[r] + Waiting(r) + (IF holders[r] = {} THEN 0 ELSE 1)

\* Closing the window ends the program: stop, the wait for the worker, the
\* second stop of the destructor and the join all terminate.
ShutdownTerminates == (pc \in {"shutdown", "stop"}) ~> (pc = "exit")

\* Every load ends: fails on the worker, or is set up by a flush, or is dropped
\* by the clear() of the shutdown. No resource stays half-loaded for ever.
LoadsResolve ==
    \A r \in Resources :
        (holders[r] \cap {"load", "setup"} # {}) ~>
            (holders[r] \cap {"load", "setup"} = {})

=============================================================================
