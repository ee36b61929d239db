--------------------------- MODULE ResourceLoading ---------------------------
(***************************************************************************)
(* ResourceManager: the per-kind maps of weak references, synchronous and  *)
(* asynchronous loading, the sub-resources a setup requests (mesh ->       *)
(* materials -> shaders and textures, sprite sheet -> textures), and the   *)
(* three atomic counters that the worker and the render thread update one  *)
(* by one while a loading scene reads them one by one.                     *)
(*                                                                         *)
(* A name stands for a file of one kind. Its object is alive from its      *)
(* first request on: what keeps it alive is the subject of ThreadManager.  *)
(***************************************************************************)
EXTENDS Naturals, Sequences, FiniteSets

CONSTANTS
    Names,          \* the files that can be requested
    None,           \* no file
    Subs            \* Subs[n]: the files a successful setup of n requests

ASSUME LoadingAssumption ==
    /\ IsFiniteSet(Names)
    /\ None \notin Names
    /\ Subs \in [Names -> SUBSET Names]
    \* a mesh has materials, a material has shaders and textures: no deeper
    /\ \A n \in Names : \A m \in Subs[n] : \A k \in Subs[m] : Subs[k] = {}

VARIABLES
    status,         \* per name: "none", "loading", "ready" or "failed"
    total, complete, pending,   \* ResourceManager::Counters
    jobs,           \* loads posted to the worker
    setups,         \* setups posted to the render thread
    pc,             \* where the render thread is
    begun,          \* the name loadResourceAsync is working on, or None
    current,        \* the name whose setup the flush is running, or None
    left,           \* the sub-resources that setup still has to request
    wpc,            \* where the worker is
    work,           \* the name it loads, or None
    seen,           \* the counters the loading scene has read: complete, total
    mLoadingComplete

counters == <<total, complete, pending>>
main == <<pc, begun, current, left>>
worker == <<wpc, work>>
scene == <<seen, mLoadingComplete>>
vars == <<status, counters, jobs, setups, main, worker, scene>>

Init ==
    /\ status = [n \in Names |-> "none"]
    /\ total = 0 /\ complete = 0 /\ pending = 0
    /\ jobs = <<>>
    /\ setups = <<>>
    /\ pc = "frame"
    /\ begun = None
    /\ current = None
    /\ left = {}
    /\ wpc = "dequeue"
    /\ work = None
    /\ seen = <<0, 0>>
    /\ mLoadingComplete = FALSE

-----------------------------------------------------------------------------
(* loadResourceAsync on the render thread: the object is created, then     *)
(* ++pending, ++total, and the load is posted. It returns to the scene, or *)
(* to the setup that requested a sub-resource.                             *)

Create(n) ==
    /\ status' = [status EXCEPT ![n] = "loading"]
    /\ begun' = n
    /\ pc' = "begin"

\* Mutant: the load is not counted as pending.
BeginUncounted ==
    /\ pc = "begin"
    /\ pc' = "count"
    /\ UNCHANGED <<status, counters, jobs, setups, begun, current, left, worker, scene>>

BeginPending ==
    /\ pc = "begin"
    /\ pending' = pending + 1
    /\ pc' = "count"
    /\ UNCHANGED <<status, total, complete, jobs, setups, begun, current, left,
                   worker, scene>>

\* Mutant: sub-resources do not count in the total.
TotalOfScene ==
    /\ pc = "count"
    /\ total' = IF current = None THEN total + 1 ELSE total
    /\ pc' = "post"
    /\ UNCHANGED <<status, complete, pending, jobs, setups, begun, current, left,
                   worker, scene>>

BeginTotal ==
    /\ pc = "count"
    /\ total' = total + 1
    /\ pc' = "post"
    /\ UNCHANGED <<status, complete, pending, jobs, setups, begun, current, left,
                   worker, scene>>

PostLoad ==
    /\ pc = "post"
    /\ jobs' = Append(jobs, begun)
    /\ begun' = None
    /\ pc' = IF current = None THEN "frame" ELSE "setup"
    /\ UNCHANGED <<status, counters, setups, current, left, worker, scene>>

-----------------------------------------------------------------------------
(* The next scene is constructed: it requests resources, and the loading   *)
(* scene starts over (beginLoading).                                       *)

\* Mutant: a known object is loaded again.
RequestAgain(n) ==
    /\ pc = "frame"
    /\ status[n] \in {"none", "loading"}
    /\ Create(n)
    /\ mLoadingComplete' = FALSE
    /\ UNCHANGED <<counters, jobs, setups, current, left, worker, seen>>

\* getResource(name, async = true): a known object is shared, loaded or not.
RequestAsync(n) ==
    /\ pc = "frame"
    /\ status[n] = "none"
    /\ Create(n)
    /\ mLoadingComplete' = FALSE
    /\ UNCHANGED <<counters, jobs, setups, current, left, worker, seen>>

\* The objects a synchronous request creates if the files in bad do not load:
\* n, and the unknown sub-resources of what it loads. A mesh has materials and
\* a material has shaders and textures: two levels below n.
Below(S, bad) == S \cup UNION {Subs[m] : m \in {s \in S \ bad : status[s] = "none"}}
Synchronous(n, bad) == {m \in Below(Below({n}, bad), bad) : status[m] = "none"}

\* loadResourceSync: no counter, no queue, and no wait for what is in flight.
RequestSync(n) ==
    /\ pc = "frame"
    /\ status[n] = "none"
    /\ \E bad \in SUBSET Names :
           status' = [m \in Names |->
                        IF m \notin Synchronous(n, bad) THEN status[m]
                        ELSE IF m \in bad THEN "failed" ELSE "ready"]
    /\ mLoadingComplete' = FALSE
    /\ UNCHANGED <<counters, jobs, setups, main, worker, seen>>

-----------------------------------------------------------------------------
(* AbstractLoadingScene::update reads complete, then total (the progress), *)
(* then pending.                                                           *)

ReadComplete ==
    /\ pc = "frame"
    /\ seen' = <<complete, seen[2]>>
    /\ pc' = "readTotal"
    /\ UNCHANGED <<status, counters, jobs, setups, begun, current, left, worker,
                   mLoadingComplete>>

ReadTotal ==
    /\ pc = "readTotal"
    /\ seen' = <<seen[1], total>>
    /\ pc' = "readPending"
    /\ UNCHANGED <<status, counters, jobs, setups, begun, current, left, worker,
                   mLoadingComplete>>

ReadPending ==
    /\ pc = "readPending"
    /\ mLoadingComplete' = (mLoadingComplete \/ pending = 0)
    /\ seen' = <<0, 0>>
    /\ pc' = "flush"
    /\ UNCHANGED <<status, counters, jobs, setups, begun, current, left, worker>>

-----------------------------------------------------------------------------
(* The flush runs the posted setups. *)

FlushTake ==
    /\ pc = "flush"
    /\ setups # <<>>
    /\ current' = Head(setups)
    /\ left' = Subs[Head(setups)]
    /\ setups' = Tail(setups)
    /\ pc' = "setup"
    /\ UNCHANGED <<status, counters, jobs, begun, worker, scene>>

FlushEnd ==
    /\ pc = "flush"
    /\ setups = <<>>
    /\ pc' = "frame"
    /\ UNCHANGED <<status, counters, jobs, setups, begun, current, left, worker, scene>>

\* loadPendingResources(true): the next sub-resource is shared or requested.
SetupSub(n) ==
    /\ pc = "setup"
    /\ n \in left
    /\ left' = left \ {n}
    /\ IF status[n] = "none" THEN Create(n) ELSE UNCHANGED <<status, begun, pc>>
    /\ UNCHANGED <<counters, jobs, setups, current, worker, scene>>

\* The setup returns: the object can be used.
SetupEnd ==
    /\ pc = "setup"
    /\ left = {}
    /\ status' = [status EXCEPT ![current] = "ready"]
    /\ pc' = "complete"
    /\ UNCHANGED <<counters, jobs, setups, begun, current, left, worker, scene>>

\* onEndLoadResource: ++complete, then --pending.
EndComplete ==
    /\ pc = "complete"
    /\ complete' = complete + 1
    /\ pc' = "pending"
    /\ UNCHANGED <<status, total, pending, jobs, setups, begun, current, left,
                   worker, scene>>

EndPending ==
    /\ pc = "pending"
    /\ pending' = pending - 1
    /\ current' = None
    /\ pc' = "flush"
    /\ UNCHANGED <<status, total, complete, jobs, setups, begun, left, worker, scene>>

-----------------------------------------------------------------------------
(* The worker *)

WorkerTake ==
    /\ wpc = "dequeue"
    /\ jobs # <<>>
    /\ work' = Head(jobs)
    /\ jobs' = Tail(jobs)
    /\ wpc' = "load"
    /\ UNCHANGED <<status, counters, setups, main, scene>>

LoadSucceeds ==
    /\ wpc = "load"
    /\ setups' = Append(setups, work)
    /\ work' = None
    /\ wpc' = "dequeue"
    /\ UNCHANGED <<status, counters, jobs, main, scene>>

\* Mutants: a failed load returns without a word, or without onEndLoadResource.
LoadFailsSilently ==
    /\ wpc = "load"
    /\ work' = None
    /\ wpc' = "dequeue"
    /\ UNCHANGED <<status, counters, jobs, setups, main, scene>>

LoadFailsUncounted ==
    /\ wpc = "load"
    /\ status' = [status EXCEPT ![work] = "failed"]
    /\ work' = None
    /\ wpc' = "dequeue"
    /\ UNCHANGED <<counters, jobs, setups, main, scene>>

LoadFails ==
    /\ wpc = "load"
    /\ status' = [status EXCEPT ![work] = "failed"]
    /\ wpc' = "complete"
    /\ UNCHANGED <<counters, jobs, setups, main, work, scene>>

\* Mutant: a failed load is not complete.
FailIncomplete ==
    /\ wpc = "complete"
    /\ wpc' = "pending"
    /\ UNCHANGED <<status, counters, jobs, setups, main, work, scene>>

FailComplete ==
    /\ wpc = "complete"
    /\ complete' = complete + 1
    /\ wpc' = "pending"
    /\ UNCHANGED <<status, total, pending, jobs, setups, main, work, scene>>

FailPending ==
    /\ wpc = "pending"
    /\ pending' = pending - 1
    /\ work' = None
    /\ wpc' = "dequeue"
    /\ UNCHANGED <<status, total, complete, jobs, setups, main, scene>>

-----------------------------------------------------------------------------
MainStep ==
    \/ BeginPending \/ BeginTotal \/ PostLoad
    \/ ReadComplete \/ ReadTotal \/ ReadPending
    \/ FlushTake \/ FlushEnd
    \/ \E n \in Names : SetupSub(n)
    \/ SetupEnd \/ EndComplete \/ EndPending

WorkerStep == WorkerTake \/ LoadSucceeds \/ LoadFails \/ FailComplete \/ FailPending

SceneStep == \E n \in Names : RequestAsync(n) \/ RequestSync(n)

Next == MainStep \/ WorkerStep \/ SceneStep

\* Frames go on and the worker thread runs; nobody has to request anything.
Spec == Init /\ [][Next]_vars /\ WF_vars(MainStep) /\ WF_vars(WorkerStep)

-----------------------------------------------------------------------------
(* Properties *)

\* Every variable keeps its type.
TypeOK ==
    /\ status \in [Names -> {"none", "loading", "ready", "failed"}]
    /\ total \in Nat /\ complete \in Nat /\ pending \in Nat
    /\ jobs \in Seq(Names)
    /\ setups \in Seq(Names)
    /\ pc \in {"frame", "begin", "count", "post", "readTotal", "readPending",
               "flush", "setup", "complete", "pending"}
    /\ begun \in Names \cup {None}
    /\ current \in Names \cup {None}
    /\ left \subseteq Names
    /\ wpc \in {"dequeue", "load", "complete", "pending"}
    /\ work \in Names \cup {None}
    /\ seen \in Nat \X Nat
    /\ mLoadingComplete \in BOOLEAN

Resolved(n) == status[n] \in {"ready", "failed"}

\* What a loading scene is for: when it finds nothing pending, every resource
\* that was requested, and every sub-resource of one that loaded, has ended -
\* however deep the chain of setups that requested it.
AllLoadedWhenComplete ==
    mLoadingComplete =>
        \A n \in Names :
            status[n] # "none" =>
                /\ Resolved(n)
                /\ status[n] = "ready" => \A s \in Subs[n] : Resolved(s)

\* The counters are three separate atomics. Whatever a reader between two of
\* their updates sees: a load that was counted is pending or complete, so that
\* resourcesAreLoading() is never false too early; and the progress, whose
\* numerator is read first, never exceeds one.
CountersConsistent ==
    /\ TypeOK
    /\ pending + complete >= total
    /\ complete <= total
    /\ pc = "readPending" => seen[1] <= seen[2]

\* A full progress bar is the truth: when the numbers the loading scene has
\* just read agree, nothing it requested is still on its way.
FullProgressMeansLoaded ==
    pc = "readPending" /\ seen[1] = seen[2] =>
        \A n \in Names : status[n] # "loading"

\* However often and from wherever a file is requested, at most one load of it
\* is under way, and it has not ended yet.
Loads(n) ==
    Cardinality({k \in DOMAIN jobs : jobs[k] = n})
    + Cardinality({k \in DOMAIN setups : setups[k] = n})
    + Cardinality({x \in {"begun", "current", "work"} :
          \/ x = "begun" /\ begun = n
          \/ x = "current" /\ current = n /\ pc \in {"setup", "begin", "count", "post"}
          \/ x = "work" /\ work = n /\ wpc = "load"})

OneLoadUnderWay ==
    \A n \in Names : Loads(n) = IF status[n] = "loading" THEN 1 ELSE 0

\* Every load that was begun ends, whichever thread it fails on, and the
\* loading scene gets to know.
LoadingCompletes ==
    /\ \A n \in Names : (status[n] = "loading") ~> Resolved(n)
    /\ [](pending # 0 => <>mLoadingComplete)

=============================================================================
