----------------------- MODULE ResourceLoadingProofs ------------------------
(***************************************************************************)
(* The three counters agree with what is under way on the two threads, for *)
(* any files and any sub-resources, so that a loading scene which finds    *)
(* nothing pending, or a full progress bar, is told the truth.             *)
(* A material that is loaded is what its file says, for every file: see    *)
(* the second part.                                                        *)
(***************************************************************************)
EXTENDS ResourceLoading, MaterialParser, FiniteSetTheorems, WellFoundedInduction, TLAPS

Loading == {n \in Names : status[n] = "loading"}

\* The loads that `pending` counts, and those of them that `total` counts and
\* `complete` does not.
Counted ==
    (Loading \ (IF pc = "begin" THEN {begun} ELSE {}))
        \cup (IF pc \in {"complete", "pending"} THEN {current} ELSE {})
        \cup (IF wpc \in {"complete", "pending"} THEN {work} ELSE {})
Open ==
    Counted \ ((IF pc = "count" THEN {begun} ELSE {})
                   \cup (IF pc = "pending" THEN {current} ELSE {})
                   \cup (IF wpc = "pending" THEN {work} ELSE {}))

Elements(s) == {s[k] : k \in DOMAIN s}
Distinct(s) == \A j, k \in DOMAIN s : s[j] = s[k] => j = k

\* Where a load is: with the function that begins it, in a queue, or with one
\* of the threads. It is in one place at a time.
Placed ==
    /\ begun # None <=> pc \in {"begin", "count", "post"}
    /\ pc \in {"setup", "complete", "pending"} => current # None
    /\ pc \in {"frame", "readTotal", "readPending", "flush"} => current = None
    /\ work = None <=> wpc = "dequeue"
    /\ Distinct(jobs) /\ Distinct(setups)
    /\ Elements(jobs) \cap Elements(setups) = {}
    /\ {begun, current, work} \cap (Elements(jobs) \cup Elements(setups)) = {}
    /\ begun # None => begun # current /\ begun # work
    /\ current # None => current # work

\* What its place says of its status.
Statuses ==
    /\ Elements(jobs) \cup Elements(setups) \subseteq Loading
    /\ begun # None => begun \in Loading
    /\ current # None =>
          status[current] = IF pc \in {"complete", "pending"} THEN "ready" ELSE "loading"
    /\ work # None => status[work] = IF wpc = "load" THEN "loading" ELSE "failed"

Counts ==
    /\ pending = Cardinality(Counted)
    /\ total = complete + Cardinality(Open)

\* What the loading scene has read so far still bounds what it will read.
Reads ==
    /\ pc = "readTotal" => seen[1] <= complete
    /\ pc = "readPending" => seen[1] <= seen[2]
    /\ pc = "readPending" /\ seen[1] = seen[2] => Loading = {}

\* The sub-resources of what is ready, and those a setup has been through, have
\* been requested.
Requested ==
    /\ \A n \in Names : status[n] = "ready" => \A s \in Subs[n] : status[s] # "none"
    /\ current # None => \A s \in Subs[current] \ left : status[s] # "none"
    /\ mLoadingComplete => Loading = {}

IInv == TypeOK /\ Placed /\ Statuses /\ Counts /\ Reads /\ Requested

-----------------------------------------------------------------------------
(* Queues and sets *)

LEMMA AppendDistinct ==
    ASSUME NEW S, NEW s \in Seq(S), NEW x \in S, Distinct(s), x \notin Elements(s)
    PROVE  /\ Append(s, x) \in Seq(S)
           /\ Distinct(Append(s, x))
           /\ Elements(Append(s, x)) = Elements(s) \cup {x}
<1> DEFINE t == Append(s, x)
<1>1. /\ t \in Seq(S) /\ Len(t) = Len(s) + 1 /\ Len(s) \in Nat
      /\ DOMAIN s = 1 .. Len(s) /\ DOMAIN t = 1 .. Len(t)
      /\ t[Len(s) + 1] = x
      /\ \A k \in DOMAIN s : t[k] = s[k]
  OBVIOUS
<1> HIDE DEF t
<1>2. DOMAIN t = DOMAIN s \cup {Len(s) + 1} /\ Len(s) + 1 \notin DOMAIN s
  BY <1>1
<1>3. Elements(t) = Elements(s) \cup {x}
  BY <1>1, <1>2 DEF Elements
<1>4. ASSUME NEW j \in DOMAIN t, NEW k \in DOMAIN t, t[j] = t[k] PROVE j = k
  <2>1. CASE j \in DOMAIN s /\ k \in DOMAIN s
    BY <1>1, <1>4, <2>1 DEF Distinct
  <2>2. CASE j = Len(s) + 1 /\ k \in DOMAIN s
    BY <1>1, <1>4, <2>2 DEF Elements
  <2>3. CASE k = Len(s) + 1 /\ j \in DOMAIN s
    BY <1>1, <1>4, <2>3 DEF Elements
  <2> QED
    BY <1>2, <2>1, <2>2, <2>3
<1>5. Distinct(t)
  BY <1>4 DEF Distinct
<1> QED
  BY <1>1, <1>3, <1>5 DEF t

LEMMA TailDistinct ==
    ASSUME NEW S, NEW s \in Seq(S), s # <<>>, Distinct(s)
    PROVE  /\ Head(s) \in S /\ Head(s) \in Elements(s)
           /\ Tail(s) \in Seq(S)
           /\ Distinct(Tail(s))
           /\ Elements(Tail(s)) = Elements(s) \ {Head(s)}
<1> DEFINE t == Tail(s)
           h == Head(s)
<1>1. /\ t \in Seq(S) /\ Len(t) = Len(s) - 1 /\ Len(s) \in Nat \ {0}
      /\ DOMAIN s = 1 .. Len(s) /\ DOMAIN t = 1 .. Len(t)
      /\ h = s[1] /\ h \in S
      /\ \A k \in DOMAIN t : t[k] = s[k + 1]
  OBVIOUS
<1> HIDE DEF t, h
<1>2. \A k \in DOMAIN t : k + 1 \in DOMAIN s /\ k + 1 # 1
  BY <1>1
<1>3. \A k \in DOMAIN s : k # 1 => k - 1 \in DOMAIN t /\ (k - 1) + 1 = k
  BY <1>1
<1>4. 1 \in DOMAIN s
  BY <1>1
<1>5. Distinct(t)
  <2> SUFFICES ASSUME NEW j \in DOMAIN t, NEW k \in DOMAIN t, t[j] = t[k] PROVE j = k
    BY DEF Distinct
  <2>1. s[j + 1] = s[k + 1]
    BY <1>1
  <2>2. j + 1 = k + 1
    BY <1>2, <2>1 DEF Distinct
  <2> QED
    BY <1>1, <2>2
<1>6. Elements(t) \subseteq Elements(s) \ {h}
  BY <1>1, <1>2, <1>4 DEF Elements, Distinct
<1>7. Elements(s) \ {h} \subseteq Elements(t)
  <2> SUFFICES ASSUME NEW k \in DOMAIN s, s[k] # h PROVE s[k] \in Elements(t)
    BY DEF Elements
  <2>1. k # 1
    BY <1>1
  <2>2. k - 1 \in DOMAIN t /\ t[k - 1] = s[k]
    BY <1>1, <1>3, <2>1
  <2> QED
    BY <2>2 DEF Elements
<1> QED
  BY <1>1, <1>4, <1>5, <1>6, <1>7 DEF t, h, Elements

LEMMA OneMore ==
    ASSUME NEW S, IsFiniteSet(S), NEW x, x \notin S
    PROVE  Cardinality(S \cup {x}) = Cardinality(S) + 1
BY FS_AddElement

LEMMA OneLess ==
    ASSUME NEW S, IsFiniteSet(S), NEW x, x \in S
    PROVE  /\ Cardinality(S) \in Nat /\ Cardinality(S) > 0
           /\ Cardinality(S \ {x}) = Cardinality(S) - 1
           /\ Cardinality(S \ {x}) \in Nat
<1>1. Cardinality(S \ {x}) = Cardinality(S) - 1
  BY FS_RemoveElement
<1>2. IsFiniteSet(S \ {x})
  BY FS_RemoveElement
<1>3. Cardinality(S) \in Nat /\ Cardinality(S \ {x}) \in Nat
  BY <1>2, FS_CardinalityType
<1> QED
  BY <1>1, <1>3

\* What is counted are names, finitely many.
LEMMA CountedFinite ==
    ASSUME IInv
    PROVE  /\ Counted \subseteq Names /\ Open \subseteq Counted
           /\ IsFiniteSet(Counted) /\ IsFiniteSet(Open)
           /\ Cardinality(Counted) \in Nat /\ Cardinality(Open) \in Nat
           /\ Cardinality(Open) <= Cardinality(Counted)
<1>1. Counted \subseteq Names /\ Open \subseteq Counted
  <2>1. pc \in {"complete", "pending"} => current \in Names
    BY DEF IInv, TypeOK, Placed
  <2>2. wpc \in {"complete", "pending"} => work \in Names
    BY DEF IInv, TypeOK, Placed
  <2> QED
    BY <2>1, <2>2 DEF Counted, Open, Loading
<1>2. IsFiniteSet(Counted) /\ IsFiniteSet(Open)
  BY <1>1, LoadingAssumption, FS_Subset
<1> QED
  BY <1>1, <1>2, FS_CardinalityType, FS_Subset

-----------------------------------------------------------------------------
(* The render thread requests a load *)

LEMMA InitInvariant == Init => IInv
<1> SUFFICES ASSUME Init PROVE IInv
  OBVIOUS
<1>1. TypeOK
  <2>1. status \in [Names -> {"none", "loading", "ready", "failed"}]
    BY DEF Init
  <2>2. seen \in Nat \X Nat /\ jobs \in Seq(Names) /\ setups \in Seq(Names)
    BY DEF Init
  <2> QED
    BY <2>1, <2>2 DEF Init, TypeOK
<1>2. Loading = {} /\ Counted = {} /\ Open = {}
  BY DEF Init, Loading, Counted, Open
<1>3. Counts
  BY <1>2, FS_EmptySet DEF Init, Counts
<1>4. Elements(jobs) = {} /\ Elements(setups) = {} /\ Distinct(jobs) /\ Distinct(setups)
  BY DEF Init, Elements, Distinct
<1>5. Placed /\ Statuses
  BY <1>4 DEF Init, Placed, Statuses
<1>6. Reads /\ Requested
  BY <1>2 DEF Init, Reads, Requested
<1> QED
  BY <1>1, <1>3, <1>5, <1>6 DEF IInv

\* A new object, requested by the scene or by a setup, is in no other place.
LEMMA CreateInvariant ==
    ASSUME IInv, NEW n \in Names, status[n] = "none", Create(n),
           pc = "frame" \/ (pc = "setup" /\ current # None),
           UNCHANGED <<counters, jobs, setups, current, worker, seen>>,
           left' \subseteq left,
           \A s \in left \ left' : s = n,
           mLoadingComplete' \in BOOLEAN,
           mLoadingComplete' => pc = "setup" /\ mLoadingComplete
    PROVE  IInv'
<1>1. /\ status' = [status EXCEPT ![n] = "loading"] /\ begun' = n /\ pc' = "begin"
      /\ total' = total /\ complete' = complete /\ pending' = pending
      /\ jobs' = jobs /\ setups' = setups /\ current' = current
      /\ wpc' = wpc /\ work' = work /\ seen' = seen
  BY DEF Create, counters, worker
<1>2. TypeOK'
  BY <1>1 DEF IInv, TypeOK
<1>3. /\ status'[n] = "loading"
      /\ \A m \in Names : m # n => status'[m] = status[m]
      /\ Loading' = Loading \cup {n} /\ n \notin Loading
  BY <1>1 DEF IInv, TypeOK, Loading
<1>4. /\ n \notin Elements(jobs) \cup Elements(setups)
      /\ n # None /\ n # current /\ n # work
  BY LoadingAssumption, <1>3 DEF IInv, TypeOK, Placed, Statuses
<1>5. Counted' = Counted /\ Open' = Open
  <2>1. Counted = Loading \cup (IF wpc \in {"complete", "pending"} THEN {work} ELSE {})
    BY DEF Counted
  <2>2. Counted' = Loading \cup (IF wpc \in {"complete", "pending"} THEN {work} ELSE {})
    BY <1>1, <1>3, <1>4 DEF Counted
  <2>3. Open = Counted \ (IF wpc = "pending" THEN {work} ELSE {})
    BY DEF Open
  <2>4. Open' = Counted' \ (IF wpc = "pending" THEN {work} ELSE {})
    BY <1>1 DEF Open
  <2> QED
    BY <2>1, <2>2, <2>3, <2>4
<1>6. Counts'
  BY <1>1, <1>5 DEF IInv, Counts
<1>7. Placed'
  BY <1>1, <1>4 DEF IInv, Placed, Elements, Distinct
<1>8. Statuses'
  <2>1. Elements(jobs') = Elements(jobs) /\ Elements(setups') = Elements(setups)
    BY <1>1
  <2>2. current # None => current \in Names /\ status'[current] = status[current]
    BY <1>3, <1>4 DEF IInv, TypeOK
  <2>3. work # None => work \in Names /\ status'[work] = status[work]
    BY <1>3, <1>4 DEF IInv, TypeOK
  <2> QED
    BY <1>1, <1>3, <2>1, <2>2, <2>3 DEF IInv, Statuses
<1>9. Reads'
  BY <1>1 DEF Reads
<1>10. Requested'
  <2>1. \A m \in Names : status'[m] = "ready" => status[m] = "ready"
    BY <1>3
  <2>2. \A m \in Names : status[m] # "none" => status'[m] # "none"
    BY <1>3
  <2>3. \A m \in Names : Subs[m] \subseteq Names
    BY LoadingAssumption
  <2>4. \A m \in Names : status'[m] = "ready" => \A s \in Subs[m] : status'[s] # "none"
    BY <2>1, <2>2, <2>3 DEF IInv, Requested
  <2>5. current' # None => \A s \in Subs[current'] \ left' : status'[s] # "none"
    BY <1>1, <1>3, <2>2, <2>3 DEF IInv, Requested, TypeOK
  <2>6. ~mLoadingComplete'
    BY DEF IInv, Requested, Statuses, Loading, TypeOK
  <2> QED
    BY <2>4, <2>5, <2>6 DEF Requested
<1> QED
  BY <1>2, <1>6, <1>7, <1>8, <1>9, <1>10 DEF IInv

LEMMA RequestAsyncInvariant ==
    ASSUME IInv, NEW n \in Names, RequestAsync(n)
    PROVE  IInv'
<1>1. /\ pc = "frame" /\ status[n] = "none" /\ Create(n)
      /\ left' = left /\ mLoadingComplete' = FALSE
      /\ UNCHANGED <<counters, jobs, setups, current, worker, seen>>
  BY DEF RequestAsync
<1> QED
  BY <1>1, CreateInvariant

LEMMA SetupSubInvariant ==
    ASSUME IInv, NEW n \in Names, SetupSub(n)
    PROVE  IInv'
<1>1. /\ pc = "setup" /\ n \in left /\ left' = left \ {n} /\ current # None
      /\ UNCHANGED <<counters, jobs, setups, current, worker, seen, mLoadingComplete>>
  BY DEF SetupSub, scene, IInv, Placed
<1>2. CASE status[n] = "none"
  <2>1. Create(n) /\ mLoadingComplete' = mLoadingComplete /\ mLoadingComplete \in BOOLEAN
    BY <1>1, <1>2 DEF SetupSub, IInv, TypeOK
  <2> QED
    BY <1>1, <1>2, <2>1, CreateInvariant
<1>3. CASE status[n] # "none"
  <2>1. /\ status' = status /\ begun' = begun /\ pc' = pc
        /\ total' = total /\ complete' = complete /\ pending' = pending
        /\ jobs' = jobs /\ setups' = setups /\ current' = current
        /\ wpc' = wpc /\ work' = work /\ seen' = seen
        /\ mLoadingComplete' = mLoadingComplete
    BY <1>1, <1>3 DEF SetupSub, counters, worker, scene
  <2>2. TypeOK'
    BY <1>1, <2>1 DEF IInv, TypeOK
  <2>3. Counted' = Counted /\ Open' = Open /\ Loading' = Loading
    BY <2>1 DEF Counted, Open, Loading
  <2>4. Counts' /\ Placed' /\ Statuses' /\ Reads'
    BY <2>1, <2>3 DEF IInv, Counts, Placed, Statuses, Reads, Elements, Distinct
  <2>5. Requested'
    BY <1>1, <1>3, <2>1, <2>3 DEF IInv, Requested
  <2> QED
    BY <2>2, <2>4, <2>5 DEF IInv
<1> QED
  BY <1>2, <1>3

\* A synchronous load leaves what is under way alone, and what it finishes has
\* its sub-resources, since these go two levels deep at most.
LEMMA RequestSyncInvariant ==
    ASSUME IInv, NEW n \in Names, RequestSync(n)
    PROVE  IInv'
<1>1. /\ pc = "frame" /\ status[n] = "none"
      /\ total' = total /\ complete' = complete /\ pending' = pending
      /\ jobs' = jobs /\ setups' = setups
      /\ pc' = pc /\ begun' = begun /\ current' = current /\ left' = left
      /\ wpc' = wpc /\ work' = work /\ seen' = seen /\ mLoadingComplete' = FALSE
  BY DEF RequestSync, counters, main, worker
<1>2. PICK bad \in SUBSET Names :
        status' = [m \in Names |->
                     IF m \notin Synchronous(n, bad) THEN status[m]
                     ELSE IF m \in bad THEN "failed" ELSE "ready"]
  BY DEF RequestSync
<1> DEFINE done == Synchronous(n, bad)
<1>3. \A m \in done : status[m] = "none"
  BY DEF Synchronous
<1>4. /\ \A m \in Names : m \notin done => status'[m] = status[m]
      /\ \A m \in Names : m \in done => status'[m] = IF m \in bad THEN "failed" ELSE "ready"
  BY <1>2
<1>5. ASSUME NEW m \in done \ bad, NEW s \in Subs[m], status[s] = "none"
      PROVE  s \in done
  <2> DEFINE one == Below({n}, bad)
             two == Below(one, bad)
  <2>1. one = {n} \cup (IF n \in bad THEN {} ELSE Subs[n])
    BY <1>1 DEF Below
  <2>2. \A k \in one \ bad : status[k] = "none" => Subs[k] \subseteq two
    BY DEF Below
  <2>3. two = one \cup UNION {Subs[k] : k \in {j \in one \ bad : status[j] = "none"}}
    BY DEF Below
  <2>4. m \in two /\ status[m] = "none" /\ m \notin bad
    BY DEF Synchronous
  <2>5. CASE m \in one
    BY <1>5, <2>2, <2>4, <2>5 DEF Synchronous
  <2>6. CASE m \notin one
    <3>1. PICK k \in one \ bad : m \in Subs[k]
      BY <2>3, <2>4, <2>6
    <3>2. k \in Subs[n]
      BY <2>1, <2>6, <3>1
    <3>3. Subs[m] = {}
      BY <3>1, <3>2, LoadingAssumption
    <3> QED
      BY <3>3
  <2> QED
    BY <2>5, <2>6
<1> HIDE DEF done
<1>6. TypeOK'
  <2>1. status' \in [Names -> {"none", "loading", "ready", "failed"}]
    BY <1>2 DEF IInv, TypeOK
  <2> QED
    BY <1>1, <2>1 DEF IInv, TypeOK
<1>7. Loading' = Loading
  BY <1>3, <1>4 DEF Loading
<1>8. Counted' = Counted /\ Open' = Open
  BY <1>1, <1>7 DEF Counted, Open
<1>9. Counts' /\ Placed' /\ Reads'
  BY <1>1, <1>8 DEF IInv, Counts, Placed, Reads, Elements, Distinct
<1>10. Statuses'
  <2>1. current = None /\ current' = None
    BY <1>1 DEF IInv, Placed
  <2>2. work # None => work \in Names /\ work \notin done
    BY <1>3 DEF IInv, TypeOK, Statuses
  <2>3. Elements(jobs') = Elements(jobs) /\ Elements(setups') = Elements(setups)
    BY <1>1
  <2> QED
    BY <1>1, <1>4, <1>7, <2>1, <2>2, <2>3 DEF IInv, Statuses
<1>11. Requested'
  <2>1. \A m \in Names : Subs[m] \subseteq Names
    BY LoadingAssumption
  <2>2. \A m \in Names : status[m] # "none" => status'[m] # "none"
    BY <1>3, <1>4
  <2>3. \A m \in Names : m \in done => status'[m] # "none"
    BY <1>4
  <2>4. ASSUME NEW m \in Names, status'[m] = "ready", NEW s \in Subs[m]
        PROVE  status'[s] # "none"
    <3>1. CASE m \in done
      <4>1. m \notin bad
        BY <1>4, <2>4, <3>1
      <4> QED
        BY <1>5, <2>1, <2>2, <2>3, <3>1, <4>1
    <3>2. CASE m \notin done
      BY <1>4, <2>1, <2>2, <2>4, <3>2 DEF IInv, Requested
    <3> QED
      BY <3>1, <3>2
  <2>5. current' = None /\ ~mLoadingComplete'
    BY <1>1 DEF IInv, Placed
  <2> QED
    BY <2>4, <2>5 DEF Requested
<1> QED
  BY <1>6, <1>9, <1>10, <1>11 DEF IInv

-----------------------------------------------------------------------------
(* loadResourceAsync, after the object has been created *)

LEMMA BeginPendingInvariant ==
    ASSUME IInv, BeginPending
    PROVE  IInv'
<1>1. /\ pc = "begin" /\ pc' = "count" /\ pending' = pending + 1
      /\ status' = status /\ total' = total /\ complete' = complete
      /\ jobs' = jobs /\ setups' = setups /\ begun' = begun /\ current' = current
      /\ left' = left /\ wpc' = wpc /\ work' = work /\ seen' = seen
      /\ mLoadingComplete' = mLoadingComplete
  BY DEF BeginPending, worker, scene
<1>2. begun \in Loading /\ begun # work
  BY <1>1 DEF IInv, Placed, Statuses
<1>3. Loading' = Loading
  BY <1>1 DEF Loading
<1>4. Counted' = Counted \cup {begun} /\ begun \notin Counted /\ Open' = Open
  BY <1>1, <1>2, <1>3 DEF Counted, Open
<1>5. Counts'
  BY <1>1, <1>4, CountedFinite, OneMore DEF IInv, Counts
<1>6. TypeOK'
  BY <1>1 DEF IInv, TypeOK
<1>7. Placed' /\ Statuses' /\ Reads' /\ Requested'
  BY <1>1, <1>3 DEF IInv, Placed, Statuses, Reads, Requested, Elements, Distinct
<1> QED
  BY <1>5, <1>6, <1>7 DEF IInv

LEMMA BeginTotalInvariant ==
    ASSUME IInv, BeginTotal
    PROVE  IInv'
<1>1. /\ pc = "count" /\ pc' = "post" /\ total' = total + 1
      /\ status' = status /\ pending' = pending /\ complete' = complete
      /\ jobs' = jobs /\ setups' = setups /\ begun' = begun /\ current' = current
      /\ left' = left /\ wpc' = wpc /\ work' = work /\ seen' = seen
      /\ mLoadingComplete' = mLoadingComplete
  BY DEF BeginTotal, worker, scene
<1>2. begun \in Loading /\ begun # work
  BY <1>1 DEF IInv, Placed, Statuses
<1>3. Loading' = Loading
  BY <1>1 DEF Loading
<1>4. Counted' = Counted /\ Open' = Open \cup {begun} /\ begun \notin Open
  BY <1>1, <1>2, <1>3 DEF Counted, Open
<1>5. complete \in Nat /\ total \in Nat
  BY DEF IInv, TypeOK
<1>6. Counts'
  BY <1>1, <1>4, <1>5, CountedFinite, OneMore DEF IInv, Counts
<1>7. TypeOK'
  BY <1>1 DEF IInv, TypeOK
<1>8. Placed' /\ Statuses' /\ Reads' /\ Requested'
  BY <1>1, <1>3 DEF IInv, Placed, Statuses, Reads, Requested, Elements, Distinct
<1> QED
  BY <1>6, <1>7, <1>8 DEF IInv

LEMMA PostLoadInvariant ==
    ASSUME IInv, PostLoad
    PROVE  IInv'
<1>1. /\ pc = "post" /\ pc' = (IF current = None THEN "frame" ELSE "setup")
      /\ jobs' = Append(jobs, begun) /\ begun' = None
      /\ status' = status /\ pending' = pending /\ complete' = complete
      /\ total' = total /\ setups' = setups /\ current' = current
      /\ left' = left /\ wpc' = wpc /\ work' = work /\ seen' = seen
      /\ mLoadingComplete' = mLoadingComplete
  BY DEF PostLoad, counters, worker, scene
<1>2. /\ begun \in Loading /\ begun \in Names /\ begun # work /\ begun # current
      /\ begun \notin Elements(jobs) /\ begun \notin Elements(setups)
  BY <1>1 DEF IInv, Placed, Statuses, Loading
<1>3. jobs \in Seq(Names) /\ Distinct(jobs)
  BY DEF IInv, TypeOK, Placed
<1>4. /\ jobs' \in Seq(Names) /\ Distinct(jobs')
      /\ Elements(jobs') = Elements(jobs) \cup {begun}
  BY <1>1, <1>2, <1>3, AppendDistinct
<1>5. Loading' = Loading
  BY <1>1 DEF Loading
<1>6. Counted' = Counted /\ Open' = Open
  BY <1>1, <1>5 DEF Counted, Open
<1>7. Counts'
  BY <1>1, <1>6 DEF IInv, Counts
<1>8. TypeOK'
  BY <1>1, <1>4 DEF IInv, TypeOK
<1>9. Placed'
  <2>1. /\ None \notin Elements(jobs') /\ None \notin Elements(setups)
    BY <1>2, <1>4, LoadingAssumption DEF IInv, Statuses, Loading
  <2>2. Elements(setups') = Elements(setups) /\ Distinct(setups')
    BY <1>1 DEF IInv, Placed
  <2> QED
    BY <1>1, <1>2, <1>4, <2>1, <2>2 DEF IInv, Placed
<1>10. Statuses'
  <2>1. Elements(setups') = Elements(setups)
    BY <1>1
  <2> QED
    BY <1>1, <1>2, <1>4, <1>5, <2>1 DEF IInv, Statuses
<1>11. Reads' /\ Requested'
  BY <1>1, <1>5 DEF IInv, Reads, Requested
<1> QED
  BY <1>7, <1>8, <1>9, <1>10, <1>11 DEF IInv

-----------------------------------------------------------------------------
(* The loading scene reads the counters *)

\* Nothing is under way between two places when nothing is begun or ended.
LEMMA ReadFrame ==
    ASSUME IInv,
           UNCHANGED <<status, counters, jobs, setups, begun, current, left, worker>>,
           pc \in {"frame", "readTotal", "readPending", "flush"},
           pc' \in {"frame", "readTotal", "readPending", "flush"}
    PROVE  /\ Counts' /\ Placed' /\ Statuses'
           /\ Loading' = Loading /\ Counted' = Counted /\ Open' = Open
           /\ current = None /\ current' = None /\ Loading \subseteq Counted
<1>1. /\ status' = status /\ total' = total /\ complete' = complete
      /\ pending' = pending /\ jobs' = jobs /\ setups' = setups
      /\ begun' = begun /\ current' = current /\ left' = left
      /\ wpc' = wpc /\ work' = work
  BY DEF counters, worker
<1>2. Loading' = Loading
  BY <1>1 DEF Loading
<1>3. Counted' = Counted /\ Open' = Open /\ Loading \subseteq Counted
  BY <1>1, <1>2 DEF Counted, Open
<1>4. Counts'
  BY <1>1, <1>3 DEF IInv, Counts
<1>5. current = None /\ current' = None
  BY <1>1 DEF IInv, Placed
<1>6. Placed' /\ Statuses'
  BY <1>1, <1>2, <1>5 DEF IInv, Placed, Statuses, Elements, Distinct
<1> QED
  BY <1>2, <1>3, <1>4, <1>5, <1>6

LEMMA ReadCompleteInvariant ==
    ASSUME IInv, ReadComplete
    PROVE  IInv'
<1>1. /\ pc = "frame" /\ pc' = "readTotal" /\ seen' = <<complete, seen[2]>>
      /\ status' = status /\ complete' = complete /\ left' = left
      /\ mLoadingComplete' = mLoadingComplete
  BY DEF ReadComplete, counters
<1>2. /\ Counts' /\ Placed' /\ Statuses' /\ Loading' = Loading /\ current' = None
  BY ReadFrame DEF ReadComplete
<1>3. TypeOK'
  BY <1>1 DEF ReadComplete, IInv, TypeOK, counters, worker
<1>4. complete \in Nat /\ seen'[1] = complete
  BY <1>1 DEF IInv, TypeOK
<1>5. Reads' /\ Requested'
  BY <1>1, <1>2, <1>4 DEF IInv, Reads, Requested
<1> QED
  BY <1>2, <1>3, <1>5 DEF IInv

\* What was complete is at most the total, and less while anything is loading.
LEMMA ReadTotalInvariant ==
    ASSUME IInv, ReadTotal
    PROVE  IInv'
<1>1. /\ pc = "readTotal" /\ pc' = "readPending" /\ seen' = <<seen[1], total>>
      /\ status' = status /\ left' = left
      /\ mLoadingComplete' = mLoadingComplete
  BY DEF ReadTotal, counters
<1>2. /\ Counts' /\ Placed' /\ Statuses' /\ Loading' = Loading /\ current' = None
  BY ReadFrame DEF ReadTotal
<1>3. TypeOK'
  BY <1>1 DEF ReadTotal, IInv, TypeOK, counters, worker
<1>4. /\ seen'[1] = seen[1] /\ seen'[2] = total /\ seen[1] \in Nat
      /\ complete \in Nat /\ total \in Nat
  BY <1>1 DEF IInv, TypeOK
<1>5. seen[1] <= complete /\ total = complete + Cardinality(Open)
  BY <1>1 DEF IInv, Reads, Counts
<1>6. Cardinality(Open) \in Nat
  BY CountedFinite
<1>7. seen'[1] <= seen'[2]
  BY <1>4, <1>5, <1>6
<1>8. ASSUME seen'[1] = seen'[2] PROVE Loading' = {}
  <2>1. Cardinality(Open) = 0
    BY <1>4, <1>5, <1>6, <1>8
  <2>2. Open = {}
    BY <2>1, CountedFinite, FS_EmptySet
  <2>3. work # None /\ wpc = "pending" => work \notin Loading
    BY DEF IInv, Statuses, Loading
  <2>4. Loading \subseteq Open
    BY <1>1, <2>3 DEF Counted, Open, IInv, Placed
  <2> QED
    BY <1>2, <2>2, <2>4
<1>9. Reads' /\ Requested'
  BY <1>1, <1>2, <1>7, <1>8 DEF IInv, Reads, Requested
<1> QED
  BY <1>2, <1>3, <1>9 DEF IInv

LEMMA ReadPendingInvariant ==
    ASSUME IInv, ReadPending
    PROVE  IInv'
<1>1. /\ pc = "readPending" /\ pc' = "flush" /\ seen' = <<0, 0>>
      /\ status' = status /\ left' = left
      /\ mLoadingComplete' = (mLoadingComplete \/ pending = 0)
  BY DEF ReadPending, counters
<1>2. /\ Counts' /\ Placed' /\ Statuses' /\ Loading' = Loading /\ current' = None
      /\ Loading \subseteq Counted
  BY ReadFrame DEF ReadPending
<1>3. TypeOK'
  BY <1>1 DEF ReadPending, IInv, TypeOK, counters, worker
<1>4. ASSUME pending = 0 PROVE Loading = {}
  BY <1>2, <1>4, CountedFinite, FS_EmptySet DEF IInv, Counts
<1>5. Reads' /\ Requested'
  BY <1>1, <1>2, <1>4 DEF IInv, Reads, Requested
<1> QED
  BY <1>2, <1>3, <1>5 DEF IInv

-----------------------------------------------------------------------------
(* The flush *)

LEMMA FlushEndInvariant ==
    ASSUME IInv, FlushEnd
    PROVE  IInv'
<1>1. /\ pc = "flush" /\ pc' = "frame" /\ seen' = seen
      /\ status' = status /\ left' = left /\ mLoadingComplete' = mLoadingComplete
  BY DEF FlushEnd, counters, scene
<1>2. /\ Counts' /\ Placed' /\ Statuses' /\ Loading' = Loading /\ current' = None
  BY ReadFrame DEF FlushEnd, scene
<1>3. TypeOK'
  BY <1>1 DEF FlushEnd, IInv, TypeOK, counters, worker, scene
<1>4. Reads' /\ Requested'
  BY <1>1, <1>2 DEF IInv, Reads, Requested
<1> QED
  BY <1>2, <1>3, <1>4 DEF IInv

LEMMA FlushTakeInvariant ==
    ASSUME IInv, FlushTake
    PROVE  IInv'
<1>1. /\ pc = "flush" /\ pc' = "setup" /\ setups # <<>>
      /\ current' = Head(setups) /\ left' = Subs[Head(setups)] /\ setups' = Tail(setups)
      /\ status' = status /\ total' = total /\ complete' = complete
      /\ pending' = pending /\ jobs' = jobs /\ begun' = begun
      /\ wpc' = wpc /\ work' = work /\ seen' = seen /\ mLoadingComplete' = mLoadingComplete
  BY DEF FlushTake, counters, worker, scene
<1>2. setups \in Seq(Names) /\ Distinct(setups)
  BY DEF IInv, TypeOK, Placed
<1>3. /\ current' \in Names /\ current' \in Elements(setups)
      /\ setups' \in Seq(Names) /\ Distinct(setups')
      /\ Elements(setups') = Elements(setups) \ {current'}
  BY <1>1, <1>2, TailDistinct
<1>4. current' # None /\ left' \subseteq Names /\ left' = Subs[current']
  BY <1>1, <1>3, LoadingAssumption
<1>5. Loading' = Loading
  BY <1>1 DEF Loading
<1>6. Counted' = Counted /\ Open' = Open
  BY <1>1, <1>5 DEF Counted, Open
<1>7. Counts'
  BY <1>1, <1>6 DEF IInv, Counts
<1>8. TypeOK'
  BY <1>1, <1>3, <1>4 DEF IInv, TypeOK
<1>9. begun = None /\ current' # work /\ current' \notin Elements(jobs)
  BY <1>1, <1>3 DEF IInv, Placed
<1>10. Elements(jobs') = Elements(jobs) /\ Distinct(jobs')
  BY <1>1 DEF IInv, Placed
<1>11. Placed'
  BY <1>1, <1>3, <1>4, <1>9, <1>10 DEF IInv, Placed
<1>12. Statuses'
  BY <1>1, <1>3, <1>5, <1>9, <1>10 DEF IInv, Statuses, Loading
<1>13. Reads' /\ Requested'
  BY <1>1, <1>4, <1>5 DEF IInv, Reads, Requested
<1> QED
  BY <1>7, <1>8, <1>11, <1>12, <1>13 DEF IInv

\* The object changes from loading to ready, and its load from one that is
\* loading to one that is about to be complete: the counters do not notice.
LEMMA SetupEndInvariant ==
    ASSUME IInv, SetupEnd
    PROVE  IInv'
<1>1. /\ pc = "setup" /\ pc' = "complete" /\ left = {}
      /\ status' = [status EXCEPT ![current] = "ready"]
      /\ total' = total /\ complete' = complete /\ pending' = pending
      /\ jobs' = jobs /\ setups' = setups /\ begun' = begun /\ current' = current
      /\ left' = left /\ wpc' = wpc /\ work' = work /\ seen' = seen
      /\ mLoadingComplete' = mLoadingComplete
  BY DEF SetupEnd, counters, worker, scene
<1>2. /\ current # None /\ current \in Names /\ current \in Loading
      /\ begun = None /\ current # work
      /\ current \notin Elements(jobs) \cup Elements(setups)
  BY <1>1 DEF IInv, TypeOK, Placed, Statuses, Loading
<1>3. /\ status' \in [Names -> {"none", "loading", "ready", "failed"}]
      /\ status'[current] = "ready"
      /\ \A m \in Names : m # current => status'[m] = status[m]
  BY <1>1, <1>2 DEF IInv, TypeOK
<1>4. Loading' = Loading \ {current}
  BY <1>2, <1>3 DEF Loading
<1>5. Counted' = Counted
  BY <1>1, <1>2, <1>4 DEF Counted
<1>6. Open' = Open
  BY <1>1, <1>5 DEF Open
<1>7. Counts'
  BY <1>1, <1>5, <1>6 DEF IInv, Counts
<1>8. TypeOK'
  BY <1>1, <1>3 DEF IInv, TypeOK
<1>9. Placed'
  BY <1>1 DEF IInv, Placed, Elements, Distinct
<1>10. Statuses'
  <2>1. Elements(jobs') = Elements(jobs) /\ Elements(setups') = Elements(setups)
    BY <1>1
  <2>2. work # None => work \in Names /\ status'[work] = status[work]
    BY <1>2, <1>3 DEF IInv, TypeOK
  <2> QED
    BY <1>1, <1>2, <1>3, <1>4, <2>1, <2>2 DEF IInv, Statuses
<1>11. Reads'
  BY <1>1 DEF Reads
<1>12. Requested'
  <2>1. \A m \in Names : Subs[m] \subseteq Names
    BY LoadingAssumption
  <2>2. \A m \in Names : status[m] # "none" => status'[m] # "none"
    BY <1>3
  <2>3. \A s \in Subs[current] : status'[s] # "none"
    BY <1>1, <1>2, <2>1, <2>2 DEF IInv, Requested
  <2>4. ASSUME NEW m \in Names, status'[m] = "ready", NEW s \in Subs[m]
        PROVE  status'[s] # "none"
    <3>1. CASE m = current
      BY <2>3, <3>1
    <3>2. CASE m # current
      BY <1>3, <2>1, <2>2, <2>4, <3>2 DEF IInv, Requested
    <3> QED
      BY <3>1, <3>2
  <2>5. ~mLoadingComplete'
    BY <1>1, <1>2 DEF IInv, Requested
  <2> QED
    BY <1>1, <2>3, <2>4, <2>5 DEF Requested
<1> QED
  BY <1>7, <1>8, <1>9, <1>10, <1>11, <1>12 DEF IInv

LEMMA EndCompleteInvariant ==
    ASSUME IInv, EndComplete
    PROVE  IInv'
<1>1. /\ pc = "complete" /\ pc' = "pending" /\ complete' = complete + 1
      /\ status' = status /\ total' = total /\ pending' = pending
      /\ jobs' = jobs /\ setups' = setups /\ begun' = begun /\ current' = current
      /\ left' = left /\ wpc' = wpc /\ work' = work /\ seen' = seen
      /\ mLoadingComplete' = mLoadingComplete
  BY DEF EndComplete, worker, scene
<1>2. current # None /\ current # work
  BY <1>1 DEF IInv, Placed
<1>3. Loading' = Loading
  BY <1>1 DEF Loading
<1>4. Counted' = Counted /\ current \in Open /\ Open' = Open \ {current}
  BY <1>1, <1>2, <1>3 DEF Counted, Open
<1>5. complete \in Nat /\ total \in Nat
  BY DEF IInv, TypeOK
<1>6. Counts'
  <2>1. /\ Cardinality(Open') = Cardinality(Open) - 1
        /\ Cardinality(Open) \in Nat
    BY <1>4, CountedFinite, OneLess
  <2>2. total = complete + Cardinality(Open) /\ pending = Cardinality(Counted)
    BY DEF IInv, Counts
  <2>3. total = (complete + 1) + Cardinality(Open')
    BY <1>5, <2>1, <2>2
  <2> QED
    BY <1>1, <1>4, <2>2, <2>3 DEF Counts
<1>7. TypeOK'
  BY <1>1 DEF IInv, TypeOK
<1>8. Placed' /\ Statuses' /\ Reads' /\ Requested'
  BY <1>1, <1>3 DEF IInv, Placed, Statuses, Reads, Requested, Elements, Distinct
<1> QED
  BY <1>6, <1>7, <1>8 DEF IInv

LEMMA EndPendingInvariant ==
    ASSUME IInv, EndPending
    PROVE  IInv'
<1>1. /\ pc = "pending" /\ pc' = "flush" /\ pending' = pending - 1 /\ current' = None
      /\ status' = status /\ total' = total /\ complete' = complete
      /\ jobs' = jobs /\ setups' = setups /\ begun' = begun
      /\ left' = left /\ wpc' = wpc /\ work' = work /\ seen' = seen
      /\ mLoadingComplete' = mLoadingComplete
  BY DEF EndPending, worker, scene
<1>2. /\ current # None /\ current # work /\ current \notin Loading /\ begun = None
  BY <1>1 DEF IInv, Placed, Statuses, Loading
<1>3. Loading' = Loading
  BY <1>1 DEF Loading
<1>4. Counted' = Counted \ {current} /\ current \in Counted /\ Open' = Open
  BY <1>1, <1>2, <1>3 DEF Counted, Open
<1>5. pending' \in Nat /\ Counts'
  BY <1>1, <1>4, CountedFinite, OneLess DEF IInv, Counts
<1>6. TypeOK'
  BY <1>1, <1>5 DEF IInv, TypeOK
<1>7. Placed'
  <2>1. None \notin Elements(jobs) \cup Elements(setups)
    BY LoadingAssumption DEF IInv, Statuses, Loading
  <2>2. Elements(jobs') = Elements(jobs) /\ Elements(setups') = Elements(setups)
    BY <1>1
  <2> QED
    BY <1>1, <1>2, <2>1, <2>2 DEF IInv, Placed, Distinct
<1>8. Statuses' /\ Reads' /\ Requested'
  BY <1>1, <1>3 DEF IInv, Statuses, Reads, Requested, Elements
<1> QED
  BY <1>5, <1>6, <1>7, <1>8 DEF IInv

-----------------------------------------------------------------------------
(* The worker *)

LEMMA WorkerTakeInvariant ==
    ASSUME IInv, WorkerTake
    PROVE  IInv'
<1>1. /\ wpc = "dequeue" /\ wpc' = "load" /\ jobs # <<>>
      /\ work' = Head(jobs) /\ jobs' = Tail(jobs)
      /\ status' = status /\ total' = total /\ complete' = complete
      /\ pending' = pending /\ setups' = setups /\ pc' = pc /\ begun' = begun
      /\ current' = current /\ left' = left /\ seen' = seen
      /\ mLoadingComplete' = mLoadingComplete
  BY DEF WorkerTake, counters, main, scene
<1>2. jobs \in Seq(Names) /\ Distinct(jobs)
  BY DEF IInv, TypeOK, Placed
<1>3. /\ work' \in Names /\ work' \in Elements(jobs)
      /\ jobs' \in Seq(Names) /\ Distinct(jobs')
      /\ Elements(jobs') = Elements(jobs) \ {work'}
  BY <1>1, <1>2, TailDistinct
<1>4. work' # None /\ work' # begun /\ work' # current /\ work' \notin Elements(setups)
  BY <1>3, LoadingAssumption DEF IInv, Placed
<1>5. Loading' = Loading
  BY <1>1 DEF Loading
<1>6. Counted' = Counted /\ Open' = Open
  BY <1>1, <1>5 DEF Counted, Open
<1>7. Counts'
  BY <1>1, <1>6 DEF IInv, Counts
<1>8. TypeOK'
  BY <1>1, <1>3 DEF IInv, TypeOK
<1>9. Elements(setups') = Elements(setups) /\ Distinct(setups')
  BY <1>1 DEF IInv, Placed
<1>10. Placed'
  BY <1>1, <1>3, <1>4, <1>9 DEF IInv, Placed
<1>11. Statuses'
  BY <1>1, <1>3, <1>5, <1>9 DEF IInv, Statuses, Loading
<1>12. Reads' /\ Requested'
  BY <1>1, <1>5 DEF IInv, Reads, Requested
<1> QED
  BY <1>7, <1>8, <1>10, <1>11, <1>12 DEF IInv

LEMMA LoadSucceedsInvariant ==
    ASSUME IInv, LoadSucceeds
    PROVE  IInv'
<1>1. /\ wpc = "load" /\ wpc' = "dequeue"
      /\ setups' = Append(setups, work) /\ work' = None
      /\ status' = status /\ total' = total /\ complete' = complete
      /\ pending' = pending /\ jobs' = jobs /\ pc' = pc /\ begun' = begun
      /\ current' = current /\ left' = left /\ seen' = seen
      /\ mLoadingComplete' = mLoadingComplete
  BY DEF LoadSucceeds, counters, main, scene
<1>2. /\ work # None /\ work \in Names /\ work \in Loading
      /\ work \notin Elements(jobs) \cup Elements(setups)
      /\ work # begun /\ work # current
  BY <1>1 DEF IInv, TypeOK, Placed, Statuses, Loading
<1>3. setups \in Seq(Names) /\ Distinct(setups)
  BY DEF IInv, TypeOK, Placed
<1>4. /\ setups' \in Seq(Names) /\ Distinct(setups')
      /\ Elements(setups') = Elements(setups) \cup {work}
  BY <1>1, <1>2, <1>3, AppendDistinct
<1>5. Loading' = Loading
  BY <1>1 DEF Loading
<1>6. Counted' = Counted /\ Open' = Open
  BY <1>1, <1>5 DEF Counted, Open
<1>7. Counts'
  BY <1>1, <1>6 DEF IInv, Counts
<1>8. TypeOK'
  BY <1>1, <1>4 DEF IInv, TypeOK
<1>9. Elements(jobs') = Elements(jobs) /\ Distinct(jobs')
  BY <1>1 DEF IInv, Placed
<1>10. None \notin Elements(jobs) \cup Elements(setups')
  BY <1>2, <1>4, LoadingAssumption DEF IInv, Statuses, Loading
<1>11. Placed'
  BY <1>1, <1>2, <1>4, <1>9, <1>10 DEF IInv, Placed
<1>12. Statuses'
  BY <1>1, <1>2, <1>4, <1>5, <1>9 DEF IInv, Statuses
<1>13. Reads' /\ Requested'
  BY <1>1, <1>5 DEF IInv, Reads, Requested
<1> QED
  BY <1>7, <1>8, <1>11, <1>12, <1>13 DEF IInv

LEMMA LoadFailsInvariant ==
    ASSUME IInv, LoadFails
    PROVE  IInv'
<1>1. /\ wpc = "load" /\ wpc' = "complete"
      /\ status' = [status EXCEPT ![work] = "failed"]
      /\ total' = total /\ complete' = complete /\ pending' = pending
      /\ jobs' = jobs /\ setups' = setups /\ pc' = pc /\ begun' = begun
      /\ current' = current /\ left' = left /\ work' = work /\ seen' = seen
      /\ mLoadingComplete' = mLoadingComplete
  BY DEF LoadFails, counters, main, scene
<1>2. /\ work # None /\ work \in Names /\ work \in Loading
      /\ work # begun /\ work # current
      /\ work \notin Elements(jobs) \cup Elements(setups)
  BY <1>1 DEF IInv, TypeOK, Placed, Statuses, Loading
<1>3. /\ status' \in [Names -> {"none", "loading", "ready", "failed"}]
      /\ status'[work] = "failed"
      /\ \A m \in Names : m # work => status'[m] = status[m]
  BY <1>1, <1>2 DEF IInv, TypeOK
<1>4. Loading' = Loading \ {work}
  BY <1>2, <1>3 DEF Loading
<1>5. Counted' = Counted
  BY <1>1, <1>2, <1>4 DEF Counted
<1>6. Open' = Open
  BY <1>1, <1>5 DEF Open
<1>7. Counts'
  BY <1>1, <1>5, <1>6 DEF IInv, Counts
<1>8. TypeOK'
  BY <1>1, <1>3 DEF IInv, TypeOK
<1>9. Placed'
  BY <1>1 DEF IInv, Placed, Elements, Distinct
<1>10. Statuses'
  <2>1. Elements(jobs') = Elements(jobs) /\ Elements(setups') = Elements(setups)
    BY <1>1
  <2>2. current # None => current \in Names /\ status'[current] = status[current]
    BY <1>2, <1>3 DEF IInv, TypeOK
  <2> QED
    BY <1>1, <1>2, <1>3, <1>4, <2>1, <2>2 DEF IInv, Statuses
<1>11. Reads'
  BY <1>1, <1>4 DEF IInv, Reads
<1>12. Requested'
  <2>1. \A m \in Names : Subs[m] \subseteq Names
    BY LoadingAssumption
  <2>2. \A m \in Names : status[m] # "none" => status'[m] # "none"
    BY <1>3
  <2>3. \A m \in Names : status'[m] = "ready" => status[m] = "ready"
    BY <1>3
  <2>4. \A m \in Names : status'[m] = "ready" => \A s \in Subs[m] : status'[s] # "none"
    BY <2>1, <2>2, <2>3 DEF IInv, Requested
  <2>5. current' # None => \A s \in Subs[current'] \ left' : status'[s] # "none"
    BY <1>1, <2>1, <2>2 DEF IInv, Requested, TypeOK
  <2>6. ~mLoadingComplete'
    BY <1>1, <1>2 DEF IInv, Requested
  <2> QED
    BY <2>4, <2>5, <2>6 DEF Requested
<1> QED
  BY <1>7, <1>8, <1>9, <1>10, <1>11, <1>12 DEF IInv

LEMMA FailCompleteInvariant ==
    ASSUME IInv, FailComplete
    PROVE  IInv'
<1>1. /\ wpc = "complete" /\ wpc' = "pending" /\ complete' = complete + 1
      /\ status' = status /\ total' = total /\ pending' = pending
      /\ jobs' = jobs /\ setups' = setups /\ pc' = pc /\ begun' = begun
      /\ current' = current /\ left' = left /\ work' = work /\ seen' = seen
      /\ mLoadingComplete' = mLoadingComplete
  BY DEF FailComplete, main, scene
<1>2. work # None /\ work # current /\ work # begun
  BY <1>1 DEF IInv, Placed
<1>3. Loading' = Loading
  BY <1>1 DEF Loading
<1>4. Counted' = Counted /\ work \in Open /\ Open' = Open \ {work}
  BY <1>1, <1>2, <1>3 DEF Counted, Open
<1>5. complete \in Nat /\ total \in Nat
  BY DEF IInv, TypeOK
<1>6. Counts'
  <2>1. /\ Cardinality(Open') = Cardinality(Open) - 1
        /\ Cardinality(Open) \in Nat
    BY <1>4, CountedFinite, OneLess
  <2>2. total = complete + Cardinality(Open) /\ pending = Cardinality(Counted)
    BY DEF IInv, Counts
  <2>3. total = (complete + 1) + Cardinality(Open')
    BY <1>5, <2>1, <2>2
  <2> QED
    BY <1>1, <1>4, <2>2, <2>3 DEF Counts
<1>7. TypeOK'
  BY <1>1 DEF IInv, TypeOK
<1>8. Placed' /\ Statuses' /\ Requested'
  BY <1>1, <1>3 DEF IInv, Placed, Statuses, Requested, Elements, Distinct
<1>9. Reads'
  <2>1. pc = "readTotal" => seen[1] <= complete /\ seen[1] \in Nat
    BY DEF IInv, Reads, TypeOK
  <2> QED
    BY <1>1, <1>3, <1>5, <2>1 DEF IInv, Reads
<1> QED
  BY <1>6, <1>7, <1>8, <1>9 DEF IInv

LEMMA FailPendingInvariant ==
    ASSUME IInv, FailPending
    PROVE  IInv'
<1>1. /\ wpc = "pending" /\ wpc' = "dequeue" /\ pending' = pending - 1 /\ work' = None
      /\ status' = status /\ total' = total /\ complete' = complete
      /\ jobs' = jobs /\ setups' = setups /\ pc' = pc /\ begun' = begun
      /\ current' = current /\ left' = left /\ seen' = seen
      /\ mLoadingComplete' = mLoadingComplete
  BY DEF FailPending, main, scene
<1>2. work # None /\ work # current /\ work # begun /\ work \notin Loading
  BY <1>1 DEF IInv, Placed, Statuses, Loading
<1>3. Loading' = Loading
  BY <1>1 DEF Loading
<1>4. Counted' = Counted \ {work} /\ work \in Counted
  BY <1>1, <1>2, <1>3 DEF Counted
<1>5. Open' = Open
  BY <1>1, <1>2, <1>4 DEF Open
<1>6. pending' \in Nat /\ Counts'
  BY <1>1, <1>4, <1>5, CountedFinite, OneLess DEF IInv, Counts
<1>7. TypeOK'
  BY <1>1, <1>6 DEF IInv, TypeOK
<1>8. Placed'
  <2>1. None \notin Elements(jobs) \cup Elements(setups)
    BY LoadingAssumption DEF IInv, Statuses, Loading
  <2>2. Elements(jobs') = Elements(jobs) /\ Elements(setups') = Elements(setups)
    BY <1>1
  <2> QED
    BY <1>1, <1>2, <2>1, <2>2 DEF IInv, Placed, Distinct
<1>9. Statuses' /\ Reads' /\ Requested'
  BY <1>1, <1>3 DEF IInv, Statuses, Reads, Requested, Elements
<1> QED
  BY <1>6, <1>7, <1>8, <1>9 DEF IInv

-----------------------------------------------------------------------------
(* Every step, and what follows *)

LEMMA StepInvariant == IInv /\ [Next]_vars => IInv'
<1> SUFFICES ASSUME IInv, [Next]_vars PROVE IInv'
  OBVIOUS
<1>1. CASE MainStep
  BY <1>1, BeginPendingInvariant, BeginTotalInvariant, PostLoadInvariant,
     ReadCompleteInvariant, ReadTotalInvariant, ReadPendingInvariant,
     FlushTakeInvariant, FlushEndInvariant, SetupSubInvariant, SetupEndInvariant,
     EndCompleteInvariant, EndPendingInvariant DEF MainStep
<1>2. CASE WorkerStep
  BY <1>2, WorkerTakeInvariant, LoadSucceedsInvariant, LoadFailsInvariant,
     FailCompleteInvariant, FailPendingInvariant DEF WorkerStep
<1>3. CASE SceneStep
  BY <1>3, RequestAsyncInvariant, RequestSyncInvariant DEF SceneStep
<1>4. CASE UNCHANGED vars
  <2>1. /\ status' = status /\ total' = total /\ complete' = complete
        /\ pending' = pending /\ jobs' = jobs /\ setups' = setups /\ pc' = pc
        /\ begun' = begun /\ current' = current /\ left' = left /\ wpc' = wpc
        /\ work' = work /\ seen' = seen /\ mLoadingComplete' = mLoadingComplete
    BY <1>4 DEF vars, counters, main, worker, scene
  <2>2. TypeOK'
    BY <2>1 DEF IInv, TypeOK
  <2>3. Placed'
    BY <2>1 DEF IInv, Placed, Elements, Distinct
  <2>4. Loading' = Loading
    BY <2>1 DEF Loading
  <2>5. Counted' = Counted
    BY <2>1, <2>4 DEF Counted
  <2>6. Open' = Open
    BY <2>1, <2>5 DEF Open
  <2>7. Statuses' /\ Reads' /\ Requested'
    BY <2>1, <2>4 DEF IInv, Statuses, Reads, Requested, Elements
  <2>8. Counts'
    BY <2>1, <2>5, <2>6 DEF IInv, Counts
  <2> QED
    BY <2>2, <2>3, <2>7, <2>8 DEF IInv
<1> QED
  BY <1>1, <1>2, <1>3, <1>4 DEF Next

\* The counters bound each other, whatever the two threads are in the middle of.
THEOREM CountersAgree == Spec => []CountersConsistent
<1>1. IInv => CountersConsistent
  <2> SUFFICES ASSUME IInv PROVE CountersConsistent
    OBVIOUS
  <2>1. /\ pending = Cardinality(Counted) /\ total = complete + Cardinality(Open)
        /\ complete \in Nat /\ TypeOK
    BY DEF IInv, Counts, TypeOK
  <2>2. pending + complete >= total /\ complete <= total
    BY <2>1, CountedFinite
  <2> QED
    BY <2>1, <2>2 DEF IInv, Reads, CountersConsistent
<1> QED
  BY <1>1, InitInvariant, StepInvariant, PTL DEF Spec

\* A progress of one means that nothing is loading any more.
THEOREM ProgressTruthful == Spec => []FullProgressMeansLoaded
<1>1. IInv => FullProgressMeansLoaded
  BY DEF IInv, Reads, FullProgressMeansLoaded, Loading
<1> QED
  BY <1>1, InitInvariant, StepInvariant, PTL DEF Spec

\* When the loading scene finds nothing pending, all it requested has ended,
\* and so have the sub-resources of what loaded.
THEOREM CompletionTruthful == Spec => []AllLoadedWhenComplete
<1>1. IInv => AllLoadedWhenComplete
  <2> SUFFICES ASSUME IInv, mLoadingComplete, NEW n \in Names, status[n] # "none"
               PROVE  /\ Resolved(n)
                      /\ status[n] = "ready" => \A s \in Subs[n] : Resolved(s)
    BY DEF AllLoadedWhenComplete
  <2>1. \A m \in Names : status[m] # "none" => Resolved(m)
    BY DEF IInv, TypeOK, Requested, Loading, Resolved
  <2>2. Subs[n] \subseteq Names
    BY LoadingAssumption
  <2> QED
    BY <2>1, <2>2 DEF IInv, Requested
<1> QED
  BY <1>1, InitInvariant, StepInvariant, PTL DEF Spec

-----------------------------------------------------------------------------
(* One load at a time *)

\* What is loading is somewhere: no load is dropped on the way.
NoneLost ==
    Loading \subseteq Elements(jobs) \cup Elements(setups) \cup {begun, current, work}

\* A queue holds a name once or not at all.
LEMMA OnceInQueue ==
    ASSUME NEW S, NEW s \in Seq(S), Distinct(s), NEW n
    PROVE  Cardinality({k \in DOMAIN s : s[k] = n}) = IF n \in Elements(s) THEN 1 ELSE 0
<1> DEFINE here == {k \in DOMAIN s : s[k] = n}
<1>1. CASE n \in Elements(s)
  <2>1. PICK k \in DOMAIN s : s[k] = n
    BY <1>1 DEF Elements
  <2>2. here = {k}
    BY <2>1 DEF Distinct
  <2> QED
    BY <1>1, <2>2, FS_Singleton
<1>2. CASE n \notin Elements(s)
  <2>1. here = {}
    BY <1>2 DEF Elements
  <2> QED
    BY <1>2, <2>1, FS_EmptySet
<1> QED
  BY <1>1, <1>2

\* A load that is handed over is handed to somebody.
LEMMA NoneLostStep ==
    ASSUME IInv, NoneLost, [Next]_vars
    PROVE  NoneLost'
<1> USE DEF IInv, TypeOK, NoneLost, Loading
<1>1. CASE UNCHANGED vars
  BY <1>1 DEF vars, counters, main, worker, scene, Elements
<1>2. CASE BeginPending \/ BeginTotal \/ ReadComplete \/ ReadTotal \/ ReadPending
              \/ FlushEnd \/ EndComplete \/ FailComplete
  BY <1>2 DEF BeginPending, BeginTotal, ReadComplete, ReadTotal, ReadPending, FlushEnd,
     EndComplete, FailComplete, counters, worker, scene, main, Elements
<1>3. CASE PostLoad
  <2>1. begun \in Names /\ begun \notin Elements(jobs)
    BY <1>3 DEF PostLoad, Placed
  <2>2. Elements(jobs') = Elements(jobs) \cup {begun}
    BY <1>3, <2>1, AppendDistinct DEF PostLoad, Placed
  <2>3. Loading' = Loading /\ setups' = setups /\ current' = current /\ work' = work
    BY <1>3 DEF PostLoad, worker
  <2>4. Elements(setups') = Elements(setups)
    BY <2>3
  <2>5. None \notin Loading
    BY LoadingAssumption
  <2> HIDE DEF Loading
  <2> QED
    BY <2>2, <2>3, <2>4, <2>5
<1>4. CASE FlushTake
  <2>1. Elements(setups') = Elements(setups) \ {Head(setups)}
    BY <1>4, TailDistinct DEF FlushTake, Placed
  <2>2. current = None
    BY <1>4 DEF FlushTake, Placed
  <2>3. None \notin Loading
    BY LoadingAssumption
  <2>4. /\ Loading' = Loading /\ jobs' = jobs /\ current' = Head(setups)
        /\ begun' = begun /\ work' = work
    BY <1>4 DEF FlushTake, worker
  <2>5. Elements(jobs') = Elements(jobs)
    BY <2>4
  <2> HIDE DEF Loading
  <2> QED
    BY <2>1, <2>2, <2>3, <2>4, <2>5
<1>5. ASSUME NEW n \in Names, SetupSub(n) PROVE NoneLost'
  <2>1. begun = None \/ begun' = begun
    BY <1>5 DEF SetupSub, Placed
  <2>2. jobs' = jobs /\ setups' = setups /\ current' = current /\ work' = work
    BY <1>5 DEF SetupSub, worker
  <2>3. Loading' \subseteq Loading \cup {begun'}
    BY <1>5 DEF SetupSub, Create
  <2>4. None \notin Loading
    BY LoadingAssumption
  <2> QED
    BY <2>1, <2>2, <2>3, <2>4 DEF Elements
<1>6. CASE SetupEnd
  <2>1. Loading' = Loading \ {current}
    BY <1>6 DEF SetupEnd, Placed
  <2> QED
    BY <1>6, <2>1 DEF SetupEnd, worker, Elements
<1>7. CASE EndPending
  <2>1. current \notin Loading
    BY <1>7 DEF EndPending, Placed, Statuses
  <2> QED
    BY <1>7, <2>1 DEF EndPending, worker, Elements
<1>8. CASE WorkerTake
  <2>1. Elements(jobs') = Elements(jobs) \ {Head(jobs)}
    BY <1>8, TailDistinct DEF WorkerTake, Placed
  <2>2. work = None
    BY <1>8 DEF WorkerTake, Placed
  <2>3. None \notin Loading
    BY LoadingAssumption
  <2>4. /\ Loading' = Loading /\ setups' = setups /\ work' = Head(jobs)
        /\ begun' = begun /\ current' = current
    BY <1>8 DEF WorkerTake, main
  <2>5. Elements(setups') = Elements(setups)
    BY <2>4
  <2> HIDE DEF Loading
  <2> QED
    BY <2>1, <2>2, <2>3, <2>4, <2>5
<1>9. CASE LoadSucceeds
  <2>1. work \in Names /\ work \notin Elements(setups)
    BY <1>9 DEF LoadSucceeds, Placed
  <2>2. Elements(setups') = Elements(setups) \cup {work}
    BY <1>9, <2>1, AppendDistinct DEF LoadSucceeds, Placed
  <2>3. Loading' = Loading /\ jobs' = jobs /\ begun' = begun /\ current' = current
    BY <1>9 DEF LoadSucceeds, main
  <2>4. Elements(jobs') = Elements(jobs)
    BY <2>3
  <2> HIDE DEF Loading
  <2> QED
    BY <2>2, <2>3, <2>4
<1>10. CASE LoadFails
  BY <1>10 DEF LoadFails, main, Elements
<1>11. CASE FailPending
  <2>1. work \notin Loading
    BY <1>11 DEF FailPending, Placed, Statuses
  <2> QED
    BY <1>11, <2>1 DEF FailPending, main, Elements
<1>12. ASSUME NEW n \in Names, RequestAsync(n) PROVE NoneLost'
  <2>1. begun = None /\ begun' = n
    BY <1>12 DEF RequestAsync, Create, Placed
  <2>2. jobs' = jobs /\ setups' = setups /\ current' = current /\ work' = work
    BY <1>12 DEF RequestAsync, worker
  <2>3. Loading' \subseteq Loading \cup {begun'}
    BY <1>12 DEF RequestAsync, Create
  <2>4. None \notin Loading
    BY LoadingAssumption
  <2> QED
    BY <2>1, <2>2, <2>3, <2>4 DEF Elements
<1>13. ASSUME NEW n \in Names, RequestSync(n) PROVE NoneLost'
  <2>1. Loading' \subseteq Loading
    BY <1>13 DEF RequestSync
  <2> QED
    BY <1>13, <2>1 DEF RequestSync, main, worker, Elements
<1> QED
  BY <1>1, <1>2, <1>3, <1>4, <1>5, <1>6, <1>7, <1>8, <1>9, <1>10, <1>11, <1>12, <1>13
     DEF Next, MainStep, WorkerStep, SceneStep

\* One place for what is loading, and none for anything else.
LEMMA OnePlace == IInv /\ NoneLost => OneLoadUnderWay
<1> SUFFICES ASSUME IInv, NoneLost, NEW n \in Names
             PROVE  Loads(n) = IF status[n] = "loading" THEN 1 ELSE 0
  BY DEF OneLoadUnderWay
<1> DEFINE inJobs == n \in Elements(jobs)
           inSetups == n \in Elements(setups)
           held == {x \in {"begun", "current", "work"} :
                       \/ x = "begun" /\ begun = n
                       \/ x = "current" /\ current = n
                             /\ pc \in {"setup", "begin", "count", "post"}
                       \/ x = "work" /\ work = n /\ wpc = "load"}
<1>1. /\ Cardinality({k \in DOMAIN jobs : jobs[k] = n}) = IF inJobs THEN 1 ELSE 0
      /\ Cardinality({k \in DOMAIN setups : setups[k] = n}) = IF inSetups THEN 1 ELSE 0
  BY OnceInQueue DEF IInv, TypeOK, Placed
<1>2. n # None
  BY LoadingAssumption
<1>3. \A x \in held : ~inJobs /\ ~inSetups /\ held = {x} /\ status[n] = "loading"
  BY <1>2 DEF IInv, Placed, Statuses, Loading
<1>4. inJobs \/ inSetups => held = {} /\ ~(inJobs /\ inSetups) /\ status[n] = "loading"
  BY <1>3 DEF IInv, Placed, Statuses, Loading
<1>5. ASSUME status[n] = "loading", ~inJobs, ~inSetups PROVE held # {}
  <2>1. begun = n \/ current = n \/ work = n
    BY <1>5 DEF NoneLost, Loading
  <2>2. begun = n => "begun" \in held
    OBVIOUS
  <2>3. current = n => pc \in {"setup", "begin", "count", "post"}
    BY <1>2, <1>5 DEF IInv, TypeOK, Placed, Statuses
  <2>4. current = n => "current" \in held
    BY <2>3
  <2>5. work = n => wpc = "load"
    BY <1>2, <1>5 DEF IInv, TypeOK, Placed, Statuses
  <2>6. work = n => "work" \in held
    BY <2>5
  <2> QED
    BY <2>1, <2>2, <2>4, <2>6
<1>6. held = {} \/ \E x \in held : held = {x}
  BY <1>3
<1>7. Cardinality(held) = IF held = {} THEN 0 ELSE 1
  BY <1>6, FS_EmptySet, FS_Singleton
<1> HIDE DEF inJobs, inSetups
<1>8. Loads(n) = (IF inJobs THEN 1 ELSE 0) + (IF inSetups THEN 1 ELSE 0)
                     + (IF held = {} THEN 0 ELSE 1)
  BY <1>1, <1>7 DEF Loads
<1> QED
  BY <1>3, <1>4, <1>5, <1>8

\* A file is loaded once at a time, and not dropped before its load has ended,
\* for any files that any setups request.
THEOREM LoadedOnce == Spec => []OneLoadUnderWay
<1>1. Init => NoneLost
  BY LoadingAssumption DEF Init, NoneLost, Loading
<1>2. Spec => [](IInv /\ NoneLost)
  <2>1. IInv /\ NoneLost /\ [Next]_vars => (IInv /\ NoneLost)'
    BY StepInvariant, NoneLostStep
  <2> QED
    BY <1>1, <2>1, InitInvariant, PTL DEF Spec
<1> QED
  BY <1>2, OnePlace, PTL

-----------------------------------------------------------------------------
(* Material files. The argument: the stacks of the context stand where the  *)
(* brackets of the text say, so that every entry gets into the list of the  *)
(* block its statement is in; each list agrees with its block in the last   *)
(* word on every setting; and a pass is built of its three lists from the   *)
(* outside in.                                                              *)

\* Count and Block for any text t: what its first n statements leave open.
CountOf(t, what, a, b) == Cardinality({i \in a .. b : t[i].what = what})
BeginAfter(t, n) ==
    LET started == {i \in 1 .. n : t[i].what = "technique"} IN
    IF started = {} THEN 1 ELSE CHOOSE i \in started : \A j \in started : j <= i

TechniquesAfter(t, n) == CountOf(t, "technique", 1, n)
PassesAfter(t, n) == CountOf(t, "pass", BeginAfter(t, n), n)
DepthAfter(t, n) == TechniquesAfter(t, n) + CountOf(t, "pass", 1, n) - CountOf(t, "end", 1, n)
BlockAfter(t, n) == SubSeq(<<TechniquesAfter(t, n), PassesAfter(t, n)>>, 1, DepthAfter(t, n))

\* The block of a statement depends on the statements before it.
LEMMA BlockIs ==
    /\ \A k : Block(k) = BlockAfter(text, k - 1)
    /\ \A k : Block(k)' = BlockAfter(text', k - 1)
BY DEF Block, Count, BlockAfter, CountOf, BeginAfter, TechniquesAfter, PassesAfter, DepthAfter

\* A set of numbers up to n that is not empty has a greatest member.
LEMMA GreatestExists ==
    ASSUME NEW n \in Nat, NEW S \in SUBSET (1 .. n), S # {}
    PROVE  \E k \in S : \A j \in S : j <= k
<1> DEFINE R == OpToRel(<, Nat)
           T == {n - k : k \in S}
<1>1. \A x, y \in Nat : x < y => <<x, y>> \in R
  BY DEF OpToRel
<1>2. T \subseteq Nat /\ T # {}
  <2>1. \A k \in S : k \in 1 .. n /\ n - k \in Nat
    OBVIOUS
  <2> QED
    BY <2>1
<1>3. IsWellFoundedOn(R, Nat)
  BY NatLessThanWellFounded
<1> HIDE DEF R
<1>4. PICK x \in T : \A y \in T : <<y, x>> \notin R
  <2> HIDE DEF T
  <2> QED
    BY <1>2, <1>3, WFMin
<1>5. PICK k \in S : x = n - k
  BY <1>4
<1>6. ASSUME NEW j \in S PROVE j <= k
  <2>1. n - j \in T /\ n - j \in Nat /\ x \in Nat
    BY <1>4, <1>2
  <2>2. ~(n - j < x)
    BY <2>1, <1>1, <1>4
  <2> QED
    BY <2>2, <1>5
<1> QED
  BY <1>6

\* Sets of statements are finite, and reading one more adds one or none.
LEMMA OneMoreRead ==
    ASSUME NEW n \in Nat, NEW S \in SUBSET (1 .. n), NEW T,
           NEW more \in BOOLEAN, T = IF more THEN S \cup {n + 1} ELSE S
    PROVE  /\ IsFiniteSet(S) /\ Cardinality(S) \in Nat /\ Cardinality(S) <= n
           /\ Cardinality(T) = Cardinality(S) + (IF more THEN 1 ELSE 0)
<1>1. IsFiniteSet(1 .. n) /\ Cardinality(1 .. n) = n
  BY FS_Interval
<1>2. IsFiniteSet(S) /\ Cardinality(S) <= n
  BY <1>1, FS_Subset
<1>3. Cardinality(S) \in Nat
  BY <1>2, FS_CardinalityType
<1>4. n + 1 \notin S
  OBVIOUS
<1>5. Cardinality(S \cup {n + 1}) = Cardinality(S) + 1
  BY <1>2, <1>4, FS_AddElement
<1> QED
  BY <1>2, <1>3, <1>5

\* One more statement is counted if it is of the kind that is counted.
LEMMA CountSteps ==
    ASSUME NEW t, NEW what, NEW n \in Nat, NEW a \in 1 .. n + 1
    PROVE  /\ CountOf(t, what, a, n) \in Nat /\ CountOf(t, what, a, n) <= n
           /\ CountOf(t, what, a, n + 1) =
                CountOf(t, what, a, n) + (IF t[n + 1].what = what THEN 1 ELSE 0)
<1> DEFINE S == {i \in a .. n : t[i].what = what}
           T == {i \in a .. n + 1 : t[i].what = what}
           more == t[n + 1].what = what
<1>1. S \in SUBSET (1 .. n) /\ more \in BOOLEAN
  OBVIOUS
<1>2. T = IF more THEN S \cup {n + 1} ELSE S
  <2>1. \A i : i \in a .. n + 1 <=> i \in a .. n \/ i = n + 1
    OBVIOUS
  <2> QED
    BY <2>1
<1> HIDE DEF S, T, more
<1>3. /\ Cardinality(S) \in Nat /\ Cardinality(S) <= n
      /\ Cardinality(T) = Cardinality(S) + (IF more THEN 1 ELSE 0)
  BY <1>1, <1>2, OneMoreRead
<1> QED
  BY <1>3 DEF S, T, more, CountOf

\* The last technique begins with the statement that begins one.
LEMMA BeginSteps ==
    ASSUME NEW t, NEW n \in Nat
    PROVE  /\ BeginAfter(t, n) \in 1 .. n + 1
           /\ BeginAfter(t, n + 1) =
                IF t[n + 1].what = "technique" THEN n + 1 ELSE BeginAfter(t, n)
<1> DEFINE S == {i \in 1 .. n : t[i].what = "technique"}
           T == {i \in 1 .. n + 1 : t[i].what = "technique"}
<1>1. BeginAfter(t, n) \in 1 .. n + 1
  <2>1. CASE S = {}
    BY <2>1 DEF BeginAfter
  <2>2. CASE S # {}
    <3>1. S \in SUBSET (1 .. n)
      OBVIOUS
    <3> DEFINE c == CHOOSE i \in S : \A j \in S : j <= i
    <3> HIDE DEF S
    <3>2. c \in S
      BY <2>2, <3>1, GreatestExists
    <3>3. BeginAfter(t, n) = c
      BY <2>2 DEF BeginAfter, S
    <3> HIDE DEF c
    <3> QED
      BY <3>1, <3>2, <3>3
  <2> QED
    BY <2>1, <2>2
<1>2. CASE t[n + 1].what = "technique"
  <2>1. n + 1 \in T /\ \A j \in T : j \in Int /\ j <= n + 1
    BY <1>2
  <2>2. BeginAfter(t, n + 1) = CHOOSE i \in T : \A j \in T : j <= i
    BY <2>1 DEF BeginAfter
  <2> HIDE DEF T
  <2>3. \A i \in T : (\A j \in T : j <= i) => i = n + 1
    BY <2>1
  <2> DEFINE c == CHOOSE i \in T : \A j \in T : j <= i
  <2>4. c \in T /\ \A j \in T : j <= c
    BY <2>1
  <2> QED
    BY <1>2, <1>1, <2>2, <2>3, <2>4
<1>3. CASE t[n + 1].what # "technique"
  <2>1. T = S
    BY <1>3
  <2>2. BeginAfter(t, n) = IF S = {} THEN 1 ELSE CHOOSE i \in S : \A j \in S : j <= i
    BY DEF BeginAfter
  <2>3. BeginAfter(t, n + 1) = IF T = {} THEN 1 ELSE CHOOSE i \in T : \A j \in T : j <= i
    BY DEF BeginAfter
  <2> HIDE DEF S, T
  <2> QED
    BY <1>1, <1>3, <2>1, <2>2, <2>3
<1> QED
  BY <1>1, <1>2, <1>3

\* How one more statement changes the counts that decide the block.
LEMMA Advance ==
    ASSUME NEW t, NEW n \in Nat
    PROVE  LET what == t[n + 1].what IN
           /\ TechniquesAfter(t, n) \in Nat /\ TechniquesAfter(t, n) <= n
           /\ PassesAfter(t, n) \in Nat /\ PassesAfter(t, n) <= n
           /\ DepthAfter(t, n) \in Int
           /\ TechniquesAfter(t, n + 1) =
                TechniquesAfter(t, n) + (IF what = "technique" THEN 1 ELSE 0)
           /\ PassesAfter(t, n + 1) =
                IF what = "technique" THEN 0
                ELSE PassesAfter(t, n) + (IF what = "pass" THEN 1 ELSE 0)
           /\ DepthAfter(t, n + 1) =
                DepthAfter(t, n) + (IF what \in {"technique", "pass"} THEN 1
                                    ELSE IF what = "end" THEN -1 ELSE 0)
<1>1. 1 \in 1 .. n + 1 /\ BeginAfter(t, n) \in 1 .. n + 1 /\ n + 1 \in 1 .. n + 1
  BY BeginSteps
<1>2. /\ CountOf(t, "technique", 1, n) \in Nat /\ CountOf(t, "technique", 1, n) <= n
      /\ CountOf(t, "technique", 1, n + 1) =
            CountOf(t, "technique", 1, n) + (IF t[n + 1].what = "technique" THEN 1 ELSE 0)
  BY <1>1, CountSteps
<1>3. /\ CountOf(t, "pass", 1, n) \in Nat
      /\ CountOf(t, "pass", 1, n + 1) =
            CountOf(t, "pass", 1, n) + (IF t[n + 1].what = "pass" THEN 1 ELSE 0)
  BY <1>1, CountSteps
<1>4. /\ CountOf(t, "end", 1, n) \in Nat
      /\ CountOf(t, "end", 1, n + 1) =
            CountOf(t, "end", 1, n) + (IF t[n + 1].what = "end" THEN 1 ELSE 0)
  BY <1>1, CountSteps
<1>5. /\ PassesAfter(t, n) \in Nat /\ PassesAfter(t, n) <= n
      /\ CountOf(t, "pass", BeginAfter(t, n), n + 1) =
            PassesAfter(t, n) + (IF t[n + 1].what = "pass" THEN 1 ELSE 0)
  BY <1>1, CountSteps DEF PassesAfter
<1>6. /\ CountOf(t, "pass", n + 1, n) = 0
      /\ CountOf(t, "pass", n + 1, n + 1) =
            CountOf(t, "pass", n + 1, n) + (IF t[n + 1].what = "pass" THEN 1 ELSE 0)
  <2>1. {i \in n + 1 .. n : t[i].what = "pass"} = {}
    OBVIOUS
  <2>2. CountOf(t, "pass", n + 1, n) = 0
    BY <2>1, FS_EmptySet DEF CountOf
  <2> QED
    BY <1>1, <2>2, CountSteps
<1>7. PassesAfter(t, n + 1) =
          IF t[n + 1].what = "technique" THEN 0
          ELSE PassesAfter(t, n) + (IF t[n + 1].what = "pass" THEN 1 ELSE 0)
  BY <1>5, <1>6, BeginSteps DEF PassesAfter
<1>8. \A m : TechniquesAfter(t, m) = CountOf(t, "technique", 1, m)
  BY DEF TechniquesAfter
<1>9. \A m : DepthAfter(t, m) =
                 TechniquesAfter(t, m) + CountOf(t, "pass", 1, m) - CountOf(t, "end", 1, m)
  BY DEF DepthAfter
<1> QED
  BY <1>2, <1>3, <1>4, <1>5, <1>7, <1>8, <1>9

\* Before the first statement all counts are 0.
LEMMA AtStart ==
    ASSUME NEW t
    PROVE  TechniquesAfter(t, 0) = 0 /\ PassesAfter(t, 0) = 0 /\ DepthAfter(t, 0) = 0
<1>1. \A what : {i \in 1 .. 0 : t[i].what = what} = {}
  OBVIOUS
<1>2. \A what : CountOf(t, what, 1, 0) = 0
  BY <1>1, FS_EmptySet DEF CountOf
<1>3. BeginAfter(t, 0) = 1
  BY <1>1 DEF BeginAfter
<1> QED
  BY <1>2, <1>3 DEF TechniquesAfter, PassesAfter, DepthAfter

\* What comes first in a text decides alone about its blocks.
LEMMA SameBefore ==
    ASSUME NEW t, NEW u, NEW n \in Nat, \A i \in 1 .. n : t[i] = u[i]
    PROVE  /\ TechniquesAfter(t, n) = TechniquesAfter(u, n)
           /\ PassesAfter(t, n) = PassesAfter(u, n)
           /\ DepthAfter(t, n) = DepthAfter(u, n)
           /\ BlockAfter(t, n) = BlockAfter(u, n)
<1>1. ASSUME NEW what, NEW a \in 1 .. n + 1
      PROVE  CountOf(t, what, a, n) = CountOf(u, what, a, n)
  <2>1. {i \in a .. n : t[i].what = what} = {i \in a .. n : u[i].what = what}
    OBVIOUS
  <2> QED
    BY <2>1 DEF CountOf
<1>2. BeginAfter(t, n) = BeginAfter(u, n)
  <2> DEFINE S == {i \in 1 .. n : t[i].what = "technique"}
             U == {i \in 1 .. n : u[i].what = "technique"}
  <2>1. S = U
    OBVIOUS
  <2>2. BeginAfter(t, n) = IF S = {} THEN 1 ELSE CHOOSE i \in S : \A j \in S : j <= i
    BY DEF BeginAfter
  <2>3. BeginAfter(u, n) = IF U = {} THEN 1 ELSE CHOOSE i \in U : \A j \in U : j <= i
    BY DEF BeginAfter
  <2> HIDE DEF S, U
  <2> QED
    BY <2>1, <2>2, <2>3
<1>3. BeginAfter(t, n) \in 1 .. n + 1 /\ 1 \in 1 .. n + 1
  BY BeginSteps
<1> QED
  BY <1>1, <1>2, <1>3 DEF TechniquesAfter, PassesAfter, DepthAfter, BlockAfter

\* Sequences of the same length and the same elements are equal.
LEMMA Equal ==
    ASSUME NEW S, NEW a \in Seq(S), NEW b \in Seq(S), Len(a) = Len(b),
           \A i \in 1 .. Len(a) : a[i] = b[i]
    PROVE  a = b
OBVIOUS

\* The block by the number of brackets that are open.
LEMMA BlockByDepth ==
    ASSUME NEW t, NEW n \in Nat
    PROVE  /\ DepthAfter(t, n) = 0 => BlockAfter(t, n) = File
           /\ DepthAfter(t, n) = 1 => BlockAfter(t, n) = <<TechniquesAfter(t, n)>>
           /\ DepthAfter(t, n) = 2 =>
                 BlockAfter(t, n) = <<TechniquesAfter(t, n), PassesAfter(t, n)>>
<1>1. ASSUME NEW i \in Nat, NEW j \in Nat
      PROVE  /\ SubSeq(<<i, j>>, 1, 0) = <<>>
             /\ SubSeq(<<i, j>>, 1, 1) = <<i>>
             /\ SubSeq(<<i, j>>, 1, 2) = <<i, j>>
  <2> DEFINE both == <<i, j>>
             first == <<i>>
  <2>1. both \in Seq(Nat) /\ Len(both) = 2 /\ both[1] = i
    OBVIOUS
  <2>2. first \in Seq(Nat) /\ Len(first) = 1 /\ first[1] = i
    OBVIOUS
  <2> HIDE DEF both, first
  <2>3. SubSeq(both, 1, 1) = first
    <3>1. /\ SubSeq(both, 1, 1) \in Seq(Nat) /\ Len(SubSeq(both, 1, 1)) = 1
          /\ SubSeq(both, 1, 1)[1] = i
      BY <2>1
    <3>2. \A k \in 1 .. Len(SubSeq(both, 1, 1)) : SubSeq(both, 1, 1)[k] = first[k]
      BY <3>1, <2>2
    <3> QED
      BY <3>1, <3>2, <2>2, Equal
  <2>4. SubSeq(both, 1, 2) = both
    BY <2>1, Equal
  <2>5. SubSeq(both, 1, 0) = <<>>
    BY <2>1
  <2> QED
    BY <2>3, <2>4, <2>5 DEF both, first
<1> QED
  BY <1>1, Advance DEF BlockAfter, File

-----------------------------------------------------------------------------
(* What a list of options says, and what the text says of it *)

Entries == [name : Settings, value : Values]
Statements ==
    [what : {"set"}, name : Settings, value : Values]
        \cup [what : {"technique", "pass", "end"}]

\* The statements for s in a block, among the first n; the entries for s in a list.
Said(t, n, block, s) ==
    {k \in 1 .. n : t[k].what = "set" /\ t[k].name = s /\ BlockAfter(t, k - 1) = block}
Held(entries, s) == {i \in DOMAIN entries : entries[i].name = s}
Greatest(k, S) == k \in S /\ \A j \in S : j <= k

\* They agree in the last word.
Agrees(t, n, block, s, entries) ==
    /\ Said(t, n, block, s) = {} <=> Held(entries, s) = {}
    /\ \A k, i : Greatest(k, Said(t, n, block, s)) /\ Greatest(i, Held(entries, s)) =>
                     entries[i].value = t[k].value

\* One more statement is said of a setting, or none.
LEMMA SaidMore ==
    ASSUME NEW t, NEW n \in Nat, NEW block, NEW s
    PROVE  Said(t, n + 1, block, s) =
               IF t[n + 1].what = "set" /\ t[n + 1].name = s /\ BlockAfter(t, n) = block
               THEN Said(t, n, block, s) \cup {n + 1} ELSE Said(t, n, block, s)
<1>1. \A i : i \in 1 .. n + 1 <=> i \in 1 .. n \/ i = n + 1
  OBVIOUS
<1>2. (n + 1) - 1 = n
  OBVIOUS
<1> QED
  BY <1>1, <1>2 DEF Said

\* What is said early in a text does not depend on what follows.
LEMMA SaidBefore ==
    ASSUME NEW t, NEW u, NEW n \in Nat, \A i \in 1 .. n : t[i] = u[i], NEW block, NEW s
    PROVE  Said(t, n, block, s) = Said(u, n, block, s)
<1>1. ASSUME NEW k \in 1 .. n
      PROVE  BlockAfter(t, k - 1) = BlockAfter(u, k - 1)
  <2>1. k - 1 \in Nat /\ \A i \in 1 .. k - 1 : t[i] = u[i]
    OBVIOUS
  <2> QED
    BY <2>1, SameBefore
<1> QED
  BY <1>1 DEF Said

\* Nor does the agreement with a list.
LEMMA AgreesBefore ==
    ASSUME NEW t, NEW u, NEW n \in Nat, \A i \in 1 .. n : t[i] = u[i],
           NEW block, NEW s, NEW entries, Agrees(t, n, block, s, entries)
    PROVE  Agrees(u, n, block, s, entries)
<1>1. Said(t, n, block, s) = Said(u, n, block, s)
  BY SaidBefore
<1>2. \A k \in Said(t, n, block, s) : t[k] = u[k]
  BY DEF Said
<1> QED
  BY <1>1, <1>2 DEF Agrees, Greatest

\* One more entry is held for a setting, or none.
LEMMA HeldMore ==
    ASSUME NEW entries \in Seq(Entries), NEW e \in Entries, NEW s
    PROVE  Held(Append(entries, e), s) =
               IF e.name = s THEN Held(entries, s) \cup {Len(entries) + 1} ELSE Held(entries, s)
<1> DEFINE more == Append(entries, e)
<1>1. /\ DOMAIN more = 1 .. Len(entries) + 1 /\ DOMAIN entries = 1 .. Len(entries)
      /\ Len(entries) \in Nat /\ more[Len(entries) + 1] = e
      /\ \A i \in DOMAIN entries : more[i] = entries[i]
  OBVIOUS
<1>2. \A i : i \in DOMAIN more <=> i \in DOMAIN entries \/ i = Len(entries) + 1
  BY <1>1
<1> HIDE DEF more
<1>3. Held(more, s) =
          IF e.name = s THEN Held(entries, s) \cup {Len(entries) + 1} ELSE Held(entries, s)
  BY <1>1, <1>2 DEF Held
<1> QED
  BY <1>3 DEF more

\* A statement in another block, or one that sets nothing here.
LEMMA AgreesStill ==
    ASSUME NEW t, NEW n \in Nat, NEW block, NEW s, NEW entries, Agrees(t, n, block, s, entries),
           t[n + 1].what = "set" => BlockAfter(t, n) # block
    PROVE  Agrees(t, n + 1, block, s, entries)
<1>1. Said(t, n + 1, block, s) = Said(t, n, block, s)
  BY SaidMore
<1> QED
  BY <1>1 DEF Agrees

\* A statement and its entry, added together, keep text and list in agreement.
LEMMA AgreesMore ==
    ASSUME NEW t, NEW n \in Nat, NEW block, NEW s,
           NEW entries \in Seq(Entries), NEW e \in Entries,
           Agrees(t, n, block, s, entries),
           t[n + 1].what = "set", t[n + 1].name = e.name, t[n + 1].value = e.value,
           BlockAfter(t, n) = block
    PROVE  Agrees(t, n + 1, block, s, Append(entries, e))
<1> DEFINE more == Append(entries, e)
           S == Said(t, n, block, s)
           S1 == Said(t, n + 1, block, s)
           H == Held(entries, s)
           H1 == Held(more, s)
<1>1. S1 = IF e.name = s THEN S \cup {n + 1} ELSE S
  BY SaidMore
<1>2. H1 = IF e.name = s THEN H \cup {Len(entries) + 1} ELSE H
  BY HeldMore
<1>3. /\ Len(entries) \in Nat /\ more[Len(entries) + 1] = e
      /\ \A i \in H : i \in 1 .. Len(entries) /\ more[i] = entries[i]
  BY DEF Held
<1>4. \A k \in S : k \in 1 .. n
  BY DEF Said
<1>5. /\ S = {} <=> H = {}
      /\ \A k, i : Greatest(k, S) /\ Greatest(i, H) => entries[i].value = t[k].value
  BY DEF Agrees
<1> HIDE DEF more, S, S1, H, H1
<1>6. CASE e.name = s
  <2>1. \A k : Greatest(k, S1) => k = n + 1
    <3> SUFFICES ASSUME NEW k, k \in S1, \A j \in S1 : j <= k PROVE k = n + 1
      BY DEF Greatest
    <3>1. S1 = S \cup {n + 1}
      BY <1>1, <1>6
    <3>2. n + 1 <= k
      BY <3>1
    <3> QED
      BY <3>1, <3>2, <1>4
  <2>2. \A i : Greatest(i, H1) => i = Len(entries) + 1
    BY <1>2, <1>3, <1>6 DEF Greatest
  <2>3. S1 # {} /\ H1 # {}
    BY <1>1, <1>2, <1>6
  <2>4. \A k, i : Greatest(k, S1) /\ Greatest(i, H1) => more[i].value = t[k].value
    BY <2>1, <2>2, <1>3
  <2> QED
    BY <2>3, <2>4 DEF Agrees, S1, H1, more
<1>7. CASE e.name # s
  <2>1. S1 = S /\ H1 = H
    BY <1>1, <1>2, <1>7
  <2>2. \A i : Greatest(i, H) => more[i] = entries[i]
    BY <1>3 DEF Greatest
  <2>3. /\ S1 = {} <=> H1 = {}
        /\ \A k, i : Greatest(k, S1) /\ Greatest(i, H1) => more[i].value = t[k].value
    BY <2>1, <2>2, <1>5
  <2> QED
    BY <2>3 DEF Agrees, S1, H1, more
<1> QED
  BY <1>6, <1>7

-----------------------------------------------------------------------------
(* What the entries of a list make of a pass: the last one for a setting counts *)

\* What a setting of a pass can be.
Shown == Values \cup {Unset}
Showing == [Settings -> Shown]

With(pass, entry) == [pass EXCEPT ![entry.name] = entry.value]

Folded(pass, entries, f) ==
    f = [S \in SUBSET DOMAIN entries |->
            IF S = {} THEN pass
            ELSE With(f[S \ {Max(S)}], entries[Max(S)])]

\* What those in S make of it.
Result(pass, entries, S) ==
    [s \in Settings |->
        LET named == {j \in S : entries[j].name = s} IN
        IF named = {} THEN pass[s] ELSE entries[CHOOSE i : Greatest(i, named)].value]

\* Max, of the folds, is the greatest member.
LEMMA MaxIsGreatest ==
    ASSUME NEW n \in Nat, NEW S \in SUBSET (1 .. n), S # {}
    PROVE  Greatest(Max(S), S)
<1>1. \E k \in S : \A j \in S : k >= j
  BY GreatestExists
<1> QED
  BY <1>1 DEF Max, Greatest

\* There is only one.
LEMMA GreatestOnly ==
    ASSUME NEW S, S \subseteq Nat, NEW k, Greatest(k, S)
    PROVE  (CHOOSE i : Greatest(i, S)) = k
<1>1. Greatest(CHOOSE i : Greatest(i, S), S)
  OBVIOUS
<1>2. ASSUME NEW i, Greatest(i, S) PROVE i = k
  BY <1>2 DEF Greatest
<1> QED
  BY <1>1, <1>2

\* No entry changes nothing.
LEMMA ResultOfNone ==
    ASSUME NEW pass \in Showing, NEW entries
    PROVE  Result(pass, entries, {}) = pass
<1>1. \A s : {j \in {} : entries[j].name = s} = {}
  OBVIOUS
<1>2. Result(pass, entries, {}) = [s \in Settings |-> pass[s]]
  BY <1>1 DEF Result
<1> QED
  BY <1>2 DEF Showing

\* The last of the entries is applied to what the others make of a pass.
LEMMA ResultOfMore ==
    ASSUME NEW pass, NEW entries \in Seq(Entries),
           NEW S \in SUBSET DOMAIN entries, NEW m, Greatest(m, S)
    PROVE  Result(pass, entries, S) =
               With(Result(pass, entries, S \ {m}), entries[m])
<1> DEFINE Named(s, T) == {j \in T : entries[j].name = s}
           less == Result(pass, entries, S \ {m})
<1>1. /\ DOMAIN entries = 1 .. Len(entries) /\ S \subseteq Nat /\ m \in S
      /\ entries[m] \in Entries
  BY DEF Greatest
<1>2. less = [s \in Settings |->
                IF Named(s, S \ {m}) = {} THEN pass[s]
                ELSE entries[CHOOSE i : Greatest(i, Named(s, S \ {m}))].value]
  BY DEF Result
<1>3. Result(pass, entries, S) = [s \in Settings |->
                IF Named(s, S) = {} THEN pass[s]
                ELSE entries[CHOOSE i : Greatest(i, Named(s, S))].value]
  BY DEF Result
<1>4. ASSUME NEW s \in Settings, s # entries[m].name
      PROVE  Named(s, S) = Named(s, S \ {m})
  BY <1>4
<1>5. /\ Named(entries[m].name, S) # {}
      /\ (CHOOSE i : Greatest(i, Named(entries[m].name, S))) = m
  <2> DEFINE T == Named(entries[m].name, S)
  <2>1. T \subseteq Nat /\ m \in T /\ \A j \in T : j \in S
    BY <1>1
  <2> HIDE DEF T
  <2>2. Greatest(m, T)
    BY <2>1 DEF Greatest
  <2>3. T # {} /\ (CHOOSE i : Greatest(i, T)) = m
    BY <2>1, <2>2, GreatestOnly
  <2> QED
    BY <2>3 DEF T
<1>6. entries[m].name \in Settings
  BY <1>1 DEF Entries
<1> HIDE DEF Named
<1>7. ASSUME NEW s \in Settings
      PROVE  Result(pass, entries, S)[s] =
                 IF s = entries[m].name THEN entries[m].value ELSE less[s]
  <2>1. CASE s = entries[m].name
    BY <2>1, <1>3, <1>5
  <2>2. CASE s # entries[m].name
    <3>1. less[s] = IF Named(s, S \ {m}) = {} THEN pass[s]
                    ELSE entries[CHOOSE i : Greatest(i, Named(s, S \ {m}))].value
      BY <1>2
    <3>2. Result(pass, entries, S)[s] =
              IF Named(s, S) = {} THEN pass[s]
              ELSE entries[CHOOSE i : Greatest(i, Named(s, S))].value
      BY <1>3
    <3>3. Named(s, S) = Named(s, S \ {m})
      BY <1>4, <2>2
    <3> HIDE DEF less
    <3> QED
      BY <2>2, <3>1, <3>2, <3>3
  <2> QED
    BY <2>1, <2>2
<1> DEFINE r == Result(pass, entries, S)
<1>8. r = [s \in Settings |-> r[s]] /\ DOMAIN less = Settings
  BY <1>2, <1>3
<1> HIDE DEF less, r
<1>9. r = [less EXCEPT ![entries[m].name] = entries[m].value]
  BY <1>6, <1>7, <1>8 DEF r
<1> QED
  BY <1>9 DEF r, less, With

\* There is a function as the fold defines it.
LEMMA FoldedExists ==
    ASSUME NEW pass \in Showing, NEW entries \in Seq(Entries)
    PROVE  \E f : Folded(pass, entries, f)
<1> DEFINE f == [S \in SUBSET DOMAIN entries |-> Result(pass, entries, S)]
           g == [S \in SUBSET DOMAIN entries |->
                    IF S = {} THEN pass
                    ELSE With(f[S \ {Max(S)}], entries[Max(S)])]
<1>1. ASSUME NEW S \in SUBSET DOMAIN entries
      PROVE  f[S] = IF S = {} THEN pass
                    ELSE With(f[S \ {Max(S)}], entries[Max(S)])
  <2>1. CASE S = {}
    BY <2>1, ResultOfNone
  <2>2. CASE S # {}
    <3>1. S \in SUBSET (1 .. Len(entries)) /\ Len(entries) \in Nat
      OBVIOUS
    <3>2. PICK m : m = Max(S)
      OBVIOUS
    <3>3. Greatest(m, S)
      BY <2>2, <3>1, <3>2, MaxIsGreatest
    <3>4. Result(pass, entries, S) =
              With(Result(pass, entries, S \ {m}), entries[m])
      BY <3>3, ResultOfMore
    <3>5. f[S \ {m}] = Result(pass, entries, S \ {m}) /\ f[S] = Result(pass, entries, S)
      OBVIOUS
    <3> HIDE DEF f
    <3> QED
      BY <2>2, <3>2, <3>4, <3>5
  <2> QED
    BY <2>1, <2>2
<1>2. f = [S \in SUBSET DOMAIN entries |-> f[S]]
  OBVIOUS
<1>3. f = g
  <2>1. \A S \in SUBSET DOMAIN entries : f[S] = g[S]
    BY <1>1
  <2> HIDE DEF f
  <2> QED
    BY <1>2, <2>1
<1>4. Folded(pass, entries, f)
  BY <1>3 DEF Folded
<1> QED
  BY <1>4

\* What is folded is the result, for one more entry after the other.
LEMMA FoldedIs ==
    ASSUME NEW pass \in Showing, NEW entries \in Seq(Entries),
           NEW f, Folded(pass, entries, f)
    PROVE  f[DOMAIN entries] = Result(pass, entries, DOMAIN entries)
<1> DEFINE Wrong(m) == \E S \in SUBSET DOMAIN entries :
                           S \subseteq 1 .. m /\ f[S] # Result(pass, entries, S)
           W == {m \in Nat : Wrong(m)}
           R == OpToRel(<, Nat)
<1>1. SUFFICES ASSUME f[DOMAIN entries] # Result(pass, entries, DOMAIN entries)
               PROVE  FALSE
  OBVIOUS
<1>2. DOMAIN entries = 1 .. Len(entries) /\ Len(entries) \in Nat
  OBVIOUS
<1>3. W \subseteq Nat /\ Len(entries) \in W
  BY <1>1, <1>2
<1>4. \A x, y \in Nat : x < y => <<x, y>> \in R
  BY DEF OpToRel
<1>5. IsWellFoundedOn(R, Nat)
  BY NatLessThanWellFounded
<1> HIDE DEF W, R
<1>6. PICK m \in W : \A y \in W : <<y, m>> \notin R
  BY <1>3, <1>5, WFMin
<1>7. m \in Nat /\ Wrong(m)
  BY <1>6 DEF W
<1>8. PICK S \in SUBSET DOMAIN entries :
          S \subseteq 1 .. m /\ f[S] # Result(pass, entries, S)
  BY <1>7
<1>9. S # {}
  <2>1. f[{}] = pass
    BY DEF Folded
  <2> QED
    BY <2>1, <1>8, ResultOfNone
<1>10. PICK k : k = Max(S)
  OBVIOUS
<1>11. Greatest(k, S)
  BY <1>7, <1>8, <1>9, <1>10, MaxIsGreatest
<1>12. f[S] = With(f[S \ {k}], entries[k])
  BY <1>9, <1>10 DEF Folded
<1>13. f[S \ {k}] # Result(pass, entries, S \ {k})
  <2>1. Result(pass, entries, S) =
            With(Result(pass, entries, S \ {k}), entries[k])
    BY <1>11, ResultOfMore
  <2> QED
    BY <1>8, <1>12, <2>1
<1>14. k - 1 \in Nat /\ S \ {k} \subseteq 1 .. k - 1 /\ k - 1 < m
  BY <1>7, <1>8, <1>11 DEF Greatest
<1>15. k - 1 \in W
  BY <1>8, <1>13, <1>14 DEF W
<1> QED
  BY <1>4, <1>6, <1>7, <1>14, <1>15

\* Apply: the last entry for a setting decides, and without one it stays.
LEMMA ApplySays ==
    ASSUME NEW pass \in Showing, NEW entries \in Seq(Entries)
    PROVE  /\ Apply(pass, entries) \in Showing
           /\ \A s \in Settings :
                 /\ Held(entries, s) = {} => Apply(pass, entries)[s] = pass[s]
                 /\ \A i : Greatest(i, Held(entries, s)) =>
                              Apply(pass, entries)[s] = entries[i].value
<1> DEFINE f == CHOOSE g : Folded(pass, entries, g)
           r == Result(pass, entries, DOMAIN entries)
<1>1. Folded(pass, entries, f)
  BY FoldedExists
<1>2. Apply(pass, entries) = f[DOMAIN entries]
  BY Zenon DEF Apply, FoldLeft, MapThenFoldSet, Folded, With
<1>3. Apply(pass, entries) = r
  <2> HIDE DEF f
  <2> QED
    BY <1>1, <1>2, FoldedIs
<1>4. DOMAIN entries = 1 .. Len(entries) /\ Len(entries) \in Nat
  OBVIOUS
<1>5. \A i \in DOMAIN entries : entries[i].value \in Shown
  <2>1. \A e \in Entries : e.value \in Values
    BY DEF Entries
  <2> QED
    BY <1>4, <2>1 DEF Shown
<1>6. r = [s \in Settings |-> IF Held(entries, s) = {} THEN pass[s]
                              ELSE entries[CHOOSE i : Greatest(i, Held(entries, s))].value]
  BY DEF Result, Held
<1> HIDE DEF r
<1>7. ASSUME NEW s \in Settings
      PROVE  /\ Held(entries, s) = {} => r[s] = pass[s]
             /\ \A i : Greatest(i, Held(entries, s)) => r[s] = entries[i].value
             /\ r[s] \in Shown
  <2>1. Held(entries, s) \in SUBSET (1 .. Len(entries)) /\ Held(entries, s) \subseteq Nat
    BY <1>4 DEF Held
  <2>2. \A i : Greatest(i, Held(entries, s)) =>
                   (CHOOSE j : Greatest(j, Held(entries, s))) = i
    BY <2>1, GreatestOnly
  <2>3. Held(entries, s) # {} => \E i : Greatest(i, Held(entries, s))
    BY <1>4, <2>1, GreatestExists DEF Greatest
  <2>4. \A i : Greatest(i, Held(entries, s)) => Held(entries, s) # {} /\ i \in DOMAIN entries
    BY DEF Greatest, Held
  <2>5. /\ Held(entries, s) = {} => r[s] = pass[s]
        /\ \A i : Greatest(i, Held(entries, s)) => r[s] = entries[i].value
    BY <1>6, <2>2, <2>4
  <2> QED
    BY <1>5, <2>3, <2>4, <2>5 DEF Showing
<1> QED
  BY <1>3, <1>6, <1>7 DEF Showing

-----------------------------------------------------------------------------
(* Blocks and the tree *)

PassesIn(t, n, block) ==
    Cardinality({k \in 1 .. n : t[k].what = "pass" /\ BlockAfter(t, k - 1) = block})

\* The option lists that the first n statements begin.
Places(t, n) ==
    {list \in Seq(Nat) :
        \/ list = File
        \/ \E i \in 1 .. TechniquesAfter(t, n) :
              \/ list = <<i>>
              \/ \E p \in 1 .. PassesIn(t, n, <<i>>) : list = <<i, p>>}

\* Passes are counted from the beginning of their technique.
Numbered(t, n) ==
    /\ TechniquesAfter(t, n) > 0 =>
          PassesIn(t, n, <<TechniquesAfter(t, n)>>) = PassesAfter(t, n)
    /\ \A i \in Nat : i > TechniquesAfter(t, n) => PassesIn(t, n, <<i>>) = 0

\* What is known of sequences of one and two elements.
LEMMA Short ==
    /\ Len(<<>>) = 0
    /\ \A i : Len(<<i>>) = 1 /\ <<i>>[1] = i /\ DOMAIN <<i>> = {1}
    /\ \A i, j : Len(<<i, j>>) = 2 /\ <<i, j>>[1] = i /\ <<i, j>>[2] = j
    /\ \A i : <<i>> # <<>> /\ \A j : <<i, j>> # <<>>
    /\ \A i, j, k : <<i>> # <<j, k>>
    /\ \A i, j : <<i>> = <<j>> => i = j
    /\ \A i, j, k, l : <<i, j>> = <<k, l>> => i = k /\ j = l
    /\ \A i \in Nat : <<i>> \in Seq(Nat) /\ \A j \in Nat : <<i, j>> \in Seq(Nat)
<1>1. Len(<<>>) = 0
  OBVIOUS
<1>2. \A i : Len(<<i>>) = 1 /\ <<i>>[1] = i /\ DOMAIN <<i>> = {1}
  OBVIOUS
<1>3. \A i, j : Len(<<i, j>>) = 2 /\ <<i, j>>[1] = i /\ <<i, j>>[2] = j
  OBVIOUS
<1>4. \A i : <<i>> # <<>> /\ \A j : <<i, j>> # <<>>
  BY <1>1, <1>2, <1>3
<1>5. \A i, j, k : <<i>> # <<j, k>>
  BY <1>2, <1>3
<1>6. \A i, j : <<i>> = <<j>> => i = j
  BY <1>2
<1>7. \A i, j, k, l : <<i, j>> = <<k, l>> => i = k /\ j = l
  BY <1>3
<1>8. \A i \in Nat : <<i>> \in Seq(Nat) /\ \A j \in Nat : <<i, j>> \in Seq(Nat)
  OBVIOUS
<1> QED
  BY <1>1, <1>2, <1>3, <1>4, <1>5, <1>6, <1>7, <1>8

\* How the counts change from a text to one that continues it.
LEMMA AdvanceFrom ==
    ASSUME NEW t, NEW u, NEW n \in Nat, \A i \in 1 .. n : t[i] = u[i]
    PROVE  /\ TechniquesAfter(t, n) \in Nat /\ TechniquesAfter(t, n) <= n
           /\ PassesAfter(t, n) \in Nat /\ PassesAfter(t, n) <= n
           /\ DepthAfter(t, n) \in Int
           /\ u[n + 1].what = "technique" =>
                 /\ TechniquesAfter(u, n + 1) = TechniquesAfter(t, n) + 1
                 /\ PassesAfter(u, n + 1) = 0
                 /\ DepthAfter(u, n + 1) = DepthAfter(t, n) + 1
           /\ u[n + 1].what # "technique" =>
                 TechniquesAfter(u, n + 1) = TechniquesAfter(t, n)
           /\ u[n + 1].what = "pass" =>
                 /\ PassesAfter(u, n + 1) = PassesAfter(t, n) + 1
                 /\ DepthAfter(u, n + 1) = DepthAfter(t, n) + 1
           /\ u[n + 1].what \notin {"technique", "pass"} =>
                 PassesAfter(u, n + 1) = PassesAfter(t, n)
           /\ u[n + 1].what = "end" => DepthAfter(u, n + 1) = DepthAfter(t, n) - 1
           /\ u[n + 1].what = "set" => DepthAfter(u, n + 1) = DepthAfter(t, n)
<1>1. /\ TechniquesAfter(t, n) = TechniquesAfter(u, n)
      /\ PassesAfter(t, n) = PassesAfter(u, n)
      /\ DepthAfter(t, n) = DepthAfter(u, n)
  BY SameBefore
<1>2. /\ TechniquesAfter(u, n) \in Nat /\ TechniquesAfter(u, n) <= n
      /\ PassesAfter(u, n) \in Nat /\ PassesAfter(u, n) <= n
      /\ DepthAfter(u, n) \in Int
  BY Advance
<1>3. /\ TechniquesAfter(u, n + 1) =
            TechniquesAfter(u, n) + (IF u[n + 1].what = "technique" THEN 1 ELSE 0)
      /\ PassesAfter(u, n + 1) =
            IF u[n + 1].what = "technique" THEN 0
            ELSE PassesAfter(u, n) + (IF u[n + 1].what = "pass" THEN 1 ELSE 0)
      /\ DepthAfter(u, n + 1) =
            DepthAfter(u, n) + (IF u[n + 1].what \in {"technique", "pass"} THEN 1
                                ELSE IF u[n + 1].what = "end" THEN -1 ELSE 0)
  BY Advance
<1> QED
  BY <1>1, <1>2, <1>3

\* One more pass of a block is counted, or none.
LEMMA PassesSteps ==
    ASSUME NEW t, NEW u, NEW n \in Nat, \A i \in 1 .. n : t[i] = u[i], NEW block
    PROVE  /\ PassesIn(t, n, block) \in Nat /\ PassesIn(t, n, block) <= n
           /\ PassesIn(u, n, block) = PassesIn(t, n, block)
           /\ PassesIn(u, n + 1, block) =
                PassesIn(t, n, block) +
                    (IF u[n + 1].what = "pass" /\ BlockAfter(t, n) = block THEN 1 ELSE 0)
<1> DEFINE S == {k \in 1 .. n : t[k].what = "pass" /\ BlockAfter(t, k - 1) = block}
           U == {k \in 1 .. n : u[k].what = "pass" /\ BlockAfter(u, k - 1) = block}
           T == {k \in 1 .. n + 1 : u[k].what = "pass" /\ BlockAfter(u, k - 1) = block}
           more == u[n + 1].what = "pass" /\ BlockAfter(t, n) = block
<1>1. \A k \in 1 .. n + 1 : BlockAfter(t, k - 1) = BlockAfter(u, k - 1)
  <2> SUFFICES ASSUME NEW k \in 1 .. n + 1
               PROVE  BlockAfter(t, k - 1) = BlockAfter(u, k - 1)
    OBVIOUS
  <2>1. k - 1 \in Nat /\ \A i \in 1 .. k - 1 : t[i] = u[i]
    OBVIOUS
  <2> QED
    BY <2>1, SameBefore
<1>2. S \in SUBSET (1 .. n) /\ more \in BOOLEAN /\ S = U
  BY <1>1
<1>3. T = IF more THEN S \cup {n + 1} ELSE S
  <2>1. \A k : k \in 1 .. n + 1 <=> k \in 1 .. n \/ k = n + 1
    OBVIOUS
  <2>2. (n + 1) - 1 = n /\ n + 1 \in 1 .. n + 1
    OBVIOUS
  <2>3. BlockAfter(u, n) = BlockAfter(t, n)
    BY <1>1, <2>2
  <2>4. T = IF more THEN U \cup {n + 1} ELSE U
    BY <2>1, <2>2, <2>3
  <2> HIDE DEF T, U, S, more
  <2> QED
    BY <1>2, <2>4
<1> HIDE DEF S, U, T, more
<1>4. /\ Cardinality(S) \in Nat /\ Cardinality(S) <= n
      /\ Cardinality(T) = Cardinality(S) + (IF more THEN 1 ELSE 0)
  BY <1>2, <1>3, OneMoreRead
<1> QED
  BY <1>2, <1>4 DEF S, U, T, more, PassesIn

\* A statement that begins no pass leaves the passes as they are.
LEMMA PassesStay ==
    ASSUME NEW t, NEW u, NEW n \in Nat, \A i \in 1 .. n : t[i] = u[i],
           u[n + 1].what # "pass", NEW block
    PROVE  PassesIn(u, n + 1, block) = PassesIn(t, n, block)
<1>1. /\ PassesIn(t, n, block) \in Nat
      /\ PassesIn(u, n + 1, block) =
              PassesIn(t, n, block) +
                  (IF u[n + 1].what = "pass" /\ BlockAfter(t, n) = block THEN 1 ELSE 0)
  BY PassesSteps
<1> QED
  BY <1>1

\* A statement that sets something or ends a block begins no list.
LEMMA PlacesStay ==
    ASSUME NEW t, NEW u, NEW n \in Nat, \A i \in 1 .. n : t[i] = u[i],
           u[n + 1].what \notin {"technique", "pass"}, Numbered(t, n)
    PROVE  Places(u, n + 1) = Places(t, n) /\ Numbered(u, n + 1)
<1>1. /\ TechniquesAfter(u, n + 1) = TechniquesAfter(t, n)
      /\ PassesAfter(u, n + 1) = PassesAfter(t, n)
  BY AdvanceFrom
<1>2. \A block : PassesIn(u, n + 1, block) = PassesIn(t, n, block)
  BY PassesStay
<1> QED
  BY <1>1, <1>2 DEF Places, Numbered

\* A technique adds its own list, which is new.
LEMMA PlacesWithTechnique ==
    ASSUME NEW t, NEW u, NEW n \in Nat, \A i \in 1 .. n : t[i] = u[i],
           u[n + 1].what = "technique", Numbered(t, n)
    PROVE  /\ Places(u, n + 1) = Places(t, n) \cup {<<TechniquesAfter(t, n) + 1>>}
           /\ <<TechniquesAfter(t, n) + 1>> \notin Places(t, n)
           /\ Numbered(u, n + 1)
<1> DEFINE k == TechniquesAfter(t, n)
<1>0. /\ TechniquesAfter(t, n) \in Nat
      /\ TechniquesAfter(u, n + 1) = TechniquesAfter(t, n) + 1
      /\ PassesAfter(u, n + 1) = 0
  BY AdvanceFrom
<1>1. /\ TechniquesAfter(u, n + 1) = k + 1 /\ k \in Nat
      /\ PassesAfter(u, n + 1) = 0
  BY <1>0
<1>2. \A block : PassesIn(u, n + 1, block) = PassesIn(t, n, block)
  BY PassesStay
<1>3. \A i \in Nat : i > k => PassesIn(t, n, <<i>>) = 0
  BY DEF Numbered
<1> HIDE DEF k
<1>4. \A i : i \in 1 .. k + 1 <=> i \in 1 .. k \/ i = k + 1
  BY <1>1
<1>5. <<k + 1>> \in Seq(Nat) /\ PassesIn(t, n, <<k + 1>>) = 0 /\ k + 1 \in Nat /\ k + 1 > k
  BY <1>1, <1>3
<1>6. Numbered(u, n + 1)
  BY <1>1, <1>2, <1>3 DEF Numbered
<1>7. \A list : list \in Places(t, n) <=>
          /\ list \in Seq(Nat)
          /\ \/ list = File
             \/ \E i \in 1 .. k : \/ list = <<i>>
                                  \/ \E p \in 1 .. PassesIn(t, n, <<i>>) : list = <<i, p>>
  BY DEF Places, k
<1>8. \A list : list \in Places(u, n + 1) <=>
          /\ list \in Seq(Nat)
          /\ \/ list = File
             \/ \E i \in 1 .. k + 1 : \/ list = <<i>>
                                      \/ \E p \in 1 .. PassesIn(t, n, <<i>>) : list = <<i, p>>
  BY <1>1, <1>2 DEF Places
<1>9. ~ \E p \in 1 .. PassesIn(t, n, <<k + 1>>) : TRUE
  BY <1>5
<1>10. ASSUME NEW list
       PROVE  list \in Places(u, n + 1) <=> list \in Places(t, n) \/ list = <<k + 1>>
  <2> DEFINE Of(i) == \/ list = <<i>>
                      \/ \E p \in 1 .. PassesIn(t, n, <<i>>) : list = <<i, p>>
  <2>1. Of(k + 1) <=> list = <<k + 1>>
    BY <1>9
  <2>2. /\ list \in Places(t, n) <=>
              list \in Seq(Nat) /\ (list = File \/ \E i \in 1 .. k : Of(i))
        /\ list \in Places(u, n + 1) <=>
              list \in Seq(Nat) /\ (list = File \/ \E i \in 1 .. k + 1 : Of(i))
    BY <1>7, <1>8
  <2>3. list = <<k + 1>> => list \in Seq(Nat)
    BY <1>5
  <2> HIDE DEF Of
  <2> QED
    BY <1>4, <2>1, <2>2, <2>3
<1>11. <<k + 1>> \notin Places(t, n)
  <2> SUFFICES ASSUME <<k + 1>> \in Places(t, n) PROVE FALSE
    OBVIOUS
  <2>1. \E i \in 1 .. k : <<k + 1>> = <<i>>
    BY <1>7, Short DEF File
  <2> QED
    BY <1>1, <2>1, Short
<1> QED
  BY <1>6, <1>10, <1>11 DEF k

\* A pass adds its own list to those of its technique.
LEMMA PlacesWithPass ==
    ASSUME NEW t, NEW u, NEW n \in Nat, \A i \in 1 .. n : t[i] = u[i],
           u[n + 1].what = "pass", Numbered(t, n),
           TechniquesAfter(t, n) > 0, BlockAfter(t, n) = <<TechniquesAfter(t, n)>>
    PROVE  LET new == <<TechniquesAfter(t, n), PassesAfter(t, n) + 1>> IN
           /\ Places(u, n + 1) = Places(t, n) \cup {new}
           /\ new \notin Places(t, n)
           /\ Numbered(u, n + 1)
<1> DEFINE k == TechniquesAfter(t, n)
           q == PassesAfter(t, n)
           new == <<k, q + 1>>
<1>0. /\ TechniquesAfter(t, n) \in Nat /\ PassesAfter(t, n) \in Nat
      /\ TechniquesAfter(u, n + 1) = TechniquesAfter(t, n)
      /\ PassesAfter(u, n + 1) = PassesAfter(t, n) + 1
  BY AdvanceFrom
<1>1. /\ TechniquesAfter(u, n + 1) = k /\ k \in Nat
      /\ PassesAfter(u, n + 1) = q + 1 /\ q \in Nat
  BY <1>0
<1>2. /\ PassesIn(t, n, <<k>>) = q
      /\ \A i \in Nat : i > k => PassesIn(t, n, <<i>>) = 0
  BY DEF Numbered
<1>3. BlockAfter(t, n) = <<k>> /\ k > 0
  OBVIOUS
<1>4. \A i : /\ PassesIn(t, n, <<i>>) \in Nat
             /\ PassesIn(u, n + 1, <<i>>) =
                    PassesIn(t, n, <<i>>) + (IF i = k THEN 1 ELSE 0)
  <2> SUFFICES ASSUME NEW i
               PROVE  /\ PassesIn(t, n, <<i>>) \in Nat
                      /\ PassesIn(u, n + 1, <<i>>) =
                             PassesIn(t, n, <<i>>) + (IF i = k THEN 1 ELSE 0)
    OBVIOUS
  <2>1. PICK block : block = <<i>>
    OBVIOUS
  <2>2. /\ PassesIn(t, n, block) \in Nat
        /\ PassesIn(u, n + 1, block) =
                PassesIn(t, n, block) +
                    (IF u[n + 1].what = "pass" /\ BlockAfter(t, n) = block THEN 1 ELSE 0)
    BY PassesSteps
  <2>3. BlockAfter(t, n) = block <=> i = k
    BY <1>3, <2>1, Short
  <2> QED
    BY <2>1, <2>2, <2>3
<1>5. \A list : list \in Places(t, n) <=>
          /\ list \in Seq(Nat)
          /\ \/ list = File
             \/ \E i \in 1 .. k : \/ list = <<i>>
                                  \/ \E p \in 1 .. PassesIn(t, n, <<i>>) : list = <<i, p>>
  BY DEF Places
<1>6. \A list : list \in Places(u, n + 1) <=>
          /\ list \in Seq(Nat)
          /\ \/ list = File
             \/ \E i \in 1 .. k : \/ list = <<i>>
                                  \/ \E p \in 1 .. PassesIn(u, n + 1, <<i>>) : list = <<i, p>>
  BY <1>1 DEF Places
<1> HIDE DEF k, q
<1>7. Numbered(u, n + 1)
  BY <1>1, <1>2, <1>4 DEF Numbered
<1>8. ASSUME NEW list
      PROVE  list \in Places(u, n + 1) <=> list \in Places(t, n) \/ list = new
  <2>1. \A i : i # k => PassesIn(u, n + 1, <<i>>) = PassesIn(t, n, <<i>>)
    BY <1>4
  <2>2. PassesIn(u, n + 1, <<k>>) = q + 1
    BY <1>2, <1>4
  <2>3. \A p : p \in 1 .. q + 1 <=> p \in 1 .. q \/ p = q + 1
    BY <1>1
  <2>4. k \in 1 .. k /\ new \in Seq(Nat)
    BY <1>1, <1>3
  <2>5. \A i \in 1 .. k :
            (\E p \in 1 .. PassesIn(u, n + 1, <<i>>) : list = <<i, p>>) <=>
                (\E p \in 1 .. PassesIn(t, n, <<i>>) : list = <<i, p>>) \/ (i = k /\ list = new)
    BY <2>1, <2>2, <2>3, <1>2
  <2> DEFINE Old(i) == \E p \in 1 .. PassesIn(t, n, <<i>>) : list = <<i, p>>
             New(i) == \E p \in 1 .. PassesIn(u, n + 1, <<i>>) : list = <<i, p>>
  <2>6. list \in Places(t, n) <=>
            list \in Seq(Nat) /\ (list = File \/ \E i \in 1 .. k : list = <<i>> \/ Old(i))
    BY <1>5
  <2>7. list \in Places(u, n + 1) <=>
            list \in Seq(Nat) /\ (list = File \/ \E i \in 1 .. k : list = <<i>> \/ New(i))
    BY <1>6
  <2>8. \A i \in 1 .. k : New(i) <=> Old(i) \/ (i = k /\ list = new)
    BY <2>5
  <2> HIDE DEF new, Old, New
  <2> QED
    BY <2>4, <2>6, <2>7, <2>8
<1>9. new \notin Places(t, n)
  <2> SUFFICES ASSUME new \in Places(t, n) PROVE FALSE
    OBVIOUS
  <2>1. PICK i \in 1 .. k : \E p \in 1 .. PassesIn(t, n, <<i>>) : new = <<i, p>>
    BY <1>5, Short DEF File
  <2>2. PICK p \in 1 .. PassesIn(t, n, <<i>>) : new = <<i, p>>
    BY <2>1
  <2>3. i = k /\ p = q + 1
    BY <2>2, Short
  <2> QED
    BY <1>1, <1>2, <2>2, <2>3
<1> QED
  BY <1>7, <1>8, <1>9 DEF k, q

-----------------------------------------------------------------------------
(* The invariant *)

Types ==
    /\ floatValues \in Seq(Numbers)
    /\ reading \in Readings \cup {Unset}
    /\ phase \in {"parse", "build", "failed", "loaded"}
    /\ material \in Seq(Seq([Settings -> Values \cup {Unset}]))

\* The context stands where the brackets of the text say.
StandsAt(t, n, lists, technique, pass) ==
    LET k == TechniquesAfter(t, n)
        p == PassesAfter(t, n)
    IN
    \/ /\ DepthAfter(t, n) = 0
       /\ technique = Unset /\ pass = Unset /\ lists = <<File>>
    \/ /\ DepthAfter(t, n) = 1 /\ k > 0
       /\ technique = <<k>> /\ pass = Unset /\ lists = <<File, <<k>>>>
    \/ /\ DepthAfter(t, n) = 2 /\ k > 0 /\ p > 0
       /\ technique = <<k>> /\ pass = <<k, p>> /\ lists = <<File, <<k>>, <<k, p>>>>

Standing == StandsAt(text, Len(text), optionLists, currentTechnique, currentPass)

TextRead ==
    /\ text \in Seq(Statements)
    /\ Len(text) <= MaxText

\* The tree has the lists that the text begins.
Grows(t, n, lists) ==
    /\ lists = Places(t, n) /\ Numbered(t, n)
    /\ \A k \in 1 .. n : t[k].what = "set" => BlockAfter(t, k - 1) \in lists

Shape ==
    /\ Grows(text, Len(text), DOMAIN tree)
    /\ \A list \in DOMAIN tree : tree[list] \in Seq(Entries)

\* They hold what has been set, except what is being read.
Contents ==
    LET n == IF reading = Unset THEN Len(text) ELSE Len(text) - 1 IN
    \A list \in DOMAIN tree, s \in Settings : Agrees(text, n, list, s, tree[list])

ReadingNow ==
    IF reading = Unset
    THEN stringValues = <<>> /\ uniformValue = Unset
    ELSE LET statement == text[Len(text)] IN
         /\ text # <<>> /\ statement.what = "set" /\ statement.name \in Uniforms
         /\ statement.value = reading.value
         /\ stringValues = <<statement.name>>
         /\ uniformValue = IF reading.rule = Matched THEN reading.value ELSE Unset

Built ==
    /\ phase \in {"parse", "failed"} => material = <<>>
    /\ phase \in {"build", "loaded"} => reading = Unset /\ currentTechnique = Unset
    /\ Len(material) <= TechniquesAfter(text, Len(text))
    /\ phase = "loaded" => Len(material) = TechniquesAfter(text, Len(text))
    /\ \A i \in DOMAIN material :
          /\ Len(material[i]) = PassesIn(text, Len(text), <<i>>)
          /\ \A p \in DOMAIN material[i] : material[i][p] = BuildPass(<<i, p>>)

ParserInv == Types /\ TextRead /\ Standing /\ Shape /\ Contents /\ ReadingNow /\ Built

\* The invariant holds before the file is read.
LEMMA ParserInitially == ParserInit => ParserInv
<1> SUFFICES ASSUME ParserInit PROVE ParserInv
  OBVIOUS
<1>0. /\ text = <<>> /\ Len(text) = 0 /\ reading = Unset /\ phase = "parse" /\ material = <<>>
      /\ optionLists = <<File>> /\ currentTechnique = Unset /\ currentPass = Unset
      /\ stringValues = <<>> /\ uniformValue = Unset /\ floatValues = <<>>
      /\ tree = [list \in {File} |-> <<>>]
  BY DEF ParserInit
<1>1. Types
  BY <1>0 DEF Types
<1>2. TextRead
  BY <1>0, ParserAssumption DEF TextRead
<1>3. /\ TechniquesAfter(text, 0) = 0 /\ PassesAfter(text, 0) = 0 /\ DepthAfter(text, 0) = 0
  BY AtStart
<1>4. Standing
  BY <1>0, <1>3 DEF Standing, StandsAt
<1>5. \A block : PassesIn(text, 0, block) = 0
  <2>1. \A block : {k \in 1 .. 0 : text[k].what = "pass" /\ BlockAfter(text, k - 1) = block} = {}
    OBVIOUS
  <2> QED
    BY <2>1, FS_EmptySet DEF PassesIn
<1>6. Shape
  <2>1. DOMAIN tree = {File}
    BY <1>0
  <2>2. Places(text, 0) = {File}
    <3>1. <<>> \in Seq(Nat) /\ ~ \E i \in 1 .. 0 : TRUE
      OBVIOUS
    <3> QED
      BY <1>3, <3>1 DEF Places, File
  <2>3. Numbered(text, 0)
    BY <1>3, <1>5 DEF Numbered
  <2>4. \A k \in 1 .. 0 : FALSE
    OBVIOUS
  <2>5. \A list \in DOMAIN tree : tree[list] \in Seq(Entries)
    BY <1>0
  <2> QED
    BY <1>0, <2>1, <2>2, <2>3, <2>4, <2>5 DEF Shape, Grows
<1>7. Contents
  <2>1. \A block, s : Said(text, 0, block, s) = {}
    BY DEF Said
  <2>2. \A s : Held(<<>>, s) = {}
    BY DEF Held
  <2>3. \A list \in DOMAIN tree : tree[list] = <<>>
    BY <1>0
  <2> QED
    BY <1>0, <2>1, <2>2, <2>3 DEF Contents, Agrees, Greatest
<1>8. ReadingNow
  BY <1>0 DEF ReadingNow
<1>9. Built
  BY <1>0, <1>3 DEF Built
<1> QED
  BY <1>1, <1>2, <1>4, <1>6, <1>7, <1>8, <1>9 DEF ParserInv

\* What a statement does to the text.
LEMMA StatementRead ==
    ASSUME ParserInv, NEW st \in Statements, Statement(st)
    PROVE  /\ Len(text) \in Nat /\ Len(text') = Len(text) + 1
           /\ text'[Len(text) + 1] = st
           /\ \A i \in 1 .. Len(text) : text[i] = text'[i]
           /\ TextRead' /\ phase = "parse" /\ reading = Unset /\ material = <<>>
           /\ Len(text) + 1 <= MaxText
<1>1. text \in Seq(Statements) /\ text' = Append(text, st) /\ Len(text) < MaxText
  BY DEF ParserInv, TextRead, Statement
<1>2. MaxText \in Nat
  BY ParserAssumption
<1>3. /\ Len(text) \in Nat /\ Len(text') = Len(text) + 1
      /\ text'[Len(text) + 1] = st
      /\ \A i \in 1 .. Len(text) : text[i] = text'[i]
      /\ text' \in Seq(Statements)
  BY <1>1
<1>4. TextRead'
  BY <1>1, <1>2, <1>3 DEF TextRead
<1> QED
  BY <1>1, <1>2, <1>3, <1>4 DEF Statement, ParserInv, Built

\* What is set is set in a block that has a list.
LEMMA KnownBlocks ==
    ASSUME NEW t, NEW u, NEW n \in Nat, \A i \in 1 .. n : t[i] = u[i], NEW lists, NEW more,
           \A k \in 1 .. n : t[k].what = "set" => BlockAfter(t, k - 1) \in lists,
           lists \subseteq more, u[n + 1].what = "set" => BlockAfter(t, n) \in more
    PROVE  \A k \in 1 .. n + 1 : u[k].what = "set" => BlockAfter(u, k - 1) \in more
<1> SUFFICES ASSUME NEW k \in 1 .. n + 1, u[k].what = "set"
             PROVE  BlockAfter(u, k - 1) \in more
  OBVIOUS
<1>1. k - 1 \in Nat /\ \A i \in 1 .. k - 1 : t[i] = u[i]
  OBVIOUS
<1>2. BlockAfter(t, k - 1) = BlockAfter(u, k - 1)
  BY <1>1, SameBefore
<1>3. CASE k \in 1 .. n
  BY <1>2, <1>3
<1>4. CASE k = n + 1
  <2>1. k - 1 = n
    BY <1>4
  <2> QED
    BY <1>2, <1>4, <2>1
<1> QED
  BY <1>3, <1>4

\* The list that is open is the block that the text is in, and one of the tree's.
LEMMA Here ==
    ASSUME ParserInv
    PROVE  /\ Len(text) \in Nat /\ optionLists # <<>>
           /\ Last(optionLists) = BlockAfter(text, Len(text))
           /\ Last(optionLists) \in DOMAIN tree
           /\ optionLists \in Seq(DOMAIN tree)
           /\ TechniquesAfter(text, Len(text)) \in Nat
           /\ TechniquesAfter(text, Len(text)) <= MaxText
           /\ PassesAfter(text, Len(text)) \in Nat
           /\ PassesAfter(text, Len(text)) <= MaxText
<1> DEFINE n == Len(text)
           k == TechniquesAfter(text, n)
           p == PassesAfter(text, n)
<1>1. n \in Nat /\ n <= MaxText /\ MaxText \in Nat
  BY ParserAssumption DEF ParserInv, TextRead
<1>2. k \in Nat /\ p \in Nat /\ k <= MaxText /\ p <= MaxText
  <2>1. /\ TechniquesAfter(text, n) \in Nat /\ TechniquesAfter(text, n) <= n
        /\ PassesAfter(text, n) \in Nat /\ PassesAfter(text, n) <= n
    BY <1>1, Advance
  <2> HIDE DEF n
  <2> QED
    BY <1>1, <2>1
<1>3. /\ DepthAfter(text, n) = 0 => BlockAfter(text, n) = File
      /\ DepthAfter(text, n) = 1 => BlockAfter(text, n) = <<k>>
      /\ DepthAfter(text, n) = 2 => BlockAfter(text, n) = <<k, p>>
  BY <1>1, BlockByDepth
<1>4. /\ DOMAIN tree = Places(text, n) /\ Numbered(text, n)
  BY DEF ParserInv, Shape, Grows
<1>5. File \in DOMAIN tree
  BY <1>4, Short DEF Places, File
<1>6. k > 0 => <<k>> \in DOMAIN tree
  <2> SUFFICES ASSUME k > 0 PROVE <<k>> \in DOMAIN tree
    OBVIOUS
  <2>1. k \in 1 .. k /\ <<k>> \in Seq(Nat)
    BY <1>2
  <2> QED
    BY <1>4, <2>1 DEF Places
<1>7. k > 0 /\ p > 0 => <<k, p>> \in DOMAIN tree
  <2> SUFFICES ASSUME k > 0, p > 0 PROVE <<k, p>> \in DOMAIN tree
    OBVIOUS
  <2>1. k \in 1 .. k /\ p \in 1 .. p /\ <<k, p>> \in Seq(Nat)
    BY <1>2
  <2>2. PassesIn(text, n, <<k>>) = p
    BY <1>4 DEF Numbered
  <2> QED
    BY <1>4, <2>1, <2>2 DEF Places
<1>8. Standing
  BY DEF ParserInv
<1> HIDE DEF n, k, p
<1>9. CASE DepthAfter(text, n) = 0
  <2>1. optionLists = <<File>>
    BY <1>8, <1>9 DEF Standing, StandsAt, n
  <2> QED
    BY <1>1, <1>2, <1>3, <1>5, <1>9, <2>1 DEF Last, n, k, p
<1>10. CASE DepthAfter(text, n) = 1
  <2>1. optionLists = <<File, <<k>>>> /\ k > 0
    BY <1>8, <1>10 DEF Standing, StandsAt, n, k
  <2> QED
    BY <1>1, <1>2, <1>3, <1>5, <1>6, <1>10, <2>1 DEF Last, n, k, p
<1>11. CASE DepthAfter(text, n) = 2
  <2>1. optionLists = <<File, <<k>>, <<k, p>>>> /\ k > 0 /\ p > 0
    BY <1>8, <1>11 DEF Standing, StandsAt, n, k, p
  <2> QED
    BY <1>1, <1>2, <1>3, <1>5, <1>6, <1>7, <1>11, <2>1 DEF Last, n, k, p
<1> QED
  BY <1>8, <1>9, <1>10, <1>11 DEF Standing, StandsAt, n

\* The invariant implies the types.
LEMMA TypesHold == ParserInv => ParserTypeOK
<1> SUFFICES ASSUME ParserInv PROVE ParserTypeOK
  OBVIOUS
<1>1. Types
  BY DEF ParserInv
<1>2. /\ Len(text) \in Nat /\ optionLists # <<>>
      /\ optionLists \in Seq(DOMAIN tree)
      /\ TechniquesAfter(text, Len(text)) \in Nat
      /\ TechniquesAfter(text, Len(text)) <= MaxText
      /\ PassesAfter(text, Len(text)) \in Nat
      /\ PassesAfter(text, Len(text)) <= MaxText
  BY Here
<1>3. /\ currentTechnique \in {<<t>> : t \in 1 .. MaxText} \cup {Unset}
      /\ currentPass \in (1 .. MaxText) \X (1 .. MaxText) \cup {Unset}
  <2> DEFINE k == TechniquesAfter(text, Len(text))
             p == PassesAfter(text, Len(text))
  <2>1. \/ currentTechnique = Unset /\ currentPass = Unset
        \/ currentTechnique = <<k>> /\ currentPass = Unset /\ k > 0
        \/ currentTechnique = <<k>> /\ currentPass = <<k, p>> /\ k > 0 /\ p > 0
    BY DEF ParserInv, Standing, StandsAt
  <2>2. MaxText \in Nat /\ k \in Nat /\ k <= MaxText /\ p \in Nat /\ p <= MaxText
    BY <1>2, ParserAssumption
  <2> HIDE DEF k, p
  <2>3. k > 0 => k \in 1 .. MaxText
    BY <2>2
  <2>4. p > 0 => p \in 1 .. MaxText
    BY <2>2
  <2> QED
    BY <2>1, <2>3, <2>4
<1>4. /\ stringValues \in Seq(Uniforms)
      /\ uniformValue \in Values \cup {Unset}
  <2>1. ReadingNow /\ reading \in Readings \cup {Unset}
    BY DEF ParserInv, Types
  <2>2. CASE reading = Unset
    BY <2>1, <2>2 DEF ReadingNow
  <2>3. CASE reading # Unset
    <3>1. reading \in Readings
      BY <2>1, <2>3
    <3>2. reading.value \in Values
      BY <3>1 DEF Readings, Reading, Values
    <3>3. text[Len(text)].name \in Uniforms /\ stringValues = <<text[Len(text)].name>>
      BY <2>1, <2>3 DEF ReadingNow
    <3>4. uniformValue \in {reading.value, Unset}
      BY <2>1, <2>3 DEF ReadingNow
    <3> QED
      BY <3>2, <3>3, <3>4
  <2> QED
    BY <2>2, <2>3
<1>5. \A list \in DOMAIN tree : tree[list] \in Seq([name : Settings, value : Values])
  BY DEF ParserInv, Shape, Entries
<1> QED
  BY <1>1, <1>2, <1>3, <1>4, <1>5 DEF ParserTypeOK, Types

-----------------------------------------------------------------------------
(* Statements that set an option, and the beginning of those that set a uniform *)

\* How one more statement moves the counts.
LEMMA StatementCounts ==
    ASSUME ParserInv, NEW st \in Statements, Statement(st)
    PROVE  LET n == Len(text)
               m == Len(text')
           IN
           /\ n \in Nat
           /\ TechniquesAfter(text, n) \in Nat /\ PassesAfter(text, n) \in Nat
           /\ DepthAfter(text, n) \in Int
           /\ st.what = "technique" =>
                 /\ TechniquesAfter(text', m) = TechniquesAfter(text, n) + 1
                 /\ PassesAfter(text', m) = 0
                 /\ DepthAfter(text', m) = DepthAfter(text, n) + 1
           /\ st.what # "technique" => TechniquesAfter(text', m) = TechniquesAfter(text, n)
           /\ st.what = "pass" =>
                 /\ PassesAfter(text', m) = PassesAfter(text, n) + 1
                 /\ DepthAfter(text', m) = DepthAfter(text, n) + 1
           /\ st.what \notin {"technique", "pass"} =>
                 PassesAfter(text', m) = PassesAfter(text, n)
           /\ st.what = "end" => DepthAfter(text', m) = DepthAfter(text, n) - 1
           /\ st.what = "set" => DepthAfter(text', m) = DepthAfter(text, n)
<1> DEFINE n == Len(text)
<1>1. /\ n \in Nat /\ Len(text') = n + 1 /\ text'[n + 1] = st
      /\ \A i \in 1 .. n : text[i] = text'[i]
  BY StatementRead
<1>2. PICK u : u = text'
  OBVIOUS
<1>3. /\ TechniquesAfter(text, n) \in Nat /\ PassesAfter(text, n) \in Nat
      /\ DepthAfter(text, n) \in Int
      /\ u[n + 1].what = "technique" =>
            /\ TechniquesAfter(u, n + 1) = TechniquesAfter(text, n) + 1
            /\ PassesAfter(u, n + 1) = 0
            /\ DepthAfter(u, n + 1) = DepthAfter(text, n) + 1
      /\ u[n + 1].what # "technique" => TechniquesAfter(u, n + 1) = TechniquesAfter(text, n)
      /\ u[n + 1].what = "pass" =>
            /\ PassesAfter(u, n + 1) = PassesAfter(text, n) + 1
            /\ DepthAfter(u, n + 1) = DepthAfter(text, n) + 1
      /\ u[n + 1].what \notin {"technique", "pass"} =>
            PassesAfter(u, n + 1) = PassesAfter(text, n)
      /\ u[n + 1].what = "end" => DepthAfter(u, n + 1) = DepthAfter(text, n) - 1
      /\ u[n + 1].what = "set" => DepthAfter(u, n + 1) = DepthAfter(text, n)
  BY <1>1, <1>2, AdvanceFrom
<1>4. u[n + 1] = st
  BY <1>1, <1>2
<1> QED
  BY <1>1, <1>2, <1>3, <1>4

\* Depth, technique and pass stay when something is set.
LEMMA StandingStays ==
    ASSUME ParserInv, NEW st \in Statements, Statement(st), st.what = "set",
           UNCHANGED <<optionLists, currentTechnique, currentPass>>
    PROVE  Standing'
<1> DEFINE n == Len(text)
<1>1. /\ n \in Nat /\ Len(text') = n + 1 /\ text'[n + 1] = st
      /\ \A i \in 1 .. n : text[i] = text'[i]
  BY StatementRead
<1>2. /\ TechniquesAfter(text', Len(text')) = TechniquesAfter(text, n)
      /\ PassesAfter(text', Len(text')) = PassesAfter(text, n)
      /\ DepthAfter(text', Len(text')) = DepthAfter(text, n)
  BY StatementCounts
<1>3. StandsAt(text, n, optionLists, currentTechnique, currentPass)
  BY DEF ParserInv, Standing
<1>4. StandsAt(text', Len(text'), optionLists, currentTechnique, currentPass)
  BY <1>2, <1>3 DEF StandsAt
<1>5. StandsAt(text', Len(text'), optionLists', currentTechnique', currentPass')
  BY <1>4
<1> QED
  BY <1>5 DEF Standing

\* So do the places of the tree.
LEMMA GrowsStill ==
    ASSUME ParserInv, NEW st \in Statements, Statement(st), st.what \in {"set", "end"}
    PROVE  Grows(text', Len(text'), DOMAIN tree)
<1> DEFINE n == Len(text)
<1>1. /\ n \in Nat /\ Len(text') = n + 1 /\ text'[n + 1] = st
      /\ \A i \in 1 .. n : text[i] = text'[i]
  BY StatementRead
<1>2. /\ DOMAIN tree = Places(text, n) /\ Numbered(text, n)
      /\ \A k \in 1 .. n : text[k].what = "set" => BlockAfter(text, k - 1) \in DOMAIN tree
  BY DEF ParserInv, Shape, Grows
<1>3. text'[n + 1].what \notin {"technique", "pass"}
  BY <1>1
<1>4. Places(text', n + 1) = Places(text, n) /\ Numbered(text', n + 1)
  BY <1>1, <1>2, <1>3, PlacesStay
<1>5. BlockAfter(text, n) \in DOMAIN tree
  BY Here
<1>6. \A k \in 1 .. n + 1 : text'[k].what = "set" => BlockAfter(text', k - 1) \in DOMAIN tree
  <2>1. PICK lists : lists = DOMAIN tree
    OBVIOUS
  <2> HIDE DEF n
  <2>2. /\ \A k \in 1 .. n : text[k].what = "set" => BlockAfter(text, k - 1) \in lists
        /\ BlockAfter(text, n) \in lists /\ lists \subseteq lists
    BY <1>2, <1>5, <2>1
  <2>3. \A k \in 1 .. n + 1 : text'[k].what = "set" => BlockAfter(text', k - 1) \in lists
    BY <1>1, <2>2, KnownBlocks
  <2> QED
    BY <2>1, <2>3
<1> QED
  BY <1>1, <1>2, <1>4, <1>6 DEF Grows

\* An entry for the last statement catches up with the text.
LEMMA Emitted ==
    ASSUME NEW t, NEW n \in Nat, NEW tr, NEW list \in DOMAIN tr, NEW e \in Entries,
           \A l \in DOMAIN tr : tr[l] \in Seq(Entries),
           \A l \in DOMAIN tr, s \in Settings : Agrees(t, n, l, s, tr[l]),
           t[n + 1].what = "set", t[n + 1].name = e.name, t[n + 1].value = e.value,
           BlockAfter(t, n) = list
    PROVE  LET new == [tr EXCEPT ![list] = Append(@, e)] IN
           /\ DOMAIN new = DOMAIN tr
           /\ \A l \in DOMAIN new : new[l] \in Seq(Entries)
           /\ \A l \in DOMAIN new, s \in Settings : Agrees(t, n + 1, l, s, new[l])
<1> DEFINE new == [tr EXCEPT ![list] = Append(@, e)]
<1>1. /\ DOMAIN new = DOMAIN tr
      /\ \A l \in DOMAIN tr : new[l] = IF l = list THEN Append(tr[list], e) ELSE tr[l]
  OBVIOUS
<1>2. tr[list] \in Seq(Entries) /\ Append(tr[list], e) \in Seq(Entries)
  OBVIOUS
<1> HIDE DEF new
<1>3. \A l \in DOMAIN new : new[l] \in Seq(Entries)
  BY <1>1, <1>2
<1>4. ASSUME NEW l \in DOMAIN new, NEW s \in Settings
      PROVE  Agrees(t, n + 1, l, s, new[l])
  <2>1. PICK entries \in Seq(Entries) : entries = tr[l]
    BY <1>1
  <2>2. Agrees(t, n, l, s, entries)
    BY <1>1, <2>1
  <2>3. CASE l = list
    <3>1. Agrees(t, n + 1, l, s, Append(entries, e))
      BY <2>2, <2>3, AgreesMore
    <3> QED
      BY <1>1, <2>1, <2>3, <3>1
  <2>4. CASE l # list
    <3>1. Agrees(t, n + 1, l, s, entries)
      BY <2>2, <2>4, AgreesStill
    <3> QED
      BY <1>1, <2>1, <2>4, <3>1
  <2> QED
    BY <2>3, <2>4
<1> QED
  BY <1>1, <1>3, <1>4 DEF new

\* While the file is read no material is built.
LEMMA NothingBuilt ==
    ASSUME Len(text') \in Nat, phase' \in {"parse", "failed"}, material' = <<>>
    PROVE  Built'
<1>1. PICK t : t = text'
  OBVIOUS
<1>2. TechniquesAfter(t, Len(t)) \in Nat
  BY <1>1, Advance
<1> QED
  BY <1>1, <1>2 DEF Built

\* Option: the entry is made with the statement.
LEMMA OptionStep ==
    ASSUME ParserInv, NEW o \in Options, NEW v \in OptionValues, Option(o, v)
    PROVE  ParserInv'
<1> DEFINE n == Len(text)
           e == [name |-> o, value |-> v]
           list == Last(optionLists)
<1>1. PICK st : st = [what |-> "set", name |-> o, value |-> v]
  OBVIOUS
<1>2. st \in Statements /\ Statement(st) /\ st.what = "set" /\ st.name = o /\ st.value = v
  BY <1>1 DEF Option, Statements, Settings, Values
<1>3. /\ n \in Nat /\ Len(text') = n + 1 /\ text'[n + 1] = st
      /\ \A i \in 1 .. n : text[i] = text'[i]
      /\ TextRead' /\ phase = "parse" /\ reading = Unset /\ material = <<>>
  BY <1>2, StatementRead
<1>4. /\ tree' = [tree EXCEPT ![list] = Append(@, e)]
      /\ UNCHANGED <<floatValues, stringValues, uniformValue>>
      /\ UNCHANGED <<optionLists, currentTechnique, currentPass>>
      /\ UNCHANGED reading /\ UNCHANGED phase /\ UNCHANGED material
  BY DEF Option, Emit, stacks
<1>5. Types'
  BY <1>4 DEF ParserInv, Types
<1>6. Standing'
  BY <1>2, <1>4, StandingStays
<1>7. e \in Entries /\ list \in DOMAIN tree /\ list = BlockAfter(text, n)
  BY Here DEF Entries, Settings, Values
<1>8. BlockAfter(text', n) = list
  BY <1>3, <1>7, SameBefore
<1>9. /\ \A l \in DOMAIN tree : tree[l] \in Seq(Entries)
      /\ \A l \in DOMAIN tree, s \in Settings : Agrees(text', n, l, s, tree[l])
  <2>1. /\ \A l \in DOMAIN tree : tree[l] \in Seq(Entries)
        /\ \A l \in DOMAIN tree, s \in Settings : Agrees(text, n, l, s, tree[l])
    BY <1>3 DEF ParserInv, Shape, Contents
  <2> QED
    BY <1>3, <2>1, AgreesBefore
<1>10. /\ DOMAIN tree' = DOMAIN tree
       /\ \A l \in DOMAIN tree' : tree'[l] \in Seq(Entries)
       /\ \A l \in DOMAIN tree', s \in Settings : Agrees(text', n + 1, l, s, tree'[l])
  <2>1. /\ text'[n + 1].what = "set" /\ text'[n + 1].name = e.name
        /\ text'[n + 1].value = e.value
    BY <1>2, <1>3
  <2>2. PICK t, tr : t = text' /\ tr = tree
    OBVIOUS
  <2>3. PICK new : new = [tr EXCEPT ![list] = Append(@, e)]
    OBVIOUS
  <2> HIDE DEF n, e, list
  <2>4. /\ t[n + 1].what = "set" /\ t[n + 1].name = e.name /\ t[n + 1].value = e.value
        /\ BlockAfter(t, n) = list /\ list \in DOMAIN tr /\ e \in Entries /\ n \in Nat
        /\ \A l \in DOMAIN tr : tr[l] \in Seq(Entries)
        /\ \A l \in DOMAIN tr, s \in Settings : Agrees(t, n, l, s, tr[l])
    BY <1>3, <1>7, <1>8, <1>9, <2>1, <2>2
  <2>5. /\ DOMAIN new = DOMAIN tr
        /\ \A l \in DOMAIN new : new[l] \in Seq(Entries)
        /\ \A l \in DOMAIN new, s \in Settings : Agrees(t, n + 1, l, s, new[l])
    BY <2>3, <2>4, Emitted
  <2> QED
    BY <1>4, <2>2, <2>3, <2>5
<1>11. Shape'
  BY <1>2, <1>10, GrowsStill DEF Shape
<1>12. Contents'
  BY <1>3, <1>4, <1>10 DEF Contents
<1>13. ReadingNow'
  BY <1>3, <1>4 DEF ParserInv, ReadingNow
<1>14. Built'
  BY <1>3, <1>4, NothingBuilt
<1> QED
  BY <1>3, <1>5, <1>6, <1>11, <1>12, <1>13, <1>14 DEF ParserInv

\* UniformName: the statement is read, its entry waits for the value.
LEMMA UniformNameStep ==
    ASSUME ParserInv, NEW u \in Uniforms, NEW form, NEW value,
           [form |-> form, value |-> value, rule |-> 4] \in Readings, value \in Values,
           UniformName(u, form, value)
    PROVE  ParserInv'
<1> DEFINE n == Len(text)
<1>1. PICK st : st = [what |-> "set", name |-> u, value |-> value]
  OBVIOUS
<1>2. st \in Statements /\ Statement(st) /\ st.what = "set" /\ st.name = u /\ st.value = value
  BY <1>1 DEF UniformName, Statements, Settings
<1>3. /\ n \in Nat /\ Len(text') = n + 1 /\ text'[n + 1] = st
      /\ \A i \in 1 .. n : text[i] = text'[i]
      /\ TextRead' /\ phase = "parse" /\ reading = Unset /\ material = <<>>
  BY <1>2, StatementRead
<1>4. /\ stringValues' = Append(stringValues, u)
      /\ reading' = [form |-> form, value |-> value, rule |-> 4]
      /\ UNCHANGED <<floatValues, uniformValue, tree>>
      /\ UNCHANGED <<optionLists, currentTechnique, currentPass>>
      /\ UNCHANGED phase /\ UNCHANGED material
  BY DEF UniformName
<1>5. reading' \in Readings /\ reading' # Unset
  BY <1>4, ParserAssumption
<1>6. Types'
  BY <1>4, <1>5 DEF ParserInv, Types
<1>7. Standing'
  BY <1>2, <1>4, StandingStays
<1>8. Shape'
  BY <1>2, <1>4, GrowsStill DEF Shape, ParserInv
<1>9. Contents'
  <2>1. \A l \in DOMAIN tree, s \in Settings : Agrees(text, n, l, s, tree[l])
    BY <1>3 DEF ParserInv, Contents
  <2>2. \A l \in DOMAIN tree, s \in Settings : Agrees(text', n, l, s, tree[l])
    BY <1>3, <2>1, AgreesBefore
  <2>3. Len(text') - 1 = n
    BY <1>3
  <2> HIDE DEF n
  <2> QED
    BY <1>4, <1>5, <2>2, <2>3 DEF Contents
<1>10. ReadingNow'
  <2>1. stringValues = <<>> /\ uniformValue = Unset
    BY <1>3 DEF ParserInv, ReadingNow
  <2>2. stringValues' = <<u>>
    BY <1>4, <2>1
  <2>3. /\ text'[Len(text')] = st /\ text' # <<>>
    BY <1>3, <1>2 DEF TextRead
  <2>4. reading'.value = value /\ reading'.rule = 4 /\ 4 # Matched
    BY <1>4 DEF Matched
  <2> HIDE DEF n
  <2> QED
    BY <1>2, <1>4, <1>5, <2>1, <2>2, <2>3, <2>4 DEF ReadingNow
<1>11. Built'
  BY <1>3, <1>4, NothingBuilt
<1> QED
  BY <1>3, <1>6, <1>7, <1>8, <1>9, <1>10, <1>11 DEF ParserInv

-----------------------------------------------------------------------------
(* The value of a uniform *)

\* What a rule leaves of a tuple that it matches is what there was before.
LEMMA Popped ==
    ASSUME NEW S, NEW a \in Seq(S), NEW b \in Seq(S)
    PROVE  LET pushed == a \o b IN
           /\ pushed \in Seq(S)
           /\ Len(pushed) - Len(b) = Len(a)
           /\ SubSeq(pushed, Len(a) + 1, Len(pushed)) = b
           /\ SubSeq(pushed, 1, Len(a)) = a
<1> DEFINE pushed == a \o b
           back == SubSeq(pushed, Len(a) + 1, Len(pushed))
           front == SubSeq(pushed, 1, Len(a))
<1>1. /\ pushed \in Seq(S) /\ Len(pushed) = Len(a) + Len(b)
      /\ Len(a) \in Nat /\ Len(b) \in Nat
      /\ \A i \in 1 .. Len(a) : pushed[i] = a[i]
      /\ \A i \in 1 .. Len(b) : pushed[Len(a) + i] = b[i]
  OBVIOUS
<1> HIDE DEF pushed
<1>2. back \in Seq(S) /\ Len(back) = Len(b) /\ \A i \in 1 .. Len(b) : back[i] = b[i]
  BY <1>1
<1>3. front \in Seq(S) /\ Len(front) = Len(a) /\ \A i \in 1 .. Len(a) : front[i] = a[i]
  BY <1>1
<1> HIDE DEF back, front
<1>4. back = b
  BY <1>1, <1>2, Equal
<1>5. front = a
  BY <1>1, <1>3, Equal
<1> QED
  BY <1>1, <1>4, <1>5 DEF pushed, back, front

\* While a value is matched, only what is known of it changes.
LEMMA ReadingOn ==
    ASSUME ParserInv, reading # Unset, reading' \in Readings,
           reading'.value = reading.value, floatValues' \in Seq(Numbers),
           uniformValue' = IF reading'.rule = Matched THEN reading.value ELSE uniformValue,
           reading'.rule # Matched => reading.rule # Matched,
           UNCHANGED <<stringValues, optionLists, currentTechnique, currentPass, tree>>,
           UNCHANGED <<phase, material, text>>
    PROVE  ParserInv'
<1>1. reading' # Unset
  BY ParserAssumption
<1>2. Types'
  BY DEF ParserInv, Types
<1>3. TextRead' /\ Standing' /\ Shape'
  BY DEF ParserInv, TextRead, Standing, Shape
<1>4. Contents'
  BY <1>1 DEF ParserInv, Contents
<1>5. ReadingNow'
  BY <1>1 DEF ParserInv, ReadingNow
<1>6. Built'
  <2>1. phase \in {"parse", "failed"} /\ material = <<>> /\ Len(text) \in Nat
    BY Here DEF ParserInv, Built, Types
  <2> QED
    BY <2>1, NothingBuilt
<1> QED
  BY <1>2, <1>3, <1>4, <1>5, <1>6 DEF ParserInv

\* TryVector, whether it matches or leaves its numbers behind.
LEMMA TryVectorStep ==
    ASSUME ParserInv, TryVector
    PROVE  ParserInv'
<1> DEFINE n == reading.rule
           written == reading.value
           given == IF reading.form = "tuple"
                   THEN SubSeq(written, 1, IF Len(written) < n THEN Len(written) ELSE n)
                   ELSE <<>>
           pushed == floatValues \o given
           matches == reading.form = "tuple" /\ Len(written) = n
<1>1. /\ reading # Unset /\ n \in 2 .. 4 /\ reading \in Readings
      /\ floatValues \in Seq(Numbers)
  BY DEF TryVector, ParserInv, Types
<1>2. reading.form = "tuple" => written \in Seq(Numbers)
  BY <1>1, ParserAssumption DEF Readings, Reading
<1>3. given \in Seq(Numbers)
  BY <1>1, <1>2
<1>4. pushed \in Seq(Numbers)
  BY <1>1, <1>3
<1>5. /\ UNCHANGED <<stringValues, optionLists, currentTechnique, currentPass, tree>>
      /\ UNCHANGED <<phase, material, text>>
  BY DEF TryVector
<1>6. \A r \in Matched .. 4 : /\ [reading EXCEPT !.rule = r] \in Readings
                              /\ [reading EXCEPT !.rule = r].value = written
                              /\ [reading EXCEPT !.rule = r].rule = r
  BY <1>1 DEF Readings, Reading
<1>7. CASE matches
  <2>1. /\ uniformValue' = SubSeq(pushed, Len(pushed) - n + 1, Len(pushed))
        /\ floatValues' = SubSeq(pushed, 1, Len(pushed) - n)
        /\ reading' = [reading EXCEPT !.rule = Matched]
    BY <1>7 DEF TryVector
  <2>2. given = written
    <3>1. given = SubSeq(written, 1, Len(written))
      BY <1>7
    <3> HIDE DEF given
    <3> QED
      BY <1>2, <1>7, <3>1, Equal
  <2>3. /\ SubSeq(pushed, Len(floatValues) + 1, Len(pushed)) = written
        /\ SubSeq(pushed, 1, Len(floatValues)) = floatValues
        /\ Len(pushed) - n = Len(floatValues)
    <3> HIDE DEF given
    <3>1. /\ SubSeq(pushed, Len(floatValues) + 1, Len(pushed)) = given
          /\ SubSeq(pushed, 1, Len(floatValues)) = floatValues
          /\ Len(pushed) - Len(given) = Len(floatValues)
      BY <1>1, <1>3, Popped
    <3> QED
      BY <3>1, <2>2, <1>7
  <2> HIDE DEF n, written, pushed, matches
  <2>4. uniformValue' = written /\ floatValues' = floatValues
    BY <2>1, <2>3
  <2>5. Matched \in Matched .. 4
    BY DEF Matched
  <2>6. /\ reading' \in Readings /\ reading'.value = reading.value /\ reading'.rule = Matched
        /\ uniformValue' = reading.value
    BY <1>6, <2>1, <2>4, <2>5 DEF written
  <2> QED
    BY <1>1, <1>5, <2>4, <2>6, ReadingOn
<1>8. CASE ~matches
  <2>1. floatValues' = pushed /\ reading' = [reading EXCEPT !.rule = n - 1]
        /\ UNCHANGED uniformValue
    BY <1>8 DEF TryVector
  <2>2. n - 1 \in Matched .. 4 /\ n - 1 # Matched /\ n # Matched
    BY <1>1 DEF Matched
  <2>3. /\ reading' \in Readings /\ reading'.value = reading.value /\ reading'.rule # Matched
        /\ floatValues' \in Seq(Numbers)
    BY <1>4, <1>6, <2>1, <2>2
  <2> QED
    BY <1>1, <1>5, <2>1, <2>2, <2>3, ReadingOn
<1> QED
  BY <1>7, <1>8

\* TryScalar, a number or a texture.
LEMMA TryScalarStep ==
    ASSUME ParserInv, TryScalar
    PROVE  ParserInv'
<1>1. /\ reading # Unset /\ reading \in Readings /\ floatValues \in Seq(Numbers)
      /\ uniformValue' = reading.value /\ reading' = [reading EXCEPT !.rule = Matched]
      /\ UNCHANGED floatValues
      /\ UNCHANGED <<stringValues, optionLists, currentTechnique, currentPass, tree>>
      /\ UNCHANGED <<phase, material, text>>
  BY DEF TryScalar, ParserInv, Types
<1>2. /\ reading' \in Readings /\ reading'.value = reading.value /\ reading'.rule = Matched
  BY <1>1 DEF Readings, Reading, Matched
<1> QED
  BY <1>1, <1>2, ReadingOn

\* UniformEnd: the entry for the last statement is made.
LEMMA UniformEndStep ==
    ASSUME ParserInv, UniformEnd
    PROVE  ParserInv'
<1> DEFINE n == Len(text) - 1
           st == text[Len(text)]
           e == [name |-> st.name, value |-> st.value]
           list == Last(optionLists)
<1>1. /\ reading # Unset /\ reading.rule = Matched /\ reading' = Unset /\ uniformValue' = Unset
      /\ stringValues' = Front(stringValues)
      /\ tree' = [tree EXCEPT ![list] =
                    Append(@, [name |-> Last(stringValues), value |-> uniformValue])]
      /\ UNCHANGED <<optionLists, currentTechnique, currentPass>>
      /\ UNCHANGED floatValues /\ UNCHANGED <<phase, material, text>>
  BY DEF UniformEnd, Emit
<1>2. /\ text # <<>> /\ st.what = "set" /\ st.name \in Uniforms /\ st.value = reading.value
      /\ stringValues = <<st.name>> /\ uniformValue = reading.value
      /\ reading \in Readings
  BY <1>1 DEF ParserInv, ReadingNow, Types
<1>3. Last(stringValues) = st.name /\ Front(stringValues) = <<>>
  <2>1. \A x : Len(<<x>>) = 1 /\ <<x>>[1] = x /\ SubSeq(<<x>>, 1, 0) = <<>>
    OBVIOUS
  <2> HIDE DEF st
  <2> QED
    BY <1>2, <2>1 DEF Last, Front
<1>4. /\ n \in Nat /\ Len(text) = n + 1 /\ text[n + 1] = st
  BY <1>2 DEF ParserInv, TextRead
<1>5. e \in Entries
  BY <1>2 DEF Entries, Settings, Values, Readings, Reading
<1>6. tree' = [tree EXCEPT ![list] = Append(@, e)]
  BY <1>1, <1>2, <1>3
<1>7. list \in DOMAIN tree /\ BlockAfter(text, n) = list
  <2>1. /\ list \in DOMAIN tree /\ list = BlockAfter(text, n + 1)
    BY <1>4, Here
  <2>2. BlockAfter(text, n + 1) = BlockAfter(text, n)
    <3>1. text[n + 1].what = "set"
      BY <1>2, <1>4
    <3> HIDE DEF n, st
    <3>2. /\ TechniquesAfter(text, n) \in Nat /\ PassesAfter(text, n) \in Nat
          /\ DepthAfter(text, n) \in Int
      BY <1>4, Advance
    <3>3. /\ TechniquesAfter(text, n + 1) = TechniquesAfter(text, n) + 0
          /\ PassesAfter(text, n + 1) = PassesAfter(text, n) + 0
          /\ DepthAfter(text, n + 1) = DepthAfter(text, n) + 0
      BY <1>4, <3>1, Advance
    <3>4. /\ TechniquesAfter(text, n + 1) = TechniquesAfter(text, n)
          /\ PassesAfter(text, n + 1) = PassesAfter(text, n)
          /\ DepthAfter(text, n + 1) = DepthAfter(text, n)
      BY <3>2, <3>3
    <3> QED
      BY <3>4 DEF BlockAfter
  <2> QED
    BY <2>1, <2>2
<1>8. /\ \A l \in DOMAIN tree : tree[l] \in Seq(Entries)
      /\ \A l \in DOMAIN tree, s \in Settings : Agrees(text, n, l, s, tree[l])
  BY <1>1 DEF ParserInv, Shape, Contents
<1>9. /\ DOMAIN tree' = DOMAIN tree
      /\ \A l \in DOMAIN tree' : tree'[l] \in Seq(Entries)
      /\ \A l \in DOMAIN tree', s \in Settings : Agrees(text, n + 1, l, s, tree'[l])
  <2>1. PICK tr, new : tr = tree /\ new = [tr EXCEPT ![list] = Append(@, e)]
    OBVIOUS
  <2>2. /\ text[n + 1].what = "set" /\ text[n + 1].name = e.name /\ text[n + 1].value = e.value
    BY <1>2, <1>4
  <2> HIDE DEF n, e, list, st
  <2>3. /\ list \in DOMAIN tr
        /\ \A l \in DOMAIN tr : tr[l] \in Seq(Entries)
        /\ \A l \in DOMAIN tr, s \in Settings : Agrees(text, n, l, s, tr[l])
    BY <1>7, <1>8, <2>1
  <2>4. /\ DOMAIN new = DOMAIN tr
        /\ \A l \in DOMAIN new : new[l] \in Seq(Entries)
        /\ \A l \in DOMAIN new, s \in Settings : Agrees(text, n + 1, l, s, new[l])
    BY <1>4, <1>5, <1>7, <2>1, <2>2, <2>3, Emitted
  <2> QED
    BY <1>6, <2>1, <2>4
<1>10. Types'
  BY <1>1 DEF ParserInv, Types
<1>11. TextRead' /\ Standing'
  BY <1>1 DEF ParserInv, TextRead, Standing
<1>12. Shape'
  BY <1>1, <1>9 DEF ParserInv, Shape
<1>13. Contents'
  <2>1. reading' = Unset /\ text' = text /\ Len(text') = n + 1
    BY <1>1, <1>4
  <2> HIDE DEF n
  <2> QED
    BY <1>9, <2>1 DEF Contents
<1>14. ReadingNow'
  BY <1>1, <1>3 DEF ReadingNow
<1>15. Built'
  <2>1. phase \in {"parse", "failed"} /\ material = <<>> /\ Len(text) \in Nat
    BY <1>1, Here DEF ParserInv, Built, Types
  <2> QED
    BY <1>1, <2>1, NothingBuilt
<1> QED
  BY <1>10, <1>11, <1>12, <1>13, <1>14, <1>15 DEF ParserInv

-----------------------------------------------------------------------------
(* Blocks *)

\* As many techniques as there are numbers for them.
LEMMA Singles ==
    ASSUME NEW n \in Nat
    PROVE  Cardinality({<<i>> : i \in 1 .. n}) = n
<1> DEFINE S == {<<i>> : i \in 1 .. n}
           f == [i \in 1 .. n |-> <<i>>]
<1>1. f \in Bijection(1 .. n, S)
  <2>1. f \in [1 .. n -> S] /\ \A x \in S : \E i \in 1 .. n : f[i] = x
    OBVIOUS
  <2>2. \A i, j \in 1 .. n : f[i] = f[j] => i = j
    BY Short
  <2> HIDE DEF f, S
  <2> QED
    BY <2>1, <2>2 DEF Bijection, Injection, Surjection, IsInjective
<1>2. IsFiniteSet(1 .. n) /\ Cardinality(1 .. n) = n
  BY FS_Interval
<1> HIDE DEF f, S
<1>3. Cardinality(S) = n
  BY <1>1, <1>2, FS_Bijection DEF ExistsBijection
<1> QED
  BY <1>3 DEF S

\* As many passes as there are numbers for them.
LEMMA Pairs ==
    ASSUME NEW k, NEW n \in Nat
    PROVE  Cardinality({<<k, i>> : i \in 1 .. n}) = n
<1> DEFINE S == {<<k, i>> : i \in 1 .. n}
           f == [i \in 1 .. n |-> <<k, i>>]
<1>1. f \in Bijection(1 .. n, S)
  <2>1. f \in [1 .. n -> S] /\ \A x \in S : \E i \in 1 .. n : f[i] = x
    OBVIOUS
  <2>2. \A i, j \in 1 .. n : f[i] = f[j] => i = j
    BY Short
  <2> HIDE DEF f, S
  <2> QED
    BY <2>1, <2>2 DEF Bijection, Injection, Surjection, IsInjective
<1>2. IsFiniteSet(1 .. n) /\ Cardinality(1 .. n) = n
  BY FS_Interval
<1> HIDE DEF f, S
<1>3. Cardinality(S) = n
  BY <1>1, <1>2, FS_Bijection DEF ExistsBijection
<1> QED
  BY <1>3 DEF S

\* The tree has as many techniques and passes as the text.
LEMMA AsMany ==
    ASSUME ParserInv
    PROVE  /\ Cardinality(Techniques) = TechniquesAfter(text, Len(text))
           /\ \A i \in 1 .. TechniquesAfter(text, Len(text)) :
                 Cardinality(Passes(i)) = PassesIn(text, Len(text), <<i>>)
<1> DEFINE n == Len(text)
           k == TechniquesAfter(text, n)
<1>1. n \in Nat /\ k \in Nat
  BY Here
<1>2. DOMAIN tree = Places(text, n)
  BY DEF ParserInv, Shape, Grows
<1>3. \A list : list \in DOMAIN tree <=>
          /\ list \in Seq(Nat)
          /\ \/ list = <<>>
             \/ \E i \in 1 .. k : \/ list = <<i>>
                                  \/ \E p \in 1 .. PassesIn(text, n, <<i>>) : list = <<i, p>>
  BY <1>2 DEF Places, File
<1>4. \A i : PassesIn(text, n, <<i>>) \in Nat
  <2> SUFFICES ASSUME NEW i PROVE PassesIn(text, n, <<i>>) \in Nat
    OBVIOUS
  <2>1. PICK block : block = <<i>>
    OBVIOUS
  <2>2. PassesIn(text, n, block) \in Nat
    BY <1>1, PassesSteps
  <2> QED
    BY <2>1, <2>2
<1> HIDE DEF n, k
<1>5. Techniques = {<<i>> : i \in 1 .. k}
  <2>1. ASSUME NEW list \in Techniques PROVE list \in {<<i>> : i \in 1 .. k}
    <3>1. list \in DOMAIN tree /\ Len(list) = 1
      BY DEF Techniques
    <3>2. list # <<>> /\ \A i, p : list # <<i, p>>
      BY <3>1, Short
    <3>3. PICK i \in 1 .. k :
              list = <<i>> \/ \E p \in 1 .. PassesIn(text, n, <<i>>) : list = <<i, p>>
      BY <1>3, <3>1, <3>2
    <3>4. list = <<i>>
      BY <3>2, <3>3
    <3> QED
      BY <3>4
  <2>2. ASSUME NEW i \in 1 .. k PROVE <<i>> \in Techniques
    <3>1. <<i>> \in Seq(Nat) /\ Len(<<i>>) = 1
      BY <1>1
    <3> QED
      BY <1>3, <3>1 DEF Techniques
  <2> QED
    BY <2>1, <2>2
<1>6. ASSUME NEW i \in 1 .. k
      PROVE  Passes(i) = {<<i, p>> : p \in 1 .. PassesIn(text, n, <<i>>)}
  <2>1. ASSUME NEW list \in Passes(i)
        PROVE  list \in {<<i, p>> : p \in 1 .. PassesIn(text, n, <<i>>)}
    <3>1. list \in DOMAIN tree /\ Len(list) = 2 /\ list[1] = i
      BY DEF Passes
    <3>2. list # <<>> /\ \A j : list # <<j>>
      BY <3>1, Short
    <3>3. PICK j \in 1 .. k : \E p \in 1 .. PassesIn(text, n, <<j>>) : list = <<j, p>>
      BY <1>3, <3>1, <3>2
    <3>4. PICK p \in 1 .. PassesIn(text, n, <<j>>) : list = <<j, p>>
      BY <3>3
    <3>5. j = i
      BY <3>1, <3>4, Short
    <3> QED
      BY <3>4, <3>5
  <2>2. ASSUME NEW p \in 1 .. PassesIn(text, n, <<i>>) PROVE <<i, p>> \in Passes(i)
    <3>1. <<i, p>> \in Seq(Nat) /\ Len(<<i, p>>) = 2 /\ <<i, p>>[1] = i
      BY <1>1, <1>4
    <3>2. <<i, p>> \in DOMAIN tree
      BY <1>3, <3>1
    <3> QED
      BY <3>1, <3>2 DEF Passes
  <2> QED
    BY <2>1, <2>2
<1>7. \A i \in 1 .. k : Cardinality(Passes(i)) = PassesIn(text, n, <<i>>)
  BY <1>4, <1>6, Pairs
<1> QED
  BY <1>1, <1>5, <1>7, Singles DEF n, k

\* A list that a block begins is empty, as is what the text says of it.
LEMMA Begun ==
    ASSUME ParserInv, NEW st \in Statements, Statement(st), st.what # "set",
           NEW new, new \notin DOMAIN tree,
           tree' = [l \in DOMAIN tree \cup {new} |-> IF l = new THEN <<>> ELSE tree[l]],
           UNCHANGED reading,
           Places(text', Len(text) + 1) = Places(text, Len(text)) \cup {new},
           Numbered(text', Len(text) + 1)
    PROVE  Shape' /\ Contents'
<1> DEFINE n == Len(text)
<1>1. /\ n \in Nat /\ Len(text') = n + 1 /\ text'[n + 1] = st
      /\ \A i \in 1 .. n : text[i] = text'[i]
      /\ reading = Unset
  BY StatementRead
<1>2. /\ DOMAIN tree = Places(text, n)
      /\ \A k \in 1 .. n : text[k].what = "set" => BlockAfter(text, k - 1) \in DOMAIN tree
      /\ \A l \in DOMAIN tree : tree[l] \in Seq(Entries)
      /\ \A l \in DOMAIN tree, s \in Settings : Agrees(text, n, l, s, tree[l])
  BY <1>1 DEF ParserInv, Shape, Grows, Contents
<1>3. /\ DOMAIN tree' = DOMAIN tree \cup {new}
      /\ \A l \in DOMAIN tree' : tree'[l] = IF l = new THEN <<>> ELSE tree[l]
  OBVIOUS
<1>4. \A l \in DOMAIN tree' : tree'[l] \in Seq(Entries)
  BY <1>2, <1>3
<1>5. text'[n + 1].what # "set"
  BY <1>1
<1> HIDE DEF n
<1>6. Grows(text', n + 1, DOMAIN tree')
  <2>1. PICK lists, more : lists = DOMAIN tree /\ more = DOMAIN tree'
    OBVIOUS
  <2>2. /\ \A k \in 1 .. n : text[k].what = "set" => BlockAfter(text, k - 1) \in lists
        /\ lists \subseteq more
    BY <1>2, <1>3, <2>1
  <2>3. \A k \in 1 .. n + 1 : text'[k].what = "set" => BlockAfter(text', k - 1) \in more
    BY <1>1, <1>5, <2>2, KnownBlocks
  <2> QED
    BY <1>2, <1>3, <2>1, <2>3 DEF Grows, n
<1>7. Shape'
  BY <1>1, <1>4, <1>6 DEF Shape
<1>8. ASSUME NEW l \in DOMAIN tree', NEW s \in Settings
      PROVE  Agrees(text', n + 1, l, s, tree'[l])
  <2>1. CASE l = new
    <3>1. Said(text, n, l, s) = {}
      BY <1>2, <2>1 DEF Said
    <3>2. Agrees(text, n, l, s, <<>>)
      BY <3>1 DEF Agrees, Held, Greatest
    <3>3. Agrees(text', n, l, s, <<>>)
      BY <1>1, <3>2, AgreesBefore
    <3>4. Agrees(text', n + 1, l, s, <<>>)
      BY <1>1, <1>5, <3>3, AgreesStill
    <3> QED
      BY <1>3, <2>1, <3>4
  <2>2. CASE l # new
    <3>1. PICK entries : entries = tree[l]
      OBVIOUS
    <3>2. Agrees(text, n, l, s, entries)
      BY <1>2, <1>3, <2>2, <3>1
    <3>3. Agrees(text', n, l, s, entries)
      BY <1>1, <3>2, AgreesBefore
    <3>4. Agrees(text', n + 1, l, s, entries)
      BY <1>1, <1>5, <3>3, AgreesStill
    <3> QED
      BY <1>3, <2>2, <3>1, <3>4
  <2> QED
    BY <2>1, <2>2
<1>9. Contents'
  BY <1>1, <1>8 DEF Contents
<1> QED
  BY <1>7, <1>9

\* A block that ends leaves the lists as they are.
LEMMA Ended ==
    ASSUME ParserInv, NEW st \in Statements, Statement(st), st.what = "end",
           UNCHANGED <<tree, reading>>
    PROVE  Shape' /\ Contents'
<1> DEFINE n == Len(text)
<1>1. /\ n \in Nat /\ Len(text') = n + 1 /\ text'[n + 1] = st
      /\ \A i \in 1 .. n : text[i] = text'[i]
      /\ reading = Unset
  BY StatementRead
<1>2. /\ \A l \in DOMAIN tree : tree[l] \in Seq(Entries)
      /\ \A l \in DOMAIN tree, s \in Settings : Agrees(text, n, l, s, tree[l])
  BY <1>1 DEF ParserInv, Shape, Contents
<1>3. Shape'
  BY <1>2, GrowsStill DEF Shape
<1>4. ASSUME NEW l \in DOMAIN tree, NEW s \in Settings
      PROVE  Agrees(text', n + 1, l, s, tree[l])
  <2> HIDE DEF n
  <2>1. PICK entries : entries = tree[l]
    OBVIOUS
  <2>2. Agrees(text, n, l, s, entries)
    BY <1>2, <2>1
  <2>3. Agrees(text', n, l, s, entries)
    BY <1>1, <2>2, AgreesBefore
  <2>4. text'[n + 1].what # "set"
    BY <1>1
  <2>5. Agrees(text', n + 1, l, s, entries)
    BY <1>1, <2>3, <2>4, AgreesStill
  <2> QED
    BY <2>1, <2>5
<1>5. Contents'
  BY <1>1, <1>4 DEF Contents
<1> QED
  BY <1>3, <1>5

\* A place in the tree is not a null pointer.
LEMMA Placeholders ==
    \A i \in Nat : <<i>> # Unset /\ \A j \in Nat : <<i, j>> # Unset
<1>1. Unset \notin Seq(Nat)
  BY ParserAssumption
<1>2. \A i \in Nat : <<i>> \in Seq(Nat) /\ \A j \in Nat : <<i, j>> \in Seq(Nat)
  BY Short
<1> QED
  BY <1>1, <1>2

\* Append to one and two elements.
LEMMA Appended ==
    /\ \A a, b : Append(<<a>>, b) = <<a, b>>
    /\ \A a, b, c : Append(<<a, b>>, c) = <<a, b, c>>
<1>1. ASSUME NEW a, NEW b PROVE Append(<<a>>, b) = <<a, b>>
  <2> DEFINE S == {a, b}
             s == Append(<<a>>, b)
             r == <<a, b>>
  <2>1. /\ s \in Seq(S) /\ Len(s) = 2 /\ s[1] = a /\ s[2] = b
        /\ r \in Seq(S) /\ Len(r) = 2 /\ r[1] = a /\ r[2] = b
    OBVIOUS
  <2> HIDE DEF s, r, S
  <2>2. s = r
    BY <2>1, Equal
  <2> QED
    BY <2>2 DEF s, r
<1>2. ASSUME NEW a, NEW b, NEW c PROVE Append(<<a, b>>, c) = <<a, b, c>>
  <2> DEFINE S == {a, b, c}
             s == Append(<<a, b>>, c)
             r == <<a, b, c>>
  <2>1. /\ s \in Seq(S) /\ Len(s) = 3 /\ s[1] = a /\ s[2] = b /\ s[3] = c
        /\ r \in Seq(S) /\ Len(r) = 3 /\ r[1] = a /\ r[2] = b /\ r[3] = c
    OBVIOUS
  <2> HIDE DEF s, r, S
  <2>2. s = r
    BY <2>1, Equal
  <2> QED
    BY <2>2 DEF s, r
<1> QED
  BY <1>1, <1>2

\* What the context says of the place: which block is open.
LEMMA Level ==
    ASSUME ParserInv
    PROVE  LET n == Len(text)
               k == TechniquesAfter(text, n)
               p == PassesAfter(text, n)
           IN
           /\ currentTechnique = Unset <=> DepthAfter(text, n) = 0
           /\ currentTechnique # Unset /\ currentPass = Unset <=> DepthAfter(text, n) = 1
           /\ currentPass # Unset <=> DepthAfter(text, n) = 2
           /\ DepthAfter(text, n) = 0 => currentPass = Unset /\ optionLists = <<File>>
           /\ DepthAfter(text, n) = 1 =>
                 /\ currentTechnique = <<k>> /\ k > 0
                 /\ optionLists = <<File, <<k>>>>
           /\ DepthAfter(text, n) = 2 =>
                 /\ currentTechnique = <<k>> /\ currentPass = <<k, p>> /\ k > 0 /\ p > 0
                 /\ optionLists = <<File, <<k>>, <<k, p>>>>
           /\ DepthAfter(text, n) \in 0 .. 2
<1> DEFINE n == Len(text)
           k == TechniquesAfter(text, n)
           p == PassesAfter(text, n)
           d == DepthAfter(text, n)
<1>1. k \in Nat /\ p \in Nat
  BY Here
<1>2. <<k>> # Unset /\ <<k, p>> # Unset
  BY <1>1, Placeholders
<1>3. \/ d = 0 /\ currentTechnique = Unset /\ currentPass = Unset /\ optionLists = <<File>>
      \/ /\ d = 1 /\ k > 0
         /\ currentTechnique = <<k>> /\ currentPass = Unset /\ optionLists = <<File, <<k>>>>
      \/ /\ d = 2 /\ k > 0 /\ p > 0
         /\ currentTechnique = <<k>> /\ currentPass = <<k, p>>
         /\ optionLists = <<File, <<k>>, <<k, p>>>>
  BY DEF ParserInv, Standing, StandsAt
<1>4. PICK one, two : one = <<k>> /\ two = <<k, p>>
  OBVIOUS
<1>5. PICK lists1, lists2 : lists1 = <<File, <<k>>>> /\ lists2 = <<File, <<k>>, <<k, p>>>>
  OBVIOUS
<1> HIDE DEF n, k, p, d
<1>6. /\ currentTechnique = Unset <=> d = 0
      /\ currentTechnique # Unset /\ currentPass = Unset <=> d = 1
      /\ currentPass # Unset <=> d = 2
      /\ d = 0 => currentPass = Unset /\ optionLists = <<File>>
      /\ d = 1 => currentTechnique = one /\ k > 0 /\ optionLists = lists1
      /\ d = 2 => /\ currentTechnique = one /\ currentPass = two /\ k > 0 /\ p > 0
                  /\ optionLists = lists2
      /\ d \in 0 .. 2
  BY <1>2, <1>3, <1>4, <1>5
<1> QED
  BY <1>4, <1>5, <1>6 DEF n, k, p, d

\* A step that reads a statement, once its block and its lists are accounted for.
LEMMA BlockStep ==
    ASSUME ParserInv, NEW st \in Statements, Statement(st),
           UNCHANGED <<floatValues, stringValues, uniformValue>>,
           UNCHANGED reading, UNCHANGED phase, UNCHANGED material,
           Standing', Shape', Contents'
    PROVE  ParserInv'
<1>1. /\ TextRead' /\ phase = "parse" /\ reading = Unset /\ material = <<>>
      /\ Len(text) \in Nat /\ Len(text') = Len(text) + 1
  BY StatementRead
<1>2. Types'
  BY DEF ParserInv, Types
<1>3. ReadingNow'
  BY <1>1 DEF ParserInv, ReadingNow
<1>4. Built'
  BY <1>1, NothingBuilt
<1> QED
  BY <1>1, <1>2, <1>3, <1>4 DEF ParserInv

\* TechniqueBegin pushes the list of a new technique.
LEMMA TechniqueBeginStep ==
    ASSUME ParserInv, TechniqueBegin
    PROVE  ParserInv'
<1> DEFINE n == Len(text)
           k == TechniquesAfter(text, n)
           new == <<k + 1>>
<1>1. PICK st : st = [what |-> "technique"]
  OBVIOUS
<1>2. st \in Statements /\ Statement(st) /\ st.what = "technique"
  BY <1>1 DEF TechniqueBegin, Statements
<1>3. /\ n \in Nat /\ Len(text') = n + 1 /\ text'[n + 1] = st
      /\ \A i \in 1 .. n : text[i] = text'[i]
  BY <1>2, StatementRead
<1>4. Cardinality(Techniques) = k
  BY AsMany
<1>5. /\ currentTechnique' = new /\ optionLists' = Append(optionLists, new)
      /\ tree' = [l \in DOMAIN tree \cup {new} |-> IF l = new THEN <<>> ELSE tree[l]]
      /\ UNCHANGED <<floatValues, stringValues, uniformValue>> /\ UNCHANGED currentPass
      /\ UNCHANGED reading /\ UNCHANGED phase /\ UNCHANGED material
      /\ currentTechnique = Unset
  BY <1>4 DEF TechniqueBegin, PushOptionList, stacks
<1>6. /\ DepthAfter(text, n) = 0 /\ currentPass = Unset /\ optionLists = <<File>>
  BY <1>5, Level
<1>7. /\ k \in Nat /\ TechniquesAfter(text', Len(text')) = k + 1
      /\ PassesAfter(text', Len(text')) = 0
      /\ DepthAfter(text', Len(text')) = 1
  BY <1>2, <1>6, StatementCounts
<1>8. Standing'
  <2>1. optionLists' = <<File, new>>
    BY <1>5, <1>6, Appended
  <2>2. k + 1 > 0
    BY <1>7
  <2> HIDE DEF k
  <2> QED
    BY <1>5, <1>6, <1>7, <2>1, <2>2 DEF Standing, StandsAt
<1>9. /\ Places(text', n + 1) = Places(text, n) \cup {new} /\ new \notin Places(text, n)
      /\ Numbered(text', n + 1)
  <2>1. PICK u : u = text'
    OBVIOUS
  <2>2. /\ \A i \in 1 .. n : text[i] = u[i]
        /\ u[n + 1].what = "technique"
        /\ Numbered(text, n)
    BY <1>2, <1>3, <2>1 DEF ParserInv, Shape, Grows
  <2>3. /\ Places(u, n + 1) = Places(text, n) \cup {new} /\ new \notin Places(text, n)
        /\ Numbered(u, n + 1)
    <3>1. /\ Places(u, n + 1) = Places(text, n) \cup {<<TechniquesAfter(text, n) + 1>>}
          /\ <<TechniquesAfter(text, n) + 1>> \notin Places(text, n)
          /\ Numbered(u, n + 1)
      BY <1>3, <2>2, PlacesWithTechnique
    <3> QED
      BY <3>1
  <2> QED
    BY <2>1, <2>3
<1>10. new \notin DOMAIN tree
  BY <1>9 DEF ParserInv, Shape, Grows
<1>11. Shape' /\ Contents'
  <2>1. st.what # "set"
    BY <1>2
  <2> HIDE DEF new
  <2> QED
    BY <1>2, <1>5, <1>9, <1>10, <2>1, Begun
<1> QED
  BY <1>2, <1>5, <1>8, <1>11, BlockStep

\* PassBegin pushes the list of a new pass of the open technique.
LEMMA PassBeginStep ==
    ASSUME ParserInv, PassBegin
    PROVE  ParserInv'
<1> DEFINE n == Len(text)
           k == TechniquesAfter(text, n)
           p == PassesAfter(text, n)
           new == <<k, p + 1>>
<1>1. PICK st : st = [what |-> "pass"]
  OBVIOUS
<1>2. st \in Statements /\ Statement(st) /\ st.what = "pass"
  BY <1>1 DEF PassBegin, Statements
<1>3. /\ n \in Nat /\ Len(text') = n + 1 /\ text'[n + 1] = st
      /\ \A i \in 1 .. n : text[i] = text'[i]
  BY <1>2, StatementRead
<1>4. /\ DepthAfter(text, n) = 1 /\ currentTechnique = <<k>> /\ k > 0
      /\ optionLists = <<File, <<k>>>>
  BY Level DEF PassBegin
<1>5. Numbered(text, n)
  BY DEF ParserInv, Shape, Grows
<1>6. /\ k \in Nat /\ p \in Nat /\ TechniquesAfter(text', Len(text')) = k
      /\ PassesAfter(text', Len(text')) = p + 1
      /\ DepthAfter(text', Len(text')) = 2
  BY <1>2, <1>4, StatementCounts
<1>7. Cardinality(Passes(k)) = p
  BY <1>4, <1>5, <1>6, AsMany DEF Numbered
<1>8. Append(<<k>>, p + 1) = new /\ <<k>>[1] = k
  BY Appended, Short
<1>9. /\ currentPass' = new /\ optionLists' = Append(optionLists, new)
      /\ tree' = [l \in DOMAIN tree \cup {new} |-> IF l = new THEN <<>> ELSE tree[l]]
      /\ UNCHANGED <<floatValues, stringValues, uniformValue>> /\ UNCHANGED currentTechnique
      /\ UNCHANGED reading /\ UNCHANGED phase /\ UNCHANGED material
  BY <1>4, <1>7, <1>8 DEF PassBegin, PushOptionList, stacks
<1>10. Standing'
  <2>1. optionLists' = <<File, <<k>>, new>>
    BY <1>4, <1>9, Appended
  <2>2. p + 1 > 0
    BY <1>6
  <2> HIDE DEF k, p
  <2> QED
    BY <1>4, <1>6, <1>9, <2>1, <2>2 DEF Standing, StandsAt
<1>11. /\ Places(text', n + 1) = Places(text, n) \cup {new} /\ new \notin Places(text, n)
       /\ Numbered(text', n + 1)
  <2>1. PICK u : u = text'
    OBVIOUS
  <2>2. /\ \A i \in 1 .. n : text[i] = u[i]
        /\ u[n + 1].what = "pass"
    BY <1>2, <1>3, <2>1
  <2>3. BlockAfter(text, n) = <<k>>
    BY <1>3, <1>4, BlockByDepth
  <2>4. /\ Places(u, n + 1) = Places(text, n) \cup {new} /\ new \notin Places(text, n)
        /\ Numbered(u, n + 1)
    BY <1>3, <1>4, <1>5, <2>2, <2>3, PlacesWithPass
  <2> QED
    BY <2>1, <2>4
<1>12. new \notin DOMAIN tree
  BY <1>11 DEF ParserInv, Shape, Grows
<1>13. Shape' /\ Contents'
  <2>1. st.what # "set"
    BY <1>2
  <2> HIDE DEF new
  <2> QED
    BY <1>2, <1>9, <1>11, <1>12, <2>1, Begun
<1> QED
  BY <1>2, <1>9, <1>10, <1>13, BlockStep

\* Front of two and three elements.
LEMMA Fronts ==
    /\ \A a, b : Front(<<a, b>>) = <<a>>
    /\ \A a, b, c : Front(<<a, b, c>>) = <<a, b>>
<1>1. ASSUME NEW a, NEW b PROVE Front(<<a, b>>) = <<a>>
  <2> DEFINE s == <<a, b>>
             r == <<a>>
  <2>1. s \in Seq({a, b}) /\ Len(s) = 2 /\ s[1] = a /\ r \in Seq({a, b}) /\ Len(r) = 1 /\ r[1] = a
    OBVIOUS
  <2> HIDE DEF s, r
  <2>2. SubSeq(s, 1, 1) \in Seq({a, b}) /\ Len(SubSeq(s, 1, 1)) = 1 /\ SubSeq(s, 1, 1)[1] = a
    BY <2>1
  <2>3. SubSeq(s, 1, 1) = r
    BY <2>1, <2>2, Equal
  <2> QED
    BY <2>1, <2>3 DEF Front, s, r
<1>2. ASSUME NEW a, NEW b, NEW c PROVE Front(<<a, b, c>>) = <<a, b>>
  <2> DEFINE S == {a, b, c}
             s == <<a, b, c>>
             r == <<a, b>>
  <2>1. /\ s \in Seq(S) /\ Len(s) = 3 /\ s[1] = a /\ s[2] = b
        /\ r \in Seq(S) /\ Len(r) = 2 /\ r[1] = a /\ r[2] = b
    OBVIOUS
  <2> HIDE DEF s, r, S
  <2>2. /\ SubSeq(s, 1, 2) \in Seq(S) /\ Len(SubSeq(s, 1, 2)) = 2
        /\ \A i \in 1 .. 2 : SubSeq(s, 1, 2)[i] = s[i]
    BY <2>1
  <2>3. SubSeq(s, 1, 2) = r
    BY <2>1, <2>2, Equal
  <2> QED
    BY <2>1, <2>3 DEF Front, s, r
<1> QED
  BY <1>1, <1>2

\* TechniqueEnd pops the list of its technique.
LEMMA TechniqueEndStep ==
    ASSUME ParserInv, TechniqueEnd
    PROVE  ParserInv'
<1> DEFINE n == Len(text)
           k == TechniquesAfter(text, n)
<1>1. PICK st : st = [what |-> "end"]
  OBVIOUS
<1>2. st \in Statements /\ Statement(st) /\ st.what = "end"
  BY <1>1 DEF TechniqueEnd, Statements
<1>3. /\ currentTechnique' = Unset /\ optionLists' = Front(optionLists)
      /\ UNCHANGED <<floatValues, stringValues, uniformValue>> /\ UNCHANGED currentPass
      /\ UNCHANGED tree /\ UNCHANGED reading /\ UNCHANGED phase /\ UNCHANGED material
      /\ currentTechnique # Unset /\ currentPass = Unset
  BY DEF TechniqueEnd, PopOptionList, stacks
<1>4. DepthAfter(text, n) = 1 /\ optionLists = <<File, <<k>>>>
  BY <1>3, Level
<1>5. DepthAfter(text', Len(text')) = 0
  BY <1>2, <1>4, StatementCounts
<1>6. optionLists' = <<File>>
  BY <1>3, <1>4, Fronts
<1>7. Standing'
  BY <1>3, <1>5, <1>6 DEF Standing, StandsAt
<1>8. Shape' /\ Contents'
  BY <1>2, <1>3, Ended
<1> QED
  BY <1>2, <1>3, <1>7, <1>8, BlockStep

\* PassEnd pops the list of its pass.
LEMMA PassEndStep ==
    ASSUME ParserInv, PassEnd
    PROVE  ParserInv'
<1> DEFINE n == Len(text)
           k == TechniquesAfter(text, n)
           p == PassesAfter(text, n)
<1>1. PICK st : st = [what |-> "end"]
  OBVIOUS
<1>2. st \in Statements /\ Statement(st) /\ st.what = "end"
  BY <1>1 DEF PassEnd, Statements
<1>3. /\ currentPass' = Unset /\ optionLists' = Front(optionLists)
      /\ UNCHANGED <<floatValues, stringValues, uniformValue>> /\ UNCHANGED currentTechnique
      /\ UNCHANGED tree /\ UNCHANGED reading /\ UNCHANGED phase /\ UNCHANGED material
      /\ currentPass # Unset
  BY DEF PassEnd, PopOptionList, stacks
<1>4. /\ DepthAfter(text, n) = 2 /\ optionLists = <<File, <<k>>, <<k, p>>>>
      /\ currentTechnique = <<k>> /\ k > 0
  BY <1>3, Level
<1>5. /\ DepthAfter(text', Len(text')) = 1 /\ TechniquesAfter(text', Len(text')) = k
  BY <1>2, <1>4, StatementCounts
<1>6. optionLists' = <<File, <<k>>>>
  BY <1>3, <1>4, Fronts
<1>7. Standing'
  <2> HIDE DEF k
  <2> QED
    BY <1>3, <1>4, <1>5, <1>6 DEF Standing, StandsAt
<1>8. Shape' /\ Contents'
  BY <1>2, <1>3, Ended
<1> QED
  BY <1>2, <1>3, <1>7, <1>8, BlockStep

-----------------------------------------------------------------------------
(* The end of the file, and what is built from it *)

\* What remains when only the phase changes.
LEMMA PhaseStep ==
    ASSUME ParserInv, phase' \in {"parse", "build", "failed", "loaded"},
           UNCHANGED <<floatValues, stringValues, uniformValue>>,
           UNCHANGED <<optionLists, currentTechnique, currentPass>>,
           UNCHANGED tree, UNCHANGED reading, UNCHANGED text, UNCHANGED material,
           phase' \in {"parse", "failed"} => material = <<>>,
           phase' \in {"build", "loaded"} => reading = Unset /\ currentTechnique = Unset,
           phase' = "loaded" => Len(material) = TechniquesAfter(text, Len(text))
    PROVE  ParserInv'
<1>1. Types' /\ TextRead' /\ Standing' /\ Shape'
  BY DEF ParserInv, Types, TextRead, Standing, Shape
<1>2. Contents' /\ ReadingNow'
  BY DEF ParserInv, Contents, ReadingNow
<1>3. Built'
  BY DEF ParserInv, Built, BuildPass
<1> QED
  BY <1>1, <1>2, <1>3 DEF ParserInv

\* ParseError: nothing is built.
LEMMA ParseErrorStep ==
    ASSUME ParserInv, ParseError
    PROVE  ParserInv'
<1>1. /\ UNCHANGED <<floatValues, stringValues, uniformValue>>
      /\ UNCHANGED <<optionLists, currentTechnique, currentPass>>
      /\ UNCHANGED tree /\ UNCHANGED reading /\ UNCHANGED text /\ UNCHANGED material
      /\ phase = "parse" /\ phase' = "failed"
  BY DEF ParseError, Context, stacks
<1>2. material = <<>>
  BY <1>1 DEF ParserInv, Built
<1> QED
  BY <1>1, <1>2, PhaseStep

\* EndOfFile: all blocks are closed, building begins.
LEMMA EndOfFileStep ==
    ASSUME ParserInv, EndOfFile
    PROVE  ParserInv'
<1>1. /\ UNCHANGED <<floatValues, stringValues, uniformValue>>
      /\ UNCHANGED <<optionLists, currentTechnique, currentPass>>
      /\ UNCHANGED tree /\ UNCHANGED reading /\ UNCHANGED text /\ UNCHANGED material
      /\ phase' = "build" /\ reading = Unset /\ currentTechnique = Unset
  BY DEF EndOfFile, Context, stacks
<1> QED
  BY <1>1, PhaseStep

\* LoadMaterial: all techniques of the tree are built.
LEMMA LoadMaterialStep ==
    ASSUME ParserInv, LoadMaterial
    PROVE  ParserInv'
<1>1. /\ UNCHANGED <<floatValues, stringValues, uniformValue>>
      /\ UNCHANGED <<optionLists, currentTechnique, currentPass>>
      /\ UNCHANGED tree /\ UNCHANGED reading /\ UNCHANGED text /\ UNCHANGED material
      /\ phase = "build" /\ phase' = "loaded"
      /\ Len(material) = Cardinality(Techniques)
  BY DEF LoadMaterial, Context, stacks
<1>2. reading = Unset /\ currentTechnique = Unset
  BY <1>1 DEF ParserInv, Built
<1>3. Len(material) = TechniquesAfter(text, Len(text))
  BY <1>1, AsMany
<1> QED
  BY <1>1, <1>2, <1>3, PhaseStep

\* The lists that a pass is built from.
LEMMA Lists ==
    ASSUME ParserInv, NEW i \in 1 .. TechniquesAfter(text, Len(text)),
           NEW p \in 1 .. PassesIn(text, Len(text), <<i>>)
    PROVE  /\ i \in Nat /\ p \in Nat
           /\ tree[File] \in Seq(Entries) /\ File \in DOMAIN tree
           /\ tree[<<i>>] \in Seq(Entries) /\ <<i>> \in DOMAIN tree
           /\ tree[<<i, p>>] \in Seq(Entries) /\ <<i, p>> \in DOMAIN tree
           /\ SubSeq(<<i, p>>, 1, 1) = <<i>>
<1> DEFINE n == Len(text)
<1>1. DOMAIN tree = Places(text, n) /\ \A list \in DOMAIN tree : tree[list] \in Seq(Entries)
  BY DEF ParserInv, Shape, Grows
<1>2. n \in Nat /\ TechniquesAfter(text, n) \in Nat
  BY Here
<1>3. PassesIn(text, n, <<i>>) \in Nat
  <2>1. PICK block : block = <<i>>
    OBVIOUS
  <2>2. PassesIn(text, n, block) \in Nat
    BY <1>2, PassesSteps
  <2> QED
    BY <2>1, <2>2
<1>4. i \in Nat /\ p \in Nat
  BY <1>2, <1>3
<1>5. File \in Seq(Nat) /\ <<i>> \in Seq(Nat) /\ <<i, p>> \in Seq(Nat)
  BY <1>4, Short DEF File
<1>6. File \in DOMAIN tree /\ <<i>> \in DOMAIN tree /\ <<i, p>> \in DOMAIN tree
  BY <1>1, <1>5 DEF Places
<1>7. SubSeq(<<i, p>>, 1, 1) = <<i>>
  <2>1. Front(<<i, p>>) = <<i>>
    BY Fronts
  <2>2. Len(<<i, p>>) - 1 = 1
    BY Short
  <2> QED
    BY <2>1, <2>2 DEF Front
<1> QED
  BY <1>1, <1>4, <1>6, <1>7

\* A pass is built of its own list, of that of its technique and of that of the file.
LEMMA PassIsBuilt ==
    ASSUME ParserInv, NEW i \in 1 .. TechniquesAfter(text, Len(text)),
           NEW p \in 1 .. PassesIn(text, Len(text), <<i>>)
    PROVE  /\ BuildPass(<<i, p>>) \in [Settings -> Shown]
           /\ \A s \in Settings :
                 LET own == Held(tree[<<i, p>>], s)
                     technique == Held(tree[<<i>>], s)
                     file == Held(tree[File], s)
                     value == BuildPass(<<i, p>>)[s]
                 IN
                 /\ \A x : Greatest(x, own) => value = tree[<<i, p>>][x].value
                 /\ own = {} =>
                       \A x : Greatest(x, technique) => value = tree[<<i>>][x].value
                 /\ own = {} /\ technique = {} =>
                       \A x : Greatest(x, file) => value = tree[File][x].value
                 /\ own = {} /\ technique = {} /\ file = {} => value = Unset
<1>1. PICK a, b, c : a = tree[File] /\ b = tree[<<i>>] /\ c = tree[<<i, p>>]
  OBVIOUS
<1>2. a \in Seq(Entries) /\ b \in Seq(Entries) /\ c \in Seq(Entries)
  BY <1>1, Lists
<1>3. PICK none : none = [s \in Settings |-> Unset]
  OBVIOUS
<1>4. none \in Showing
  BY <1>3 DEF Shown, Showing
<1>5. PICK fromFile : fromFile = Apply(none, a)
  OBVIOUS
<1>6. PICK fromTechnique : fromTechnique = Apply(fromFile, b)
  OBVIOUS
<1>7. PICK built : built = Apply(fromTechnique, c)
  OBVIOUS
<1>8. BuildPass(<<i, p>>) = built
  BY <1>1, <1>3, <1>5, <1>6, <1>7, Lists DEF BuildPass
<1>9. /\ fromFile \in Showing
      /\ \A s \in Settings :
            /\ Held(a, s) = {} => fromFile[s] = Unset
            /\ \A x : Greatest(x, Held(a, s)) => fromFile[s] = a[x].value
  <2>1. /\ Apply(none, a) \in Showing
        /\ \A s \in Settings :
            /\ Held(a, s) = {} => Apply(none, a)[s] = none[s]
            /\ \A x : Greatest(x, Held(a, s)) => Apply(none, a)[s] = a[x].value
    BY <1>2, <1>4, ApplySays
  <2> QED
    BY <1>3, <1>5, <2>1
<1>10. /\ fromTechnique \in Showing
       /\ \A s \in Settings :
            /\ Held(b, s) = {} => fromTechnique[s] = fromFile[s]
            /\ \A x : Greatest(x, Held(b, s)) => fromTechnique[s] = b[x].value
  BY <1>2, <1>4, <1>6, <1>9, ApplySays
<1>11. /\ built \in Showing
       /\ \A s \in Settings :
            /\ Held(c, s) = {} => built[s] = fromTechnique[s]
            /\ \A x : Greatest(x, Held(c, s)) => built[s] = c[x].value
  BY <1>2, <1>4, <1>7, <1>10, ApplySays
<1>12. ASSUME NEW s \in Settings
       PROVE  /\ \A x : Greatest(x, Held(c, s)) => built[s] = c[x].value
              /\ Held(c, s) = {} => \A x : Greatest(x, Held(b, s)) => built[s] = b[x].value
              /\ Held(c, s) = {} /\ Held(b, s) = {} =>
                    \A x : Greatest(x, Held(a, s)) => built[s] = a[x].value
              /\ Held(c, s) = {} /\ Held(b, s) = {} /\ Held(a, s) = {} => built[s] = Unset
  BY <1>9, <1>10, <1>11
<1> QED
  BY <1>1, <1>8, <1>11, <1>12 DEF Showing

\* AddTechnique builds one technique of the tree with its passes.
LEMMA AddTechniqueStep ==
    ASSUME ParserInv, AddTechnique
    PROVE  ParserInv'
<1> DEFINE n == Len(text)
           t == Len(material) + 1
           passes == [p \in 1 .. Cardinality(Passes(t)) |-> BuildPass(<<t, p>>)]
<1>1. /\ UNCHANGED <<floatValues, stringValues, uniformValue>>
      /\ UNCHANGED <<optionLists, currentTechnique, currentPass>>
      /\ UNCHANGED tree /\ UNCHANGED reading /\ UNCHANGED text /\ UNCHANGED phase
      /\ phase = "build" /\ Len(material) < Cardinality(Techniques)
      /\ material' = Append(material, passes)
  BY DEF AddTechnique, Context, stacks
<1>2. /\ material \in Seq(Seq([Settings -> Shown]))
      /\ Len(material) \in Nat /\ n \in Nat /\ TechniquesAfter(text, n) \in Nat
  BY Here DEF ParserInv, Types, Shown
<1>3. t \in 1 .. TechniquesAfter(text, n)
  BY <1>1, <1>2, AsMany
<1>4. Cardinality(Passes(t)) = PassesIn(text, n, <<t>>) /\ Cardinality(Passes(t)) \in Nat
  <2>1. Cardinality(Passes(t)) = PassesIn(text, n, <<t>>)
    BY <1>3, AsMany
  <2>2. PICK block : block = <<t>>
    OBVIOUS
  <2>3. PassesIn(text, n, block) \in Nat
    BY <1>2, PassesSteps
  <2> QED
    BY <2>1, <2>2, <2>3
<1>5. \A p \in 1 .. Cardinality(Passes(t)) : BuildPass(<<t, p>>) \in [Settings -> Shown]
  <2> SUFFICES ASSUME NEW p \in 1 .. Cardinality(Passes(t))
               PROVE  BuildPass(<<t, p>>) \in [Settings -> Shown]
    OBVIOUS
  <2>1. PICK i : i = t
    OBVIOUS
  <2> HIDE DEF t
  <2>2. i \in 1 .. TechniquesAfter(text, Len(text)) /\ p \in 1 .. PassesIn(text, Len(text), <<i>>)
    BY <1>3, <1>4, <2>1
  <2>3. BuildPass(<<i, p>>) \in [Settings -> Shown]
    BY <2>2, PassIsBuilt
  <2> QED
    BY <2>1, <2>3
<1>6. /\ passes \in Seq([Settings -> Shown]) /\ Len(passes) = Cardinality(Passes(t))
      /\ DOMAIN passes = 1 .. Cardinality(Passes(t))
      /\ \A p \in DOMAIN passes : passes[p] = BuildPass(<<t, p>>)
  <2>1. PICK S, c : S = [Settings -> Shown] /\ c = Cardinality(Passes(t))
    OBVIOUS
  <2>2. \A f \in [1 .. c -> S] : c \in Nat => f \in Seq(S) /\ Len(f) = c
    OBVIOUS
  <2>3. /\ passes \in [1 .. c -> S] /\ DOMAIN passes = 1 .. c
        /\ \A p \in DOMAIN passes : passes[p] = BuildPass(<<t, p>>)
    BY <1>5, <2>1
  <2> HIDE DEF passes, t
  <2> QED
    BY <1>4, <2>1, <2>2, <2>3
<1> HIDE DEF passes
<1>7. /\ material' \in Seq(Seq([Settings -> Shown])) /\ Len(material') = t
      /\ material'[t] = passes
      /\ \A i \in DOMAIN material : material'[i] = material[i]
      /\ \A i \in DOMAIN material' : i \in DOMAIN material \/ i = t
  BY <1>1, <1>2, <1>6
<1>8. Types'
  BY <1>1, <1>7 DEF ParserInv, Types, Shown
<1>9. TextRead' /\ Standing' /\ Shape' /\ Contents' /\ ReadingNow'
  BY <1>1 DEF ParserInv, TextRead, Standing, Shape, Contents, ReadingNow
<1>10. Built'
  <2>1. /\ phase' = "build" /\ reading' = Unset /\ currentTechnique' = Unset
    BY <1>1 DEF ParserInv, Built
  <2>2. Len(material') <= TechniquesAfter(text', Len(text'))
    BY <1>1, <1>3, <1>7
  <2>3. ASSUME NEW i \in DOMAIN material'
        PROVE  /\ Len(material'[i]) = PassesIn(text', Len(text'), <<i>>)
               /\ \A p \in DOMAIN material'[i] : material'[i][p] = BuildPass(<<i, p>>)
    <3> HIDE DEF n, t
    <3>1. CASE i = t
      BY <1>1, <1>4, <1>6, <1>7, <3>1 DEF n
    <3>2. CASE i \in DOMAIN material
      BY <1>1, <1>7, <3>2 DEF ParserInv, Built
    <3> QED
      BY <1>7, <3>1, <3>2
  <2>4. \A pass : BuildPass(pass)' = BuildPass(pass)
    BY <1>1 DEF BuildPass
  <2> QED
    BY <2>1, <2>2, <2>3, <1>1 DEF Built, BuildPass
<1> QED
  BY <1>8, <1>9, <1>10 DEF ParserInv

\* Every step keeps the invariant.
LEMMA ParserStep == ParserInv /\ [ParserNext]_parserVars => ParserInv'
<1> SUFFICES ASSUME ParserInv, [ParserNext]_parserVars PROVE ParserInv'
  OBVIOUS
<1>1. ASSUME NEW o \in Options, NEW v \in OptionValues, Option(o, v) PROVE ParserInv'
  BY <1>1, OptionStep
<1>2. ASSUME NEW u \in Uniforms, NEW x \in Numbers, UniformName(u, "number", <<x>>)
      PROVE  ParserInv'
  <2>1. PICK form, value : form = "number" /\ value = <<x>>
    OBVIOUS
  <2>2. /\ [form |-> form, value |-> value, rule |-> 4] \in Readings /\ value \in Values
        /\ UniformName(u, form, value)
    BY <1>2, <2>1 DEF Readings, Reading, Values, Matched
  <2> QED
    BY <2>2, UniformNameStep
<1>3. ASSUME NEW u \in Uniforms, NEW t \in Tuples, UniformName(u, "tuple", t)
      PROVE  ParserInv'
  <2>1. PICK form : form = "tuple"
    OBVIOUS
  <2>2. /\ [form |-> form, value |-> t, rule |-> 4] \in Readings /\ t \in Values
        /\ UniformName(u, form, t)
    BY <1>3, <2>1 DEF Readings, Reading, Values, Matched
  <2> QED
    BY <2>2, UniformNameStep
<1>4. ASSUME NEW u \in Uniforms, NEW s \in Textures, UniformName(u, "texture", <<s>>)
      PROVE  ParserInv'
  <2>1. PICK form, value : form = "texture" /\ value = <<s>>
    OBVIOUS
  <2>2. /\ [form |-> form, value |-> value, rule |-> 4] \in Readings /\ value \in Values
        /\ UniformName(u, form, value)
    BY <1>4, <2>1 DEF Readings, Reading, Values, Matched
  <2> QED
    BY <2>2, UniformNameStep
<1>5. CASE TryVector
  BY <1>5, TryVectorStep
<1>6. CASE TryScalar
  BY <1>6, TryScalarStep
<1>7. CASE UniformEnd
  BY <1>7, UniformEndStep
<1>8. CASE TechniqueBegin
  BY <1>8, TechniqueBeginStep
<1>9. CASE TechniqueEnd
  BY <1>9, TechniqueEndStep
<1>10. CASE PassBegin
  BY <1>10, PassBeginStep
<1>11. CASE PassEnd
  BY <1>11, PassEndStep
<1>12. CASE ParseError
  BY <1>12, ParseErrorStep
<1>13. CASE EndOfFile
  BY <1>13, EndOfFileStep
<1>14. CASE AddTechnique
  BY <1>14, AddTechniqueStep
<1>15. CASE LoadMaterial
  BY <1>15, LoadMaterialStep
<1>16. CASE UNCHANGED parserVars
  BY <1>16 DEF parserVars, stacks, ParserInv, Types, TextRead, Standing, Shape, Contents,
     ReadingNow, Built, BuildPass
<1>17. CASE Done
  BY <1>16, <1>17 DEF Done
<1> QED
  BY <1>1, <1>2, <1>3, <1>4, <1>5, <1>6, <1>7, <1>8, <1>9, <1>10, <1>11, <1>12, <1>13,
     <1>14, <1>15, <1>16, <1>17 DEF ParserNext

\* So it always holds.
LEMMA ParserInvariance == ParserSpec => []ParserInv
BY ParserInitially, ParserStep, PTL DEF ParserSpec

\* MaterialParser.EverythingConsumed: when the whole file has matched, in whatever
\* way its values were tried, every block is closed and the stacks of strings
\* and values are empty (the assertions of MaterialLoader.cpp that hold).
THEOREM AllConsumed == ParserSpec => []EverythingConsumed
<1>1. ParserInv => EverythingConsumed
  <2> SUFFICES ASSUME ParserInv PROVE EverythingConsumed
    OBVIOUS
  <2>1. ParserTypeOK
    BY TypesHold
  <2>2. ASSUME phase \in {"build", "loaded"}
        PROVE  /\ currentTechnique = Unset /\ currentPass = Unset /\ optionLists = <<File>>
               /\ stringValues = <<>> /\ uniformValue = Unset
    <3>1. reading = Unset /\ currentTechnique = Unset
      BY <2>2 DEF ParserInv, Built
    <3>2. stringValues = <<>> /\ uniformValue = Unset
      BY <3>1 DEF ParserInv, ReadingNow
    <3>3. currentPass = Unset /\ optionLists = <<File>>
      BY <3>1, Level
    <3> QED
      BY <3>1, <3>2, <3>3
  <2> QED
    BY <2>1, <2>2 DEF EverythingConsumed
<1> QED
  BY ParserInvariance, <1>1, PTL

-----------------------------------------------------------------------------
(* What a loaded material shows *)

\* The last statement for a setting in a block.
LEMMA LastSaid ==
    ASSUME Len(text) \in Nat, DOMAIN text = 1 .. Len(text), NEW block, NEW s
    PROVE  /\ Said(text, Len(text), block, s) = {} => LastIn(block, s) = 0
           /\ Said(text, Len(text), block, s) # {} =>
                 /\ LastIn(block, s) # 0
                 /\ Greatest(LastIn(block, s), Said(text, Len(text), block, s))
<1> DEFINE S == Said(text, Len(text), block, s)
           c == CHOOSE k \in S : \A j \in S : j <= k
<1>1. S = {k \in DOMAIN text : text[k].what = "set" /\ text[k].name = s /\ Block(k) = block}
  BY BlockIs DEF Said
<1>2. LastIn(block, s) = IF S = {} THEN 0 ELSE c
  BY <1>1 DEF LastIn
<1>3. S \in SUBSET (1 .. Len(text))
  BY DEF Said
<1> HIDE DEF S
<1>4. S # {} => c \in S /\ \A j \in S : j <= c
  BY <1>3, GreatestExists
<1>5. 0 \notin S
  BY <1>3
<1> HIDE DEF c
<1> QED
  BY <1>2, <1>4, <1>5 DEF S, Greatest

\* Of a list that agrees with the text the last entry for a setting is the
\* last statement.
LEMMA LastHeld ==
    ASSUME Len(text) \in Nat, DOMAIN text = 1 .. Len(text), NEW block, NEW s,
           NEW entries \in Seq(Entries), Agrees(text, Len(text), block, s, entries)
    PROVE  /\ LastIn(block, s) = 0 <=> Held(entries, s) = {}
           /\ LastIn(block, s) # 0 =>
                 \E x : /\ Greatest(x, Held(entries, s))
                        /\ entries[x].value = text[LastIn(block, s)].value
<1>1. /\ Said(text, Len(text), block, s) = {} => LastIn(block, s) = 0
      /\ Said(text, Len(text), block, s) # {} =>
            /\ LastIn(block, s) # 0
            /\ Greatest(LastIn(block, s), Said(text, Len(text), block, s))
  BY LastSaid
<1>2. Held(entries, s) \in SUBSET (1 .. Len(entries)) /\ Len(entries) \in Nat
  BY DEF Held
<1>3. Held(entries, s) # {} => \E x : Greatest(x, Held(entries, s))
  <2>1. PICK H, n : H = Held(entries, s) /\ n = Len(entries)
    OBVIOUS
  <2>2. n \in Nat /\ H \in SUBSET (1 .. n)
    BY <1>2, <2>1
  <2>3. H # {} => \E x \in H : \A j \in H : j <= x
    BY <2>2, GreatestExists
  <2> QED
    BY <2>1, <2>3 DEF Greatest
<1> QED
  BY <1>1, <1>3 DEF Agrees

\* Three blocks, from the inside out.
LEMMA InnermostDecides ==
    ASSUME NEW t, NEW p, NEW s
    PROVE  LET own == LastIn(<<t, p>>, s)
               technique == LastIn(<<t>>, s)
               file == LastIn(File, s)
           IN
           /\ own # 0 => Meant(t, p, s) = text[own].value
           /\ own = 0 /\ technique # 0 => Meant(t, p, s) = text[technique].value
           /\ own = 0 /\ technique = 0 /\ file # 0 => Meant(t, p, s) = text[file].value
           /\ own = 0 /\ technique = 0 /\ file = 0 => Meant(t, p, s) = Unset
<1>1. PICK a, b, c : a = <<t, p>> /\ b = <<t>> /\ c = File
  OBVIOUS
<1>2. Len(a) = 2 /\ Len(b) = 1 /\ Len(c) = 0
  BY <1>1, Short DEF File
<1> DEFINE places == {block \in {a, b, c} : LastIn(block, s) # 0}
           best(block) == \A other \in places : Len(other) <= Len(block)
           innermost == CHOOSE block \in places : best(block)
<1>3. Meant(t, p, s) = IF places = {} THEN Unset ELSE text[LastIn(innermost, s)].value
  BY <1>1 DEF Meant
<1>4. ASSUME NEW block \in places, best(block) PROVE innermost = block
  <2>1. innermost \in places /\ best(innermost)
    BY <1>4
  <2> HIDE DEF innermost
  <2> QED
    BY <1>2, <1>4, <2>1
<1> HIDE DEF innermost
<1>5. LastIn(a, s) # 0 => a \in places /\ best(a)
  BY <1>2
<1>6. LastIn(a, s) = 0 /\ LastIn(b, s) # 0 => b \in places /\ best(b)
  BY <1>2
<1>7. LastIn(a, s) = 0 /\ LastIn(b, s) = 0 /\ LastIn(c, s) # 0 => c \in places /\ best(c)
  BY <1>2
<1>8. LastIn(a, s) = 0 /\ LastIn(b, s) = 0 /\ LastIn(c, s) = 0 => places = {}
  OBVIOUS
<1> HIDE DEF places, best
<1>9. /\ LastIn(a, s) # 0 => Meant(t, p, s) = text[LastIn(a, s)].value
      /\ LastIn(a, s) = 0 /\ LastIn(b, s) # 0 => Meant(t, p, s) = text[LastIn(b, s)].value
      /\ LastIn(a, s) = 0 /\ LastIn(b, s) = 0 /\ LastIn(c, s) # 0 =>
            Meant(t, p, s) = text[LastIn(c, s)].value
      /\ LastIn(a, s) = 0 /\ LastIn(b, s) = 0 /\ LastIn(c, s) = 0 => Meant(t, p, s) = Unset
  BY <1>3, <1>4, <1>5, <1>6, <1>7, <1>8
<1> QED
  BY <1>1, <1>9

\* A pass is built as the text means it.
LEMMA BuiltAsMeant ==
    ASSUME ParserInv, reading = Unset, NEW i \in 1 .. TechniquesAfter(text, Len(text)),
           NEW p \in 1 .. PassesIn(text, Len(text), <<i>>), NEW s \in Settings
    PROVE  BuildPass(<<i, p>>)[s] = Meant(i, p, s)
<1>1. PICK a, b, c : a = <<i, p>> /\ b = <<i>> /\ c = File
  OBVIOUS
<1>2. PICK as, bs, cs : as = tree[a] /\ bs = tree[b] /\ cs = tree[c]
  OBVIOUS
<1>3. /\ as \in Seq(Entries) /\ bs \in Seq(Entries) /\ cs \in Seq(Entries)
      /\ a \in DOMAIN tree /\ b \in DOMAIN tree /\ c \in DOMAIN tree
  BY <1>1, <1>2, Lists
<1>4. Len(text) \in Nat /\ DOMAIN text = 1 .. Len(text)
  BY DEF ParserInv, TextRead
<1>5. /\ Agrees(text, Len(text), a, s, as)
      /\ Agrees(text, Len(text), b, s, bs)
      /\ Agrees(text, Len(text), c, s, cs)
  BY <1>2, <1>3 DEF ParserInv, Contents
<1>6. /\ LastIn(a, s) = 0 <=> Held(as, s) = {}
      /\ LastIn(a, s) # 0 =>
            \E x : Greatest(x, Held(as, s)) /\ as[x].value = text[LastIn(a, s)].value
  BY <1>3, <1>4, <1>5, LastHeld
<1>7. /\ LastIn(b, s) = 0 <=> Held(bs, s) = {}
      /\ LastIn(b, s) # 0 =>
            \E x : Greatest(x, Held(bs, s)) /\ bs[x].value = text[LastIn(b, s)].value
  BY <1>3, <1>4, <1>5, LastHeld
<1>8. /\ LastIn(c, s) = 0 <=> Held(cs, s) = {}
      /\ LastIn(c, s) # 0 =>
            \E x : Greatest(x, Held(cs, s)) /\ cs[x].value = text[LastIn(c, s)].value
  BY <1>3, <1>4, <1>5, LastHeld
<1>9. PICK value, meant : value = BuildPass(<<i, p>>)[s] /\ meant = Meant(i, p, s)
  OBVIOUS
<1>10. /\ \A x : Greatest(x, Held(as, s)) => value = as[x].value
       /\ Held(as, s) = {} => \A x : Greatest(x, Held(bs, s)) => value = bs[x].value
       /\ Held(as, s) = {} /\ Held(bs, s) = {} =>
             \A x : Greatest(x, Held(cs, s)) => value = cs[x].value
       /\ Held(as, s) = {} /\ Held(bs, s) = {} /\ Held(cs, s) = {} => value = Unset
  <2>1. /\ \A x : Greatest(x, Held(tree[<<i, p>>], s)) =>
                   BuildPass(<<i, p>>)[s] = tree[<<i, p>>][x].value
        /\ Held(tree[<<i, p>>], s) = {} =>
              \A x : Greatest(x, Held(tree[<<i>>], s)) =>
                        BuildPass(<<i, p>>)[s] = tree[<<i>>][x].value
        /\ Held(tree[<<i, p>>], s) = {} /\ Held(tree[<<i>>], s) = {} =>
              \A x : Greatest(x, Held(tree[File], s)) =>
                        BuildPass(<<i, p>>)[s] = tree[File][x].value
        /\ Held(tree[<<i, p>>], s) = {} /\ Held(tree[<<i>>], s) = {}
              /\ Held(tree[File], s) = {} => BuildPass(<<i, p>>)[s] = Unset
    BY PassIsBuilt
  <2> QED
    BY <1>1, <1>2, <1>9, <2>1
<1>11. /\ LastIn(a, s) # 0 => meant = text[LastIn(a, s)].value
       /\ LastIn(a, s) = 0 /\ LastIn(b, s) # 0 => meant = text[LastIn(b, s)].value
       /\ LastIn(a, s) = 0 /\ LastIn(b, s) = 0 /\ LastIn(c, s) # 0 =>
             meant = text[LastIn(c, s)].value
       /\ LastIn(a, s) = 0 /\ LastIn(b, s) = 0 /\ LastIn(c, s) = 0 => meant = Unset
  BY <1>1, <1>9, InnermostDecides
<1>12. value = meant
  BY <1>6, <1>7, <1>8, <1>10, <1>11
<1> QED
  BY <1>9, <1>12

\* MaterialParser.MaterialAsWritten: a loaded material has the techniques and
\* passes of its file, in order, and every setting of a pass is what the
\* innermost block that mentions it said last, for every file and all values.
THEOREM LoadedAsWritten == ParserSpec => []MaterialAsWritten
<1>1. ParserInv => MaterialAsWritten
  <2> SUFFICES ASSUME ParserInv, phase = "loaded"
               PROVE  /\ Len(material) = Count("technique", 1, Len(text))
                      /\ \A t \in DOMAIN material :
                            /\ Len(material[t]) =
                                  Cardinality({k \in DOMAIN text :
                                      text[k].what = "pass" /\ Block(k) = <<t>>})
                            /\ \A p \in DOMAIN material[t], s \in Settings :
                                  material[t][p][s] = Meant(t, p, s)
    BY DEF MaterialAsWritten
  <2> DEFINE n == Len(text)
  <2>1. n \in Nat /\ DOMAIN text = 1 .. n
    BY DEF ParserInv, TextRead
  <2>2. /\ reading = Unset /\ Len(material) = TechniquesAfter(text, n)
        /\ \A t \in DOMAIN material :
              /\ Len(material[t]) = PassesIn(text, n, <<t>>)
              /\ \A p \in DOMAIN material[t] : material[t][p] = BuildPass(<<t, p>>)
    BY DEF ParserInv, Built
  <2>3. /\ material \in Seq(Seq(Showing))
        /\ DOMAIN material = 1 .. TechniquesAfter(text, n)
        /\ \A t \in DOMAIN material : DOMAIN material[t] = 1 .. Len(material[t])
    BY <2>2 DEF ParserInv, Types, Showing, Shown
  <2>4. TechniquesAfter(text, n) = Count("technique", 1, n)
    BY DEF TechniquesAfter, CountOf, Count
  <2>5. \A block : PassesIn(text, n, block) =
            Cardinality({k \in DOMAIN text : text[k].what = "pass" /\ Block(k) = block})
    <3>1. ASSUME NEW block
          PROVE  {k \in 1 .. n : text[k].what = "pass" /\ BlockAfter(text, k - 1) = block} =
                     {k \in DOMAIN text : text[k].what = "pass" /\ Block(k) = block}
      BY <2>1, BlockIs
    <3> QED
      BY <3>1 DEF PassesIn
  <2>6. ASSUME NEW t \in DOMAIN material, NEW p \in DOMAIN material[t], NEW s \in Settings
        PROVE  material[t][p][s] = Meant(t, p, s)
    <3>1. t \in 1 .. TechniquesAfter(text, Len(text)) /\ p \in 1 .. PassesIn(text, Len(text), <<t>>)
      BY <2>2, <2>3
    <3>2. BuildPass(<<t, p>>)[s] = Meant(t, p, s)
      BY <2>2, <3>1, BuiltAsMeant
    <3> QED
      BY <2>2, <3>2
  <2> QED
    BY <2>2, <2>4, <2>5, <2>6
<1> QED
  BY ParserInvariance, <1>1, PTL
=============================================================================
