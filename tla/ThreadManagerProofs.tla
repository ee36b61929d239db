------------------------- MODULE ThreadManagerProofs -------------------------
(***************************************************************************)
(* From main() to exit, for any resources: the worker has drained its      *)
(* queue when it leaves its loop; closures run while what they use exists; *)
(* nobody holds a resource when the services go; and every GL object is    *)
(* deleted once. The argument: a reference that a closure stands for is    *)
(* held as long as that closure exists, and there is only one of its kind; *)
(* a stop is behind all loads, since nobody posts one after it.            *)
(***************************************************************************)
EXTENDS ThreadManager, FiniteSetTheorems, TLAPS

Elements(s) == {s[k] : k \in DOMAIN s}
Loads == {Load(r) : r \in Resources}
Setups == {Setup(r) : r \in Resources}
Deletes == {Delete(r) : r \in Resources}
\* No closure in K is twice in s.
Once(K, s) == \A i, j \in DOMAIN s : s[i] = s[j] /\ s[i] \in K => i = j

StopsLast(s) == \A i, j \in DOMAIN s : i < j /\ s[i] = Stop => s[j] = Stop

Running == {"frame", "flush", "run", "reset", "shutdown"}
BeforeStop == Running \cup {"boot", "initialize", "stop"}
Late == {"destructor", "join", "destroy", "exit"}

\* What exists when.
Phases ==
    /\ pc \in Running => window /\ ApplicationServices \subseteq services
    /\ pc = "initialize" => window
    /\ pc \notin Late => PlatformServices \subseteq services
    /\ pc \in {"run", "reset"} => Len(action) = 1
    /\ pc \notin {"run", "reset", "clear", "destroy"} => action = <<>>

\* Stops come last, and the worker leaves its loop because of one.
Stopping ==
    /\ mExited <=> wpc = "exited"
    /\ mExited => mShouldExit
    /\ job # Idle <=> wpc \in {"run", "reset"}
    /\ pc \in BeforeStop => ~mShouldExit /\ job # Stop /\ Stop \notin Elements(jobs)
    /\ pc \in {"clear"} \cup Late => mExited
    /\ mShouldExit \/ job = Stop => Elements(jobs) \subseteq {Stop}
    /\ StopsLast(jobs)

\* Which closures are where.
Kinds ==
    /\ Elements(jobs) \subseteq Loads \cup {Stop}
    /\ job \in Loads \cup {Stop, Idle}
    /\ Elements(mRenderThreadQueue) \subseteq Setups \cup Deletes
    /\ pc # "destroy" => Elements(action) \subseteq Setups \cup Deletes
    /\ pc = "destroy" => Elements(action) \subseteq Deletes \cup {Stop}
    /\ pc \in {"clear"} \cup Late => Elements(mRenderThreadQueue) \subseteq Deletes

\* A load holds its resource as long as it exists; it is the only one, and
\* before it has run there is no setup.
LoadsHold ==
    /\ Once(Loads, jobs)
    /\ \A r \in Resources :
          /\ Load(r) \in Elements(jobs) =>
                "load" \in holders[r] /\ "setup" \notin holders[r] /\ job # Load(r)
          /\ job = Load(r) =>
                "load" \in holders[r] /\ (wpc = "run" => "setup" \notin holders[r])
          /\ "load" \in holders[r] => job = Load(r) \/ Load(r) \in Elements(jobs)

\* So does a setup.
SetupsHold ==
    /\ Once(Setups, mRenderThreadQueue) /\ Once(Setups, action)
    /\ \A r \in Resources :
          /\ Setup(r) \in Elements(mRenderThreadQueue) => Setup(r) \notin Elements(action)
          /\ "setup" \in holders[r] <=>
                Setup(r) \in Elements(mRenderThreadQueue) \cup Elements(action)

\* A resource holds another one as long as it is held itself; scenes hold
\* resources while the program runs; and in the end nobody does.
References ==
    \A r \in Resources :
        /\ \A h \in holders[r] \cap Resources : Sub[h] = r /\ holders[h] # {}
        /\ "scene" \in holders[r] => pc \in Running
        /\ pc \in Late => holders[r] = {}

IInv == TypeOK /\ Phases /\ Stopping /\ Kinds /\ LoadsHold /\ SetupsHold /\ References

-----------------------------------------------------------------------------
(* Closures and queues *)

LEMMA ClosureKinds ==
    /\ \A r, q \in Resources :
          /\ Load(r) # Setup(q) /\ Load(r) # Delete(q) /\ Setup(r) # Delete(q)
          /\ Load(r) = Load(q) \/ Setup(r) = Setup(q) \/ Delete(r) = Delete(q) => r = q
    /\ \A r \in Resources :
          /\ Load(r) \in Closure /\ Setup(r) \in Closure /\ Delete(r) \in Closure
          /\ Stop \notin {Load(r), Setup(r), Delete(r)}
          /\ Idle \notin {Load(r), Setup(r), Delete(r)}
          /\ Load(r).kind = "load" /\ Setup(r).kind = "setup" /\ Delete(r).kind = "delete"
          /\ Load(r).res = r /\ Setup(r).res = r /\ Delete(r).res = r
    /\ Stop \in Closure /\ Stop # Idle
    /\ Stop.kind = "stop" /\ Idle.kind = "none"
<1>1. \A r \in Resources : /\ Load(r).kind = "load" /\ Setup(r).kind = "setup"
                           /\ Delete(r).kind = "delete"
                           /\ Load(r).res = r /\ Setup(r).res = r /\ Delete(r).res = r
                           /\ Load(r) \in Closure /\ Setup(r) \in Closure
                           /\ Delete(r) \in Closure
  BY DEF Load, Setup, Delete, Closure
<1>2. Stop.kind = "stop" /\ Idle.kind = "none" /\ Stop \in Closure
  BY DEF Stop, Idle, Closure
<1> QED
  BY <1>1, <1>2

LEMMA AppendElements ==
    ASSUME NEW S, NEW s \in Seq(S), NEW x \in S
    PROVE  /\ Append(s, x) \in Seq(S) /\ Append(s, x) # <<>>
           /\ Elements(Append(s, x)) = Elements(s) \cup {x}
           /\ \A K : Once(K, s) /\ (x \in K => x \notin Elements(s)) => Once(K, Append(s, x))
<1> DEFINE t == Append(s, x)
<1>1. /\ t \in Seq(S) /\ t # <<>> /\ Len(t) = Len(s) + 1 /\ Len(s) \in Nat
      /\ DOMAIN s = 1 .. Len(s) /\ DOMAIN t = 1 .. Len(t)
      /\ t[Len(s) + 1] = x
      /\ \A k \in DOMAIN s : t[k] = s[k]
  OBVIOUS
<1> HIDE DEF t
<1>2. DOMAIN t = DOMAIN s \cup {Len(s) + 1} /\ Len(s) + 1 \notin DOMAIN s
  BY <1>1
<1>3. Elements(t) = Elements(s) \cup {x}
  BY <1>1, <1>2 DEF Elements
<1>4. ASSUME NEW K, Once(K, s), x \in K => x \notin Elements(s),
             NEW i \in DOMAIN t, NEW j \in DOMAIN t, t[i] = t[j], t[i] \in K
      PROVE  i = j
  <2>1. CASE i \in DOMAIN s /\ j \in DOMAIN s
    BY <1>1, <1>4, <2>1 DEF Once
  <2>2. CASE i = Len(s) + 1 /\ j \in DOMAIN s
    BY <1>1, <1>4, <2>2 DEF Elements
  <2>3. CASE j = Len(s) + 1 /\ i \in DOMAIN s
    BY <1>1, <1>4, <2>3 DEF Elements
  <2> QED
    BY <1>2, <2>1, <2>2, <2>3
<1>5. \A K : Once(K, s) /\ (x \in K => x \notin Elements(s)) => Once(K, t)
  BY <1>4 DEF Once
<1> QED
  BY <1>1, <1>3, <1>5 DEF t

LEMMA TailShifts ==
    ASSUME NEW S, NEW s \in Seq(S), s # <<>>
    PROVE  /\ Tail(s) \in Seq(S) /\ Head(s) \in S /\ Head(s) = s[1] /\ 1 \in DOMAIN s
           /\ DOMAIN s \subseteq Nat /\ DOMAIN Tail(s) \subseteq Nat
           /\ \A k \in DOMAIN Tail(s) : /\ Tail(s)[k] = s[k + 1]
                                        /\ k + 1 \in DOMAIN s /\ k + 1 # 1
           /\ \A k \in DOMAIN s : k # 1 => /\ k - 1 \in DOMAIN Tail(s)
                                           /\ Tail(s)[k - 1] = s[k]
<1> DEFINE t == Tail(s)
<1>1. /\ t \in Seq(S) /\ Len(t) = Len(s) - 1 /\ Len(s) \in Nat \ {0}
      /\ DOMAIN s = 1 .. Len(s) /\ DOMAIN t = 1 .. Len(t)
      /\ Head(s) = s[1] /\ Head(s) \in S
      /\ \A k \in DOMAIN t : t[k] = s[k + 1]
  OBVIOUS
<1> HIDE DEF t
<1>2. \A k \in DOMAIN t : k + 1 \in DOMAIN s /\ k + 1 # 1
  BY <1>1
<1>3. \A k \in DOMAIN s : k # 1 => k - 1 \in DOMAIN t /\ (k - 1) + 1 = k
  BY <1>1
<1>4. \A k \in DOMAIN s : k # 1 => k - 1 \in DOMAIN t /\ t[k - 1] = s[k]
  BY <1>1, <1>3
<1>5. 1 \in DOMAIN s /\ DOMAIN s \subseteq Nat /\ DOMAIN t \subseteq Nat
  BY <1>1
<1> QED
  BY <1>1, <1>2, <1>4, <1>5 DEF t

LEMMA SingleClosure ==
    ASSUME NEW s \in Seq(Closure), Len(s) = 1
    PROVE  s # <<>> /\ Tail(s) = <<>>
<1>1. Len(<<>>) = 0 /\ 0 # 1
  OBVIOUS
<1>2. s # <<>>
  BY <1>1, Zenon
<1>3. Tail(s) \in Seq(Closure) /\ Len(Tail(s)) = 0
  BY <1>2
<1>4. ASSUME NEW q \in Seq(Closure), q # <<>> PROVE Len(q) # 0
  BY <1>4
<1> QED
  BY <1>2, <1>3, <1>4

LEMMA TailElements ==
    ASSUME NEW S, NEW s \in Seq(S), s # <<>>
    PROVE  /\ Head(s) \in S /\ Tail(s) \in Seq(S)
           /\ Elements(s) = Elements(Tail(s)) \cup {Head(s)}
           /\ \A K : Once(K, s) => /\ Once(K, Tail(s))
                                   /\ Head(s) \in K => Head(s) \notin Elements(Tail(s))
<1> DEFINE t == Tail(s)
<1>1. /\ t \in Seq(S) /\ Head(s) \in S /\ Head(s) = s[1] /\ 1 \in DOMAIN s
      /\ DOMAIN s \subseteq Nat /\ DOMAIN t \subseteq Nat
      /\ \A k \in DOMAIN t : t[k] = s[k + 1] /\ k + 1 \in DOMAIN s /\ k + 1 # 1
      /\ \A k \in DOMAIN s : k # 1 => k - 1 \in DOMAIN t /\ t[k - 1] = s[k]
  BY TailShifts
<1> HIDE DEF t
<1>2. Elements(t) \cup {Head(s)} \subseteq Elements(s)
  BY <1>1 DEF Elements
<1>3. Elements(s) \subseteq Elements(t) \cup {Head(s)}
  <2> SUFFICES ASSUME NEW k \in DOMAIN s, k # 1 PROVE s[k] \in Elements(t)
    BY <1>1 DEF Elements
  <2> QED
    BY <1>1 DEF Elements
<1>4. ASSUME NEW K, Once(K, s) PROVE Once(K, t)
  <2> SUFFICES ASSUME NEW i \in DOMAIN t, NEW j \in DOMAIN t, t[i] = t[j], t[i] \in K
               PROVE  i = j
    BY DEF Once
  <2>1. i + 1 = j + 1
    BY <1>1, <1>4 DEF Once
  <2> QED
    BY <1>1, <2>1
<1>5. ASSUME NEW K, Once(K, s), Head(s) \in K PROVE Head(s) \notin Elements(t)
  BY <1>1, <1>5 DEF Once, Elements
<1> QED
  BY <1>1, <1>2, <1>3, <1>4, <1>5 DEF t

\* Stops that come last still do when one is appended or the head is taken.
LEMMA StopsStayLast ==
    ASSUME NEW s \in Seq(Closure), StopsLast(s)
    PROVE  /\ StopsLast(Append(s, Stop))
           /\ \A c \in Closure : Stop \notin Elements(s) => StopsLast(Append(s, c))
           /\ s # <<>> => /\ StopsLast(Tail(s))
                          /\ Head(s) = Stop => Elements(Tail(s)) \subseteq {Stop}
<1>1. ASSUME NEW c \in Closure, c = Stop \/ Stop \notin Elements(s)
      PROVE  StopsLast(Append(s, c))
  <2> DEFINE t == Append(s, c)
  <2>1. /\ DOMAIN s = 1 .. Len(s) /\ DOMAIN t = 1 .. Len(s) + 1 /\ Len(s) \in Nat
        /\ t[Len(s) + 1] = c
        /\ \A k \in DOMAIN s : t[k] = s[k]
    OBVIOUS
  <2> HIDE DEF t
  <2>2. ASSUME NEW i \in DOMAIN t, NEW j \in DOMAIN t, i < j, t[i] = Stop
        PROVE  t[j] = Stop
    <3>1. i \in DOMAIN s
      BY <2>1, <2>2
    <3>2. s[i] = Stop /\ Stop \in Elements(s)
      BY <2>1, <2>2, <3>1 DEF Elements
    <3>3. CASE j \in DOMAIN s
      BY <2>1, <2>2, <3>1, <3>2, <3>3 DEF StopsLast
    <3>4. CASE j \notin DOMAIN s
      BY <1>1, <2>1, <3>2, <3>4
    <3> QED
      BY <3>3, <3>4
  <2>3. StopsLast(t)
    BY <2>2 DEF StopsLast
  <2> QED
    BY <2>3 DEF t
<1>2. ASSUME s # <<>>
      PROVE  /\ StopsLast(Tail(s))
             /\ Head(s) = Stop => Elements(Tail(s)) \subseteq {Stop}
  <2> DEFINE t == Tail(s)
  <2>1. /\ Head(s) = s[1] /\ 1 \in DOMAIN s
        /\ DOMAIN s \subseteq Nat /\ DOMAIN t \subseteq Nat
        /\ \A k \in DOMAIN t : t[k] = s[k + 1] /\ k + 1 \in DOMAIN s /\ k + 1 # 1
    BY <1>2, TailShifts
  <2> HIDE DEF t
  <2>2. ASSUME NEW i \in DOMAIN t, NEW j \in DOMAIN t, i < j, t[i] = Stop
        PROVE  t[j] = Stop
    <3>1. i + 1 < j + 1
      BY <2>1, <2>2
    <3> QED
      BY <2>1, <2>2, <3>1 DEF StopsLast
  <2>3. ASSUME Head(s) = Stop, NEW k \in DOMAIN t PROVE t[k] = Stop
    <3>1. 1 < k + 1
      BY <2>1
    <3> QED
      BY <2>1, <2>3, <3>1 DEF StopsLast
  <2>4. StopsLast(t) /\ (Head(s) = Stop => Elements(t) \subseteq {Stop})
    BY <2>2, <2>3 DEF StopsLast, Elements
  <2> QED
    BY <2>4 DEF t
<1>3. Stop \in Closure
  BY ClosureKinds
<1> QED
  BY <1>1, <1>2, <1>3

LEMMA ConcatElements ==
    ASSUME NEW S, NEW s \in Seq(S), NEW t \in Seq(S)
    PROVE  s \o t \in Seq(S) /\ Elements(s \o t) = Elements(s) \cup Elements(t)
<1> DEFINE u == s \o t
<1>1. /\ u \in Seq(S) /\ Len(u) = Len(s) + Len(t) /\ Len(s) \in Nat /\ Len(t) \in Nat
      /\ DOMAIN s = 1 .. Len(s) /\ DOMAIN t = 1 .. Len(t) /\ DOMAIN u = 1 .. Len(u)
      /\ \A k \in DOMAIN s : u[k] = s[k]
      /\ \A k \in DOMAIN u : k \notin DOMAIN s => u[k] = t[k - Len(s)]
  OBVIOUS
<1> HIDE DEF u
<1>2. \A k \in DOMAIN u : k \in DOMAIN s \/ k - Len(s) \in DOMAIN t
  BY <1>1
<1>3. \A k \in DOMAIN s : k \in DOMAIN u
  BY <1>1
<1>4. \A k \in DOMAIN t : /\ k + Len(s) \in DOMAIN u /\ k + Len(s) \notin DOMAIN s
                          /\ (k + Len(s)) - Len(s) = k
  BY <1>1
<1>5. Elements(u) \subseteq Elements(s) \cup Elements(t)
  BY <1>1, <1>2 DEF Elements
<1>6. Elements(s) \subseteq Elements(u)
  BY <1>1, <1>3 DEF Elements
<1>7. Elements(t) \subseteq Elements(u)
  BY <1>1, <1>4 DEF Elements
<1> QED
  BY <1>1, <1>5, <1>6, <1>7 DEF u

-----------------------------------------------------------------------------
(* References *)

Single == {"scene", "load", "setup"}

\* The pairs in `gone` let go: who holds a resource because of another one that
\* is still held, still does; nobody else lets go; what is posted are deletions,
\* at most one, and that of a GL object that dies.
GivesUp(gone) ==
    /\ holders' \in [Resources -> SUBSET Holder]
    /\ \A x \in Resources, g \in Single :
          g \in holders'[x] <=> g \in holders[x] /\ <<g, x>> \notin gone
    /\ \A x \in Resources :
          /\ holders'[x] \subseteq holders[x]
          /\ \A g \in holders'[x] \cap Resources : Sub[g] = x /\ holders'[g] # {}
    /\ mRenderThreadQueue' \in Seq(Closure)
    /\ \E more \in SUBSET Deletes :
          Elements(mRenderThreadQueue') = Elements(mRenderThreadQueue) \cup more
    /\ Once(Setups, mRenderThreadQueue')
    /\ \/ /\ mRenderThreadQueue' = mRenderThreadQueue
          /\ \A y \in GLObjects : holders[y] = {} <=> holders'[y] = {}
       \/ \E x \in GLObjects :
             /\ mRenderThreadQueue' = Append(mRenderThreadQueue, Delete(x))
             /\ holders[x] # {} /\ holders'[x] = {}
             /\ \A y \in GLObjects : y # x => (holders[y] = {} <=> holders'[y] = {})

LEMMA Released ==
    ASSUME IInv, NEW r \in Resources, NEW h \in Single, h \in holders[r], LetGo(h, r)
    PROVE  GivesUp({<<h, r>>})
<1> DEFINE left == [holders EXCEPT ![r] = @ \ {h}]
<1>1. /\ holders \in [Resources -> SUBSET Holder] /\ mRenderThreadQueue \in Seq(Closure)
      /\ Resources \cap Single = {} /\ None \notin Resources
      /\ Sub \in [Resources -> Resources \cup {None}]
      /\ \A x \in Resources : Sub[x] # None => Sub[Sub[x]] = None
  BY ThreadManagerAssumption DEF IInv, TypeOK, Single
<1>2. holders' = IF left[r] = {} /\ Sub[r] # None
                 THEN [left EXCEPT ![Sub[r]] = @ \ {r}] ELSE left
  BY DEF LetGo, Without
<1>3. left \in [Resources -> SUBSET Holder] /\ left[r] = holders[r] \ {h}
      /\ \A x \in Resources : x # r => left[x] = holders[x]
  BY <1>1
<1> HIDE DEF left
<1>4. holders' \in [Resources -> SUBSET Holder]
  BY <1>1, <1>2, <1>3
<1>5. Sub[r] # None => Sub[r] \in Resources /\ Sub[r] # r
  BY <1>1
<1>6. /\ holders'[r] = holders[r] \ {h}
      /\ \A x \in Resources : x # r =>
            holders'[x] = IF x = Sub[r] /\ left[r] = {} THEN holders[x] \ {r} ELSE holders[x]
  BY <1>1, <1>2, <1>3, <1>5
<1>7. \A x \in Resources, g \in Single :
         g \in holders'[x] <=> g \in holders[x] /\ <<g, x>> \notin {<<h, r>>}
  BY <1>1, <1>6
<1>8. \A x \in Resources : holders'[x] \subseteq holders[x]
  BY <1>6
<1>9. ASSUME NEW x \in Resources, NEW g \in holders'[x] \cap Resources
      PROVE  Sub[g] = x /\ holders'[g] # {}
  <2>1. Sub[g] = x /\ holders[g] # {} /\ x # None
    BY <1>1, <1>8, <1>9 DEF IInv, References
  <2>2. CASE g = r
    BY <1>1, <1>3, <1>5, <1>6, <1>9, <2>1, <2>2
  <2>3. CASE g # r
    \* g has a part, so it is nobody's part.
    <3>1. g # Sub[r]
      BY <1>1, <2>1
    <3> QED
      BY <1>6, <2>1, <2>3, <3>1
  <2> QED
    BY <2>1, <2>2, <2>3
<1>10. \A x \in GLObjects : x \in Resources /\ Sub[x] = None
  BY DEF GLObjects
<1>11. mRenderThreadQueue' = mRenderThreadQueue \o Posted(h, r) /\ holders' = Without(h, r)
  BY DEF LetGo
<1>12. \/ /\ mRenderThreadQueue' = mRenderThreadQueue
          /\ \A y \in GLObjects : holders[y] = {} <=> holders'[y] = {}
       \/ \E x \in GLObjects :
             /\ mRenderThreadQueue' = Append(mRenderThreadQueue, Delete(x))
             /\ holders[x] # {} /\ holders'[x] = {}
             /\ \A y \in GLObjects : y # x => (holders[y] = {} <=> holders'[y] = {})
  <2> DEFINE died(x) == x \in GLObjects /\ holders[x] # {} /\ holders'[x] = {}
  <2>1. Posted(h, r) = IF died(r) THEN <<Delete(r)>>
                       ELSE IF Sub[r] # None /\ died(Sub[r]) THEN <<Delete(Sub[r])>>
                       ELSE <<>>
    BY <1>11 DEF Posted
  <2>2. \A y \in GLObjects : y # r /\ y # Sub[r] => holders'[y] = holders[y]
    BY <1>6, <1>10
  <2>3. \A y \in GLObjects : holders[y] = {} => holders'[y] = {}
    BY <1>8, <1>10
  <2>4. \A x \in GLObjects : died(x) => x = r \/ x = Sub[r]
    BY <2>2
  \* What dies is either r or its part: only one of the two is a GL object.
  <2>5. \A x, y \in GLObjects : died(x) /\ died(y) => x = y
    BY <1>1, <1>5, <1>10, <2>4
  <2>6. CASE \E x : died(x)
    <3>1. PICK x \in GLObjects : died(x)
      BY <2>6
    <3>2. Posted(h, r) = <<Delete(x)>>
      BY <1>1, <1>10, <2>1, <2>4, <2>5, <3>1
    <3>3. mRenderThreadQueue' = Append(mRenderThreadQueue, Delete(x))
      BY <1>1, <1>10, <1>11, <3>2, ClosureKinds
    <3>4. \A y \in GLObjects : y # x => (holders[y] = {} <=> holders'[y] = {})
      BY <2>3, <2>5, <3>1
    <3> QED
      BY <3>1, <3>3, <3>4
  <2>7. CASE ~\E x : died(x)
    <3>1. mRenderThreadQueue' = mRenderThreadQueue
      BY <1>1, <1>11, <2>1, <2>7
    <3>2. \A y \in GLObjects : holders[y] = {} <=> holders'[y] = {}
      BY <2>3, <2>7
    <3> QED
      BY <3>1, <3>2
  <2> QED
    BY <2>6, <2>7
<1>13. /\ mRenderThreadQueue' \in Seq(Closure)
       /\ \E more \in SUBSET Deletes :
             Elements(mRenderThreadQueue') = Elements(mRenderThreadQueue) \cup more
       /\ Once(Setups, mRenderThreadQueue')
  <2>1. CASE mRenderThreadQueue' = mRenderThreadQueue
    <3>1. Elements(mRenderThreadQueue') = Elements(mRenderThreadQueue) \cup {}
      BY <2>1
    <3>2. Once(Setups, mRenderThreadQueue')
      BY <2>1 DEF IInv, SetupsHold
    <3> QED
      BY <1>1, <2>1, <3>1, <3>2
  <2>2. ASSUME NEW x \in GLObjects, mRenderThreadQueue' = Append(mRenderThreadQueue, Delete(x))
        PROVE  /\ mRenderThreadQueue' \in Seq(Closure)
               /\ \E more \in SUBSET Deletes :
                     Elements(mRenderThreadQueue') = Elements(mRenderThreadQueue) \cup more
               /\ Once(Setups, mRenderThreadQueue')
    <3>1. Delete(x) \in Closure /\ Delete(x) \notin Setups /\ {Delete(x)} \subseteq Deletes
      BY <1>10, ClosureKinds DEF Setups, Deletes
    <3>2. Once(Setups, mRenderThreadQueue)
      BY DEF IInv, SetupsHold
    <3>3. /\ mRenderThreadQueue' \in Seq(Closure)
          /\ Elements(mRenderThreadQueue') = Elements(mRenderThreadQueue) \cup {Delete(x)}
      BY <1>1, <2>2, <3>1, AppendElements
    <3>4. Once(Setups, mRenderThreadQueue')
      BY <1>1, <2>2, <3>1, <3>2, AppendElements
    <3> QED
      BY <3>1, <3>3, <3>4
  <2> QED
    BY <1>12, <2>1, <2>2
<1> HIDE DEF GivesUp
<1> QED
  BY <1>4, <1>7, <1>8, <1>9, <1>12, <1>13 DEF GivesUp

\* What a closure lets go of when it is destroyed.
Given(c) ==
    {p \in {"load", "setup"} \X Resources : c = IF p[1] = "load" THEN Load(p[2]) ELSE Setup(p[2])}

LEMMA Destroyed ==
    ASSUME IInv, NEW c \in Closure \cup {Idle}, DestroyClosure(c),
           \A p \in Given(c) : p[1] \in holders[p[2]]
    PROVE  GivesUp(Given(c))
<1>1. None \notin {"load", "setup"}
  BY ThreadManagerAssumption
<1>2. ASSUME NEW r \in Resources, NEW h \in {"load", "setup"}, c.kind = h, c.res = r
      PROVE  GivesUp(Given(c))
  <2>1. c = IF h = "load" THEN Load(r) ELSE Setup(r)
    <3>1. c # Idle
      BY <1>2, ClosureKinds
    <3> QED
      BY <1>2, <3>1 DEF Closure, Load, Setup
  <2>2. Given(c) = {<<h, r>>}
    BY <1>2, <2>1, ClosureKinds DEF Given
  <2>3. LetGo(h, r) /\ h \in holders[r]
    BY <1>1, <1>2, <2>2 DEF DestroyClosure, HoldsOf
  <2> QED
    BY <2>2, <2>3, Released DEF Single
<1>3. CASE c.kind \notin {"load", "setup"}
  <2>1. UNCHANGED <<holders, mRenderThreadQueue>>
    BY <1>3 DEF DestroyClosure, HoldsOf
  <2>2. Given(c) = {}
    BY <1>3, ClosureKinds DEF Given
  <2>3. Elements(mRenderThreadQueue') = Elements(mRenderThreadQueue) \cup {}
    BY <2>1
  <2> QED
    BY <2>1, <2>2, <2>3
    DEF GivesUp, IInv, TypeOK, References, SetupsHold
<1>4. CASE c.kind \in {"load", "setup"}
  <2>1. c.res \in Resources
    BY <1>4, ClosureKinds DEF Closure
  <2> QED
    BY <1>2, <1>4, <2>1
<1> QED
  BY <1>3, <1>4

-----------------------------------------------------------------------------
(* The invariant *)

LEMMA InitInvariant == Init => IInv
<1> SUFFICES ASSUME Init PROVE IInv
  OBVIOUS
<1>1. Elements(<<>>) = {} /\ StopsLast(<<>>) /\ \A K : Once(K, <<>>)
  BY DEF Elements, StopsLast, Once
<1>2. TypeOK
  <2>1. /\ holders \in [Resources -> SUBSET Holder]
        /\ created \in [Resources -> Nat] /\ deleted \in [Resources -> Nat]
    BY DEF Init
  <2>2. <<>> \in Seq(Closure)
    OBVIOUS
  <2> QED
    BY <2>1, <2>2 DEF Init, TypeOK
<1>3. Stop # Idle
  BY ClosureKinds
<1>4. Phases /\ Stopping /\ Kinds
  BY <1>1, <1>3
  DEF Init, Phases, Stopping, Kinds, BeforeStop, Running, Late
<1>5. \A r \in Resources : job # Load(r)
  BY ClosureKinds DEF Init
<1>6. LoadsHold /\ SetupsHold /\ References
  BY <1>1, <1>5 DEF Init, LoadsHold, SetupsHold, References, Late
<1> QED
  BY <1>2, <1>4, <1>6 DEF IInv

closures == <<jobs, mRenderThreadQueue, action, job>>
objects == <<holders, created, deleted>>

\* Steps that move no closure and no reference.
LEMMA PhaseStepInvariant ==
    ASSUME IInv,
           \/ Boot \/ Initialize \/ EndFrame \/ FlushEnd \/ Shutdown \/ Exit
           \/ WorkerStop \/ WorkerExit
    PROVE  IInv'
<1>1. UNCHANGED closures /\ UNCHANGED objects
  BY DEF Boot, Initialize, EndFrame, FlushEnd, Shutdown, Exit, WorkerStop, WorkerExit,
         closures, objects
<1>2. /\ Elements(jobs') = Elements(jobs)
      /\ Elements(mRenderThreadQueue') = Elements(mRenderThreadQueue)
      /\ Elements(action') = Elements(action)
      /\ StopsLast(jobs') <=> StopsLast(jobs)
      /\ Once(Loads, jobs') <=> Once(Loads, jobs)
      /\ Once(Setups, mRenderThreadQueue') <=> Once(Setups, mRenderThreadQueue)
      /\ Once(Setups, action') <=> Once(Setups, action)
  BY <1>1 DEF closures
<1>3. TypeOK'
  BY <1>1
  DEF IInv, TypeOK, Boot, Initialize, EndFrame, FlushEnd, Shutdown, Exit, WorkerStop,
      WorkerExit, closures, objects
<1>4. LoadsHold' /\ SetupsHold'
  <2>1. wpc' = "run" => wpc = "run"
    BY DEF Boot, Initialize, EndFrame, FlushEnd, Shutdown, Exit, WorkerStop, WorkerExit
  <2> QED
    BY <1>1, <1>2, <2>1 DEF IInv, LoadsHold, SetupsHold, closures, objects
<1>5. Phases' /\ Stopping' /\ Kinds' /\ References'
  <2>1. CASE Boot \/ Initialize
    BY <1>1, <1>2, <2>1
    DEF Boot, Initialize, IInv, TypeOK, Phases, Stopping, Kinds, References, Running,
        BeforeStop, Late, closures, objects
  <2>2. CASE EndFrame \/ FlushEnd
    BY <1>1, <1>2, <2>2
    DEF EndFrame, FlushEnd, IInv, TypeOK, Phases, Stopping, Kinds, References, Running,
        BeforeStop, Late, closures, objects
  <2>3. CASE Shutdown
    BY <1>1, <1>2, <2>3
    DEF Shutdown, IInv, TypeOK, Phases, Stopping, Kinds, References, Running, BeforeStop, Late,
        closures, objects, PlatformServices, ApplicationServices
  <2>4. CASE Exit
    <3>1. Elements(action) = {}
      BY <2>4 DEF Exit, Elements
    <3> QED
      BY <1>1, <1>2, <2>4, <3>1
      DEF Exit, IInv, TypeOK, Phases, Stopping, Kinds, References, Running, BeforeStop,
          Late, closures, objects
  <2>5. CASE WorkerStop
    <3>1. job = Stop
      BY <2>5, ClosureKinds DEF WorkerStop, IInv, Kinds, Loads
    <3> QED
      BY <1>1, <1>2, <2>5, <3>1
      DEF WorkerStop, IInv, TypeOK, Phases, Stopping, Kinds, References,
          closures, objects
  <2>6. CASE WorkerExit
    BY <1>1, <1>2, <2>6
    DEF WorkerExit, IInv, TypeOK, Phases, Stopping, Kinds, References,
        closures, objects
  <2> QED
    BY <2>1, <2>2, <2>3, <2>4, <2>5, <2>6
<1> QED
  BY <1>3, <1>4, <1>5 DEF IInv

\* A request keeps or creates: the queue of the worker gets a load only of a
\* resource that nobody held, and so of one that has neither load nor setup.
LEMMA RequestInvariant ==
    ASSUME IInv, NEW r \in Resources, NEW h \in Holder, Request(h, r),
           pc \in Running, h # "load", h # "setup",
           h \in Resources => Sub[h] = r /\ holders[h] # {},
           UNCHANGED <<wpc, services, window, mRenderThreadQueue, action, job,
                       mShouldExit, mExited>>,
           pc' = pc \/ (pc = "run" /\ pc' = "reset"),
           deleted' \in [Resources -> Nat]
    PROVE  IInv'
<1>1. /\ holders \in [Resources -> SUBSET Holder] /\ jobs \in Seq(Closure)
      /\ created \in [Resources -> Nat]
  BY DEF IInv, TypeOK
<1>2. /\ Stop \notin Elements(jobs) /\ StopsLast(jobs) /\ Once(Loads, jobs)
      /\ ~mShouldExit /\ job # Stop
  BY DEF IInv, Stopping, BeforeStop, LoadsHold
<1>3. /\ holders' \in [Resources -> SUBSET Holder] /\ created' \in [Resources -> Nat]
      /\ \A x \in Resources : x # r => holders'[x] = holders[x]
      /\ h \in holders'[r] /\ holders[r] \subseteq holders'[r]
      /\ \/ /\ holders[r] # {} /\ holders'[r] = holders[r] \cup {h} /\ jobs' = jobs
         \/ /\ holders[r] = {} /\ holders'[r] = {h, "load"}
            /\ jobs' = Append(jobs, Load(r))
  <2>1. CASE holders[r] # {}
    BY <1>1, <2>1 DEF Request
  <2>2. CASE holders[r] = {}
    <3>1. {h, "load"} \in SUBSET Holder
      BY DEF Holder
    <3>2. /\ holders' = [holders EXCEPT ![r] = {h, "load"}] /\ jobs' = Append(jobs, Load(r))
          /\ created' = [created EXCEPT ![r] = @ + 1]
      BY <2>2 DEF Request
    <3>3. holders' \in [Resources -> SUBSET Holder] /\ created' \in [Resources -> Nat]
      BY <1>1, <3>1, <3>2
    <3> QED
      BY <1>1, <2>2, <3>2, <3>3
  <2> QED
    BY <2>1, <2>2
<1>4. /\ Load(r) \in Closure /\ Load(r) \in Loads /\ Load(r) # Stop
      /\ holders[r] = {} => Load(r) \notin Elements(jobs) /\ job # Load(r)
  BY ClosureKinds DEF Loads, IInv, LoadsHold
<1>5. /\ jobs' \in Seq(Closure) /\ Once(Loads, jobs') /\ StopsLast(jobs')
      /\ Elements(jobs') = IF holders[r] = {} THEN Elements(jobs) \cup {Load(r)}
                           ELSE Elements(jobs)
  <2>1. CASE jobs' = jobs /\ holders[r] # {}
    BY <1>1, <1>2, <2>1
  <2>2. CASE jobs' = Append(jobs, Load(r)) /\ holders[r] = {}
    BY <1>1, <1>2, <1>4, <2>2, AppendElements, StopsStayLast
  <2> QED
    BY <1>3, <2>1, <2>2
<1>6. TypeOK'
  BY <1>3, <1>5 DEF IInv, TypeOK
<1>7. Phases' /\ Stopping' /\ Kinds'
  BY <1>2, <1>4, <1>5
  DEF IInv, Phases, Stopping, Kinds, Running, BeforeStop, Late
<1>8. LoadsHold'
  <2> SUFFICES ASSUME NEW x \in Resources
               PROVE  /\ Load(x) \in Elements(jobs') =>
                            "load" \in holders'[x] /\ "setup" \notin holders'[x]
                            /\ job # Load(x)
                      /\ job = Load(x) =>
                            "load" \in holders'[x] /\ (wpc = "run" => "setup" \notin holders'[x])
                      /\ "load" \in holders'[x] => job = Load(x) \/ Load(x) \in Elements(jobs')
    BY <1>5 DEF LoadsHold
  <2>1. CASE x # r
    BY <1>3, <1>5, <2>1, ClosureKinds DEF IInv, LoadsHold
  <2>2. CASE x = r
    BY <1>3, <1>4, <1>5, <2>2 DEF IInv, LoadsHold
  <2> QED
    BY <2>1, <2>2
<1>9. SetupsHold'
  <2>1. \A x \in Resources : "setup" \in holders'[x] <=> "setup" \in holders[x]
    BY <1>3
  <2> QED
    BY <2>1 DEF IInv, SetupsHold
<1>10. References'
  <2> SUFFICES ASSUME NEW x \in Resources
               PROVE  /\ \A g \in holders'[x] \cap Resources : Sub[g] = x /\ holders'[g] # {}
                      /\ "scene" \in holders'[x] => pc' \in Running
                      /\ pc' \in Late => holders'[x] = {}
    BY DEF References
  <2>1. pc' \in Running /\ pc' \notin Late
    BY DEF Running, Late
  <2>2. "load" \notin Resources
    BY ThreadManagerAssumption
  <2>3. \A g \in holders'[x] \cap Resources : Sub[g] = x /\ holders[g] # {}
    BY <1>3, <2>2 DEF IInv, References
  <2>4. \A g \in Resources : holders[g] # {} => holders'[g] # {}
    BY <1>3
  <2> QED
    BY <2>1, <2>3, <2>4
<1> QED
  BY <1>6, <1>7, <1>8, <1>9, <1>10 DEF IInv

LEMMA SceneRequestsInvariant ==
    ASSUME IInv, NEW r \in Resources, SceneRequests(r)
    PROVE  IInv'
<1>1. "scene" \notin Resources
  BY ThreadManagerAssumption
<1> QED
  BY <1>1, RequestInvariant DEF SceneRequests, Running, Holder, IInv, TypeOK

\* A closure of the render thread has been called: it still exists.
LEMMA FlushRunInvariant ==
    ASSUME IInv, FlushRun
    PROVE  IInv'
<1> DEFINE c == Head(action)
<1>1. /\ pc = "run" /\ pc' = "reset" /\ c \in Closure /\ c \in Elements(action)
      /\ c \in Setups \cup Deletes
      /\ deleted \in [Resources -> Nat] /\ created \in [Resources -> Nat]
  <2>1. Len(action) = 1 /\ action \in Seq(Closure)
    BY DEF FlushRun, IInv, TypeOK, Phases
  <2>2. action # <<>>
    BY <2>1
  <2>3. c \in Closure /\ c \in Elements(action)
    BY <2>1, <2>2, TailElements
  <2> QED
    BY <2>3 DEF FlushRun, IInv, Kinds, TypeOK
<1>2. UNCHANGED <<wpc, services, window, mRenderThreadQueue, action, job,
                  mShouldExit, mExited>>
  BY DEF FlushRun
<1>3. ASSUME NEW r \in Resources, c = Setup(r), Sub[r] # None PROVE IInv'
  <2>1. c.kind = "setup" /\ c.res = r /\ c.kind # "delete"
    BY <1>3, ClosureKinds
  <2>2. Request(r, Sub[r]) /\ deleted' = deleted
    BY <1>3, <2>1 DEF FlushRun
  <2>3. Sub[r] \in Resources /\ "load" \notin Resources /\ "setup" \notin Resources
    BY <1>3, ThreadManagerAssumption
  <2>4. holders[r] # {}
    BY <1>1, <1>3 DEF IInv, SetupsHold
  <2> QED
    BY <1>1, <1>2, <2>2, <2>3, <2>4, RequestInvariant DEF Running, Holder
<1>4. ASSUME UNCHANGED <<holders, jobs, created>>, deleted' \in [Resources -> Nat]
      PROVE  IInv'
  <2>1. /\ Elements(jobs') = Elements(jobs)
        /\ Elements(mRenderThreadQueue') = Elements(mRenderThreadQueue)
        /\ Elements(action') = Elements(action)
        /\ StopsLast(jobs') <=> StopsLast(jobs)
        /\ Once(Loads, jobs') <=> Once(Loads, jobs)
        /\ Once(Setups, mRenderThreadQueue') <=> Once(Setups, mRenderThreadQueue)
        /\ Once(Setups, action') <=> Once(Setups, action)
    BY <1>2, <1>4
  <2>2. TypeOK'
    BY <1>1, <1>2, <1>4 DEF IInv, TypeOK
  <2>3. Phases' /\ Stopping' /\ Kinds'
    BY <1>1, <1>2, <1>4, <2>1
    DEF IInv, Phases, Stopping, Kinds, Running, BeforeStop, Late
  <2>4. LoadsHold' /\ SetupsHold' /\ References'
    BY <1>1, <1>2, <1>4, <2>1 DEF IInv, LoadsHold, SetupsHold, References, Running, Late
  <2> QED
    BY <2>2, <2>3, <2>4 DEF IInv
<1>5. CASE ~(c.kind = "setup" /\ Sub[c.res] # None)
  <2>1. UNCHANGED <<holders, jobs, created>>
    BY <1>5 DEF FlushRun
  <2>2. deleted' \in [Resources -> Nat]
    BY <1>1, <1>5, ClosureKinds DEF FlushRun, Closure
  <2> QED
    BY <1>4, <2>1, <2>2
<1>6. CASE c.kind = "setup" /\ Sub[c.res] # None
  <2>1. PICK r \in Resources : c = Setup(r)
    BY <1>1, <1>6, ClosureKinds DEF Setups, Deletes
  <2> QED
    BY <1>3, <1>6, <2>1, ClosureKinds
<1> QED
  BY <1>5, <1>6

\* What all steps that let go of something have in common.
LEMMA GivesUpKeeps ==
    ASSUME IInv, NEW gone, GivesUp(gone),
           pc' = pc \/ (pc \in Running /\ pc' \in Running)
    PROVE  /\ References'
           /\ holders' \in [Resources -> SUBSET Holder]
           /\ mRenderThreadQueue' \in Seq(Closure) /\ Once(Setups, mRenderThreadQueue')
           /\ \A c : c \notin Deletes =>
                 (c \in Elements(mRenderThreadQueue') <=> c \in Elements(mRenderThreadQueue))
           /\ Elements(mRenderThreadQueue') \subseteq Setups \cup Deletes
           /\ pc' \in {"clear"} \cup Late => Elements(mRenderThreadQueue') \subseteq Deletes
           /\ \A r \in Resources :
                 Setup(r) \in Elements(mRenderThreadQueue')
                    <=> Setup(r) \in Elements(mRenderThreadQueue)
<1>1. pc' \in Late => pc \in Late
  BY DEF Running, Late
<1>2. ASSUME NEW x \in Resources
      PROVE  /\ \A g \in holders'[x] \cap Resources : Sub[g] = x /\ holders'[g] # {}
             /\ "scene" \in holders'[x] => pc' \in Running
             /\ pc' \in Late => holders'[x] = {}
  BY <1>1 DEF GivesUp, IInv, References
<1>3. References'
  BY <1>2 DEF References
<1>4. PICK more \in SUBSET Deletes :
         Elements(mRenderThreadQueue') = Elements(mRenderThreadQueue) \cup more
  BY DEF GivesUp
<1>5. \A r \in Resources : Setup(r) \notin Deletes
  BY ClosureKinds DEF Deletes
<1>6. pc' \in {"clear"} \cup Late => pc \in {"clear"} \cup Late
  BY DEF Running, Late
<1>7. Elements(mRenderThreadQueue) \subseteq Setups \cup Deletes
      /\ (pc \in {"clear"} \cup Late => Elements(mRenderThreadQueue) \subseteq Deletes)
  BY DEF IInv, Kinds
<1> QED
  BY <1>3, <1>4, <1>5, <1>6, <1>7 DEF GivesUp

LEMMA SceneReleasesInvariant ==
    ASSUME IInv, NEW r \in Resources, SceneReleases(r)
    PROVE  IInv'
<1>1. /\ UNCHANGED <<pc, wpc, services, window, jobs, action, job,
                     mShouldExit, mExited, created, deleted>>
      /\ GivesUp({<<"scene", r>>})
  BY Released DEF SceneReleases, Single
<1>2. /\ References'
      /\ holders' \in [Resources -> SUBSET Holder]
      /\ mRenderThreadQueue' \in Seq(Closure) /\ Once(Setups, mRenderThreadQueue')
      /\ Elements(mRenderThreadQueue') \subseteq Setups \cup Deletes
      /\ pc' \in {"clear"} \cup Late => Elements(mRenderThreadQueue') \subseteq Deletes
      /\ \A x \in Resources : Setup(x) \in Elements(mRenderThreadQueue')
                                 <=> Setup(x) \in Elements(mRenderThreadQueue)
  BY <1>1, GivesUpKeeps
<1>3. \A x \in Resources : /\ "load" \in holders'[x] <=> "load" \in holders[x]
                           /\ "setup" \in holders'[x] <=> "setup" \in holders[x]
  BY <1>1 DEF GivesUp, Single
<1>4. Elements(jobs') = Elements(jobs) /\ Elements(action') = Elements(action)
      /\ (StopsLast(jobs') <=> StopsLast(jobs))
      /\ (Once(Loads, jobs') <=> Once(Loads, jobs))
      /\ (Once(Setups, action') <=> Once(Setups, action))
  BY <1>1
<1>5. TypeOK'
  BY <1>1, <1>2 DEF IInv, TypeOK
<1>6. Phases' /\ Stopping' /\ Kinds'
  BY <1>1, <1>2, <1>4 DEF IInv, Phases, Stopping, Kinds
<1>7. LoadsHold'
  BY <1>1, <1>3, <1>4 DEF IInv, LoadsHold
<1>8. SetupsHold'
  BY <1>2, <1>3, <1>4 DEF IInv, SetupsHold
<1> QED
  BY <1>2, <1>5, <1>6, <1>7, <1>8 DEF IInv

\* The main thread destroys the first of the closures it has taken.
LEMMA MainGivesUp ==
    ASSUME IInv, action # <<>>, DestroyClosure(Head(action))
    PROVE  GivesUp(Given(Head(action)))
<1> DEFINE c == Head(action)
<1>1. c \in Closure /\ c \in Elements(action)
  BY TailElements DEF IInv, TypeOK
<1>2. c \in Setups \cup Deletes \cup {Stop}
  BY <1>1 DEF IInv, Kinds
<1>3. \A p \in Given(c) : p[1] \in holders[p[2]]
  <2> SUFFICES ASSUME NEW x \in Resources, c = Setup(x) PROVE "setup" \in holders[x]
    BY <1>2, ClosureKinds DEF Given, Setups, Deletes
  <2> QED
    BY <1>1 DEF IInv, SetupsHold
<1> QED
  BY <1>1, <1>3, Destroyed

LEMMA MainDestroysInvariant ==
    ASSUME IInv, action # <<>>, DestroyClosure(Head(action)), action' = Tail(action),
           UNCHANGED <<wpc, services, window, jobs, job,
                       mShouldExit, mExited, created, deleted>>,
           \/ pc = "reset" /\ pc' = "flush" /\ action' = <<>>
           \/ pc \in {"clear", "destroy"} /\ pc' = pc
    PROVE  IInv'
<1> DEFINE c == Head(action)
<1>1. /\ c \in Closure /\ action' \in Seq(Closure)
      /\ Elements(action) = Elements(action') \cup {c}
      /\ Once(Setups, action')
      /\ c \in Setups => c \notin Elements(action')
  BY TailElements DEF IInv, TypeOK, SetupsHold
<1>2. c \in Setups \cup Deletes \cup {Stop}
  BY <1>1 DEF IInv, Kinds
<1>3. \A x \in Resources : /\ <<"load", x>> \notin Given(c)
                           /\ <<"setup", x>> \in Given(c) <=> c = Setup(x)
  BY <1>2, ClosureKinds DEF Given, Setups, Deletes
<1>4. GivesUp(Given(c))
  BY MainGivesUp
<1>5. pc' = pc \/ (pc \in Running /\ pc' \in Running)
  BY DEF Running
<1>6. /\ References'
      /\ holders' \in [Resources -> SUBSET Holder]
      /\ mRenderThreadQueue' \in Seq(Closure) /\ Once(Setups, mRenderThreadQueue')
      /\ Elements(mRenderThreadQueue') \subseteq Setups \cup Deletes
      /\ pc' \in {"clear"} \cup Late => Elements(mRenderThreadQueue') \subseteq Deletes
      /\ \A x \in Resources : Setup(x) \in Elements(mRenderThreadQueue')
                                 <=> Setup(x) \in Elements(mRenderThreadQueue)
  BY <1>4, <1>5, GivesUpKeeps
<1>7. \A x \in Resources :
         /\ "load" \in holders'[x] <=> "load" \in holders[x]
         /\ "setup" \in holders'[x] <=> "setup" \in holders[x] /\ c # Setup(x)
  BY <1>3, <1>4 DEF GivesUp, Single
<1>8. Elements(jobs') = Elements(jobs) /\ (StopsLast(jobs') <=> StopsLast(jobs))
      /\ (Once(Loads, jobs') <=> Once(Loads, jobs))
  OBVIOUS
<1>9. TypeOK'
  BY <1>1, <1>6 DEF IInv, TypeOK
<1>10. Elements(<<>>) = {}
  BY DEF Elements
<1>11. Phases'
  BY DEF IInv, Phases, Running, Late
<1>12. Stopping'
  BY <1>8 DEF IInv, Stopping, BeforeStop, Running, Late
<1>13. Kinds'
  BY <1>1, <1>6, <1>8, <1>10 DEF IInv, Kinds
<1>14. LoadsHold'
  BY <1>7, <1>8 DEF IInv, LoadsHold
<1>15. SetupsHold'
  <2> SUFFICES ASSUME NEW x \in Resources
               PROVE  /\ Setup(x) \in Elements(mRenderThreadQueue')
                            => Setup(x) \notin Elements(action')
                      /\ "setup" \in holders'[x] <=>
                            Setup(x) \in Elements(mRenderThreadQueue') \cup Elements(action')
    BY <1>1, <1>6 DEF SetupsHold
  <2>1. Setup(x) \in Setups
    BY DEF Setups
  <2> QED
    BY <1>1, <1>6, <1>7, <2>1 DEF IInv, SetupsHold
<1> QED
  BY <1>6, <1>9, <1>11, <1>12, <1>13, <1>14, <1>15 DEF IInv

LEMMA FlushTakeInvariant ==
    ASSUME IInv, FlushTake
    PROVE  IInv'
<1> DEFINE c == Head(mRenderThreadQueue)
<1>1. /\ pc = "flush" /\ pc' = "run" /\ action = <<>> /\ action' = <<c>>
      /\ mRenderThreadQueue # <<>> /\ mRenderThreadQueue' = Tail(mRenderThreadQueue)
      /\ mRenderThreadQueue \in Seq(Closure)
      /\ UNCHANGED <<wpc, services, window, jobs, job,
                     mShouldExit, mExited, holders, created, deleted>>
  BY DEF FlushTake, IInv, TypeOK, Phases
<1>2. /\ c \in Closure /\ mRenderThreadQueue' \in Seq(Closure)
      /\ Elements(mRenderThreadQueue) = Elements(mRenderThreadQueue') \cup {c}
      /\ Once(Setups, mRenderThreadQueue')
      /\ c \in Setups => c \notin Elements(mRenderThreadQueue')
  BY <1>1, TailElements DEF IInv, SetupsHold
<1>3. /\ action' \in Seq(Closure) /\ Len(action') = 1
      /\ Elements(action') = {c} /\ Elements(action) = {}
      /\ Once(Setups, action')
  BY <1>1, <1>2 DEF Elements, Once
<1>4. Elements(jobs') = Elements(jobs) /\ (StopsLast(jobs') <=> StopsLast(jobs))
      /\ (Once(Loads, jobs') <=> Once(Loads, jobs))
  BY <1>1
<1>5. TypeOK'
  BY <1>1, <1>2, <1>3 DEF IInv, TypeOK
<1>6. Phases' /\ Stopping' /\ Kinds'
  BY <1>1, <1>2, <1>3, <1>4
  DEF IInv, Phases, Stopping, Kinds, Running, BeforeStop, Late
<1>7. LoadsHold' /\ References'
  BY <1>1, <1>4 DEF IInv, LoadsHold, References, Running, Late
<1>8. SetupsHold'
  <2> SUFFICES ASSUME NEW x \in Resources
               PROVE  /\ Setup(x) \in Elements(mRenderThreadQueue')
                            => Setup(x) \notin Elements(action')
                      /\ "setup" \in holders'[x] <=>
                            Setup(x) \in Elements(mRenderThreadQueue') \cup Elements(action')
    BY <1>2, <1>3 DEF SetupsHold
  <2>1. Setup(x) \in Setups
    BY DEF Setups
  <2> QED
    BY <1>1, <1>2, <1>3, <2>1 DEF IInv, SetupsHold
<1> QED
  BY <1>5, <1>6, <1>7, <1>8 DEF IInv

LEMMA PostStopInvariant ==
    ASSUME IInv, PostStop
    PROVE  IInv'
<1>1. /\ jobs' = Append(jobs, Stop)
      /\ (pc = "stop" /\ pc' = "spin") \/ (pc = "destructor" /\ pc' = "join")
      /\ UNCHANGED <<wpc, services, window, mRenderThreadQueue, action, job,
                     mShouldExit, mExited, holders, created, deleted>>
  BY DEF PostStop
<1>2. Stop \in Closure /\ Stop \notin Loads /\ jobs \in Seq(Closure)
  BY ClosureKinds DEF Loads, IInv, TypeOK
<1>3. /\ jobs' \in Seq(Closure) /\ Elements(jobs') = Elements(jobs) \cup {Stop}
      /\ Once(Loads, jobs') /\ StopsLast(jobs')
  BY <1>1, <1>2, AppendElements, StopsStayLast DEF IInv, LoadsHold, Stopping
<1>4. /\ Elements(mRenderThreadQueue') = Elements(mRenderThreadQueue)
      /\ Elements(action') = Elements(action)
      /\ (Once(Setups, mRenderThreadQueue') <=> Once(Setups, mRenderThreadQueue))
      /\ (Once(Setups, action') <=> Once(Setups, action))
  BY <1>1
<1>5. TypeOK'
  BY <1>1, <1>3 DEF IInv, TypeOK
<1>6. Phases' /\ Stopping' /\ Kinds'
  BY <1>1, <1>3, <1>4
  DEF IInv, Phases, Stopping, Kinds, Running, BeforeStop, Late
<1>7. \A r \in Resources : Load(r) \in Elements(jobs') <=> Load(r) \in Elements(jobs)
  BY <1>3, ClosureKinds
<1>8. LoadsHold' /\ SetupsHold' /\ References'
  BY <1>1, <1>3, <1>4, <1>7
  DEF IInv, LoadsHold, SetupsHold, References, Running, Late
<1> QED
  BY <1>5, <1>6, <1>8 DEF IInv

LEMMA ClearRenderQueueInvariant ==
    ASSUME IInv, ClearRenderQueue
    PROVE  IInv'
<1>1. /\ pc = "spin" /\ pc' = "clear" /\ mExited /\ action = <<>>
      /\ action' = mRenderThreadQueue /\ mRenderThreadQueue' = <<>>
      /\ UNCHANGED <<wpc, services, window, jobs, job,
                     mShouldExit, mExited, holders, created, deleted>>
  BY DEF ClearRenderQueue, IInv, Phases
<1>2. Elements(<<>>) = {} /\ \A K : Once(K, <<>>)
  BY DEF Elements, Once
<1>3. /\ Elements(jobs') = Elements(jobs) /\ Elements(action) = {}
      /\ Elements(action') = Elements(mRenderThreadQueue)
      /\ Elements(mRenderThreadQueue') = {}
      /\ StopsLast(jobs') <=> StopsLast(jobs)
      /\ Once(Loads, jobs') <=> Once(Loads, jobs)
      /\ Once(Setups, action') <=> Once(Setups, mRenderThreadQueue)
      /\ Once(Setups, mRenderThreadQueue')
  BY <1>1, <1>2
<1>4. TypeOK'
  BY <1>1 DEF IInv, TypeOK
<1>5. Phases' /\ Stopping' /\ Kinds'
  BY <1>1, <1>3
  DEF IInv, Phases, Stopping, Kinds, Running, BeforeStop, Late
<1>6. LoadsHold' /\ SetupsHold' /\ References'
  BY <1>1, <1>3 DEF IInv, LoadsHold, SetupsHold, References, Running, Late
<1> QED
  BY <1>4, <1>5, <1>6 DEF IInv

\* When the queue has been cleared nobody holds anything: no scene, no closure,
\* and so no resource on behalf of another one.
LEMMA NobodyLeft ==
    ASSUME IInv, pc = "clear", action = <<>>
    PROVE  /\ \A r \in Resources : holders[r] = {}
           /\ wpc = "exited"
<1>1. wpc = "exited" /\ job = Idle /\ Elements(jobs) \subseteq {Stop}
  <2>1. mExited /\ wpc = "exited" /\ mShouldExit
    BY DEF IInv, Stopping
  <2> QED
    BY <2>1 DEF IInv, Stopping
<1>2. ASSUME NEW r \in Resources
      PROVE  /\ "load" \notin holders[r] /\ "setup" \notin holders[r]
             /\ "scene" \notin holders[r]
  <2>1. "load" \notin holders[r]
    BY <1>1, ClosureKinds DEF IInv, LoadsHold
  <2>2. Elements(action) = {} /\ Elements(mRenderThreadQueue) \subseteq Deletes
    BY DEF IInv, Kinds, Elements
  <2>3. "setup" \notin holders[r]
    BY <2>2, ClosureKinds DEF IInv, SetupsHold, Deletes
  <2>4. "scene" \notin holders[r]
    BY DEF IInv, References, Running
  <2> QED
    BY <2>1, <2>3, <2>4
<1>3. \A r \in Resources : holders[r] \subseteq Resources
  BY <1>2 DEF IInv, TypeOK, Holder
<1>4. ASSUME NEW r \in Resources, holders[r] # {} PROVE FALSE
  <2>1. PICK h \in Resources : h \in holders[r] /\ Sub[h] = r /\ holders[h] # {}
    BY <1>3, <1>4 DEF IInv, References
  <2>2. PICK g \in Resources : Sub[g] = h
    BY <1>3, <2>1 DEF IInv, References
  <2> QED
    BY <2>1, <2>2, ThreadManagerAssumption
<1> QED
  BY <1>1, <1>4

LEMMA ResetServicesInvariant ==
    ASSUME IInv, ResetServices
    PROVE  IInv'
<1>1. /\ pc = "clear" /\ pc' = "destructor" /\ action = <<>>
      /\ services' = services \ PlatformServices
      /\ UNCHANGED <<wpc, window, jobs, mRenderThreadQueue, action, job,
                     mShouldExit, mExited, holders, created, deleted>>
  BY DEF ResetServices
<1>2. \A r \in Resources : holders'[r] = {}
  BY <1>1, NobodyLeft
<1>3. /\ Elements(jobs') = Elements(jobs)
      /\ Elements(mRenderThreadQueue') = Elements(mRenderThreadQueue)
      /\ Elements(action') = Elements(action)
      /\ StopsLast(jobs') <=> StopsLast(jobs)
      /\ Once(Loads, jobs') <=> Once(Loads, jobs)
      /\ Once(Setups, mRenderThreadQueue') <=> Once(Setups, mRenderThreadQueue)
      /\ Once(Setups, action') <=> Once(Setups, action)
  BY <1>1
<1>4. TypeOK'
  BY <1>1 DEF IInv, TypeOK
<1>5. Phases' /\ Stopping' /\ Kinds'
  BY <1>1, <1>3
  DEF IInv, Phases, Stopping, Kinds, Running, BeforeStop, Late
<1>6. LoadsHold' /\ SetupsHold'
  BY <1>1, <1>3 DEF IInv, LoadsHold, SetupsHold
<1>7. References'
  BY <1>2 DEF References
<1> QED
  BY <1>4, <1>5, <1>6, <1>7 DEF IInv

LEMMA DestroyManagerInvariant ==
    ASSUME IInv, DestroyManager
    PROVE  IInv'
<1>1. /\ pc = "join" /\ pc' = "destroy" /\ action = <<>>
      /\ action' = jobs \o mRenderThreadQueue
      /\ jobs' = <<>> /\ mRenderThreadQueue' = <<>>
      /\ UNCHANGED <<wpc, services, window, job, mShouldExit, mExited,
                     holders, created, deleted>>
      /\ jobs \in Seq(Closure) /\ mRenderThreadQueue \in Seq(Closure)
  BY DEF DestroyManager, IInv, TypeOK, Phases
<1>2. Elements(<<>>) = {} /\ StopsLast(<<>>) /\ \A K : Once(K, <<>>)
  BY DEF Elements, StopsLast, Once
<1>3. mExited /\ mShouldExit /\ job = Idle /\ wpc = "exited"
  BY <1>1 DEF IInv, Stopping, Late
<1>4. /\ Elements(jobs) \subseteq {Stop}
      /\ Elements(mRenderThreadQueue) \subseteq Deletes
      /\ \A r \in Resources : holders[r] = {}
  BY <1>1, <1>3 DEF IInv, Stopping, Kinds, References, Late
<1>5. action' \in Seq(Closure) /\ Elements(action') \subseteq Deletes \cup {Stop}
  BY <1>1, <1>4, ConcatElements
<1>6. Once(Setups, action') /\ \A r \in Resources : Setup(r) \notin Elements(action')
  <2>1. \A k \in DOMAIN action' : action'[k] \notin Setups
    BY <1>5, ClosureKinds DEF Elements, Setups, Deletes
  <2> QED
    BY <2>1 DEF Once, Elements, Setups
<1>7. TypeOK'
  BY <1>1, <1>5 DEF IInv, TypeOK
<1>8. Phases' /\ Stopping' /\ Kinds'
  BY <1>1, <1>2, <1>3, <1>5
  DEF IInv, Phases, Stopping, Kinds, Running, BeforeStop, Late
<1>9. LoadsHold' /\ SetupsHold' /\ References'
  BY <1>1, <1>2, <1>3, <1>4, <1>6, ClosureKinds DEF LoadsHold, SetupsHold, References
<1> QED
  BY <1>7, <1>8, <1>9 DEF IInv

-----------------------------------------------------------------------------
(* The worker *)

LEMMA WorkerTakeInvariant ==
    ASSUME IInv, WorkerTake
    PROVE  IInv'
<1> DEFINE c == Head(jobs)
<1>1. /\ wpc = "loop" /\ wpc' = "run" /\ ~mShouldExit /\ jobs # <<>>
      /\ job' = c /\ jobs' = Tail(jobs) /\ jobs \in Seq(Closure)
      /\ UNCHANGED <<pc, services, window, mRenderThreadQueue, action,
                     mShouldExit, mExited, holders, created, deleted>>
  BY DEF WorkerTake, IInv, TypeOK
<1>2. /\ c \in Closure /\ jobs' \in Seq(Closure)
      /\ Elements(jobs) = Elements(jobs') \cup {c}
      /\ Once(Loads, jobs')
      /\ c \in Loads => c \notin Elements(jobs')
  BY <1>1, TailElements DEF IInv, LoadsHold
<1>3. StopsLast(jobs') /\ (c = Stop => Elements(jobs') \subseteq {Stop})
  BY <1>1, StopsStayLast DEF IInv, Stopping
<1>4. c # Idle /\ c \in Loads \cup {Stop} /\ job = Idle
  <2>1. c \in Loads \cup {Stop}
    BY <1>2 DEF IInv, Kinds
  <2>2. job = Idle
    BY <1>1 DEF IInv, Stopping
  <2> QED
    BY <2>1, <2>2, ClosureKinds DEF Loads
<1>5. /\ Elements(mRenderThreadQueue') = Elements(mRenderThreadQueue)
      /\ Elements(action') = Elements(action)
      /\ Once(Setups, mRenderThreadQueue') <=> Once(Setups, mRenderThreadQueue)
      /\ Once(Setups, action') <=> Once(Setups, action)
  BY <1>1
<1>6. TypeOK'
  BY <1>1, <1>2 DEF IInv, TypeOK
<1>7. Phases'
  BY <1>1 DEF IInv, Phases
<1>8. Stopping'
  BY <1>1, <1>2, <1>3, <1>4 DEF IInv, Stopping
<1>9. Kinds'
  BY <1>1, <1>2, <1>4, <1>5 DEF IInv, Kinds
<1>10. LoadsHold'
  <2> SUFFICES ASSUME NEW x \in Resources
               PROVE  /\ Load(x) \in Elements(jobs') =>
                            "load" \in holders[x] /\ "setup" \notin holders[x] /\ c # Load(x)
                      /\ c = Load(x) => "load" \in holders[x] /\ "setup" \notin holders[x]
                      /\ "load" \in holders[x] => c = Load(x) \/ Load(x) \in Elements(jobs')
    BY <1>1, <1>2 DEF LoadsHold
  <2>1. Load(x) \in Loads /\ job # Load(x)
    BY <1>4, ClosureKinds DEF Loads
  <2> QED
    BY <1>2, <2>1 DEF IInv, LoadsHold
<1>11. SetupsHold' /\ References'
  BY <1>1, <1>5 DEF IInv, SetupsHold, References
<1> QED
  BY <1>6, <1>7, <1>8, <1>9, <1>10, <1>11 DEF IInv

\* The setup is posted while the load still holds the resource, and no other
\* setup of it exists.
LEMMA WorkerLoadInvariant ==
    ASSUME IInv, WorkerLoad
    PROVE  IInv'
<1>1. /\ wpc = "run" /\ wpc' = "reset" /\ job.kind = "load"
      /\ UNCHANGED <<pc, services, window, jobs, action, job,
                     mShouldExit, mExited, created, deleted>>
  BY DEF WorkerLoad
<1>2. PICK r \in Resources : job = Load(r)
  BY <1>1, ClosureKinds DEF IInv, Kinds, Loads
<1>3. /\ "load" \in holders[r] /\ "setup" \notin holders[r]
      /\ Setup(r) \notin Elements(mRenderThreadQueue) /\ Setup(r) \notin Elements(action)
      /\ Load(r) \notin Elements(jobs)
      /\ job.res = r /\ Setup(r) \in Closure /\ Setup(r) \in Setups
  BY <1>1, <1>2, ClosureKinds DEF IInv, LoadsHold, SetupsHold, Setups
<1>4. /\ mRenderThreadQueue \in Seq(Closure) /\ holders \in [Resources -> SUBSET Holder]
      /\ Once(Setups, mRenderThreadQueue)
      /\ pc \notin {"clear"} \cup Late
  <2>1. ~mExited
    BY <1>1 DEF IInv, Stopping
  <2> QED
    BY <2>1 DEF IInv, TypeOK, Stopping, SetupsHold
<1>5. /\ Elements(jobs') = Elements(jobs) /\ Elements(action') = Elements(action)
      /\ StopsLast(jobs') <=> StopsLast(jobs)
      /\ Once(Loads, jobs') <=> Once(Loads, jobs)
      /\ Once(Setups, action') <=> Once(Setups, action)
  BY <1>1
<1>6. CASE UNCHANGED <<mRenderThreadQueue, holders>>
  <2>1. /\ Elements(mRenderThreadQueue') = Elements(mRenderThreadQueue)
        /\ Once(Setups, mRenderThreadQueue') <=> Once(Setups, mRenderThreadQueue)
    BY <1>6
  <2>2. TypeOK'
    BY <1>1, <1>6 DEF IInv, TypeOK
  <2>3. Phases' /\ Stopping' /\ Kinds'
    BY <1>1, <1>5, <1>6, <2>1 DEF IInv, Phases, Stopping, Kinds
  <2>4. LoadsHold' /\ SetupsHold' /\ References'
    BY <1>1, <1>5, <1>6, <2>1 DEF IInv, LoadsHold, SetupsHold, References
  <2> QED
    BY <2>2, <2>3, <2>4 DEF IInv
<1>7. CASE /\ mRenderThreadQueue' = Append(mRenderThreadQueue, Setup(r))
           /\ holders' = [holders EXCEPT ![r] = @ \cup {"setup"}]
  <2>1. /\ mRenderThreadQueue' \in Seq(Closure) /\ Once(Setups, mRenderThreadQueue')
        /\ Elements(mRenderThreadQueue') = Elements(mRenderThreadQueue) \cup {Setup(r)}
    BY <1>3, <1>4, <1>7, AppendElements
  <2>2. /\ holders' \in [Resources -> SUBSET Holder]
        /\ holders'[r] = holders[r] \cup {"setup"}
        /\ \A x \in Resources : x # r => holders'[x] = holders[x]
    BY <1>4, <1>7 DEF Holder
  <2>3. TypeOK'
    BY <1>1, <2>1, <2>2 DEF IInv, TypeOK
  <2>4. Phases' /\ Stopping' /\ Kinds'
    BY <1>1, <1>3, <1>4, <1>5, <2>1 DEF IInv, Phases, Stopping, Kinds
  <2>5. LoadsHold'
    <3> SUFFICES ASSUME NEW x \in Resources
                 PROVE  /\ Load(x) \in Elements(jobs) =>
                              "load" \in holders'[x] /\ "setup" \notin holders'[x]
                              /\ job # Load(x)
                        /\ job = Load(x) => "load" \in holders'[x]
                        /\ "load" \in holders'[x] => job = Load(x) \/ Load(x) \in Elements(jobs)
      BY <1>1, <1>5 DEF IInv, LoadsHold
    <3>1. CASE x = r
      BY <1>2, <1>3, <2>2, <3>1
    <3>2. CASE x # r
      BY <2>2, <3>2 DEF IInv, LoadsHold
    <3> QED
      BY <3>1, <3>2
  <2>6. SetupsHold'
    <3>1. \A x \in Resources : Setup(x) \in Elements(mRenderThreadQueue') <=>
             x = r \/ Setup(x) \in Elements(mRenderThreadQueue)
      BY <2>1, ClosureKinds
    <3>2. \A x \in Resources : "setup" \in holders'[x] <=> x = r \/ "setup" \in holders[x]
      BY <2>2
    <3> QED
      BY <1>3, <1>5, <2>1, <3>1, <3>2 DEF IInv, SetupsHold
  <2>7. References'
    <3>1. pc' \notin Late /\ "setup" \notin Resources /\ pc' = pc
      BY <1>1, <1>4, ThreadManagerAssumption
    <3>2. \A x \in Resources : /\ holders'[x] \cap Resources = holders[x] \cap Resources
                               /\ "scene" \in holders'[x] <=> "scene" \in holders[x]
                               /\ holders[x] # {} => holders'[x] # {}
      BY <2>2, <3>1
    <3> QED
      BY <3>1, <3>2 DEF IInv, References
  <2> QED
    BY <2>3, <2>4, <2>5, <2>6, <2>7 DEF IInv
<1> QED
  BY <1>3, <1>6, <1>7 DEF WorkerLoad

LEMMA WorkerGivesUp ==
    ASSUME IInv, wpc = "reset", DestroyClosure(job)
    PROVE  GivesUp(Given(job))
<1>1. job \in Closure \cup {Idle} /\ job \in Loads \cup {Stop}
  BY DEF IInv, TypeOK, Kinds, Stopping
<1>2. \A p \in Given(job) : p[1] \in holders[p[2]]
  <2> SUFFICES ASSUME NEW x \in Resources, job = Load(x) PROVE "load" \in holders[x]
    BY <1>1, ClosureKinds DEF Given, Loads
  <2> QED
    BY DEF IInv, LoadsHold
<1> QED
  BY <1>1, <1>2, Destroyed

LEMMA WorkerResetInvariant ==
    ASSUME IInv, WorkerReset
    PROVE  IInv'
<1>1. /\ wpc = "reset" /\ wpc' = "loop" /\ job' = Idle /\ DestroyClosure(job)
      /\ UNCHANGED <<pc, services, window, jobs, action,
                     mShouldExit, mExited, created, deleted>>
      /\ job \in Closure \cup {Idle} /\ job \in Loads \cup {Stop}
  BY DEF WorkerReset, IInv, TypeOK, Kinds, Stopping
<1>2. \A x \in Resources : /\ <<"setup", x>> \notin Given(job)
                           /\ <<"load", x>> \in Given(job) <=> job = Load(x)
  BY <1>1, ClosureKinds DEF Given, Loads
<1>3. GivesUp(Given(job))
  BY <1>1, WorkerGivesUp
<1>4. /\ References'
      /\ holders' \in [Resources -> SUBSET Holder]
      /\ mRenderThreadQueue' \in Seq(Closure) /\ Once(Setups, mRenderThreadQueue')
      /\ Elements(mRenderThreadQueue') \subseteq Setups \cup Deletes
      /\ pc' \in {"clear"} \cup Late => Elements(mRenderThreadQueue') \subseteq Deletes
      /\ \A x \in Resources : Setup(x) \in Elements(mRenderThreadQueue')
                                 <=> Setup(x) \in Elements(mRenderThreadQueue)
  BY <1>1, <1>3, GivesUpKeeps
<1>5. \A x \in Resources :
         /\ "load" \in holders'[x] <=> "load" \in holders[x] /\ job # Load(x)
         /\ "setup" \in holders'[x] <=> "setup" \in holders[x]
  BY <1>2, <1>3 DEF GivesUp, Single
<1>6. /\ Elements(jobs') = Elements(jobs) /\ Elements(action') = Elements(action)
      /\ StopsLast(jobs') <=> StopsLast(jobs)
      /\ Once(Loads, jobs') <=> Once(Loads, jobs)
      /\ Once(Setups, action') <=> Once(Setups, action)
  BY <1>1
<1>7. job' # Stop /\ \A x \in Resources : job' # Load(x)
  BY <1>1, ClosureKinds
<1>8. TypeOK'
  BY <1>1, <1>4 DEF IInv, TypeOK
<1>9. Phases' /\ Stopping' /\ Kinds'
  BY <1>1, <1>4, <1>6, <1>7 DEF IInv, Phases, Stopping, Kinds
<1>10. LoadsHold'
  BY <1>1, <1>5, <1>6, <1>7 DEF IInv, LoadsHold
<1>11. SetupsHold'
  BY <1>4, <1>5, <1>6 DEF IInv, SetupsHold
<1> QED
  BY <1>4, <1>8, <1>9, <1>10, <1>11 DEF IInv

LEMMA StepInvariant == IInv /\ [Next]_vars => IInv'
<1> SUFFICES ASSUME IInv, [Next]_vars PROVE IInv'
  OBVIOUS
<1>1. CASE \/ Boot \/ Initialize \/ EndFrame \/ FlushEnd \/ Shutdown \/ Exit
           \/ WorkerStop \/ WorkerExit
  BY <1>1, PhaseStepInvariant
<1>2. CASE FlushTake
  BY <1>2, FlushTakeInvariant
<1>3. CASE FlushRun
  BY <1>3, FlushRunInvariant
<1>4. CASE FlushReset
  <2>1. action # <<>> /\ Tail(action) = <<>>
    BY <1>4, SingleClosure DEF FlushReset, IInv, TypeOK, Phases
  <2> QED
    BY <1>4, <2>1, MainDestroysInvariant DEF FlushReset
<1>5. CASE PostStop
  BY <1>5, PostStopInvariant
<1>6. CASE ClearRenderQueue
  BY <1>6, ClearRenderQueueInvariant
<1>7. CASE ClearNext \/ DestroyNext
  BY <1>7, MainDestroysInvariant DEF ClearNext, DestroyNext
<1>8. CASE ResetServices
  BY <1>8, ResetServicesInvariant
<1>9. CASE DestroyManager
  BY <1>9, DestroyManagerInvariant
<1>10. ASSUME NEW r \in Resources, SceneRequests(r) PROVE IInv'
  BY <1>10, SceneRequestsInvariant
<1>11. ASSUME NEW r \in Resources, SceneReleases(r) PROVE IInv'
  BY <1>11, SceneReleasesInvariant
<1>12. CASE WorkerTake
  BY <1>12, WorkerTakeInvariant
<1>13. CASE WorkerLoad
  BY <1>13, WorkerLoadInvariant
<1>14. CASE WorkerReset
  BY <1>14, WorkerResetInvariant
<1>15. CASE UNCHANGED vars
  <2>1. TypeOK' /\ Phases'
    BY <1>15 DEF vars, IInv, TypeOK, Phases
  <2>2. Stopping' /\ Kinds'
    BY <1>15 DEF vars, IInv, Stopping, Kinds
  <2>3. LoadsHold' /\ SetupsHold' /\ References'
    BY <1>15 DEF vars, IInv, LoadsHold, SetupsHold, References
  <2> QED
    BY <2>1, <2>2, <2>3 DEF IInv
<1> QED
  BY <1>1, <1>2, <1>3, <1>4, <1>5, <1>6, <1>7, <1>8, <1>9, <1>10, <1>11, <1>12, <1>13,
     <1>14, <1>15
  DEF Next, MainStep, WorkerStep, SceneStep, Terminated

LEMMA Invariant == Spec => []IInv
BY InitInvariant, StepInvariant, PTL DEF Spec

\* Every variable keeps its type.
THEOREM TypeCorrect == Spec => []TypeOK
<1>1. IInv => TypeOK
  BY DEF IInv
<1> QED
  BY <1>1, Invariant, PTL

\* When the worker has left its loop, only stops are left in its queue: every
\* load posted before has been run.
THEOREM Drained == Spec => []DrainedBeforeExit
<1>1. IInv => DrainedBeforeExit
  <2> SUFFICES ASSUME IInv, mExited, NEW k \in DOMAIN jobs PROVE jobs[k].kind = "stop"
    BY DEF DrainedBeforeExit
  <2>1. jobs[k] = Stop
    BY DEF IInv, Stopping, Elements
  <2> QED
    BY <2>1, ClosureKinds
<1> QED
  BY <1>1, Invariant, PTL

\* Setups and deletions run while the window and the application's services
\* exist.
THEOREM RunInContext == Spec => []ClosuresRunInContext
<1>1. IInv => ClosuresRunInContext
  BY DEF IInv, Phases, Running, ClosuresRunInContext
<1> QED
  BY <1>1, Invariant, PTL

\* Once the platform's services are gone, no resource is held, and the worker
\* has left its loop.
THEOREM NothingLeft == Spec => []NothingOutlivesServices
<1>1. IInv => NothingOutlivesServices
  BY DEF IInv, Phases, Stopping, References, Late, NothingOutlivesServices
<1> QED
  BY <1>1, Invariant, PTL

-----------------------------------------------------------------------------
(* Every GL object is deleted once *)

Count(s, c) == Cardinality({k \in DOMAIN s : s[k] = c})

LEMMA CountFinite ==
    ASSUME NEW S, NEW s \in Seq(S), NEW c
    PROVE  IsFiniteSet({k \in DOMAIN s : s[k] = c}) /\ Count(s, c) \in Nat
<1>1. DOMAIN s = 1 .. Len(s) /\ Len(s) \in Int
  OBVIOUS
<1>2. IsFiniteSet(1 .. Len(s))
  BY <1>1, FS_Interval
<1>3. {k \in DOMAIN s : s[k] = c} \in SUBSET (1 .. Len(s))
  BY <1>1
<1>4. IsFiniteSet({k \in DOMAIN s : s[k] = c})
  BY <1>2, <1>3, FS_Subset
<1> QED
  BY <1>4, FS_CardinalityType DEF Count

LEMMA CountAppend ==
    ASSUME NEW S, NEW s \in Seq(S), NEW x \in S, NEW c
    PROVE  Count(Append(s, x), c) = Count(s, c) + (IF x = c THEN 1 ELSE 0)
<1> DEFINE t == Append(s, x)
           P == {k \in DOMAIN s : s[k] = c}
           Q == {k \in DOMAIN t : t[k] = c}
<1>1. /\ Len(s) \in Nat /\ DOMAIN s = 1 .. Len(s) /\ DOMAIN t = 1 .. Len(s) + 1
      /\ t[Len(s) + 1] = x
      /\ \A k \in DOMAIN s : t[k] = s[k]
  OBVIOUS
<1>2. IsFiniteSet(P) /\ Cardinality(P) \in Nat
  BY CountFinite DEF Count
<1> HIDE DEF t
<1>3. Len(s) + 1 \notin P /\ Q = IF x = c THEN P \cup {Len(s) + 1} ELSE P
  <2>1. DOMAIN t = DOMAIN s \cup {Len(s) + 1} /\ Len(s) + 1 \notin DOMAIN s
    BY <1>1
  <2> QED
    BY <1>1, <2>1
<1> HIDE DEF P, Q
<1>4. Cardinality(Q) = Cardinality(P) + (IF x = c THEN 1 ELSE 0)
  <2>1. ASSUME NEW n, n \notin P PROVE Cardinality(P \cup {n}) = Cardinality(P) + 1
    BY <1>2, <2>1, FS_AddElement
  <2> QED
    BY <1>2, <1>3, <2>1
<1> QED
  BY <1>4 DEF Count, t, P, Q

LEMMA CountTail ==
    ASSUME NEW S, NEW s \in Seq(S), s # <<>>, NEW c
    PROVE  Count(s, c) = Count(Tail(s), c) + (IF Head(s) = c THEN 1 ELSE 0)
<1> DEFINE t == Tail(s)
           A == {k \in DOMAIN s : s[k] = c}
           P == A \ {1}
           Q == {k \in DOMAIN t : t[k] = c}
           f == [k \in Q |-> k + 1]
<1>1. /\ t \in Seq(S) /\ Head(s) = s[1] /\ 1 \in DOMAIN s
      /\ DOMAIN s \subseteq Nat /\ DOMAIN t \subseteq Nat
      /\ \A k \in DOMAIN t : t[k] = s[k + 1] /\ k + 1 \in DOMAIN s /\ k + 1 # 1
      /\ \A k \in DOMAIN s : k # 1 => k - 1 \in DOMAIN t /\ t[k - 1] = s[k]
  BY TailShifts
<1> HIDE DEF t
<1>2. IsFiniteSet(Q) /\ IsFiniteSet(A)
  <2>1. t \in Seq(S)
    BY <1>1
  <2>2. IsFiniteSet(Q)
    BY <2>1, CountFinite
  <2>3. IsFiniteSet(A)
    BY CountFinite
  <2> QED
    BY <2>2, <2>3
<1>3. ExistsBijection(Q, P)
  <2>1. f \in [Q -> P]
    BY <1>1
  <2>2. \A j, k \in Q : f[j] = f[k] => j = k
    BY <1>1
  <2>3. \A k \in P : k - 1 \in Q /\ f[k - 1] = k
    BY <1>1
  <2>4. f \in Injection(Q, P) /\ f \in Surjection(Q, P)
    BY <2>1, <2>2, <2>3 DEF Injection, Surjection, IsInjective
  <2> QED
    BY <2>4 DEF Bijection, ExistsBijection
<1>4. Cardinality(P) = Cardinality(Q)
  BY <1>2, <1>3, FS_Bijection
<1>5. 1 \in A <=> Head(s) = c
  BY <1>1
<1>6. Cardinality(Q) \in Nat /\ Cardinality(A) \in Nat
  BY <1>2, FS_CardinalityType
<1>7. Cardinality(P) = IF 1 \in A THEN Cardinality(A) - 1 ELSE Cardinality(A)
  <2> HIDE DEF A
  <2> QED
    BY <1>2, FS_RemoveElement
<1>8. Cardinality(A) = Cardinality(Q) + (IF Head(s) = c THEN 1 ELSE 0)
  <2> HIDE DEF A, P, Q
  <2> QED
    BY <1>4, <1>5, <1>6, <1>7
<1> QED
  BY <1>8 DEF Count, t

Accounted == BeforeStop \cup {"spin"}

\* What GLAccounting adds up for r.
Alive(r) == IF holders[r] = {} THEN 0 ELSE 1
Called(r) == IF pc = "run" THEN Count(action, Delete(r)) ELSE 0
Balance(r) ==
    created[r] = deleted[r] + (Count(mRenderThreadQueue, Delete(r)) + Called(r)) + Alive(r)

LEMMA BalanceMeans ==
    ASSUME TypeOK
    PROVE  GLAccounting <=> (pc \in Accounted => \A r \in GLObjects : Balance(r))
BY DEF GLAccounting, Accounted, BeforeStop, Running, Balance, Waiting, Count, Called, Alive

LEMMA BalanceTypes ==
    ASSUME IInv, NEW r \in GLObjects
    PROVE  /\ r \in Resources /\ Delete(r) \in Closure
           /\ created[r] \in Nat /\ deleted[r] \in Nat /\ Alive(r) \in Nat
           /\ Count(mRenderThreadQueue, Delete(r)) \in Nat /\ Called(r) \in Nat
<1>1. r \in Resources
  BY DEF GLObjects
<1>2. Count(mRenderThreadQueue, Delete(r)) \in Nat /\ Count(action, Delete(r)) \in Nat
  BY CountFinite DEF IInv, TypeOK
<1> QED
  BY <1>1, <1>2, ClosureKinds DEF IInv, TypeOK, Alive, Called

\* Whatever dies posts its deletion.
LEMMA GivesUpBalances ==
    ASSUME IInv, NEW gone, GivesUp(gone), NEW r \in GLObjects, Balance(r),
           UNCHANGED <<created, deleted>>, Called(r)' = Called(r)
    PROVE  Balance(r)'
<1>1. /\ mRenderThreadQueue \in Seq(Closure) /\ r \in Resources /\ Delete(r) \in Closure
      /\ Alive(r) \in Nat /\ created[r] \in Nat /\ deleted[r] \in Nat /\ Called(r) \in Nat
      /\ Count(mRenderThreadQueue, Delete(r)) \in Nat
  BY BalanceTypes DEF IInv, TypeOK
<1>2. Count(mRenderThreadQueue', Delete(r)) + Alive(r)'
         = Count(mRenderThreadQueue, Delete(r)) + Alive(r)
  <2>1. CASE /\ mRenderThreadQueue' = mRenderThreadQueue
             /\ \A y \in GLObjects : holders[y] = {} <=> holders'[y] = {}
    BY <2>1 DEF Alive
  <2>2. ASSUME NEW x \in GLObjects,
               mRenderThreadQueue' = Append(mRenderThreadQueue, Delete(x)),
               holders[x] # {} /\ holders'[x] = {},
               \A y \in GLObjects : y # x => (holders[y] = {} <=> holders'[y] = {})
        PROVE  Count(mRenderThreadQueue', Delete(r)) + Alive(r)'
                  = Count(mRenderThreadQueue, Delete(r)) + Alive(r)
    <3>1. x \in Resources /\ Delete(x) \in Closure
      BY BalanceTypes
    <3>2. Count(mRenderThreadQueue', Delete(r))
             = Count(mRenderThreadQueue, Delete(r)) + (IF Delete(x) = Delete(r) THEN 1 ELSE 0)
      BY <1>1, <2>2, <3>1, CountAppend
    <3>3. Delete(x) = Delete(r) <=> x = r
      BY <1>1, <3>1, ClosureKinds
    <3>4. CASE x = r
      BY <1>1, <2>2, <3>2, <3>3, <3>4 DEF Alive
    <3>5. CASE x # r
      BY <1>1, <2>2, <3>2, <3>3, <3>5 DEF Alive
    <3> QED
      BY <3>4, <3>5
  <2> QED
    BY <2>1, <2>2 DEF GivesUp
<1>3. Count(mRenderThreadQueue', Delete(r)) \in Nat /\ Alive(r)' \in Nat
  <2>1. mRenderThreadQueue' \in Seq(Closure)
    BY DEF GivesUp
  <2> QED
    BY <2>1, CountFinite DEF Alive
<1>4. Balance(r)' <=> created[r] = deleted[r] + (Count(mRenderThreadQueue', Delete(r)) + Called(r))
                                   + Alive(r)'
  BY DEF Balance
<1> QED
  BY <1>1, <1>2, <1>3, <1>4 DEF Balance

\* A creation is one more that is alive.
LEMMA RequestBalances ==
    ASSUME IInv, NEW q \in Resources, NEW h, Request(h, q), NEW r \in GLObjects, Balance(r),
           UNCHANGED <<mRenderThreadQueue, deleted>>, Called(r)' = Called(r)
    PROVE  Balance(r)'
<1>1. /\ r \in Resources /\ Alive(r) \in Nat /\ created[r] \in Nat /\ deleted[r] \in Nat
      /\ Called(r) \in Nat /\ Count(mRenderThreadQueue, Delete(r)) \in Nat
      /\ holders \in [Resources -> SUBSET Holder] /\ created \in [Resources -> Nat]
  BY BalanceTypes DEF IInv, TypeOK
<1>2. Alive(r)' \in Nat /\ created'[r] = created[r] + (Alive(r)' - Alive(r))
  <2>1. CASE holders[q] # {}
    <3>1. created' = created /\ holders' = [holders EXCEPT ![q] = @ \cup {h}]
      BY <2>1 DEF Request
    <3>2. holders'[r] = {} <=> holders[r] = {}
      BY <1>1, <2>1, <3>1
    <3> QED
      BY <1>1, <3>1, <3>2 DEF Alive
  <2>2. CASE holders[q] = {}
    <3>1. /\ created' = [created EXCEPT ![q] = @ + 1]
          /\ holders' = [holders EXCEPT ![q] = {h, "load"}]
      BY <2>2 DEF Request
    <3>2. CASE r = q
      BY <1>1, <2>2, <3>1, <3>2 DEF Alive
    <3>3. CASE r # q
      BY <1>1, <3>1, <3>3 DEF Alive
    <3> QED
      BY <3>2, <3>3
  <2> QED
    BY <2>1, <2>2
<1>3. Balance(r)' <=> created'[r] = deleted[r] + (Count(mRenderThreadQueue, Delete(r)) + Called(r))
                                    + Alive(r)'
  BY DEF Balance
<1> QED
  BY <1>1, <1>2, <1>3 DEF Balance

LEMMA CallBalances ==
    ASSUME IInv, FlushRun, NEW r \in GLObjects, Balance(r)
    PROVE  Balance(r)'
<1> DEFINE c == Head(action)
<1>1. /\ pc = "run" /\ pc' = "reset" /\ action \in Seq(Closure) /\ Len(action) = 1
      /\ UNCHANGED mRenderThreadQueue
  BY DEF FlushRun, IInv, TypeOK, Phases
<1>2. /\ r \in Resources /\ Alive(r) \in Nat /\ created[r] \in Nat /\ deleted[r] \in Nat
      /\ Count(mRenderThreadQueue, Delete(r)) \in Nat /\ deleted \in [Resources -> Nat]
  BY BalanceTypes DEF IInv, TypeOK
<1>3. action # <<>> /\ Tail(action) = <<>>
  BY <1>1, SingleClosure
<1>4. c \in Closure /\ c \in Setups \cup Deletes
  <2>1. c \in Elements(action)
    BY <1>1, <1>3, TailElements
  <2> QED
    BY <1>1, <1>3, <2>1 DEF IInv, Kinds
<1>5. Called(r) = (IF c = Delete(r) THEN 1 ELSE 0) /\ Called(r)' = 0
  <2>1. {k \in DOMAIN <<>> : <<>>[k] = Delete(r)} = {}
    OBVIOUS
  <2>2. Count(<<>>, Delete(r)) = 0
    BY <2>1, FS_EmptySet DEF Count
  <2>3. Count(action, Delete(r)) = Count(Tail(action), Delete(r))
                                      + (IF c = Delete(r) THEN 1 ELSE 0)
    BY <1>1, <1>3, CountTail
  <2>4. Count(Tail(action), Delete(r)) = 0
    BY <1>3, <2>2
  <2>5. Count(action, Delete(r)) = IF c = Delete(r) THEN 1 ELSE 0
    BY <2>3, <2>4
  <2> QED
    BY <1>1, <2>5 DEF Called
<1>6. ASSUME NEW x \in Resources, c = Delete(x) PROVE Balance(r)'
  <2>1. deleted' = [deleted EXCEPT ![x] = @ + 1] /\ UNCHANGED <<holders, created>>
    BY <1>6, ClosureKinds DEF FlushRun
  <2>2. c = Delete(r) <=> x = r
    BY <1>2, <1>6, ClosureKinds
  <2>3. Alive(r)' = Alive(r)
    BY <2>1 DEF Alive
  <2>4. Balance(r)' <=> created[r] = deleted'[r] + (Count(mRenderThreadQueue, Delete(r)) + 0)
                                     + Alive(r)
    BY <1>1, <1>5, <2>1, <2>3 DEF Balance
  <2>5. deleted'[r] = deleted[r] + Called(r) /\ Called(r) \in Nat
    BY <1>2, <1>5, <2>1, <2>2
  <2> QED
    BY <1>2, <2>4, <2>5 DEF Balance
<1>7. ASSUME NEW x \in Resources, c = Setup(x) PROVE Balance(r)'
  <2>1. Called(r) = 0 /\ Called(r)' = Called(r) /\ deleted' = deleted
    BY <1>2, <1>5, <1>7, ClosureKinds DEF FlushRun
  <2>2. CASE Sub[x] # None
    <3>1. Request(x, Sub[x]) /\ Sub[x] \in Resources
      BY <1>7, <2>2, ClosureKinds, ThreadManagerAssumption DEF FlushRun
    <3> QED
      BY <1>1, <2>1, <3>1, RequestBalances
  <2>3. CASE Sub[x] = None
    <3>1. UNCHANGED <<holders, created>>
      BY <1>7, <2>3, ClosureKinds DEF FlushRun
    <3> QED
      BY <1>1, <2>1, <3>1 DEF Balance, Alive
  <2> QED
    BY <2>2, <2>3
<1> QED
  BY <1>4, <1>6, <1>7 DEF Setups, Deletes

LEMMA WorkerLoadBalances ==
    ASSUME IInv, WorkerLoad, NEW r \in GLObjects, Balance(r)
    PROVE  Balance(r)'
<1>1. /\ r \in Resources /\ Delete(r) \in Closure
      /\ mRenderThreadQueue \in Seq(Closure) /\ holders \in [Resources -> SUBSET Holder]
      /\ UNCHANGED <<pc, action, created, deleted>> /\ wpc = "run" /\ job.kind = "load"
  BY BalanceTypes DEF WorkerLoad, IInv, TypeOK
<1>2. PICK x \in Resources : job = Load(x)
  BY <1>1, ClosureKinds DEF IInv, Kinds, Loads
<1>3. /\ job.res = x /\ Setup(x) \in Closure /\ Setup(x) # Delete(r) /\ holders[x] # {}
  BY <1>1, <1>2, ClosureKinds DEF IInv, LoadsHold
<1>4. /\ Count(mRenderThreadQueue', Delete(r)) = Count(mRenderThreadQueue, Delete(r))
      /\ Alive(r)' = Alive(r)
  <2>1. CASE UNCHANGED <<mRenderThreadQueue, holders>>
    BY <2>1 DEF Alive
  <2>2. CASE /\ mRenderThreadQueue' = Append(mRenderThreadQueue, Setup(x))
             /\ holders' = [holders EXCEPT ![x] = @ \cup {"setup"}]
    <3>1. Count(mRenderThreadQueue, Delete(r)) \in Nat
      BY BalanceTypes
    <3>2. holders'[r] = {} <=> holders[r] = {}
      BY <1>1, <1>3, <2>2
    <3>3. Count(mRenderThreadQueue', Delete(r)) = Count(mRenderThreadQueue, Delete(r))
      BY <1>1, <1>3, <2>2, <3>1, CountAppend
    <3> QED
      BY <3>2, <3>3 DEF Alive
  <2> QED
    BY <1>3, <2>1, <2>2 DEF WorkerLoad
<1> QED
  BY <1>1, <1>4 DEF Balance, Called

LEMMA FlushTakeBalances ==
    ASSUME IInv, FlushTake, NEW r \in GLObjects, Balance(r)
    PROVE  Balance(r)'
<1> DEFINE c == Head(mRenderThreadQueue)
<1>1. /\ pc = "flush" /\ pc' = "run" /\ action' = <<c>>
      /\ mRenderThreadQueue # <<>> /\ mRenderThreadQueue' = Tail(mRenderThreadQueue)
      /\ mRenderThreadQueue \in Seq(Closure)
      /\ UNCHANGED <<holders, created, deleted>>
  BY DEF FlushTake, IInv, TypeOK
<1>2. /\ Count(mRenderThreadQueue', Delete(r)) \in Nat
      /\ Count(mRenderThreadQueue, Delete(r)) =
            Count(mRenderThreadQueue', Delete(r)) + (IF c = Delete(r) THEN 1 ELSE 0)
  BY <1>1, CountTail, CountFinite, TailElements
<1>3. Count(action', Delete(r)) = IF c = Delete(r) THEN 1 ELSE 0
  <2>1. {k \in DOMAIN action' : action'[k] = Delete(r)}
           = IF c = Delete(r) THEN {1} ELSE {}
    BY <1>1
  <2> QED
    BY <2>1, FS_EmptySet, FS_Singleton DEF Count
<1>4. Called(r) = 0 /\ Called(r)' = (IF c = Delete(r) THEN 1 ELSE 0) /\ Alive(r)' = Alive(r)
  BY <1>1, <1>3 DEF Called, Alive
<1> QED
  BY <1>1, <1>2, <1>4 DEF Balance

LEMMA BalanceStep ==
    ASSUME IInv, [Next]_vars, pc' \in Accounted, NEW r \in GLObjects,
           pc \in Accounted => Balance(r)
    PROVE  Balance(r)'
<1>1. pc \in Accounted
  BY DEF Accounted, BeforeStop, Running, Next, MainStep, WorkerStep, SceneStep, Terminated,
         vars, Boot, Initialize, EndFrame, FlushTake, FlushRun, FlushReset, FlushEnd, Shutdown,
         PostStop, ClearRenderQueue, ClearNext, ResetServices, DestroyManager, DestroyNext,
         Exit, WorkerTake, WorkerLoad, WorkerStop, WorkerReset, WorkerExit, SceneRequests,
         SceneReleases
<1>2. Balance(r)
  BY <1>1
<1>3. ASSUME UNCHANGED <<mRenderThreadQueue, holders, created, deleted>>,
             (pc' = pc /\ action' = action) \/ (pc # "run" /\ pc' # "run")
      PROVE  Balance(r)'
  BY <1>2, <1>3 DEF Balance, Called, Alive
<1>4. CASE Boot \/ Initialize \/ EndFrame \/ FlushEnd \/ Shutdown \/ PostStop
  BY <1>3, <1>4 DEF Boot, Initialize, EndFrame, FlushEnd, Shutdown, PostStop
<1>5. CASE WorkerTake \/ WorkerStop \/ WorkerExit \/ UNCHANGED vars
  <2>1. UNCHANGED <<pc, action, mRenderThreadQueue, holders, created, deleted>>
    <3>1. CASE WorkerTake \/ WorkerStop \/ WorkerExit
      BY <3>1 DEF WorkerTake, WorkerStop, WorkerExit
    <3>2. CASE UNCHANGED vars
      BY <3>2 DEF vars
    <3> QED
      BY <1>5, <3>1, <3>2
  <2> QED
    BY <1>3, <2>1
<1>6. CASE ClearRenderQueue \/ ClearNext \/ ResetServices \/ DestroyManager \/ DestroyNext \/ Exit
  BY <1>1, <1>6
  DEF ClearRenderQueue, ClearNext, ResetServices, DestroyManager, DestroyNext, Exit,
      Accounted, BeforeStop, Running
<1>7. CASE FlushTake
  BY <1>2, <1>7, FlushTakeBalances
<1>8. CASE FlushRun
  BY <1>2, <1>8, CallBalances
<1>9. CASE FlushReset
  <2>1. action # <<>>
    BY <1>9, SingleClosure DEF FlushReset, IInv, TypeOK, Phases
  <2>2. GivesUp(Given(Head(action)))
    BY <1>9, <2>1, MainGivesUp DEF FlushReset
  <2>3. UNCHANGED <<created, deleted>> /\ Called(r)' = Called(r)
    BY <1>9 DEF FlushReset, Called
  <2> QED
    BY <1>2, <2>2, <2>3, GivesUpBalances
<1>10. CASE WorkerReset
  <2>1. GivesUp(Given(job))
    BY <1>10, WorkerGivesUp DEF WorkerReset
  <2>2. UNCHANGED <<created, deleted>> /\ Called(r)' = Called(r)
    BY <1>10 DEF WorkerReset, Called
  <2> QED
    BY <1>2, <2>1, <2>2, GivesUpBalances
<1>11. ASSUME NEW q \in Resources, SceneReleases(q) PROVE Balance(r)'
  <2>1. GivesUp({<<"scene", q>>})
    BY <1>11, Released DEF SceneReleases, Single
  <2>2. UNCHANGED <<created, deleted>> /\ Called(r)' = Called(r)
    BY <1>11 DEF SceneReleases, Called
  <2> QED
    BY <1>2, <2>1, <2>2, GivesUpBalances
<1>12. ASSUME NEW q \in Resources, SceneRequests(q) PROVE Balance(r)'
  <2>1. /\ Request("scene", q) /\ UNCHANGED <<mRenderThreadQueue, deleted>>
        /\ Called(r)' = Called(r)
    BY <1>12 DEF SceneRequests, Called
  <2> QED
    BY <1>2, <2>1, RequestBalances
<1>13. CASE WorkerLoad
  BY <1>2, <1>13, WorkerLoadBalances
<1> QED
  BY <1>4, <1>5, <1>6, <1>7, <1>8, <1>9, <1>10, <1>11, <1>12, <1>13
  DEF Next, MainStep, WorkerStep, SceneStep, Terminated

\* Until the shutdown clears the queue, every GL object that was created is
\* alive, or its deletion is waiting, or it has been deleted - once.
THEOREM DeletedOnce == Spec => []GLAccounting
<1>1. Init => GLAccounting
  <2> SUFFICES ASSUME Init PROVE GLAccounting
    OBVIOUS
  <2>1. TypeOK
    BY InitInvariant DEF IInv
  <2>2. ASSUME NEW r \in GLObjects PROVE Balance(r)
    <3>1. {k \in DOMAIN mRenderThreadQueue : mRenderThreadQueue[k] = Delete(r)} = {}
      BY DEF Init
    <3>2. Count(mRenderThreadQueue, Delete(r)) = 0
      BY <3>1, FS_EmptySet DEF Count
    <3> QED
      BY <3>2 DEF Init, Balance, Called, Alive, GLObjects
  <2> QED
    BY <2>1, <2>2, BalanceMeans
<1>2. IInv /\ IInv' /\ GLAccounting /\ [Next]_vars => GLAccounting'
  <2> SUFFICES ASSUME IInv, IInv', GLAccounting, [Next]_vars PROVE GLAccounting'
    OBVIOUS
  <2>1. pc \in Accounted => \A r \in GLObjects : Balance(r)
    BY BalanceMeans DEF IInv
  <2>2. pc' \in Accounted => \A r \in GLObjects : Balance(r)'
    BY <2>1, BalanceStep
  <2>3. TypeOK'
    BY DEF IInv
  <2> QED
    BY <2>2, <2>3
    DEF GLAccounting, Accounted, BeforeStop, Running, Balance, Waiting, Count, Called, Alive
<1> QED
  BY <1>1, <1>2, Invariant, PTL DEF Spec

=============================================================================
