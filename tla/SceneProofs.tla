----------------------------- MODULE SceneProofs -----------------------------
(***************************************************************************)
(* What is proved about the parts of a scene, for all values of the        *)
(* constants: the dispatch of its events, its cameras, the transformations *)
(* of its children, and how it lays them out, draws them and finds them    *)
(* under a finger.                                                         *)
(***************************************************************************)
EXTENDS EventDispatcher, Camera, SceneTree, FiniteSetTheorems,
        WellFoundedInduction, TLAPS

-----------------------------------------------------------------------------
(***************************************************************************)
(* The lists of observers hold every handler once, and a dispatch calls    *)
(* the observers as ObserverRegistry promises, for any number of events,   *)
(* observers, keys and nested passes. The argument: a list is a sequence   *)
(* of slots whose order does not matter to the promise, only which         *)
(* observers they hold, and which from a position on; a pass never stands  *)
(* behind the end of its list, so that the observer that compaction moves  *)
(* forward is one that the pass has yet to reach; and a handler is in the  *)
(* list of an event if, and only if, one key owns it there.                *)
(***************************************************************************)

\* No observer has two slots of a list.
Distinct(s) == \A j, k \in DOMAIN s : s[j] = s[k] /\ s[j] # Null => j = k
ListsDistinct == \A e \in Events : Distinct(mObservers[e])

\* A handler is in the list of an event if, and only if, some key owns it there;
\* then it is one key, and one event.
HandlersOwned ==
    \A e \in Events, o \in Handlers : <<e, o>> \in Owned <=> o \in Registered(e)
OwnedByOneKey ==
    \A j, k \in Keys : \A x \in mEventObserverMap[j] : x \in mEventObserverMap[k] => j = k

\* All passes but the innermost one are in a call, and none has run out of its list.
PassesNested ==
    /\ Depth <= MaxDepth
    /\ \A p \in 1 .. Depth - 1 : passes[p].calling
    /\ \A p \in 1 .. Depth :
           FirstDue(p) <= Len(mObservers[passes[p].event]) + 1

DispatchInv == TypeOK /\ ListsDistinct /\ HandlersOwned /\ OwnedByOneKey /\ PassesNested

-----------------------------------------------------------------------------
(* Lists of slots: who is in them, and who is in them from slot i on. *)

Places == Observers \cup {Null}
Held(s) == {s[k] : k \in DOMAIN s} \ {Null}
Rest(s, i) == {s[k] : k \in i .. Len(s)} \ {Null}

LEMMA SlotsAdded ==
    ASSUME NEW s \in Seq(Places), NEW o \in Observers, Distinct(s), o \notin Held(s)
    PROVE  LET t == Append(s, o) IN
           /\ t \in Seq(Places) /\ Len(t) = Len(s) + 1 /\ Distinct(t)
           /\ Held(t) = Held(s) \cup {o}
           /\ \A i \in 1 .. Len(s) + 1 : Rest(t, i) = Rest(s, i) \cup {o}
<1> DEFINE t == Append(s, o)
<1>1. t \in Seq(Places) /\ Len(t) = Len(s) + 1 /\ Len(s) \in Nat
  BY DEF Places
<1>2. DOMAIN s = 1 .. Len(s) /\ DOMAIN t = 1 .. Len(s) + 1
  BY DEF Places
<1>3. t[Len(s) + 1] = o /\ \A k \in 1 .. Len(s) : t[k] = s[k]
  BY DEF Places
<1>4. o # Null
  BY DispatcherAssumption
<1> HIDE DEF t
<1>5. Distinct(t)
  BY <1>1, <1>2, <1>3 DEF Distinct, Held
<1>6. Held(t) = Held(s) \cup {o}
  BY <1>1, <1>2, <1>3, <1>4 DEF Held
<1>7. ASSUME NEW i \in 1 .. Len(s) + 1 PROVE Rest(t, i) = Rest(s, i) \cup {o}
  BY <1>1, <1>2, <1>3, <1>4 DEF Rest
<1> QED
  BY <1>1, <1>5, <1>6, <1>7 DEF t

LEMMA SlotsEmptied ==
    ASSUME NEW s \in Seq(Places), NEW S, Distinct(s)
    PROVE  LET t == Emptied(s, S) IN
           /\ t \in Seq(Places) /\ Len(t) = Len(s) /\ Distinct(t)
           /\ Held(t) = Held(s) \ S
           /\ \A i \in Nat \ {0} : Rest(t, i) = Rest(s, i) \ S
<1> DEFINE t == Emptied(s, S)
<1>1. Len(s) \in Nat /\ DOMAIN s = 1 .. Len(s) /\ \A k \in 1 .. Len(s) : s[k] \in Places
  OBVIOUS
<1>2. t = [k \in 1 .. Len(s) |-> IF s[k] \in S THEN Null ELSE s[k]]
  BY <1>1 DEF Emptied
<1>3. \A k \in 1 .. Len(s) : t[k] = IF s[k] \in S THEN Null ELSE s[k]
  BY <1>2
<1>4. t \in Seq(Places) /\ Len(t) = Len(s) /\ DOMAIN t = 1 .. Len(s)
  BY <1>1, <1>2, <1>3 DEF Places
<1> HIDE DEF t
<1>5. Distinct(t)
  BY <1>1, <1>3, <1>4 DEF Distinct
<1>6. Held(t) = Held(s) \ S
  BY <1>1, <1>3, <1>4 DEF Held
<1>7. ASSUME NEW i \in Nat \ {0} PROVE Rest(t, i) = Rest(s, i) \ S
  BY <1>1, <1>3, <1>4 DEF Rest
<1> QED
  BY <1>4, <1>5, <1>6, <1>7 DEF t

LEMMA BelowLast ==
    \A n, i \in Nat : \A k \in i .. n : i # 0 /\ k # n => k \in i .. n - 1 /\ k \in 1 .. n - 1
OBVIOUS

LEMMA SlotsMoved ==
    ASSUME NEW s \in Seq(Places), NEW i \in DOMAIN s, s[i] = Null, Distinct(s)
    PROVE  LET t == Moved(s, i) IN
           /\ t \in Seq(Places) /\ Len(t) = Len(s) - 1 /\ Distinct(t)
           /\ Held(t) = Held(s)
           /\ Rest(t, i) = Rest(s, i)
<1> DEFINE t == Moved(s, i)
<1>1. Len(s) \in Nat /\ DOMAIN s = 1 .. Len(s) /\ \A k \in 1 .. Len(s) : s[k] \in Places
  OBVIOUS
<1>2. /\ i \in 1 .. Len(s) /\ i \in Nat /\ i # 0
      /\ Len(s) \in Nat /\ Len(s) - 1 \in Nat /\ 1 \in Nat /\ 1 # 0
  BY <1>1
<1>3. t = [k \in 1 .. Len(s) - 1 |-> IF k = i THEN s[Len(s)] ELSE s[k]]
  BY DEF Moved
<1>4. \A k \in 1 .. Len(s) - 1 : t[k] = IF k = i THEN s[Len(s)] ELSE s[k]
  BY <1>3
<1>5. t \in Seq(Places) /\ Len(t) = Len(s) - 1 /\ DOMAIN t = 1 .. Len(s) - 1
  BY <1>1, <1>2, <1>3, <1>4
<1> HIDE DEF t
<1>6. Distinct(t)
  BY <1>1, <1>2, <1>4, <1>5 DEF Distinct
<1>7. Held(t) = Held(s)
  <2>1. ASSUME NEW x \in Held(t) PROVE x \in Held(s)
    BY <1>1, <1>2, <1>4, <1>5 DEF Held
  <2>2. ASSUME NEW x \in Held(s) PROVE x \in Held(t)
    <3>1. PICK k \in 1 .. Len(s) : s[k] = x
      BY <1>1 DEF Held
    <3>2. x # Null /\ k # i
      BY <3>1 DEF Held
    <3>3. CASE k = Len(s)
      <4>1. i \in 1 .. Len(s) - 1 /\ t[i] = x
        BY <3>1, <3>2, <3>3, <1>2, <1>4
      <4> QED
        BY <4>1, <3>2, <1>5 DEF Held
    <3>4. CASE k # Len(s)
      <4>0. k \in 1 .. Len(s) - 1
        BY <3>4, <1>2, BelowLast
      <4>1. t[k] = x
        BY <4>0, <3>1, <3>2, <1>4
      <4> QED
        BY <4>0, <4>1, <3>2, <1>5 DEF Held
    <3> QED
      BY <3>3, <3>4
  <2> QED
    BY <2>1, <2>2
<1>8. Rest(t, i) = Rest(s, i)
  <2>1. ASSUME NEW x \in Rest(t, i) PROVE x \in Rest(s, i)
    <3>1. PICK k \in i .. Len(s) - 1 : t[k] = x
      BY <1>5 DEF Rest
    <3>2. x # Null
      BY DEF Rest
    <3>3. k \in 1 .. Len(s) - 1 /\ (x = s[k] \/ x = s[Len(s)])
      BY <3>1, <1>2, <1>4
    <3>4. k \in i .. Len(s) /\ Len(s) \in i .. Len(s)
      BY <3>1, <1>2
    <3> QED
      BY <3>2, <3>3, <3>4 DEF Rest
  <2>2. ASSUME NEW x \in Rest(s, i) PROVE x \in Rest(t, i)
    <3>1. PICK k \in i .. Len(s) : s[k] = x
      BY <1>1 DEF Rest
    <3>2. x # Null /\ k # i
      BY <3>1 DEF Rest
    <3>3. CASE k = Len(s)
      <4>1. i \in 1 .. Len(s) - 1 /\ i \in i .. Len(s) - 1 /\ t[i] = x
        BY <3>1, <3>2, <3>3, <1>2, <1>4
      <4> QED
        BY <4>1, <3>2, <1>5 DEF Rest
    <3>4. CASE k # Len(s)
      <4>0. k \in i .. Len(s) - 1 /\ k \in 1 .. Len(s) - 1
        BY <3>4, <1>2, BelowLast
      <4>1. t[k] = x
        BY <4>0, <3>1, <3>2, <1>4
      <4> QED
        BY <4>0, <4>1, <3>2, <1>5 DEF Rest
    <3> QED
      BY <3>3, <3>4
  <2> QED
    BY <2>1, <2>2
<1> QED
  BY <1>5, <1>6, <1>7, <1>8 DEF t

\* A pass that goes on by one slot owes one call less, or none less at a gap.
LEMMA SlotPassed ==
    ASSUME NEW s \in Seq(Places), NEW i \in DOMAIN s, Distinct(s)
    PROVE  /\ s[i] # Null => s[i] \in Rest(s, i) /\ Rest(s, i + 1) = Rest(s, i) \ {s[i]}
           /\ s[i] = Null => Rest(s, i + 1) = Rest(s, i)
<1>1. Len(s) \in Nat /\ DOMAIN s = 1 .. Len(s) /\ i \in 1 .. Len(s)
  OBVIOUS
<1>2. i .. Len(s) = {i} \cup (i + 1 .. Len(s)) /\ i \notin i + 1 .. Len(s)
  BY <1>1
<1>3. \A k \in i + 1 .. Len(s) : s[k] = s[i] /\ s[i] # Null => k = i
  BY <1>1 DEF Distinct
<1> QED
  BY <1>2, <1>3 DEF Rest

LEMMA SlotsAtEnds ==
    ASSUME NEW s \in Seq(Places)
    PROVE  Rest(s, 1) = Held(s) /\ \A i \in Nat : i > Len(s) => Rest(s, i) = {}
<1>1. Len(s) \in Nat /\ DOMAIN s = 1 .. Len(s)
  OBVIOUS
<1> QED
  BY <1>1 DEF Rest, Held

-----------------------------------------------------------------------------
(* What the registry sees of a state. *)

LEMMA Meaning ==
    /\ \A e : Registered(e) = Held(mObservers[e])
    /\ \A e, p : Due(e, p) = IF p \in Running(e) THEN Rest(mObservers[e], FirstDue(p)) ELSE {}
    /\ \A e : Registered(e)' = Held(mObservers'[e])
    /\ \A e, p : Due(e, p)' = IF p \in Running(e)' THEN Rest(mObservers'[e], FirstDue(p)') ELSE {}
BY DEF Registered, Due, Held, Rest, Slots

LEMMA ListTypes ==
    ASSUME DispatchInv
    PROVE  /\ \A e \in Events : mObservers[e] \in Seq(Places) /\ Distinct(mObservers[e])
           /\ Depth \in 0 .. MaxDepth
           /\ \A p \in 1 .. Depth :
                 /\ passes[p] \in Pass /\ passes[p].event \in Events
                 /\ passes[p].index \in Nat \ {0} /\ passes[p].calling \in BOOLEAN
                 /\ FirstDue(p) \in 1 .. Len(mObservers[passes[p].event]) + 1
<1>1. \A e \in Events : mObservers[e] \in Seq(Places) /\ Distinct(mObservers[e])
  BY DEF DispatchInv, TypeOK, ListsDistinct, Places
<1>2. Depth \in 0 .. MaxDepth
  BY DispatcherAssumption DEF DispatchInv, TypeOK, PassesNested, Depth
<1>3. ASSUME NEW p \in 1 .. Depth
      PROVE  /\ passes[p] \in Pass /\ passes[p].event \in Events
             /\ passes[p].index \in Nat \ {0} /\ passes[p].calling \in BOOLEAN
             /\ FirstDue(p) \in 1 .. Len(mObservers[passes[p].event]) + 1
  <2>1. passes[p] \in Pass
    BY DEF DispatchInv, TypeOK, Depth
  <2>2. passes[p].event \in Events /\ passes[p].index \in Nat \ {0} /\ passes[p].calling \in BOOLEAN
    BY <2>1 DEF Pass
  <2>3. FirstDue(p) \in Nat \ {0}
    BY <2>2 DEF FirstDue
  <2>4. FirstDue(p) <= Len(mObservers[passes[p].event]) + 1
    BY DEF DispatchInv, PassesNested
  <2>5. Len(mObservers[passes[p].event]) \in Nat
    BY <1>1, <2>2
  <2> QED
    BY <2>1, <2>2, <2>3, <2>4, <2>5
<1> QED
  BY <1>1, <1>2, <1>3

LEMMA DispatchInitially == Init => DispatchInv
<1> SUFFICES ASSUME Init PROVE DispatchInv
  OBVIOUS
<1>1. Depth = 0
  BY DEF Init, Depth
<1>2. TypeOK
  BY DEF Init, TypeOK
<1>3. ListsDistinct /\ HandlersOwned /\ OwnedByOneKey
  BY DEF Init, ListsDistinct, Distinct, HandlersOwned, OwnedByOneKey, Registered, Slots, Owned
<1>4. PassesNested
  BY <1>1, DispatcherAssumption DEF PassesNested
<1> QED
  BY <1>2, <1>3, <1>4 DEF DispatchInv

-----------------------------------------------------------------------------
(* Changes of the lists, under passes that stay where they are *)

\* One step of the registry, or none.
RegistryStep == Registry!Next \/ UNCHANGED Registry!vars

\* The lists, and what their passes make of them, in the next state.
ListsKept ==
    /\ mObservers' \in [Events -> Seq(Places)]
    /\ ListsDistinct'
    /\ PassesNested'

LEMMA Adding ==
    ASSUME DispatchInv, UNCHANGED passes,
           NEW e \in Events, NEW o \in Observers, o \notin Registered(e),
           mObservers' = Added(e, o)
    PROVE  /\ ListsKept /\ RegistryStep
           /\ \A f \in Events :
                 Registered(f)' = IF f = e THEN Registered(f) \cup {o} ELSE Registered(f)
<1> DEFINE s == mObservers[e]
           t == Append(s, o)
<1>1. /\ s \in Seq(Places) /\ Distinct(s)
      /\ mObservers \in [Events -> Seq(Places)]
      /\ mObservers' = [mObservers EXCEPT ![e] = t]
  BY ListTypes DEF Added, DispatchInv, TypeOK, Places
<1>2. /\ t \in Seq(Places) /\ Len(t) = Len(s) + 1 /\ Distinct(t)
      /\ Held(t) = Held(s) \cup {o}
      /\ \A i \in 1 .. Len(s) + 1 : Rest(t, i) = Rest(s, i) \cup {o}
  BY <1>1, SlotsAdded, Meaning
<1>3. Len(s) \in Nat
  BY <1>1
<1>4. \A f \in Events : mObservers'[f] = IF f = e THEN t ELSE mObservers[f]
  BY <1>1
<1>5. mObservers' \in [Events -> Seq(Places)]
  BY <1>1, <1>2
<1> HIDE DEF t
<1>6. ListsDistinct'
  BY <1>2, <1>4, ListTypes DEF ListsDistinct
<1>7. \A f \in Events : Registered(f)' = IF f = e THEN Registered(f) \cup {o} ELSE Registered(f)
  BY <1>2, <1>4, Meaning
<1>8. /\ Depth' = Depth
      /\ \A p : FirstDue(p)' = FirstDue(p)
      /\ \A f : Running(f)' = Running(f)
  BY DEF Depth, FirstDue, Running
<1>9. PassesNested'
  <2>1. ASSUME NEW p \in 1 .. Depth
        PROVE  FirstDue(p) <= Len(mObservers'[passes[p].event]) + 1
    <3>1. /\ passes[p].event \in Events
          /\ FirstDue(p) \in 1 .. Len(mObservers[passes[p].event]) + 1
      BY ListTypes
    <3> QED
      BY <3>1, <1>2, <1>3, <1>4
  <2> QED
    BY <2>1, <1>8 DEF DispatchInv, PassesNested
<1>10. RegistryStep
  <2>1. CASE e # Watched
    <3>1. mObservers'[Watched] = mObservers[Watched]
      BY <2>1, <1>4, DispatcherAssumption
    <3>2. Registered(Watched)' = Registered(Watched)
      BY <3>1, Meaning
    <3>3. \A p : Due(Watched, p)' = Due(Watched, p)
      BY <3>1, <1>8, Meaning
    <3> QED
      BY <3>2, <3>3, <1>8 DEF RegistryStep, Registry!vars
  <2>2. CASE e = Watched
    <3>1. ASSUME NEW p \in 1 .. MaxDepth
          PROVE  Due(Watched, p)' =
                     IF p \in Running(Watched) THEN Due(Watched, p) \cup {o} ELSE {}
      <4>1. CASE p \in Running(Watched)
        <5>1. FirstDue(p) \in 1 .. Len(s) + 1
          BY <4>1, <2>2, ListTypes DEF Running
        <5> QED
          BY <5>1, <4>1, <2>2, <1>2, <1>4, <1>8, Meaning, DispatcherAssumption
      <4>2. CASE p \notin Running(Watched)
        BY <4>2, <1>8, Meaning
      <4> QED
        BY <4>1, <4>2
    <3>2. Registered(Watched)' = Registered(Watched) \cup {o}
      BY <2>2, <1>7
    <3>3. Registry!Register(o)
      BY <2>2, <3>1, <3>2, <1>8 DEF Registry!Register
    <3> QED
      BY <3>3 DEF RegistryStep, Registry!Next
  <2> QED
    BY <2>1, <2>2
<1> QED
  BY <1>5, <1>6, <1>7, <1>9, <1>10 DEF ListsKept

LEMMA Removing ==
    ASSUME DispatchInv, UNCHANGED passes,
           NEW G \in [Events -> SUBSET Observers],
           mObservers' = [e \in Events |-> Emptied(mObservers[e], G[e])]
    PROVE  /\ ListsKept /\ RegistryStep
           /\ \A f \in Events : Registered(f)' = Registered(f) \ G[f]
<1>1. ASSUME NEW e \in Events
      PROVE  /\ mObservers[e] \in Seq(Places) /\ Distinct(mObservers[e])
             /\ mObservers'[e] = Emptied(mObservers[e], G[e])
  BY ListTypes
<1>2. ASSUME NEW e \in Events
      PROVE  /\ mObservers'[e] \in Seq(Places) /\ Len(mObservers'[e]) = Len(mObservers[e])
             /\ Distinct(mObservers'[e])
             /\ Held(mObservers'[e]) = Held(mObservers[e]) \ G[e]
             /\ \A i \in Nat \ {0} : Rest(mObservers'[e], i) = Rest(mObservers[e], i) \ G[e]
  BY <1>1, SlotsEmptied
<1>3. mObservers' \in [Events -> Seq(Places)]
  BY <1>2
<1>4. ListsDistinct'
  BY <1>2 DEF ListsDistinct
<1>5. \A f \in Events : Registered(f)' = Registered(f) \ G[f]
  BY <1>2, Meaning
<1>6. /\ Depth' = Depth
      /\ \A p : FirstDue(p)' = FirstDue(p)
      /\ \A f : Running(f)' = Running(f)
  BY DEF Depth, FirstDue, Running
<1>7. PassesNested'
  <2>1. ASSUME NEW p \in 1 .. Depth
        PROVE  FirstDue(p) <= Len(mObservers'[passes[p].event]) + 1
    BY <1>2, ListTypes
  <2> QED
    BY <2>1, <1>6 DEF DispatchInv, PassesNested
<1>8. RegistryStep
  <2>1. ASSUME NEW p \in 1 .. MaxDepth
        PROVE  Due(Watched, p)' = Due(Watched, p) \ G[Watched]
    <3>1. CASE p \in Running(Watched)
      <4>1. FirstDue(p) \in Nat \ {0}
        BY <3>1, ListTypes DEF Running
      <4> QED
        BY <4>1, <3>1, <1>2, <1>6, Meaning, DispatcherAssumption
    <3>2. CASE p \notin Running(Watched)
      BY <3>2, <1>6, Meaning
    <3> QED
      BY <3>1, <3>2
  <2>2. Registry!Unregister(G[Watched])
    BY <2>1, <1>5, <1>6, DispatcherAssumption DEF Registry!Unregister
  <2> QED
    BY <2>2, DispatcherAssumption DEF RegistryStep, Registry!Next
<1> QED
  BY <1>3, <1>4, <1>5, <1>7, <1>8 DEF ListsKept

-----------------------------------------------------------------------------
(* The calls *)

\* The parts of the invariant that speak of the owners.
LEMMA OwnersKept ==
    ASSUME DispatchInv, UNCHANGED passes, ListsKept,
           mEventObserverMap' \in [Keys -> SUBSET (Events \X Handlers)],
           HandlersOwned', OwnedByOneKey'
    PROVE  DispatchInv'
<1>1. TypeOK'
  BY DEF DispatchInv, TypeOK, ListsKept, Places
<1> QED
  BY <1>1 DEF DispatchInv, ListsKept

LEMMA AddObserverStep ==
    ASSUME DispatchInv, NEW e \in Events, NEW o \in Clients, AddObserver(e, o)
    PROVE  DispatchInv' /\ RegistryStep
<1>1. /\ UNCHANGED <<passes, mEventObserverMap>>
      /\ o \notin Registered(e) /\ mObservers' = Added(e, o)
      /\ o \in Observers /\ o \notin Handlers
  BY DispatcherAssumption DEF AddObserver, Observers
<1>2. /\ ListsKept /\ RegistryStep
      /\ \A f \in Events :
             Registered(f)' = IF f = e THEN Registered(f) \cup {o} ELSE Registered(f)
  BY <1>1, Adding
<1>3. Owned' = Owned
  BY <1>1 DEF Owned
<1>4. HandlersOwned'
  BY <1>1, <1>2, <1>3 DEF DispatchInv, HandlersOwned
<1>5. OwnedByOneKey'
  BY <1>1 DEF DispatchInv, OwnedByOneKey
<1>6. mEventObserverMap' \in [Keys -> SUBSET (Events \X Handlers)]
  BY <1>1 DEF DispatchInv, TypeOK
<1> QED
  BY <1>1, <1>2, <1>4, <1>5, <1>6, OwnersKept

LEMMA AddEventObserverStep ==
    ASSUME DispatchInv, NEW k \in Keys, NEW e \in Events, NEW o \in Handlers, AddEventObserver(k, e, o)
    PROVE  DispatchInv' /\ RegistryStep
<1>1. /\ UNCHANGED passes
      /\ \A f \in Events : <<f, o>> \notin Owned
      /\ mObservers' = Added(e, o)
      /\ mEventObserverMap' = [mEventObserverMap EXCEPT ![k] = @ \cup {<<e, o>>}]
      /\ o \in Observers
  BY DEF AddEventObserver, Observers
<1>2. mEventObserverMap \in [Keys -> SUBSET (Events \X Handlers)]
  BY DEF DispatchInv, TypeOK
<1>3. o \notin Registered(e)
  BY <1>1 DEF DispatchInv, HandlersOwned
<1>4. /\ ListsKept /\ RegistryStep
      /\ \A f \in Events :
             Registered(f)' = IF f = e THEN Registered(f) \cup {o} ELSE Registered(f)
  BY <1>1, <1>3, Adding
<1>5. \A j \in Keys :
          mEventObserverMap'[j] = IF j = k THEN mEventObserverMap[j] \cup {<<e, o>>}
                                  ELSE mEventObserverMap[j]
  BY <1>1, <1>2
<1>6. mEventObserverMap' \in [Keys -> SUBSET (Events \X Handlers)]
  BY <1>1, <1>2
<1>7. \A x : x \in Owned' <=> x \in Owned \/ x = <<e, o>>
  BY <1>5 DEF Owned
<1>8. HandlersOwned'
  <2>1. ASSUME NEW f \in Events, NEW h \in Handlers
        PROVE  <<f, h>> \in Owned' <=> h \in Registered(f)'
    <3>1. <<f, h>> \in Owned <=> h \in Registered(f)
      BY DEF DispatchInv, HandlersOwned
    <3>2. <<f, h>> = <<e, o>> <=> f = e /\ h = o
      OBVIOUS
    <3> QED
      BY <3>1, <3>2, <1>4, <1>7
  <2> QED
    BY <2>1 DEF HandlersOwned
<1>9. OwnedByOneKey'
  <2>1. \A j \in Keys : <<e, o>> \notin mEventObserverMap[j]
    BY <1>1 DEF Owned
  <2> QED
    BY <2>1, <1>5 DEF DispatchInv, OwnedByOneKey
<1> QED
  BY <1>1, <1>4, <1>6, <1>8, <1>9, OwnersKept

LEMMA RemoveClientStep ==
    ASSUME DispatchInv, NEW F \in SUBSET Events, NEW o \in Clients,
           UNCHANGED <<passes, mEventObserverMap>>,
           mObservers' = [e \in Events |->
                             IF e \in F THEN Emptied(mObservers[e], {o}) ELSE mObservers[e]]
    PROVE  DispatchInv' /\ RegistryStep
<1> DEFINE G == [e \in Events |-> IF e \in F THEN {o} ELSE {}]
<1>1. o \in Observers /\ o \notin Handlers
  BY DispatcherAssumption DEF Observers
<1>2. G \in [Events -> SUBSET Observers]
  BY <1>1
<1>3. ASSUME NEW e \in Events
      PROVE  mObservers'[e] = Emptied(mObservers[e], G[e])
  <2>1. CASE e \in F
    BY <2>1
  <2>2. CASE e \notin F
    <3>1. mObservers[e] = [k \in DOMAIN mObservers[e] |-> mObservers[e][k]]
      BY ListTypes
    <3>2. Emptied(mObservers[e], {}) = [k \in DOMAIN mObservers[e] |-> mObservers[e][k]]
      BY DEF Emptied
    <3> QED
      BY <2>2, <3>1, <3>2
  <2> QED
    BY <2>1, <2>2
<1>4. mObservers' = [e \in Events |-> Emptied(mObservers[e], G[e])]
  BY <1>3
<1> HIDE DEF G
<1>5. /\ ListsKept /\ RegistryStep
      /\ \A f \in Events : Registered(f)' = Registered(f) \ G[f]
  BY <1>2, <1>4, Removing
<1>6. \A f \in Events, h \in Handlers : h \notin G[f]
  BY <1>1 DEF G
<1>7. Owned' = Owned
  BY DEF Owned
<1>8. HandlersOwned'
  BY <1>5, <1>6, <1>7 DEF DispatchInv, HandlersOwned
<1>9. OwnedByOneKey' /\ mEventObserverMap' \in [Keys -> SUBSET (Events \X Handlers)]
  BY DEF DispatchInv, OwnedByOneKey, TypeOK
<1> QED
  BY <1>5, <1>8, <1>9, OwnersKept

LEMMA RemoveObserverStep ==
    ASSUME DispatchInv, NEW e \in Events, NEW o \in Clients, RemoveObserver(e, o)
    PROVE  DispatchInv' /\ RegistryStep
<1>1. mObservers' = [f \in Events |->
                        IF f \in {e} THEN Emptied(mObservers[f], {o}) ELSE mObservers[f]]
  BY DEF RemoveObserver, DispatchInv, TypeOK
<1>2. UNCHANGED <<passes, mEventObserverMap>>
  BY DEF RemoveObserver
<1> QED
  BY <1>1, <1>2, RemoveClientStep

LEMMA RemoveEverywhereStep ==
    ASSUME DispatchInv, NEW o \in Clients, RemoveEverywhere(o)
    PROVE  DispatchInv' /\ RegistryStep
<1>1. mObservers' = [f \in Events |->
                        IF f \in Events THEN Emptied(mObservers[f], {o}) ELSE mObservers[f]]
  BY DEF RemoveEverywhere
<1>2. UNCHANGED <<passes, mEventObserverMap>>
  BY DEF RemoveEverywhere
<1> QED
  BY <1>1, <1>2, RemoveClientStep

LEMMA RemoveEventObserversStep ==
    ASSUME DispatchInv, NEW k \in Keys, RemoveEventObservers(k)
    PROVE  DispatchInv' /\ RegistryStep
<1> DEFINE G == [e \in Events |-> {o \in Handlers : <<e, o>> \in mEventObserverMap[k]}]
<1>1. /\ UNCHANGED passes
      /\ mEventObserverMap' = [mEventObserverMap EXCEPT ![k] = {}]
      /\ mObservers' = [e \in Events |-> Emptied(mObservers[e], G[e])]
  BY DEF RemoveEventObservers
<1>2. G \in [Events -> SUBSET Observers]
  BY DEF Observers
<1>3. \A e \in Events, o \in Handlers : o \in G[e] <=> <<e, o>> \in mEventObserverMap[k]
  OBVIOUS
<1> HIDE DEF G
<1>4. /\ ListsKept /\ RegistryStep
      /\ \A f \in Events : Registered(f)' = Registered(f) \ G[f]
  BY <1>1, <1>2, Removing
<1>5. mEventObserverMap \in [Keys -> SUBSET (Events \X Handlers)]
  BY DEF DispatchInv, TypeOK
<1>6. mEventObserverMap' \in [Keys -> SUBSET (Events \X Handlers)]
  BY <1>1, <1>5
<1>7. \A j \in Keys : mEventObserverMap'[j] = IF j = k THEN {} ELSE mEventObserverMap[j]
  BY <1>1, <1>5
<1>8. \A x : x \in Owned' <=> x \in Owned /\ x \notin mEventObserverMap[k]
  BY <1>7 DEF Owned, DispatchInv, OwnedByOneKey
<1>9. HandlersOwned'
  <2>1. ASSUME NEW f \in Events, NEW h \in Handlers
        PROVE  <<f, h>> \in Owned' <=> h \in Registered(f)'
    <3>1. <<f, h>> \in Owned <=> h \in Registered(f)
      BY DEF DispatchInv, HandlersOwned
    <3> QED
      BY <3>1, <1>3, <1>4, <1>8
  <2> QED
    BY <2>1 DEF HandlersOwned
<1>10. OwnedByOneKey'
  BY <1>7 DEF DispatchInv, OwnedByOneKey
<1> QED
  BY <1>1, <1>4, <1>6, <1>9, <1>10, OwnersKept

-----------------------------------------------------------------------------
(* The passes, over lists that stay as they are *)

LEMMA PassesOnly ==
    ASSUME DispatchInv, UNCHANGED <<mObservers, mEventObserverMap>>,
           passes' \in Seq(Pass), PassesNested'
    PROVE  DispatchInv'
<1>1. TypeOK'
  BY DEF DispatchInv, TypeOK
<1>2. ListsDistinct'
  BY DEF DispatchInv, ListsDistinct
<1>3. HandlersOwned'
  BY DEF DispatchInv, HandlersOwned, Owned, Registered, Slots
<1>4. OwnedByOneKey'
  BY DEF DispatchInv, OwnedByOneKey
<1> QED
  BY <1>1, <1>2, <1>3, <1>4 DEF DispatchInv

\* Nothing that the registry sees has changed.
LEMMA Unseen ==
    ASSUME UNCHANGED mObservers,
           Running(Watched)' = Running(Watched),
           \A p \in Running(Watched) :
               Rest(mObservers[Watched], FirstDue(p)') = Rest(mObservers[Watched], FirstDue(p))
    PROVE  RegistryStep
<1>1. Registered(Watched)' = Registered(Watched)
  BY Meaning
<1>2. \A p : Due(Watched, p)' = Due(Watched, p)
  BY Meaning
<1> QED
  BY <1>1, <1>2 DEF RegistryStep, Registry!vars

LEMMA SendEventStep ==
    ASSUME DispatchInv, NEW e \in Events, SendEvent(e)
    PROVE  DispatchInv' /\ RegistryStep
<1> DEFINE pass == [event |-> e, index |-> 1, calling |-> FALSE]
<1>1. /\ UserCode /\ Depth < MaxDepth
      /\ passes' = Append(passes, pass)
      /\ UNCHANGED <<mObservers, mEventObserverMap>>
  BY DEF SendEvent
<1>2. pass \in Pass /\ pass.event = e /\ pass.index = 1 /\ pass.calling = FALSE
  BY DEF Pass
<1> HIDE DEF pass
<1>3. passes \in Seq(Pass) /\ Depth = Len(passes)
  BY DEF DispatchInv, TypeOK, Depth
<1>4. /\ passes' \in Seq(Pass) /\ Depth' = Depth + 1
      /\ passes'[Depth + 1] = pass
      /\ \A p \in 1 .. Depth : passes'[p] = passes[p]
  BY <1>1, <1>2, <1>3 DEF Depth
<1>5. Depth \in Nat /\ MaxDepth \in Nat /\ Depth + 1 \in 1 .. MaxDepth
  BY <1>1, <1>3, DispatcherAssumption
<1> PICK q \in 1 .. MaxDepth : q = Depth + 1
  BY <1>5
<1>6. FirstDue(q)' = 1 /\ \A p \in 1 .. Depth : FirstDue(p)' = FirstDue(p)
  BY <1>2, <1>4, <1>5 DEF FirstDue
<1>7. PassesNested'
  <2>1. Depth' <= MaxDepth
    BY <1>4, <1>5
  <2>2. ASSUME NEW p \in 1 .. Depth PROVE passes'[p].calling
    <3>1. CASE p = Depth
      <4>1. passes[p].calling
        BY <1>1, <1>5, <3>1 DEF UserCode, Top
      <4> QED
        BY <4>1, <1>4
    <3>2. CASE p # Depth
      <4>1. p \in 1 .. Depth - 1
        BY <1>5, <3>2
      <4> QED
        BY <4>1, <1>4 DEF DispatchInv, PassesNested
    <3> QED
      BY <3>1, <3>2
  <2>3. ASSUME NEW p \in 1 .. q
        PROVE  FirstDue(p)' <= Len(mObservers'[passes'[p].event]) + 1
    <3>1. CASE p = q
      <4>1. Len(mObservers[e]) \in Nat
        BY ListTypes
      <4> QED
        BY <3>1, <4>1, <1>1, <1>2, <1>4, <1>6
    <3>2. CASE p # q
      <4>1. p \in 1 .. Depth
        BY <3>2, <1>5
      <4> QED
        BY <4>1, <1>1, <1>4, <1>6 DEF DispatchInv, PassesNested
    <3> QED
      BY <3>1, <3>2
  <2>4. Depth' - 1 = Depth
    BY <1>4, <1>5
  <2> QED
    BY <2>1, <2>2, <2>3, <2>4, <1>4 DEF PassesNested
<1>8. Running(Watched)' =
          IF e = Watched THEN Running(Watched) \cup {q} ELSE Running(Watched)
  <2>1. 1 .. q = (1 .. Depth) \cup {q}
    BY <1>5
  <2> QED
    BY <2>1, <1>2, <1>4 DEF Running
<1>9. Running(Watched) \subseteq 1 .. Depth /\ q \notin 1 .. Depth
  BY <1>5 DEF Running
<1>10. RegistryStep
  <2>1. CASE e # Watched
    BY <2>1, <1>1, <1>6, <1>8, <1>9, Unseen
  <2>2. CASE e = Watched
    <3>1. Due(Watched, q)' = Registered(Watched)
      <4>1. mObservers[Watched] \in Seq(Places)
        BY ListTypes, DispatcherAssumption
      <4> QED
        BY <4>1, <2>2, <1>1, <1>6, <1>8, Meaning, SlotsAtEnds
    <3>2. ASSUME NEW p \in 1 .. MaxDepth, p # q
          PROVE  Due(Watched, p)' = Due(Watched, p)
      BY <3>2, <2>2, <1>1, <1>6, <1>8, <1>9, Meaning
    <3>3. Registered(Watched)' = Registered(Watched)
      BY <1>1, Meaning
    <3>4. Registry!Begin(q)
      BY <2>2, <3>1, <3>2, <3>3, <1>5, <1>8, <1>9 DEF Registry!Begin
    <3> QED
      BY <3>4, <1>5 DEF RegistryStep, Registry!Next
  <2> QED
    BY <2>1, <2>2
<1> QED
  BY <1>1, <1>4, <1>7, <1>10, PassesOnly

\* The innermost pass is changed, and remains over the same list.
LEMMA TopChanged ==
    ASSUME DispatchInv, Depth > 0, UNCHANGED <<mObservers, mEventObserverMap>>,
           NEW i \in Nat \ {0}, NEW c \in BOOLEAN,
           passes' = [passes EXCEPT ![Depth] = [Top EXCEPT !.index = i, !.calling = c]],
           (IF c THEN i ELSE i - 1) <= Len(mObservers[Top.event])
    PROVE  /\ DispatchInv'
           /\ Running(Watched)' = Running(Watched)
           /\ FirstDue(Depth)' = IF c THEN i + 1 ELSE i
           /\ \A p \in 1 .. Depth : p # Depth => FirstDue(p)' = FirstDue(p)
<1> DEFINE pass == [Top EXCEPT !.index = i, !.calling = c]
<1>1. passes \in Seq(Pass) /\ Depth = Len(passes) /\ Depth \in 1 .. Len(passes)
  BY DEF DispatchInv, TypeOK, Depth
<1>2. Top \in Pass
  BY <1>1 DEF Top
<1>3. /\ pass \in Pass /\ pass.event = Top.event /\ pass.index = i /\ pass.calling = c
      /\ pass.event \in Events
  BY <1>2 DEF Pass
<1> HIDE DEF pass
<1>4. passes' = [passes EXCEPT ![Depth] = pass]
  BY DEF pass
<1>5. /\ passes' \in Seq(Pass) /\ Depth' = Depth
      /\ \A p \in 1 .. Depth : passes'[p] = IF p = Depth THEN pass ELSE passes[p]
  BY <1>1, <1>3, <1>4 DEF Depth
<1>6. Depth \in Nat /\ Depth \in 1 .. Depth
  BY <1>1
<1>7. FirstDue(Depth)' = IF c THEN i + 1 ELSE i
  BY <1>3, <1>5, <1>6 DEF FirstDue
<1>8. \A p \in 1 .. Depth : p # Depth => FirstDue(p)' = FirstDue(p)
  BY <1>5 DEF FirstDue
<1>9. Running(Watched)' = Running(Watched)
  BY <1>3, <1>5, <1>6 DEF Running, Top
<1>10. PassesNested'
  <2>1. Depth' <= MaxDepth
    BY <1>5 DEF DispatchInv, PassesNested
  <2>2. ASSUME NEW p \in 1 .. Depth - 1 PROVE passes'[p].calling
    <3>1. p \in 1 .. Depth /\ p # Depth
      BY <1>6
    <3> QED
      BY <3>1, <1>5 DEF DispatchInv, PassesNested
  <2>3. ASSUME NEW p \in 1 .. Depth
        PROVE  FirstDue(p)' <= Len(mObservers'[passes'[p].event]) + 1
    <3>1. CASE p = Depth
      <4>1. Len(mObservers[Top.event]) \in Nat
        BY <1>3, ListTypes
      <4>2. (IF c THEN i + 1 ELSE i) <= Len(mObservers[Top.event]) + 1
        BY <4>1
      <4> QED
        BY <4>2, <3>1, <1>3, <1>5, <1>7
    <3>2. CASE p # Depth
      BY <3>2, <1>5, <1>8 DEF DispatchInv, PassesNested
    <3> QED
      BY <3>1, <3>2
  <2> QED
    BY <2>1, <2>2, <2>3, <1>5 DEF PassesNested
<1> QED
  BY <1>5, <1>7, <1>8, <1>9, <1>10, PassesOnly

\* The innermost pass, and the slot it stands at.
LEMMA TopIs ==
    ASSUME DispatchInv, Depth > 0
    PROVE  /\ Depth \in 1 .. Depth /\ Depth \in 1 .. MaxDepth
           /\ Top \in Pass /\ Top.event \in Events
           /\ Top.index \in Nat \ {0} /\ Top.calling \in BOOLEAN
           /\ FirstDue(Depth) = IF Top.calling THEN Top.index + 1 ELSE Top.index
           /\ Depth \in Running(Watched) <=> Top.event = Watched
<1>1. Depth \in 0 .. MaxDepth
  BY ListTypes
<1>2. Depth \in 1 .. Depth /\ Depth \in 1 .. MaxDepth
  BY <1>1, DispatcherAssumption
<1> QED
  BY <1>2, ListTypes DEF Top, FirstDue, Running

LEMMA CallStep ==
    ASSUME DispatchInv, NEW o \in Observers, Call(o)
    PROVE  DispatchInv' /\ RegistryStep
<1>1. /\ Depth > 0 /\ ~Top.calling /\ Top.index <= Len(mObservers[Top.event])
      /\ o = mObservers[Top.event][Top.index] /\ o # Null
      /\ UNCHANGED <<mObservers, mEventObserverMap>>
  BY DEF Call, AtSlot
<1> PICK q \in 1 .. MaxDepth : q = Depth
  BY <1>1, TopIs
<1>2. passes' = [passes EXCEPT ![Depth] = [Top EXCEPT !.index = Top.index, !.calling = TRUE]]
  BY <1>1, TopIs DEF Call, DispatchInv, TypeOK, Pass, Top
<1>3. /\ DispatchInv'
      /\ Running(Watched)' = Running(Watched)
      /\ FirstDue(Depth)' = Top.index + 1
      /\ \A p \in 1 .. Depth : p # Depth => FirstDue(p)' = FirstDue(p)
  BY <1>1, <1>2, TopIs, TopChanged
<1>4. Depth' = q
  BY <1>2 DEF Depth, DispatchInv, TypeOK
<1>5. FirstDue(q)' = Top.index + 1 /\ FirstDue(q) = Top.index
  BY <1>1, <1>3, <1>4, TopIs
<1>6. CASE Top.event # Watched
  <2>1. \A p \in Running(Watched) : p \in 1 .. Depth /\ p # Depth
    BY <1>1, <1>6, TopIs DEF Running
  <2> QED
    BY <2>1, <1>1, <1>3, Unseen
<1>7. CASE Top.event = Watched
  <2>1. mObservers[Watched] \in Seq(Places) /\ Distinct(mObservers[Watched])
    BY ListTypes, DispatcherAssumption
  <2>2. Top.index \in DOMAIN mObservers[Watched]
    BY <1>1, <1>7, <2>1, TopIs
  <2>3. /\ o \in Rest(mObservers[Watched], Top.index)
        /\ Rest(mObservers[Watched], Top.index + 1) = Rest(mObservers[Watched], Top.index) \ {o}
    BY <2>1, <2>2, <1>1, <1>7, SlotPassed
  <2>4. q \in Running(Watched)
    BY <1>1, <1>7, TopIs
  <2>5. /\ o \in Due(Watched, q)
        /\ Due(Watched, q)' = Due(Watched, q) \ {o}
    BY <2>3, <2>4, <1>1, <1>3, <1>5, Meaning
  <2>6. ASSUME NEW p \in 1 .. MaxDepth, p # q
        PROVE  Due(Watched, p)' = Due(Watched, p)
    <3>1. p \in Running(Watched) => FirstDue(p)' = FirstDue(p)
      BY <2>6, <1>3 DEF Running
    <3> QED
      BY <3>1, <1>1, <1>3, Meaning
  <2>7. Registered(Watched)' = Registered(Watched)
    BY <1>1, Meaning
  <2>8. Registry!Notify(q, o)
    BY <2>5, <2>6, <2>7, <1>3 DEF Registry!Notify
  <2> QED
    BY <2>8, <1>3 DEF RegistryStep, Registry!Next
<1> QED
  BY <1>3, <1>6, <1>7

LEMMA ReturnStep ==
    ASSUME DispatchInv, Return
    PROVE  DispatchInv' /\ RegistryStep
<1>1. /\ Depth > 0 /\ Top.calling
      /\ UNCHANGED <<mObservers, mEventObserverMap>>
  BY DEF Return
<1> PICK q \in 1 .. MaxDepth : q = Depth
  BY <1>1, TopIs
<1>2. passes' = [passes EXCEPT ![Depth] = [Top EXCEPT !.index = Top.index + 1, !.calling = FALSE]]
  BY <1>1, TopIs DEF Return, DispatchInv, TypeOK, Pass, Top
<1>3. Top.index <= Len(mObservers[Top.event])
  <2>1. FirstDue(q) \in 1 .. Len(mObservers[Top.event]) + 1
    BY <1>1, TopIs, ListTypes DEF Top
  <2>2. Len(mObservers[Top.event]) \in Nat
    BY <1>1, TopIs, ListTypes
  <2> QED
    BY <2>1, <2>2, <1>1, TopIs
<1>4. /\ DispatchInv'
      /\ Running(Watched)' = Running(Watched)
      /\ FirstDue(Depth)' = Top.index + 1
      /\ \A p \in 1 .. Depth : p # Depth => FirstDue(p)' = FirstDue(p)
  <2>1. PICK i \in Nat \ {0} : i = Top.index + 1
    BY <1>1, TopIs
  <2>2. i - 1 <= Len(mObservers[Top.event])
    BY <2>1, <1>1, <1>3, TopIs
  <2>3. passes' = [passes EXCEPT ![Depth] = [Top EXCEPT !.index = i, !.calling = FALSE]]
    BY <2>1, <1>2
  <2> QED
    BY <2>1, <2>2, <2>3, <1>1, <1>3, TopChanged
<1>5. Depth' = q
  BY <1>2 DEF Depth, DispatchInv, TypeOK
<1>6. \A p \in Running(Watched) : FirstDue(p)' = FirstDue(p)
  BY <1>1, <1>4, <1>5, TopIs DEF Running
<1> QED
  BY <1>1, <1>4, <1>6, Unseen

LEMMA SkipStep ==
    ASSUME DispatchInv, Skip
    PROVE  DispatchInv' /\ RegistryStep
<1>1. /\ Depth > 0 /\ ~Top.calling /\ Top.index <= Len(mObservers[Top.event])
      /\ mObservers[Top.event][Top.index] = Null
      /\ UNCHANGED <<mObservers, mEventObserverMap>>
  BY DEF Skip, AtSlot
<1> PICK q \in 1 .. MaxDepth : q = Depth
  BY <1>1, TopIs
<1>2. passes' = [passes EXCEPT ![Depth] = [Top EXCEPT !.index = Top.index + 1, !.calling = FALSE]]
  BY <1>1, TopIs DEF Skip, DispatchInv, TypeOK, Pass, Top
<1>3. /\ DispatchInv'
      /\ Running(Watched)' = Running(Watched)
      /\ FirstDue(Depth)' = Top.index + 1
      /\ \A p \in 1 .. Depth : p # Depth => FirstDue(p)' = FirstDue(p)
  <2>1. PICK i \in Nat \ {0} : i = Top.index + 1
    BY <1>1, TopIs
  <2>2. i - 1 <= Len(mObservers[Top.event])
    BY <2>1, <1>1, TopIs
  <2>3. passes' = [passes EXCEPT ![Depth] = [Top EXCEPT !.index = i, !.calling = FALSE]]
    BY <2>1, <1>2
  <2> QED
    BY <2>1, <2>2, <2>3, <1>1, TopChanged
<1>4. Depth' = q
  BY <1>2 DEF Depth, DispatchInv, TypeOK
<1>5. FirstDue(q)' = Top.index + 1 /\ FirstDue(q) = Top.index
  BY <1>1, <1>3, <1>4, TopIs
<1>6. ASSUME NEW p \in Running(Watched)
      PROVE  Rest(mObservers[Watched], FirstDue(p)') = Rest(mObservers[Watched], FirstDue(p))
  <2>1. CASE p # q
    BY <2>1, <1>3 DEF Running
  <2>2. CASE p = q
    <3>1. Top.event = Watched
      BY <2>2, <1>1, TopIs
    <3>2. mObservers[Watched] \in Seq(Places) /\ Distinct(mObservers[Watched])
      BY ListTypes, DispatcherAssumption
    <3>3. Top.index \in DOMAIN mObservers[Watched]
      BY <1>1, <3>1, <3>2, TopIs
    <3> QED
      BY <2>2, <3>1, <3>2, <3>3, <1>1, <1>5, SlotPassed
  <2> QED
    BY <2>1, <2>2
<1> QED
  BY <1>1, <1>3, <1>6, Unseen

LEMMA CompactStep ==
    ASSUME DispatchInv, Compact
    PROVE  DispatchInv' /\ RegistryStep
<1> DEFINE e == Top.event
           s == mObservers[e]
           t == Moved(s, Top.index)
<1>1. /\ Depth > 0 /\ ~Top.calling /\ Top.index <= Len(s)
      /\ s[Top.index] = Null /\ Outermost
      /\ mObservers' = [mObservers EXCEPT ![e] = t]
      /\ UNCHANGED <<mEventObserverMap, passes>>
  BY DEF Compact, AtSlot
<1>2. /\ e \in Events /\ s \in Seq(Places) /\ Distinct(s) /\ Len(s) \in Nat
      /\ mObservers \in [Events -> Seq(Places)]
  BY <1>1, TopIs, ListTypes DEF DispatchInv, TypeOK, Places
<1>3. Top.index \in DOMAIN s /\ Top.index \in Nat \ {0}
  BY <1>1, <1>2, TopIs
<1>4. /\ t \in Seq(Places) /\ Len(t) = Len(s) - 1 /\ Distinct(t)
      /\ Held(t) = Held(s) /\ Rest(t, Top.index) = Rest(s, Top.index)
  BY <1>1, <1>2, <1>3, SlotsMoved
<1>5. \A f \in Events : mObservers'[f] = IF f = e THEN t ELSE mObservers[f]
  BY <1>1, <1>2
<1>6. mObservers' \in [Events -> Seq(Places)]
  BY <1>1, <1>2, <1>4
<1> HIDE DEF t
<1>7. ListsDistinct'
  BY <1>4, <1>5, ListTypes DEF ListsDistinct
<1>8. \A f \in Events : Registered(f)' = Registered(f)
  BY <1>4, <1>5, Meaning
<1>9. /\ Depth' = Depth
      /\ \A p : FirstDue(p)' = FirstDue(p)
      /\ \A f : Running(f)' = Running(f)
  BY <1>1 DEF Depth, FirstDue, Running
<1>10. ASSUME NEW p \in 1 .. Depth, passes[p].event = e
       PROVE  p = Depth /\ FirstDue(p) = Top.index
  <2>1. p = Depth
    <3>1. Depth \in Nat
      BY <1>1, TopIs
    <3>2. p \notin 1 .. Depth - 1
      BY <1>1, <1>10 DEF Outermost
    <3> QED
      BY <3>1, <3>2
  <2> QED
    BY <2>1, <1>1, TopIs
<1>11. PassesNested'
  <2>1. ASSUME NEW p \in 1 .. Depth
        PROVE  FirstDue(p) <= Len(mObservers'[passes[p].event]) + 1
    <3>1. CASE passes[p].event = e
      BY <3>1, <1>1, <1>2, <1>3, <1>4, <1>5, <1>10
    <3>2. CASE passes[p].event # e
      BY <3>2, <1>5, ListTypes
    <3> QED
      BY <3>1, <3>2
  <2> QED
    BY <2>1, <1>1, <1>9 DEF DispatchInv, PassesNested
<1>12. HandlersOwned' /\ OwnedByOneKey' /\ mEventObserverMap' \in [Keys -> SUBSET (Events \X Handlers)]
  <2>1. Owned' = Owned
    BY <1>1 DEF Owned
  <2>2. HandlersOwned'
    BY <2>1, <1>8 DEF DispatchInv, HandlersOwned
  <2>3. OwnedByOneKey' /\ mEventObserverMap' \in [Keys -> SUBSET (Events \X Handlers)]
    BY <1>1 DEF DispatchInv, OwnedByOneKey, TypeOK
  <2> QED
    BY <2>2, <2>3
<1>13. DispatchInv'
  BY <1>1, <1>6, <1>7, <1>11, <1>12, OwnersKept DEF ListsKept
<1>14. RegistryStep
  <2>1. Registered(Watched)' = Registered(Watched)
    BY <1>8, DispatcherAssumption
  <2>2. ASSUME NEW p \in 1 .. MaxDepth
        PROVE  Due(Watched, p)' = Due(Watched, p)
    <3>1. CASE p \in Running(Watched) /\ e = Watched
      <4>1. FirstDue(p) = Top.index
        BY <3>1, <1>10 DEF Running
      <4> QED
        BY <4>1, <3>1, <1>4, <1>5, <1>9, Meaning, DispatcherAssumption
    <3>2. CASE p \notin Running(Watched)
      BY <3>2, <1>9, Meaning
    <3>3. CASE e # Watched
      <4>1. mObservers'[Watched] = mObservers[Watched]
        BY <3>3, <1>5, DispatcherAssumption
      <4> QED
        BY <4>1, <1>9, Meaning
    <3> QED
      BY <3>1, <3>2, <3>3
  <2> QED
    BY <2>1, <2>2, <1>9 DEF RegistryStep, Registry!vars
<1> QED
  BY <1>13, <1>14

LEMMA FinishStep ==
    ASSUME DispatchInv, Finish
    PROVE  DispatchInv' /\ RegistryStep
<1>1. /\ Depth > 0 /\ ~Top.calling /\ Top.index > Len(mObservers[Top.event])
      /\ passes' = SubSeq(passes, 1, Depth - 1)
      /\ UNCHANGED <<mObservers, mEventObserverMap>>
  BY DEF Finish
<1> PICK q \in 1 .. MaxDepth : q = Depth
  BY <1>1, TopIs
<1>2. passes \in Seq(Pass) /\ Depth = Len(passes) /\ q \in Nat /\ q - 1 \in Nat
  BY <1>1 DEF DispatchInv, TypeOK, Depth
<1>3. /\ passes' \in Seq(Pass) /\ Depth' = q - 1
      /\ \A p \in 1 .. q - 1 : passes'[p] = passes[p]
  <2>1. /\ SubSeq(passes, 1, q - 1) \in Seq(Pass) /\ Len(SubSeq(passes, 1, q - 1)) = q - 1
        /\ \A p \in 1 .. q - 1 : SubSeq(passes, 1, q - 1)[p] = passes[p]
    BY <1>2
  <2> QED
    BY <2>1, <1>1 DEF Depth
<1>4. \A p \in 1 .. q - 1 : p \in 1 .. Depth /\ p # q
  BY <1>2
<1>5. \A p \in 1 .. q - 1 : FirstDue(p)' = FirstDue(p)
  BY <1>3 DEF FirstDue
<1>6. PassesNested'
  <2>1. Depth' <= MaxDepth
    BY <1>3, <1>2, DispatcherAssumption
  <2>2. \A p \in 1 .. Depth' - 1 : passes'[p].calling
    <3>1. \A p \in 1 .. (q - 1) - 1 : p \in 1 .. Depth - 1 /\ p \in 1 .. q - 1
      BY <1>2
    <3> QED
      BY <3>1, <1>3 DEF DispatchInv, PassesNested
  <2>3. \A p \in 1 .. Depth' : FirstDue(p)' <= Len(mObservers'[passes'[p].event]) + 1
    BY <1>1, <1>3, <1>4, <1>5 DEF DispatchInv, PassesNested
  <2> QED
    BY <2>1, <2>2, <2>3 DEF PassesNested
<1>7. DispatchInv'
  BY <1>1, <1>3, <1>6, PassesOnly
<1>8. Running(Watched)' = Running(Watched) \ {q}
  <2>1. 1 .. Depth = (1 .. q - 1) \cup {q} /\ q \notin 1 .. q - 1
    BY <1>2
  <2> QED
    BY <2>1, <1>3 DEF Running
<1>9. RegistryStep
  <2>1. CASE Top.event # Watched
    <3>1. q \notin Running(Watched)
      BY <2>1, <1>1, TopIs
    <3>2. \A p \in Running(Watched) : p \in 1 .. q - 1
      BY <3>1, <1>2 DEF Running
    <3> QED
      BY <3>1, <3>2, <1>1, <1>5, <1>8, Unseen
  <2>2. CASE Top.event = Watched
    <3>1. q \in Running(Watched)
      BY <2>2, <1>1, TopIs
    <3>2. mObservers[Watched] \in Seq(Places)
      BY ListTypes, DispatcherAssumption
    <3>3. FirstDue(q) = Top.index /\ Top.index \in Nat
      BY <1>1, TopIs
    <3>4. Due(Watched, q) = {}
      BY <3>1, <3>2, <3>3, <2>2, <1>1, Meaning, SlotsAtEnds
    <3>5. ASSUME NEW p \in 1 .. MaxDepth
          PROVE  Due(Watched, p)' = Due(Watched, p)
      <4>1. CASE p = q
        BY <4>1, <3>4, <1>8, Meaning
      <4>2. CASE p # q
        <5>1. p \in Running(Watched) => p \in 1 .. q - 1
          BY <4>2, <1>2 DEF Running
        <5> QED
          BY <5>1, <4>2, <1>1, <1>5, <1>8, Meaning
      <4> QED
        BY <4>1, <4>2
    <3>6. Registered(Watched)' = Registered(Watched)
      BY <1>1, Meaning
    <3>7. Registry!End(q)
      BY <3>1, <3>4, <3>5, <3>6, <1>8 DEF Registry!End
    <3> QED
      BY <3>7 DEF RegistryStep, Registry!Next
  <2> QED
    BY <2>1, <2>2
<1> QED
  BY <1>7, <1>9

LEMMA StutterStep == DispatchInv /\ UNCHANGED vars => DispatchInv' /\ RegistryStep
<1> SUFFICES ASSUME DispatchInv, UNCHANGED vars PROVE DispatchInv' /\ RegistryStep
  OBVIOUS
<1>1. UNCHANGED <<mObservers, mEventObserverMap>> /\ UNCHANGED passes
  BY DEF vars
<1>2. PassesNested'
  BY <1>1 DEF DispatchInv, PassesNested, Depth, FirstDue
<1>3. DispatchInv'
  BY <1>1, <1>2, PassesOnly DEF DispatchInv, TypeOK
<1>4. RegistryStep
  BY <1>1, Unseen DEF Running, Depth, FirstDue
<1> QED
  BY <1>3, <1>4

LEMMA NextStep == DispatchInv /\ [Next]_vars => DispatchInv' /\ RegistryStep
BY AddObserverStep, RemoveObserverStep, AddEventObserverStep, SendEventStep,
   RemoveEverywhereStep, RemoveEventObserversStep, CallStep, ReturnStep, SkipStep,
   CompactStep, FinishStep, StutterStep
   DEF Next

LEMMA Invariance == Spec => []DispatchInv
<1>1. DispatchInv /\ [Next]_vars => DispatchInv'
  BY NextStep
<1> QED
  BY DispatchInitially, <1>1, PTL DEF Spec

-----------------------------------------------------------------------------
(* What the lists promise *)

LEMMA OwnedOnce == DispatchInv => HandlersListedOnce
<1> SUFFICES ASSUME DispatchInv PROVE HandlersListedOnce
  OBVIOUS
<1>1. ASSUME NEW e \in Events, NEW o \in Handlers, <<e, o>> \in Owned
      PROVE  \E k \in Slots(e) : Occupies(e, o) = {k}
  <2>1. o \in Registered(e)
    BY <1>1 DEF DispatchInv, HandlersOwned
  <2>2. PICK k \in Slots(e) : mObservers[e][k] = o
    BY <2>1 DEF Registered
  <2>3. o # Null
    BY DispatcherAssumption DEF Observers
  <2>4. \A j \in Slots(e) : mObservers[e][j] = o => j = k
    BY <2>2, <2>3 DEF DispatchInv, ListsDistinct, Distinct, Slots
  <2> QED
    BY <2>2, <2>4 DEF Occupies
<1>2. ASSUME NEW e \in Events, NEW o \in Handlers, <<e, o>> \notin Owned
      PROVE  Occupies(e, o) = {}
  <2>1. o \notin Registered(e) /\ o # Null
    BY <1>2, DispatcherAssumption DEF DispatchInv, HandlersOwned, Observers
  <2> QED
    BY <2>1 DEF Occupies, Registered
<1> QED
  BY <1>1, <1>2 DEF HandlersListedOnce, DispatchInv

\* The types, for any number of events, observers, keys and nested passes.
THEOREM DispatcherTypeCorrect == Spec => []TypeOK
<1>1. DispatchInv => TypeOK
  BY DEF DispatchInv
<1> QED
  BY <1>1, Invariance, PTL

\* AbstractScene's map of owners and the lists of the dispatcher agree: a handler
\* that is alive has one slot, and one that was destroyed with its key has none,
\* however its removal, the compaction and the passes are interleaved.
THEOREM NoDanglingHandler == Spec => []HandlersListedOnce
BY OwnedOnce, Invariance, PTL

\* forEach() keeps the promise of an observer list, as ObserverRegistry states it.
THEOREM RegistryImplemented == Spec => ImplementsRegistry
<1>1. Init => Registry!Init
  <2> SUFFICES ASSUME Init PROVE Registry!Init
    OBVIOUS
  <2>1. Depth = 0 /\ \A e \in Events : mObservers[e] = <<>>
    BY DEF Init, Depth
  <2>2. Registered(Watched) = {}
    BY <2>1, DispatcherAssumption DEF Registered, Slots
  <2>3. Running(Watched) = {}
    BY <2>1 DEF Running
  <2> QED
    BY <2>2, <2>3 DEF Registry!Init, Due
<1>2. DispatchInv /\ [Next]_vars => [Registry!Next]_Registry!vars
  BY NextStep DEF RegistryStep
<1> QED
  BY <1>1, <1>2, Invariance, PTL DEF Spec, ImplementsRegistry, Registry!Spec

-----------------------------------------------------------------------------
(* Cameras *)

\* A matrix whose flag is clear is up to date, and so is the visible area,
\* which has no flag of its own, if the projection matrix is.
CachesFresh ==
    /\ \A m \in Matrices \ mFlags : matrix[m] = Exact(m)
    /\ orthogonal /\ "projection" \notin mFlags => mVisibleArea = Area(resolution, lens)

CameraInv == CameraTypeOK /\ CachesFresh /\ NeverStale

LEMMA ExactKnown == \A m \in Matrices : Exact(m) # Unknown
BY DEF Matrices, Exact, Unknown, Projection, View, InverseOf

LEMMA CameraInitially == CameraInit => CameraInv
<1> SUFFICES ASSUME CameraInit PROVE CameraInv
  OBVIOUS
<1>1. Matrices \ mFlags = {} /\ "projection" \in mFlags
  BY DEF CameraInit, Matrices
<1>2. resolution \in Sizes \cup Lenses \cup {NoSize}
  <2>1. CASE orthogonal
    BY <2>1 DEF CameraInit
  <2>2. CASE ~orthogonal
    BY <2>2 DEF CameraInit
  <2> QED
    BY <2>1, <2>2
<1>3. /\ orthogonal \in BOOLEAN /\ shown \in BOOLEAN
      /\ screen \in Sizes /\ mSize \in Sizes \cup Lenses \cup {NoSize}
      /\ lens \in Lenses /\ pose \in Poses /\ added \in BOOLEAN
      /\ mFlags \subseteq Matrices /\ DOMAIN matrix = Matrices
  BY DEF CameraInit
<1>4. CameraTypeOK
  BY <1>1, <1>2, <1>3 DEF CameraTypeOK
<1>5. CachesFresh
  BY <1>1 DEF CachesFresh
<1>6. NeverStale
  BY DEF CameraInit, NeverStale
<1> QED
  BY <1>4, <1>5, <1>6 DEF CameraInv

\* A change of the projection's parameters needs both of its flags.
LEMMA ProjectionChanges ==
    ASSUME CameraInv, ProjectionDirty, UNCHANGED <<orthogonal, pose, matrix, mVisibleArea>>
    PROVE  /\ CachesFresh' /\ mFlags' \subseteq Matrices
           /\ \A m \in Matrices \ mFlags' : matrix'[m] # Unknown
<1>1. mFlags' = mFlags \cup {"projection", "inverseProjection"}
  BY DEF ProjectionDirty
<1>2. ASSUME NEW m \in Matrices \ mFlags'
      PROVE  matrix'[m] = Exact(m)' /\ m \in Matrices \ mFlags
  BY <1>1 DEF CameraInv, CachesFresh, Exact, Matrices
<1> QED
  BY <1>1, <1>2 DEF CameraInv, CameraTypeOK, CachesFresh, Matrices

LEMMA ViewChanges ==
    ASSUME CameraInv, ViewDirty, UNCHANGED <<orthogonal, resolution, lens, matrix, mVisibleArea>>
    PROVE  /\ CachesFresh' /\ mFlags' \subseteq Matrices
           /\ \A m \in Matrices \ mFlags' : matrix'[m] # Unknown
<1>1. mFlags' = mFlags \cup {"view", "inverseView"}
  BY DEF ViewDirty
<1>2. ASSUME NEW m \in Matrices \ mFlags'
      PROVE  matrix'[m] = Exact(m)' /\ m \in Matrices \ mFlags
  BY <1>1 DEF CameraInv, CachesFresh, Exact, Matrices
<1> QED
  BY <1>1, <1>2 DEF CameraInv, CameraTypeOK, CachesFresh, Matrices

\* After a refresh what was asked for is exact, and nothing else is lost.
LEMMA Refreshed ==
    ASSUME CameraInv, NEW asked \in SUBSET Matrices, Refresh(asked),
           UNCHANGED <<orthogonal, size, state>>
    PROVE  /\ CachesFresh' /\ CameraTypeOK'
           /\ \A m \in asked : matrix'[m] = Exact(m)
           /\ orthogonal /\ "projection" \in asked => mVisibleArea' = Area(resolution, lens)
<1> DEFINE needed == Needed(asked)
           projection == IF "projection" \in needed THEN Projection(resolution, lens)
                         ELSE matrix["projection"]
           view == IF "view" \in needed THEN View(pose) ELSE matrix["view"]
           fresh == [projection |-> projection, inverseProjection |-> InverseOf(projection),
                     view |-> view, inverseView |-> InverseOf(view)]
<1>1. /\ matrix' = [m \in Matrices |-> IF m \in needed THEN fresh[m] ELSE matrix[m]]
      /\ mVisibleArea' = IF "projection" \in needed /\ orthogonal
                         THEN Area(resolution, lens) ELSE mVisibleArea
      /\ mFlags' = mFlags \ needed
  BY DEF Refresh, Clean
<1>2. /\ needed \subseteq mFlags /\ asked \cap mFlags \subseteq needed
      /\ "inverseProjection" \in needed /\ "projection" \in mFlags => "projection" \in needed
      /\ "inverseView" \in needed /\ "view" \in mFlags => "view" \in needed
  BY DEF Needed
<1>3. "inverseProjection" \in needed \/ "projection" \in needed
        => projection = Projection(resolution, lens)
  BY <1>2 DEF CameraInv, CachesFresh, Exact, Matrices
<1>4. "inverseView" \in needed \/ "view" \in needed => view = View(pose)
  BY <1>2 DEF CameraInv, CachesFresh, Exact, Matrices
<1> HIDE DEF needed, projection, view
<1>5. \A m \in needed \cap Matrices : fresh[m] = Exact(m)
  BY <1>3, <1>4 DEF Exact, Matrices
<1> HIDE DEF fresh
<1>6. \A m \in Matrices \ mFlags' : matrix'[m] = Exact(m)
  BY <1>1, <1>5 DEF CameraInv, CachesFresh
<1>7. \A m \in Matrices : Exact(m)' = Exact(m)
  BY DEF state, Exact
<1>8. orthogonal /\ "projection" \notin mFlags' => mVisibleArea' = Area(resolution, lens)
  BY <1>1 DEF CameraInv, CachesFresh
<1>9. CachesFresh'
  BY <1>6, <1>7, <1>8 DEF CachesFresh, state
<1>10. CameraTypeOK'
  BY <1>1, <1>6, ExactKnown DEF CameraInv, CameraTypeOK, size, state
<1>11. \A m \in asked : m \in Matrices \ mFlags'
  BY <1>1, <1>2
<1> QED
  BY <1>6, <1>8, <1>9, <1>10, <1>11

LEMMA HandInvariant ==
    ASSUME CameraInv, NEW asked \in SUBSET Matrices, Hand(asked)
    PROVE  CameraInv'
<1>1. CachesFresh' /\ CameraTypeOK' /\ \A m \in asked : matrix'[m] = Exact(m)
  BY Refreshed DEF Hand
<1>2. handed' = [given |-> [m \in asked |-> matrix'[m]], exact |-> [m \in asked |-> Exact(m)]]
  BY DEF Hand
<1>3. [m \in asked |-> matrix'[m]] = [m \in asked |-> Exact(m)]
  BY <1>1
<1> QED
  BY <1>1, <1>2, <1>3 DEF CameraInv, NeverStale

LEMMA CameraStep == CameraInv /\ [CameraNext]_cameraVars => CameraInv'
<1> SUFFICES ASSUME CameraInv, [CameraNext]_cameraVars PROVE CameraInv'
  OBVIOUS
<1>1. ASSUME NEW l \in Lenses, SetLens(l) PROVE CameraInv'
  BY <1>1, ProjectionChanges DEF SetLens, CameraInv, CameraTypeOK, NeverStale, size
<1>2. ASSUME NEW p \in Poses, SetPose(p) PROVE CameraInv'
  BY <1>2, ViewChanges DEF SetPose, CameraInv, CameraTypeOK, NeverStale, size
<1>3. CASE AddComponent
  BY <1>3, ProjectionChanges DEF AddComponent, SetSize, CameraInv, CameraTypeOK, NeverStale
<1>4. CASE Show
  BY <1>4, ProjectionChanges DEF Show, SetSize, CameraInv, CameraTypeOK, NeverStale
<1>5. CASE Hide
  BY <1>5 DEF Hide, CameraInv, CameraTypeOK, CachesFresh, NeverStale, Exact, state, cache
<1>6. ASSUME NEW s \in Sizes, Resize(s) PROVE CameraInv'
  <2>1. CASE shown
    BY <1>6, <2>1, ProjectionChanges DEF Resize, SetSize, CameraInv, CameraTypeOK, NeverStale
  <2>2. CASE ~shown
    BY <1>6, <2>2
    DEF Resize, CameraInv, CameraTypeOK, CachesFresh, NeverStale, Exact, state, cache
  <2> QED
    BY <2>1, <2>2
<1>7. CASE Draw
  BY <1>7, HandInvariant DEF Draw, Matrices
<1>8. CASE Touch
  BY <1>8, HandInvariant DEF Touch, Matrices
<1>9. ASSUME NEW m \in Matrices, Ask(m) PROVE CameraInv'
  BY <1>9, HandInvariant DEF Ask
<1>10. CASE VisibleArea
  <2>1. CachesFresh' /\ CameraTypeOK' /\ mVisibleArea' = Area(resolution, lens)
    BY <1>10, Refreshed DEF VisibleArea, Matrices
  <2>2. [m \in {"area"} |-> mVisibleArea'] = [m \in {"area"} |-> Area(resolution, lens)]
    BY <2>1
  <2> QED
    BY <1>10, <2>1, <2>2 DEF VisibleArea, CameraInv, NeverStale
<1>11. CASE UNCHANGED cameraVars
  BY <1>11
  DEF cameraVars, CameraInv, CameraTypeOK, CachesFresh, NeverStale, Exact, size, state, cache
<1> QED
  BY <1>1, <1>2, <1>3, <1>4, <1>5, <1>6, <1>7, <1>8, <1>9, <1>10, <1>11 DEF CameraNext

\* The flags and parameters keep their types, and what was never calculated is
\* flagged.
THEOREM CameraTypeCorrect == CameraSpec => []CameraTypeOK
BY CameraInitially, CameraStep, PTL DEF CameraSpec, CameraInv

\* Nothing that is handed out is stale.
THEOREM NothingStale == CameraSpec => []NeverStale
BY CameraInitially, CameraStep, PTL DEF CameraSpec, CameraInv

\* A perspective camera leaves the scene the size it was told, so that repeating
\* that size does no harm.
ToldSize == shown /\ ~orthogonal => mSize = screen
FitInv == FitsScreen /\ ToldSize

\* The scene that is shown is projected for the screen.
THEOREM ShownFits == CameraSpec => []FitsScreen
<1>1. CameraInit => FitInv
  BY DEF CameraInit, FitInv, FitsScreen, ToldSize
<1>2. FitInv /\ [CameraNext]_cameraVars => FitInv'
  <2> SUFFICES ASSUME FitInv, [CameraNext]_cameraVars PROVE FitInv'
    OBVIOUS
  <2> USE DEF FitInv, FitsScreen, ToldSize
  <2>1. ASSUME NEW l \in Lenses, SetLens(l) PROVE FitInv'
    BY <2>1 DEF SetLens, size
  <2>2. ASSUME NEW p \in Poses, SetPose(p) PROVE FitInv'
    BY <2>2 DEF SetPose, size
  <2>3. CASE AddComponent
    BY <2>3 DEF AddComponent, SetSize
  <2>4. CASE Show
    BY <2>4 DEF Show, SetSize
  <2>5. CASE Hide
    BY <2>5 DEF Hide
  <2>6. ASSUME NEW s \in Sizes, Resize(s) PROVE FitInv'
    BY <2>6 DEF Resize, SetSize, state
  <2>7. ASSUME UNCHANGED <<orthogonal, size, state>> PROVE FitInv'
    BY <2>7 DEF size, state
  <2>8. CASE Draw \/ Touch \/ VisibleArea \/ \E m \in Matrices : Ask(m)
    BY <2>7, <2>8 DEF Draw, Touch, VisibleArea, Ask, Hand
  <2>9. CASE UNCHANGED cameraVars
    BY <2>7, <2>9 DEF cameraVars
  <2> QED
    BY <2>1, <2>2, <2>3, <2>4, <2>5, <2>6, <2>8, <2>9 DEF CameraNext
<1> QED
  BY <1>1, <1>2, PTL DEF CameraSpec, FitInv

-----------------------------------------------------------------------------
(* Transformations *)

\* Compositions and inverses are transformations, points go to points.
LEMMA Closed ==
    ASSUME NEW T \in Transform, NEW S \in Transform, NEW v \in Vector
    PROVE  /\ Compose(T, S) \in Transform
           /\ Inverted(T) \in Transform
           /\ Apply(T, v) \in Vector
           /\ Determinant(T) \in Int
<1>1. /\ T.a \in Int /\ T.b \in Int /\ T.c \in Int
      /\ T.d \in Int /\ T.tx \in Int /\ T.ty \in Int
      /\ S.a \in Int /\ S.b \in Int /\ S.c \in Int
      /\ S.d \in Int /\ S.tx \in Int /\ S.ty \in Int
      /\ v[1] \in Int /\ v[2] \in Int
  BY DEF Transform, Vector
<1>2. Determinant(T) \in Int
  BY <1>1 DEF Determinant
<1> QED
  BY <1>1, <1>2 DEF Transform, Vector, Compose, Inverted, Apply

\* Multiplication distributes over the sums that Apply and Compose are made of.
LEMMA Distribute ==
    ASSUME NEW p \in Int, NEW q \in Int, NEW r \in Int, NEW x \in Int, NEW y \in Int
    PROVE  /\ p * (q * x + r * y) = (p * q) * x + (p * r) * y
           /\ (q * x + r * y) * p = (q * p) * x + (r * p) * y
OBVIOUS

\* A point goes through a composition as through t2, then through t1: what is
\* drawn with the product of two matrices is where both put it one by one.
THEOREM ComposeApplies ==
    ASSUME NEW t1 \in Transform, NEW t2 \in Transform, NEW v \in Vector
    PROVE  Apply(Compose(t1, t2), v) = Apply(t1, Apply(t2, v))
<1> DEFINE x == v[1]
           y == v[2]
<1>1. /\ t1.a \in Int /\ t1.b \in Int /\ t1.c \in Int
      /\ t1.d \in Int /\ t1.tx \in Int /\ t1.ty \in Int
      /\ t2.a \in Int /\ t2.b \in Int /\ t2.c \in Int
      /\ t2.d \in Int /\ t2.tx \in Int /\ t2.ty \in Int
      /\ x \in Int /\ y \in Int
  BY DEF Transform, Vector
<1>2. ASSUME NEW p \in Int, NEW q \in Int, NEW a \in Int, NEW b \in Int, NEW c \in Int,
             NEW d \in Int, NEW tx \in Int, NEW ty \in Int, NEW s \in Int,
             NEW u \in Int, NEW w \in Int
      PROVE  (a * p + b * q) * u + (c * p + d * q) * w + (tx * p + ty * q + s)
                = p * (a * u + c * w + tx) + q * (b * u + d * w + ty) + s
  OBVIOUS
<1> HIDE DEF x, y
<1>3. (t2.a * t1.a + t2.b * t1.c) * x + (t2.c * t1.a + t2.d * t1.c) * y
            + (t2.tx * t1.a + t2.ty * t1.c + t1.tx)
        = t1.a * (t2.a * x + t2.c * y + t2.tx) + t1.c * (t2.b * x + t2.d * y + t2.ty) + t1.tx
  BY <1>1, <1>2
<1>4. (t2.a * t1.b + t2.b * t1.d) * x + (t2.c * t1.b + t2.d * t1.d) * y
            + (t2.tx * t1.b + t2.ty * t1.d + t1.ty)
        = t1.b * (t2.a * x + t2.c * y + t2.tx) + t1.d * (t2.b * x + t2.d * y + t2.ty) + t1.ty
  BY <1>1, <1>2
<1> QED
  BY <1>3, <1>4 DEF Apply, Compose, x, y

\* translate() and scale() are what their comments say: the composition with a
\* translation or a scale.
THEOREM IncrementsCompose ==
    ASSUME NEW T \in Transform, NEW t \in Vector
    PROVE  /\ Translate(T, t) = Compose(T, SetTranslation(t))
           /\ Scale(T, t) = Compose(T, SetScale(t))
<1>1. /\ T.a \in Int /\ T.b \in Int /\ T.c \in Int
      /\ T.d \in Int /\ T.tx \in Int /\ T.ty \in Int
      /\ t[1] \in Int /\ t[2] \in Int
      /\ T = [a |-> T.a, b |-> T.b, c |-> T.c, d |-> T.d, tx |-> T.tx, ty |-> T.ty]
  BY DEF Transform, Vector
<1>2. ASSUME NEW p \in Int, NEW q \in Int
      PROVE  /\ 1 * p + 0 * q = p /\ 0 * p + 1 * q = q /\ p * q = q * p
             /\ q * p + 0 * q = p * q /\ 0 * p + 0 * q = 0
  OBVIOUS
<1>3. Compose(T, SetTranslation(t)) = Translate(T, t)
  BY <1>1, <1>2 DEF Compose, SetTranslation, Translate
<1>4. Compose(T, SetScale(t)) = Scale(T, t)
  BY <1>1, <1>2 DEF Compose, SetScale, Scale
<1> QED
  BY <1>3, <1>4

\* The inverse takes a point back to where it came from, and is therefore what a
\* touch must go through to reach a child that was drawn through T.
THEOREM InverseUndoes ==
    ASSUME NEW T \in Transform, NEW v \in Vector, Unimodular(T)
    PROVE  /\ Apply(Inverted(T), Apply(T, v)) = v
           /\ Apply(T, Apply(Inverted(T), v)) = v
<1> DEFINE a == T.a
           b == T.b
           c == T.c
           d == T.d
           e == T.tx
           f == T.ty
           x == v[1]
           y == v[2]
           D == a * d - b * c
<1>1. /\ a \in Int /\ b \in Int /\ c \in Int /\ d \in Int /\ e \in Int /\ f \in Int
      /\ x \in Int /\ y \in Int /\ v = <<x, y>>
  BY DEF Transform, Vector
<1>2. D = 1 \/ D = -1
  BY DEF Unimodular, Determinant
<1>3. Inverted(T) = [a |-> d * D, b |-> -(b * D), c |-> -(c * D), d |-> a * D,
                    tx |-> D * (c * f - d * e), ty |-> D * (b * e - a * f)]
  BY DEF Inverted, Determinant
<1>4. Apply(T, v) = <<a * x + c * y + e, b * x + d * y + f>>
  BY DEF Apply
<1> HIDE DEF a, b, c, d, e, f, x, y
<1>5. Apply(Inverted(T), Apply(T, v)) = <<(D * D) * x, (D * D) * y>>
  <2>1. /\ (d * D) * (a * x + c * y + e) + (-(c * D)) * (b * x + d * y + f) + D * (c * f - d * e)
              = (D * (a * d - b * c)) * x
        /\ (-(b * D)) * (a * x + c * y + e) + (a * D) * (b * x + d * y + f) + D * (b * e - a * f)
              = (D * (a * d - b * c)) * y
    BY <1>1
  <2> QED
    BY <1>1, <1>3, <1>4, <2>1 DEF Apply
<1>6. Apply(T, Apply(Inverted(T), v))
          = <<(D * D) * x + (1 - D * D) * e, (D * D) * y + (1 - D * D) * f>>
  <2>1. /\ a * ((d * D) * x + (-(c * D)) * y + D * (c * f - d * e))
              + c * ((-(b * D)) * x + (a * D) * y + D * (b * e - a * f)) + e
              = (D * (a * d - b * c)) * x + (1 - D * (a * d - b * c)) * e
        /\ b * ((d * D) * x + (-(c * D)) * y + D * (c * f - d * e))
              + d * ((-(b * D)) * x + (a * D) * y + D * (b * e - a * f)) + f
              = (D * (a * d - b * c)) * y + (1 - D * (a * d - b * c)) * f
    BY <1>1
  <2>2. Apply(Inverted(T), v)
          = <<(d * D) * x + (-(c * D)) * y + D * (c * f - d * e),
              (-(b * D)) * x + (a * D) * y + D * (b * e - a * f)>>
    BY <1>3 DEF Apply, x, y
  <2> QED
    BY <1>1, <2>1, <2>2 DEF Apply, a, b, c, d, e, f
<1>7. D * D = 1 /\ D \in Int
  BY <1>1, <1>2
<1> HIDE DEF D
<1>8. 1 * x = x /\ 1 * y = y /\ 1 - 1 = 0 /\ 0 * e = 0 /\ 0 * f = 0 /\ x + 0 = x /\ y + 0 = y
  BY <1>1
<1> QED
  BY <1>1, <1>5, <1>6, <1>7, <1>8

\* A quarter turn with rotate() collapses the plane to a line, whatever it is
\* applied to: c and d are calculated from the a and b that have just been
\* replaced.
THEOREM RotateCollapses ==
    ASSUME NEW T \in Transform
    PROVE  Determinant(Rotate(T, 1)) = 0
<1>1. T.a \in Int /\ T.b \in Int /\ T.c \in Int /\ T.d \in Int
  BY DEF Transform
<1>2. cosf(1) = 0 /\ sinf(1) = 1
  BY DEF cosf, sinf
<1>3. /\ T.a * 0 + T.c * 1 = T.c /\ T.b * 0 + T.d * 1 = T.d
      /\ T.c * 0 - T.c * 1 = -T.c /\ T.d * 0 - T.d * 1 = -T.d
      /\ T.c * (-T.d) - T.d * (-T.c) = 0
  BY <1>1
<1> QED
  BY <1>2, <1>3 DEF Rotate, Determinant

-----------------------------------------------------------------------------
(* Scenes *)

\* The argument: children that need no layout have had it, an inverse that is
\* cached is that of its transform, and a touched child is in its place; a
\* touch lays out before it asks, and goes back through what the child is drawn
\* through.

ListSizes == {Zero, Virtual} \cup Screens

\* The sizes that the scene and its components have been told.
SizesTold ==
    /\ sceneSize \in ListSizes
    /\ current => sceneSize \in Screens \cup {Virtual}
    /\ current /\ Has("camera") => mPhysicalResolution \in Screens \cup {Virtual}
    /\ ownSize \in [Elements -> BOOLEAN]

\* Children that need no layout have had it.
LaidOut ==
    Has("children") =>
        /\ mListSize = sceneSize
        /\ ~absolute /\ ~mNeedsLayout =>
              \A e \in Range(mChildren) : elementSize[e] = sceneSize \/ ownSize[e]

InversesFresh ==
    /\ DOMAIN mInverseTransforms = Indices
    /\ \A i \in Indices : mInverseTransforms[i] \in {None, Inverted(mTransforms[i])}

TouchInPlace ==
    mTouchedChild # None =>
        /\ mTouchedChildIndex \in DOMAIN mChildren
        /\ mChildren[mTouchedChildIndex] = mTouchedChild

TreeInv == TreeTypeOK /\ SizesTold /\ LaidOut /\ InversesFresh /\ TouchInPlace

-----------------------------------------------------------------------------
(* Lists of children *)

\* There is an index of the layout for every child.
LEMMA IndexForEvery ==
    ASSUME NEW s \in Seq(Elements), IsInjective(s)
    PROVE  Len(s) \in Nat /\ DOMAIN s = 1 .. Len(s) /\ 1 .. Len(s) \subseteq Indices
<1>1. Len(s) \in Nat /\ DOMAIN s = 1 .. Len(s) /\ s \in [1 .. Len(s) -> Elements]
  OBVIOUS
<1>2. s \in Injection(1 .. Len(s), Elements)
  BY <1>1 DEF Injection
<1>3. Cardinality(1 .. Len(s)) <= Cardinality(Elements)
  BY <1>2, FS_Injection, SceneAssumption
<1>4. Cardinality(1 .. Len(s)) = Len(s)
  BY <1>1, FS_Interval
<1>5. Len(s) <= MaxIndex
  BY <1>1, <1>3, <1>4, SceneAssumption, FS_CardinalityType
<1> QED
  BY <1>1, <1>5, SceneAssumption DEF Indices

LEMMA Joined ==
    ASSUME NEW a \in Seq(Elements), NEW b \in Seq(Elements)
    PROVE  /\ a \o b \in Seq(Elements) /\ Len(a \o b) = Len(a) + Len(b)
           /\ DOMAIN (a \o b) = 1 .. Len(a) + Len(b)
           /\ \A k \in 1 .. Len(a) + Len(b) :
                  (a \o b)[k] = IF k <= Len(a) THEN a[k] ELSE b[k - Len(a)]
OBVIOUS

LEMMA Inserted ==
    ASSUME NEW s \in Seq(Elements), IsInjective(s), NEW e \in Elements, e \notin Range(s),
           NEW i \in 1 .. Len(s) + 1
    PROVE  InsertAt(s, i, e) \in Seq(Elements) /\ IsInjective(InsertAt(s, i, e))
<1> DEFINE t == InsertAt(s, i, e)
<1>1. /\ Len(s) \in Nat /\ DOMAIN s = 1 .. Len(s)
      /\ \A k \in 1 .. Len(s) : s[k] \in Elements /\ s[k] # e
  BY DEF Range
<1>2. /\ t \in Seq(Elements) /\ Len(t) = Len(s) + 1 /\ DOMAIN t = 1 .. Len(s) + 1
      /\ \A k \in 1 .. Len(s) + 1 :
             t[k] = IF k < i THEN s[k] ELSE IF k = i THEN e ELSE s[k - 1]
  <2> DEFINE a == SubSeq(s, 1, i - 1)
             b == SubSeq(s, i, Len(s))
  <2>1. /\ a \in Seq(Elements) /\ Len(a) = i - 1
        /\ \A k \in 1 .. i - 1 : a[k] = s[k]
    BY <1>1
  <2>2. /\ b \in Seq(Elements) /\ Len(b) = Len(s) + 1 - i
        /\ \A k \in 1 .. Len(s) + 1 - i : b[k] = s[i + k - 1]
    BY <1>1
  <2>3. t = a \o <<e>> \o b
    BY DEF InsertAt
  <2> HIDE DEF a, b
  <2> DEFINE c == a \o <<e>>
  <2>4. /\ c \in Seq(Elements) /\ Len(c) = i
        /\ \A k \in 1 .. i : c[k] = IF k < i THEN s[k] ELSE e
    BY <2>1, <1>1
  <2> HIDE DEF c
  <2>5. t = c \o b
    BY <2>3 DEF c
  <2>6. /\ t \in Seq(Elements) /\ Len(t) = Len(s) + 1 /\ DOMAIN t = 1 .. Len(s) + 1
        /\ \A k \in 1 .. Len(s) + 1 : t[k] = IF k <= i THEN c[k] ELSE b[k - i]
    <3>1. i + (Len(s) + 1 - i) = Len(s) + 1
      BY <1>1
    <3>2. /\ c \o b \in Seq(Elements) /\ Len(c \o b) = Len(c) + Len(b)
          /\ DOMAIN (c \o b) = 1 .. Len(c) + Len(b)
          /\ \A k \in 1 .. Len(c) + Len(b) :
                 (c \o b)[k] = IF k <= Len(c) THEN c[k] ELSE b[k - Len(c)]
      BY <2>2, <2>4, Joined
    <3> QED
      BY <3>1, <3>2, <2>2, <2>4, <2>5
  <2>7. ASSUME NEW k \in 1 .. Len(s) + 1
        PROVE  t[k] = IF k < i THEN s[k] ELSE IF k = i THEN e ELSE s[k - 1]
    <3>1. CASE k <= i
      <4>1. k \in 1 .. i /\ (k = i <=> ~(k < i))
        BY <3>1, <1>1
      <4> QED
        BY <3>1, <4>1, <2>4, <2>6
    <3>2. CASE k > i
      <4>1. k - i \in 1 .. Len(s) + 1 - i /\ i + (k - i) - 1 = k - 1
        BY <3>2, <1>1
      <4>2. t[k] = b[k - i]
        BY <3>2, <2>6, <1>1
      <4> QED
        BY <3>2, <4>1, <4>2, <2>2, <1>1
    <3> QED
      BY <3>1, <3>2, <1>1
  <2> QED
    BY <2>6, <2>7
<1> HIDE DEF t
<1>3. ASSUME NEW k \in 1 .. Len(s) + 1, NEW l \in 1 .. Len(s) + 1, t[k] = t[l] PROVE k = l
  <2>1. \A m, n \in 1 .. Len(s) : s[m] = s[n] => m = n
    BY <1>1 DEF IsInjective
  <2>2. \A m \in 1 .. Len(s) + 1 : (m < i => m \in 1 .. Len(s)) /\ (m > i => m - 1 \in 1 .. Len(s))
    BY <1>1
  <2> QED
    BY <1>1, <1>2, <1>3, <2>1, <2>2
<1> QED
  BY <1>2, <1>3 DEF IsInjective, t

LEMMA Removed ==
    ASSUME NEW s \in Seq(Elements), IsInjective(s), NEW i \in DOMAIN s
    PROVE  RemoveAt(s, i) \in Seq(Elements) /\ IsInjective(RemoveAt(s, i))
<1> DEFINE t == RemoveAt(s, i)
<1>1. Len(s) \in Nat /\ DOMAIN s = 1 .. Len(s) /\ i \in 1 .. Len(s)
  OBVIOUS
<1>2. /\ t \in Seq(Elements) /\ Len(t) = Len(s) - 1 /\ DOMAIN t = 1 .. Len(s) - 1
      /\ \A k \in 1 .. Len(s) - 1 : t[k] = IF k < i THEN s[k] ELSE s[k + 1]
  <2> DEFINE a == SubSeq(s, 1, i - 1)
             b == SubSeq(s, i + 1, Len(s))
  <2>1. /\ a \in Seq(Elements) /\ Len(a) = i - 1
        /\ \A k \in 1 .. i - 1 : a[k] = s[k]
    BY <1>1
  <2>2. /\ b \in Seq(Elements) /\ Len(b) = Len(s) - i
        /\ \A k \in 1 .. Len(s) - i : b[k] = s[i + 1 + k - 1]
    BY <1>1
  <2>3. t = a \o b
    BY DEF RemoveAt
  <2> HIDE DEF a, b
  <2>4. /\ t \in Seq(Elements) /\ Len(t) = Len(s) - 1 /\ DOMAIN t = 1 .. Len(s) - 1
        /\ \A k \in 1 .. Len(s) - 1 : t[k] = IF k <= i - 1 THEN a[k] ELSE b[k - (i - 1)]
    <3>1. i - 1 + (Len(s) - i) = Len(s) - 1
      BY <1>1
    <3>2. /\ a \o b \in Seq(Elements) /\ Len(a \o b) = Len(a) + Len(b)
          /\ DOMAIN (a \o b) = 1 .. Len(a) + Len(b)
          /\ \A k \in 1 .. Len(a) + Len(b) :
                 (a \o b)[k] = IF k <= Len(a) THEN a[k] ELSE b[k - Len(a)]
      BY <2>1, <2>2, Joined
    <3> QED
      BY <3>1, <3>2, <2>1, <2>2, <2>3
  <2>5. ASSUME NEW k \in 1 .. Len(s) - 1 PROVE t[k] = IF k < i THEN s[k] ELSE s[k + 1]
    <3>1. CASE k < i
      <4>1. k \in 1 .. i - 1 /\ k <= i - 1
        BY <3>1, <1>1
      <4> QED
        BY <3>1, <4>1, <2>1, <2>4
    <3>2. CASE k >= i
      <4>1. k - (i - 1) \in 1 .. Len(s) - i /\ i + 1 + (k - (i - 1)) - 1 = k + 1
        BY <3>2, <1>1
      <4>2. t[k] = b[k - (i - 1)]
        BY <3>2, <2>4, <1>1
      <4> QED
        BY <3>2, <4>1, <4>2, <2>2, <1>1
    <3> QED
      BY <3>1, <3>2, <1>1
  <2> QED
    BY <2>4, <2>5
<1> HIDE DEF t
<1>3. ASSUME NEW k \in 1 .. Len(s) - 1, NEW l \in 1 .. Len(s) - 1, t[k] = t[l] PROVE k = l
  <2>1. \A m, n \in 1 .. Len(s) : s[m] = s[n] => m = n
    BY <1>1 DEF IsInjective
  <2>2. \A m \in 1 .. Len(s) - 1 : m \in 1 .. Len(s) /\ m + 1 \in 1 .. Len(s)
    BY <1>1
  <2> QED
    BY <1>1, <1>2, <1>3, <2>1, <2>2
<1> QED
  BY <1>2, <1>3 DEF IsInjective, t

-----------------------------------------------------------------------------
(* Geometry *)

\* The middle of an even range is exact.
LEMMA Middle ==
    ASSUME NEW v \in Int, NEW s \in Int, NEW n \in Int, v % 2 = 0, s % 2 = 0
    PROVE  /\ (v + n * s) \div 2 \in Int /\ (v - n * s) \div 2 \in Int
           /\ 2 * ((v + n * s) \div 2) - v = n * s
           /\ 2 * ((v - n * s) \div 2) - v = -n * s
<1>1. PICK a \in Int : v = 2 * a
  OBVIOUS
<1>2. PICK b \in Int : s = 2 * b
  OBVIOUS
<1>3. PICK c \in Int : c = n * b
  OBVIOUS
<1>4. n * s = 2 * c /\ -n * s = -(2 * c)
  BY <1>2, <1>3
<1> QED
  BY <1>1, <1>4

\* Where a point of a child is seen, whose place in the virtual plane is s.
LEMMA Unprojected ==
    ASSUME NEW n \in Fingers, Even(VisibleSize)
    PROVE  /\ Unproject(n) \in Vector
           /\ 2 * Unproject(n)[1] - Virtual[1] = n[1] * VisibleSize[1]
           /\ 2 * Unproject(n)[2] - Virtual[2] = -n[2] * VisibleSize[2]
<1>1. /\ n[1] \in Int /\ n[2] \in Int
      /\ Virtual[1] \in Int /\ Virtual[2] \in Int /\ Virtual[1] % 2 = 0 /\ Virtual[2] % 2 = 0
      /\ VisibleSize[1] \in Int /\ VisibleSize[2] \in Int
      /\ VisibleSize[1] % 2 = 0 /\ VisibleSize[2] % 2 = 0
  BY SceneAssumption DEF Even, Vector
<1>2. /\ Unproject(n)[1] = (Virtual[1] + n[1] * VisibleSize[1]) \div 2
      /\ Unproject(n)[2] = (Virtual[2] - n[2] * VisibleSize[2]) \div 2
      /\ Unproject(n) = <<Unproject(n)[1], Unproject(n)[2]>>
  BY DEF Unproject
<1> QED
  BY <1>1, <1>2, Middle DEF Vector

LEMMA VisibleEven ==
    ASSUME TreeInv, current, CameraFirst
    PROVE  Even(VisibleSize)
<1>1. Has("camera")
  BY DEF CameraFirst, Has, Range, TreeInv, TreeTypeOK
<1>2. mPhysicalResolution \in Screens \cup {Virtual} /\ mAspectRatio \in Ratios
  BY <1>1 DEF TreeInv, SizesTold, TreeTypeOK
<1> QED
  BY <1>2, SceneAssumption DEF VisibleSize

LEMMA CachedExact ==
    ASSUME TreeInv, NEW i \in Indices
    PROVE  CachedInverse(i) = Inverted(mTransforms[i])
BY DEF TreeInv, InversesFresh, CachedInverse

LEMMA Invertible ==
    ASSUME TreeInv, NEW i \in Indices
    PROVE  mTransforms[i] \in Transform /\ Unimodular(mTransforms[i])
<1>1. Identity \in Transform /\ Unimodular(Identity)
  BY DEF Identity, SetTranslation, Transform, Unimodular, Determinant
<1>2. mTransforms[i] \in Transforms \cup {Identity}
  BY DEF TreeInv, TreeTypeOK
<1> QED
  BY <1>1, <1>2, SceneAssumption

\* The position of a finger in the plane of the list.
LEMMA AdjustedIs ==
    ASSUME TreeInv, current, Unmoved, NEW n \in Fingers
    PROVE  /\ Adjusted(n) = IF CameraFirst THEN Unproject(n) ELSE n
           /\ Adjusted(n) \in Vector
<1>1. n \in Vector /\ n[1] \in Int /\ n[2] \in Int /\ n = <<n[1], n[2]>>
  BY SceneAssumption DEF Vector
<1>2. CASE CameraFirst
  <2>1. mPosition[1] = 0 /\ mPosition[2] = 0
    BY <1>2 DEF Unmoved, Zero
  <2>2. <<n[1] + mPosition[1], n[2] + mPosition[2]>> = n
    BY <1>1, <2>1
  <2> QED
    BY <1>2, <2>2, VisibleEven, Unprojected DEF Adjusted
<1>3. CASE ~CameraFirst
  BY <1>1, <1>3 DEF Adjusted
<1> QED
  BY <1>2, <1>3

LEMMA SeenUnderFinger ==
    ASSUME TreeInv, current, Unmoved, NEW n \in Fingers, NEW i \in Indices
    PROVE  Shows(i, ChildPoint(i, Adjusted(n)), n)
<1> DEFINE p == Adjusted(n)
           q == ChildPoint(i, p)
           s == IF absolute THEN Apply(mTransforms[i], q) ELSE q
           v == <<s[1] - mPosition[1], s[2] - mPosition[2]>>
<1>1. p \in Vector /\ p = IF CameraFirst THEN Unproject(n) ELSE n
  BY AdjustedIs
<1>2. s = p
  <2>1. CASE absolute
    <3>1. q = Apply(Inverted(mTransforms[i]), p)
      BY <2>1, CachedExact DEF ChildPoint
    <3> QED
      BY <2>1, <3>1, <1>1, Invertible, InverseUndoes
  <2>2. CASE ~absolute
    BY <2>2 DEF ChildPoint
  <2> QED
    BY <2>1, <2>2
<1>3. CASE ~CameraFirst
  BY <1>1, <1>2, <1>3 DEF Shows
<1>4. CASE CameraFirst
  <2>1. mPosition[1] = 0 /\ mPosition[2] = 0
    BY <1>4 DEF Unmoved, Zero
  <2>2. s = Unproject(n) /\ s[1] \in Int /\ s[2] \in Int
    BY <1>1, <1>2, <1>4 DEF Vector
  <2>3. v[1] = s[1] /\ v[2] = s[2]
    BY <2>1, <2>2
  <2> HIDE DEF s
  <2>4. /\ 2 * v[1] - Virtual[1] = n[1] * VisibleSize[1]
        /\ 2 * v[2] - Virtual[2] = -n[2] * VisibleSize[2]
    BY <2>2, <2>3, <1>4, VisibleEven, Unprojected
  <2> QED
    BY <2>4, <1>4 DEF Shows, s
<1> QED
  BY <1>3, <1>4

-----------------------------------------------------------------------------
(* Layout *)

\* What is due, and what every child has when it has been done.
LEMMA SizedIs ==
    ASSUME TreeInv
    PROVE  /\ Sized \in [Elements -> {Zero, Virtual} \cup Screens \cup OwnSizes]
           /\ StillOwn \in [Elements -> BOOLEAN]
           /\ Has("children") /\ ~absolute =>
                 \A e \in Range(mChildren) : Sized[e] = sceneSize \/ StillOwn[e]
<1>1. /\ Range(mChildren) \subseteq Elements
      /\ elementSize \in [Elements -> {Zero, Virtual} \cup Screens \cup OwnSizes]
      /\ ownSize \in [Elements -> BOOLEAN]
  BY DEF TreeInv, TreeTypeOK, SizesTold, Range
<1>2. LayoutDue => mListSize = sceneSize /\ sceneSize \in ListSizes
  BY DEF TreeInv, LaidOut, SizesTold, LayoutDue
<1>3. /\ \A e \in Elements :
             Sized[e] = IF LayoutDue /\ ~absolute /\ e \in Range(mChildren) THEN mListSize
                        ELSE elementSize[e]
      /\ \A e \in Elements :
             StillOwn[e] = (ownSize[e] /\ ~(LayoutDue /\ ~absolute /\ e \in Range(mChildren)))
  BY DEF Sized, StillOwn
<1>4. Sized \in [Elements -> {Zero, Virtual} \cup Screens \cup OwnSizes]
  BY <1>1, <1>2 DEF Sized, ListSizes
<1>5. StillOwn \in [Elements -> BOOLEAN]
  BY <1>1 DEF StillOwn
<1>6. ASSUME Has("children"), ~absolute, NEW e \in Range(mChildren)
      PROVE  Sized[e] = sceneSize \/ StillOwn[e]
  <2>1. CASE mNeedsLayout
    BY <1>1, <1>2, <1>3, <1>6, <2>1 DEF LayoutDue
  <2>2. CASE ~mNeedsLayout
    BY <1>1, <1>3, <1>6, <2>2 DEF LayoutDue, TreeInv, LaidOut
  <2> QED
    BY <2>1, <2>2
<1> QED
  BY <1>4, <1>5, <1>6

LEMMA LayoutKeeps ==
    ASSUME TreeInv, LayoutChildren, UNCHANGED <<mComponents, sceneSize>>
    PROVE  /\ LaidOut'
           /\ elementSize' \in [Elements -> {Zero, Virtual} \cup Screens \cup OwnSizes]
           /\ ownSize' \in [Elements -> BOOLEAN]
           /\ Has("children")' /\ ~absolute' =>
                 \A e \in Range(mChildren') : elementSize'[e] = sceneSize' \/ ownSize'[e]
<1>1. /\ elementSize' = Sized /\ ownSize' = StillOwn
      /\ mChildren' = mChildren /\ absolute' = absolute /\ mListSize' = mListSize
      /\ mComponents' = mComponents /\ sceneSize' = sceneSize
  BY DEF LayoutChildren
<1>2. Has("children")' <=> Has("children")
  BY <1>1 DEF Has
<1>3. Has("children") => mListSize = sceneSize
  BY DEF TreeInv, LaidOut
<1> QED
  BY <1>1, <1>2, <1>3, SizedIs DEF LaidOut

LEMMA CacheKeeps ==
    ASSUME TreeInv, NEW S, CacheInverses(S)
    PROVE  InversesFresh' /\ mTransforms' = mTransforms
<1>1. /\ mTransforms' = mTransforms /\ DOMAIN mInverseTransforms' = Indices
      /\ \A i \in Indices : mInverseTransforms'[i] =
             IF absolute /\ i \in S THEN CachedInverse(i) ELSE mInverseTransforms[i]
  BY DEF CacheInverses
<1>2. ASSUME NEW i \in Indices
      PROVE  mInverseTransforms'[i] \in {None, Inverted(mTransforms'[i])}
  BY <1>1, CachedExact DEF TreeInv, InversesFresh
<1> QED
  BY <1>1, <1>2 DEF InversesFresh

LEMMA CancelKeeps ==
    ASSUME TreeInv, CancelTouch
    PROVE  /\ InversesFresh' /\ TouchInPlace' /\ mTouchedChild' = None /\ mTransforms' = mTransforms
           /\ elementSize' \in [Elements -> {Zero, Virtual} \cup Screens \cup OwnSizes]
           /\ ownSize' \in [Elements -> BOOLEAN]
<1>1. CASE mTouchedChild = None
  BY <1>1 DEF CancelTouch, TreeInv, InversesFresh, TouchInPlace, transforms, TreeTypeOK, SizesTold
<1>2. CASE mTouchedChild # None
  <2>1. /\ CacheInverses({mTouchedChildIndex}) /\ mTouchedChild' = None
        /\ elementSize' = Sized /\ ownSize' = StillOwn
    BY <1>2 DEF CancelTouch
  <2> QED
    BY <2>1, CacheKeeps, SizedIs DEF TouchInPlace
<1> QED
  BY <1>1, <1>2

\* setSize() starts a layout if there is a list, and tells everyone.
LEMMA SizeTold ==
    ASSUME TreeInv, NEW s \in ListSizes, current' => s \in Screens \cup {Virtual},
           mComponents' \in {<<>>, <<"camera">>, <<"children">>,
                             <<"camera", "children">>, <<"children", "camera">>},
           SetSceneSize(s, mComponents')
    PROVE  /\ LaidOut'
           /\ sceneSize' \in ListSizes
           /\ current' => sceneSize' \in Screens \cup {Virtual}
           /\ current' /\ Has("camera")' => mPhysicalResolution' \in Screens \cup {Virtual}
<1>1. \A c : Has(c)' <=> c \in Range(mComponents')
  BY DEF Has
<1>2. /\ sceneSize' = IF Has("camera")' THEN Virtual ELSE s
      /\ Has("camera")' => mPhysicalResolution' = s
      /\ Has("children")' => mListSize' = sceneSize' /\ mNeedsLayout'
  BY <1>1 DEF SetSceneSize
<1> QED
  BY <1>2 DEF LaidOut, ListSizes

-----------------------------------------------------------------------------
(* The steps *)

Seen == TouchedWhereDrawn /\ TopmostTouched /\ LaidOutWhenDrawn

LEMMA TreeInitially == TreeInit => TreeInv /\ Seen
<1> SUFFICES ASSUME TreeInit PROVE TreeInv /\ Seen
  OBVIOUS
<1>1. /\ mScreenSize \in Screens /\ current = FALSE /\ mComponents = <<>> /\ sceneSize = Zero
      /\ mPosition = Zero /\ mAspectRatio \in Ratios /\ mChildren = <<>>
      /\ mTransforms = [i \in Indices |-> Identity]
      /\ mInverseTransforms = [i \in Indices |-> None]
      /\ elementSize = [e \in Elements |-> Zero] /\ ownSize = [e \in Elements |-> FALSE]
      /\ mTouchedChild = None /\ received = NoEvent
  BY DEF TreeInit
<1>2. TreeTypeOK
  <2>1. mChildren \in Seq(Elements) /\ IsInjective(mChildren)
    BY <1>1 DEF IsInjective
  <2>2. /\ mTransforms \in [Indices -> Transforms \cup {Identity}]
        /\ elementSize \in [Elements -> {Zero, Virtual} \cup Screens \cup OwnSizes]
    BY <1>1
  <2> QED
    BY <1>1, <2>1, <2>2 DEF TreeTypeOK
<1>3. ~Has("children")
  BY <1>1 DEF Has, Range
<1>4. TreeInv
  BY <1>1, <1>2, <1>3 DEF TreeInv, SizesTold, ListSizes, LaidOut, InversesFresh, TouchInPlace
<1> QED
  BY <1>1, <1>2, <1>4
  DEF Seen, TouchedWhereDrawn, TopmostTouched, LaidOutWhenDrawn, NoEvent, Event

LEMMA Silent ==
    ASSUME TreeInv', received' = NoEvent
    PROVE  Seen'
BY DEF TreeInv, Seen, TouchedWhereDrawn, TopmostTouched, LaidOutWhenDrawn, NoEvent, Event

LEMMA AppendTwo == \A a, b : Append(<<a>>, b) = <<a, b>>
<1> TAKE a, b
<1> DEFINE s == Append(<<a>>, b)
           t == <<a, b>>
<1>1. <<a>> \in Seq({a, b}) /\ Len(<<a>>) = 1 /\ <<a>>[1] = a
  OBVIOUS
<1>2. s \in Seq({a, b}) /\ Len(s) = 2 /\ s[1] = a /\ s[2] = b
  BY <1>1
<1>3. t \in Seq({a, b}) /\ Len(t) = 2 /\ t[1] = a /\ t[2] = b
  OBVIOUS
<1> HIDE DEF s, t
<1>4. s = t
  <2>1. s \in [1 .. 2 -> {a, b}] /\ t \in [1 .. 2 -> {a, b}]
    BY <1>2, <1>3
  <2>2. \A k \in 1 .. 2 : s[k] = t[k]
    BY <1>2, <1>3
  <2> QED
    BY <2>1, <2>2
<1> QED
  BY <1>4 DEF s, t

LEMMA AddStep ==
    ASSUME TreeInv, NEW c \in {"camera", "children"}, AddSceneComponent(c)
    PROVE  TreeInv'
<1>1. /\ mComponents' = Append(mComponents, c) /\ c \notin Range(mComponents)
      /\ SetSceneSize(sceneSize, mComponents') /\ current' = current
      /\ UNCHANGED <<mScreenSize, mPosition, mAspectRatio, mChildren, absolute, elementSize,
                     ownSize, mTransforms, mInverseTransforms, mTouchedChild, mTouchedChildIndex>>
  BY DEF AddSceneComponent, Has, transforms, touched
<1>2. mComponents' \in {<<>>, <<"camera">>, <<"children">>,
                        <<"camera", "children">>, <<"children", "camera">>}
  <2>1. mComponents \in {<<>>, <<"camera">>, <<"children">>,
                         <<"camera", "children">>, <<"children", "camera">>}
    BY DEF TreeInv, TreeTypeOK
  <2>2. CASE mComponents = <<>>
    BY <1>1, <2>2
  <2>3. CASE mComponents = <<"camera">>
    <3>1. mComponents[1] = "camera" /\ 1 \in DOMAIN mComponents
      BY <2>3
    <3>2. c = "children"
      BY <1>1, <3>1 DEF Range
    <3>3. Append(<<"camera">>, "children") = <<"camera", "children">>
      BY AppendTwo
    <3> QED
      BY <1>1, <2>3, <3>2, <3>3
  <2>4. CASE mComponents = <<"children">>
    <3>1. mComponents[1] = "children" /\ 1 \in DOMAIN mComponents
      BY <2>4
    <3>2. c = "camera"
      BY <1>1, <3>1 DEF Range
    <3>3. Append(<<"children">>, "camera") = <<"children", "camera">>
      BY AppendTwo
    <3> QED
      BY <1>1, <2>4, <3>2, <3>3
  <2>5. CASE mComponents \in {<<"camera", "children">>, <<"children", "camera">>}
    <3>1. \A k \in 1 .. 2 : mComponents[k] # c
      BY <1>1, <2>5 DEF Range
    <3>2. {mComponents[1], mComponents[2]} = {"camera", "children"}
      BY <2>5
    <3> QED
      BY <3>1, <3>2
  <2> QED
    BY <2>1, <2>2, <2>3, <2>4, <2>5
<1>3. sceneSize \in ListSizes /\ (current' => sceneSize \in Screens \cup {Virtual})
  BY <1>1 DEF TreeInv, SizesTold
<1>4. LaidOut' /\ SizesTold'
  BY <1>1, <1>2, <1>3, SizeTold DEF SizesTold, TreeInv
<1>5. TreeTypeOK' /\ InversesFresh' /\ TouchInPlace'
  BY <1>1, <1>2 DEF TreeInv, TreeTypeOK, InversesFresh, TouchInPlace
<1> QED
  BY <1>4, <1>5 DEF TreeInv

LEMMA ShowStep == ASSUME TreeInv, ShowScene PROVE TreeInv'
<1>1. /\ SetSceneSize(mScreenSize, mComponents') /\ current'
      /\ UNCHANGED <<mComponents, mScreenSize, mPosition, mAspectRatio, mChildren, absolute,
                     elementSize, ownSize, mTransforms, mInverseTransforms, mTouchedChild,
                     mTouchedChildIndex>>
  BY DEF ShowScene, transforms, touched
<1>2. /\ mComponents' \in {<<>>, <<"camera">>, <<"children">>,
                           <<"camera", "children">>, <<"children", "camera">>}
      /\ mScreenSize \in Screens
  BY <1>1 DEF TreeInv, TreeTypeOK
<1>3. LaidOut' /\ SizesTold'
  BY <1>1, <1>2, SizeTold DEF SizesTold, TreeInv, ListSizes
<1>4. TreeTypeOK' /\ InversesFresh' /\ TouchInPlace'
  BY <1>1, <1>2 DEF TreeInv, TreeTypeOK, InversesFresh, TouchInPlace
<1> QED
  BY <1>3, <1>4 DEF TreeInv

LEMMA ResizeStep == ASSUME TreeInv, NEW s \in Screens, ResizeScreen(s) PROVE TreeInv'
<1>1. /\ SetSceneSize(s, mComponents') /\ CancelTouch /\ current' /\ mScreenSize' = s
      /\ UNCHANGED <<mComponents, mPosition, mAspectRatio, mChildren, absolute>>
  BY DEF ResizeScreen
<1>2. mComponents' \in {<<>>, <<"camera">>, <<"children">>,
                        <<"camera", "children">>, <<"children", "camera">>}
  BY <1>1 DEF TreeInv, TreeTypeOK
<1>3. /\ InversesFresh' /\ TouchInPlace' /\ mTouchedChild' = None /\ mTransforms' = mTransforms
      /\ elementSize' \in [Elements -> {Zero, Virtual} \cup Screens \cup OwnSizes]
      /\ ownSize' \in [Elements -> BOOLEAN]
  BY <1>1, CancelKeeps
<1>4. LaidOut' /\ SizesTold'
  BY <1>1, <1>2, <1>3, SizeTold DEF SizesTold, ListSizes
<1>5. TreeTypeOK'
  BY <1>1, <1>2, <1>3 DEF TreeInv, TreeTypeOK
<1> QED
  BY <1>3, <1>4, <1>5 DEF TreeInv

LEMMA MoveCameraStep == ASSUME TreeInv, NEW p \in Positions, MoveCamera(p) PROVE TreeInv'
<1>1. /\ mPosition' = p
      /\ UNCHANGED <<mPhysicalResolution, mAspectRatio, scene, children, transforms, touched>>
  BY DEF MoveCamera
<1>2. /\ UNCHANGED <<mScreenSize, current, mComponents, sceneSize>>
      /\ UNCHANGED <<mChildren, mListSize, mNeedsLayout, absolute, elementSize, ownSize>>
      /\ UNCHANGED <<mTransforms, mInverseTransforms, mTouchedChild, mTouchedChildIndex>>
      /\ UNCHANGED <<mPhysicalResolution, mAspectRatio>>
  BY <1>1 DEF scene, children, transforms, touched
<1> QED
  BY <1>1, <1>2 DEF TreeInv, TreeTypeOK, SizesTold, LaidOut, InversesFresh, TouchInPlace, Has

\* The list of children is replaced by s, which still holds every child once.
LEMMA ListStep ==
    ASSUME TreeInv, CancelTouch, UNCHANGED <<camera, scene, mListSize, absolute>>,
           mChildren' \in Seq(Elements), IsInjective(mChildren'), mNeedsLayout' = TRUE
    PROVE  TreeInv'
<1>1. /\ InversesFresh' /\ TouchInPlace' /\ mTouchedChild' = None /\ mTransforms' = mTransforms
      /\ elementSize' \in [Elements -> {Zero, Virtual} \cup Screens \cup OwnSizes]
      /\ ownSize' \in [Elements -> BOOLEAN]
  BY CancelKeeps
<1>2. /\ UNCHANGED <<mPhysicalResolution, mPosition, mAspectRatio, mListSize>>
      /\ UNCHANGED <<mScreenSize, current, mComponents, sceneSize>>
  BY DEF camera, scene
<1>3. LaidOut' /\ SizesTold'
  BY <1>1, <1>2 DEF TreeInv, LaidOut, SizesTold, Has
<1>4. TreeTypeOK'
  BY <1>1, <1>2 DEF TreeInv, TreeTypeOK
<1> QED
  BY <1>1, <1>3, <1>4 DEF TreeInv

LEMMA InsertStep ==
    ASSUME TreeInv, NEW e \in Elements, NEW i \in 1 .. Len(mChildren) + 1, InsertElement(i, e)
    PROVE  TreeInv'
<1>1. mChildren \in Seq(Elements) /\ IsInjective(mChildren)
  BY DEF TreeInv, TreeTypeOK
<1>2. InsertAt(mChildren, i, e) \in Seq(Elements) /\ IsInjective(InsertAt(mChildren, i, e))
  BY <1>1, Inserted DEF InsertElement
<1> QED
  BY <1>2, ListStep DEF InsertElement

LEMMA RemoveStep ==
    ASSUME TreeInv, NEW i \in DOMAIN mChildren, RemoveElement(i)
    PROVE  TreeInv'
<1>1. mChildren \in Seq(Elements) /\ IsInjective(mChildren)
  BY DEF TreeInv, TreeTypeOK
<1>2. RemoveAt(mChildren, i) \in Seq(Elements) /\ IsInjective(RemoveAt(mChildren, i))
  BY <1>1, Removed
<1> QED
  BY <1>2, ListStep DEF RemoveElement

LEMMA StrategyStep == ASSUME TreeInv, NEW b \in BOOLEAN, SetLayoutStrategy(b) PROVE TreeInv'
<1>1. /\ absolute' = b /\ mNeedsLayout' = TRUE
      /\ UNCHANGED <<mPhysicalResolution, mPosition, mAspectRatio, mListSize>>
      /\ UNCHANGED <<mScreenSize, current, mComponents, sceneSize>>
      /\ UNCHANGED <<mChildren, elementSize, ownSize>>
      /\ UNCHANGED <<mTransforms, mInverseTransforms, mTouchedChild, mTouchedChildIndex>>
  BY DEF SetLayoutStrategy, camera, scene, transforms, touched
<1> QED
  BY <1>1 DEF TreeInv, TreeTypeOK, SizesTold, LaidOut, InversesFresh, TouchInPlace, Has

LEMMA TransformStep ==
    ASSUME TreeInv, NEW i \in Indices, NEW t \in Transforms, SetTransform(i, t)
    PROVE  TreeInv'
<1>1. /\ UNCHANGED <<mPhysicalResolution, mPosition, mAspectRatio, mListSize>>
      /\ UNCHANGED <<mScreenSize, current, mComponents, sceneSize>>
      /\ UNCHANGED <<mChildren, mNeedsLayout, absolute, elementSize, ownSize>>
      /\ UNCHANGED <<mTouchedChild, mTouchedChildIndex>>
  BY DEF SetTransform, camera, scene, children, touched
<1>2. /\ mTransforms' = [mTransforms EXCEPT ![i] = t]
      /\ mInverseTransforms' = [mInverseTransforms EXCEPT ![i] = None]
  BY DEF SetTransform
<1>3. /\ mTransforms \in [Indices -> Transforms \cup {Identity}]
      /\ DOMAIN mInverseTransforms = Indices
  BY DEF TreeInv, TreeTypeOK, InversesFresh
<1>4. /\ mTransforms' \in [Indices -> Transforms \cup {Identity}]
      /\ DOMAIN mInverseTransforms' = Indices
      /\ \A j \in Indices :
             /\ mTransforms'[j] = IF j = i THEN t ELSE mTransforms[j]
             /\ mInverseTransforms'[j] = IF j = i THEN None ELSE mInverseTransforms[j]
  BY <1>2, <1>3
<1>5. InversesFresh'
  BY <1>4 DEF TreeInv, InversesFresh
<1>6. TreeTypeOK' /\ SizesTold' /\ LaidOut' /\ TouchInPlace'
  BY <1>1, <1>4 DEF TreeInv, TreeTypeOK, SizesTold, LaidOut, TouchInPlace, Has
<1> QED
  BY <1>5, <1>6 DEF TreeInv

LEMMA ResizeElementStep ==
    ASSUME TreeInv, NEW e \in Elements, NEW s \in OwnSizes, ResizeElement(e, s)
    PROVE  TreeInv'
<1>1. /\ UNCHANGED <<mPhysicalResolution, mPosition, mAspectRatio, mListSize>>
      /\ UNCHANGED <<mScreenSize, current, mComponents, sceneSize>>
      /\ UNCHANGED <<mChildren, mNeedsLayout, absolute, mTransforms, mInverseTransforms>>
      /\ UNCHANGED <<mTouchedChild, mTouchedChildIndex>>
  BY DEF ResizeElement, camera, scene, transforms, touched
<1>2. /\ elementSize \in [Elements -> {Zero, Virtual} \cup Screens \cup OwnSizes]
      /\ ownSize \in [Elements -> BOOLEAN]
  BY DEF TreeInv, TreeTypeOK, SizesTold
<1>3. /\ elementSize' \in [Elements -> {Zero, Virtual} \cup Screens \cup OwnSizes]
      /\ ownSize' \in [Elements -> BOOLEAN]
      /\ \A d \in Elements :
             /\ elementSize'[d] = IF d = e THEN s ELSE elementSize[d]
             /\ ownSize'[d] = IF d = e THEN TRUE ELSE ownSize[d]
  BY <1>2 DEF ResizeElement
<1>4. Range(mChildren) \subseteq Elements
  BY DEF TreeInv, TreeTypeOK, Range
<1>5. LaidOut'
  BY <1>1, <1>3, <1>4 DEF TreeInv, LaidOut, Has
<1>6. TreeTypeOK' /\ SizesTold' /\ InversesFresh' /\ TouchInPlace'
  BY <1>1, <1>3 DEF TreeInv, TreeTypeOK, SizesTold, InversesFresh, TouchInPlace, Has
<1> QED
  BY <1>5, <1>6 DEF TreeInv

LEMMA DrawStepKeeps == ASSUME TreeInv, DrawScene PROVE TreeInv' /\ Seen'
<1>1. /\ LayoutChildren /\ received' = Event("draw", None, Zero, Zero)
      /\ UNCHANGED <<mPhysicalResolution, mPosition, mAspectRatio, mListSize, mChildren, absolute>>
      /\ UNCHANGED <<mScreenSize, current, mComponents, sceneSize>>
      /\ UNCHANGED <<mTransforms, mInverseTransforms, mTouchedChild, mTouchedChildIndex>>
  BY DEF DrawScene, LayoutChildren, camera, scene, transforms, touched
<1>2. /\ LaidOut'
      /\ elementSize' \in [Elements -> {Zero, Virtual} \cup Screens \cup OwnSizes]
      /\ ownSize' \in [Elements -> BOOLEAN]
      /\ Has("children")' /\ ~absolute' =>
            \A e \in Range(mChildren') : elementSize'[e] = sceneSize' \/ ownSize'[e]
  BY <1>1, LayoutKeeps
<1>3. TreeTypeOK' /\ SizesTold' /\ InversesFresh' /\ TouchInPlace'
  BY <1>1, <1>2 DEF TreeInv, TreeTypeOK, SizesTold, InversesFresh, TouchInPlace, Has
<1> QED
  BY <1>1, <1>2, <1>3
  DEF TreeInv, Seen, TouchedWhereDrawn, TopmostTouched, LaidOutWhenDrawn, Event

\* A non-empty set of numbers up to n has a greatest element.
LEMMA GreatestExists ==
    ASSUME NEW n \in Nat, NEW S \in SUBSET (1 .. n), S # {}
    PROVE  \E k \in S : \A j \in S : j <= k
<1> DEFINE R == OpToRel(<, Nat)
           T == {n - k : k \in S}
<1>1. \A x, y \in Nat : x < y => <<x, y>> \in R
  BY DEF OpToRel
<1>2. T \subseteq Nat /\ T # {}
  <2>1. \A k \in S : k \in 1 .. n /\ n - k \in Nat
    OBVIOUS
  <2> QED
    BY <2>1
<1>3. IsWellFoundedOn(R, Nat)
  BY NatLessThanWellFounded
<1> HIDE DEF R
<1>4. PICK x \in T : \A y \in T : <<y, x>> \notin R
  <2> HIDE DEF T
  <2> QED
    BY <1>2, <1>3, WFMin
<1>5. PICK k \in S : x = n - k
  BY <1>4
<1>6. ASSUME NEW j \in S PROVE j <= k
  <2>1. n - j \in T /\ n - j \in Nat /\ x \in Nat
    BY <1>4, <1>2
  <2>2. ~(n - j < x)
    BY <2>1, <1>1, <1>4
  <2> QED
    BY <2>1, <2>2, <1>5
<1> QED
  BY <1>6

\* Whoever is reached is the last of those that are hit.
Hit(p) == {i \in DOMAIN mChildren : Inside(ChildPoint(i, p), Sized[mChildren[i]])}

LEMMA ReachedIs ==
    ASSUME TreeInv, NEW p
    PROVE  /\ Hit(p) = {} => Reached(p) = 0
           /\ Hit(p) # {} => Reached(p) \in Hit(p) /\ \A j \in Hit(p) : j <= Reached(p)
<1>1. Len(mChildren) \in Nat /\ DOMAIN mChildren = 1 .. Len(mChildren)
  BY DEF TreeInv, TreeTypeOK
<1>2. Hit(p) \in SUBSET (1 .. Len(mChildren))
  BY <1>1 DEF Hit
<1>3. Hit(p) # {} => \E k \in Hit(p) : \A j \in Hit(p) : j <= k
  BY <1>1, <1>2, GreatestExists
<1>4. Reached(p) = IF Hit(p) = {} THEN 0
                   ELSE CHOOSE i \in Hit(p) : \A j \in Hit(p) : j <= i
  BY DEF Reached, Hit
<1> QED
  BY <1>3, <1>4

\* What the layout does not change.
LEMMA GeometryKept ==
    ASSUME TreeInv, TreeInv', UNCHANGED <<camera, scene, absolute, mTransforms>>
    PROVE  /\ Unmoved' <=> Unmoved
           /\ CameraFirst' <=> CameraFirst
           /\ \A n : Unproject(n)' = Unproject(n)
           /\ \A i, q, n : Shows(i, q, n)' <=> Shows(i, q, n)
<1>1. /\ UNCHANGED <<mPhysicalResolution, mPosition, mAspectRatio, mComponents, absolute, mTransforms>>
  BY DEF camera, scene
<1>2. VisibleSize' = VisibleSize /\ (CameraFirst' <=> CameraFirst)
  BY <1>1 DEF VisibleSize, CameraFirst
<1> QED
  BY <1>1, <1>2 DEF Unmoved, Unproject, Shows

LEMMA HitIs ==
    ASSUME TreeInv, NEW p
    PROVE  Hit(p) = {i \in DOMAIN mChildren :
               Inside(IF absolute THEN Apply(Inverted(mTransforms[i]), p) ELSE p,
                      Sized[mChildren[i]])}
<1>1. \A i \in DOMAIN mChildren : i \in Indices
  BY IndexForEvery DEF TreeInv, TreeTypeOK
<1>2. \A i \in DOMAIN mChildren :
          ChildPoint(i, p) = IF absolute THEN Apply(Inverted(mTransforms[i]), p) ELSE p
  BY <1>1, CachedExact DEF ChildPoint
<1> QED
  BY <1>2 DEF Hit

LEMMA BeginStep == ASSUME TreeInv, NEW n \in Fingers, BeginTouch(n) PROVE TreeInv' /\ Seen'
<1> DEFINE p == Adjusted(n)
           i == Reached(p)
<1>1. /\ LayoutChildren /\ CacheInverses((i .. Len(mChildren)) \ {0}) /\ current
      /\ mTouchedChild' = (IF i = 0 THEN None ELSE mChildren[i])
      /\ i # 0 => mTouchedChildIndex' = i
      /\ received' = Event("begin", mTouchedChild', n, IF i = 0 THEN p ELSE ChildPoint(i, p))
      /\ UNCHANGED <<camera, scene>>
      /\ UNCHANGED <<mChildren, mListSize, absolute>>
  BY DEF BeginTouch, LayoutChildren
<1>2. /\ UNCHANGED <<mPhysicalResolution, mPosition, mAspectRatio>>
      /\ UNCHANGED <<mScreenSize, current, mComponents, sceneSize>>
  BY <1>1 DEF camera, scene
<1>3. /\ LaidOut'
      /\ elementSize' \in [Elements -> {Zero, Virtual} \cup Screens \cup OwnSizes]
      /\ ownSize' \in [Elements -> BOOLEAN]
      /\ Has("children")' /\ ~absolute' =>
            \A e \in Range(mChildren') : elementSize'[e] = sceneSize' \/ ownSize'[e]
  BY <1>1, <1>2, LayoutKeeps
<1>4. InversesFresh' /\ mTransforms' = mTransforms
  BY <1>1, CacheKeeps
<1>5. /\ i = 0 <=> Hit(p) = {}
      /\ i # 0 => i \in Hit(p) /\ i \in DOMAIN mChildren /\ i \in Indices
      /\ \A j \in Hit(p) : j <= i
  <2>1. /\ Hit(p) \subseteq DOMAIN mChildren /\ 0 \notin DOMAIN mChildren
        /\ DOMAIN mChildren \subseteq Indices
    <3>1. /\ Len(mChildren) \in Nat /\ DOMAIN mChildren = 1 .. Len(mChildren)
          /\ 1 .. Len(mChildren) \subseteq Indices
      BY IndexForEvery DEF TreeInv, TreeTypeOK
    <3>2. 0 \notin 1 .. Len(mChildren)
      BY <3>1
    <3> QED
      BY <3>1, <3>2 DEF Hit
  <2> QED
    BY <2>1, ReachedIs
<1> HIDE DEF i, p
<1>6. \A k \in DOMAIN mChildren : mChildren[k] \in Elements /\ mChildren[k] # None
  BY SceneAssumption DEF TreeInv, TreeTypeOK
<1>7. TouchInPlace'
  BY <1>1, <1>5 DEF TouchInPlace
<1>8. TreeTypeOK'
  BY <1>1, <1>2, <1>3, <1>4, <1>5, <1>6 DEF TreeInv, TreeTypeOK
<1>9. TreeInv'
  BY <1>2, <1>3, <1>4, <1>7, <1>8 DEF TreeInv, SizesTold, Has
<1>10. /\ Unmoved' <=> Unmoved
       /\ CameraFirst' <=> CameraFirst
       /\ Unproject(n)' = Unproject(n)
       /\ \A k, q : Shows(k, q, n)' <=> Shows(k, q, n)
  BY <1>1, <1>4, <1>9, GeometryKept
<1>11. /\ received'.what = "begin" /\ received'.child = mTouchedChild' /\ received'.finger = n
       /\ i # 0 => received'.point = ChildPoint(i, p)
  BY <1>1 DEF Event
<1>12. TouchedWhereDrawn'
  <2> SUFFICES ASSUME i # 0, Unmoved
               PROVE  Shows(mTouchedChildIndex, received.point, received.finger)'
    BY <1>1, <1>10, <1>11 DEF TouchedWhereDrawn
  <2>1. Shows(i, ChildPoint(i, p), n)
    BY <1>1, <1>5, SeenUnderFinger DEF p
  <2>2. mTouchedChildIndex' = i /\ received'.point = ChildPoint(i, p) /\ received'.finger = n
    BY <1>1, <1>11
  <2>3. \A k, q : mTouchedChildIndex' = k /\ received'.point = q /\ Shows(k, q, n)
            => Shows(mTouchedChildIndex, received.point, received.finger)'
    BY <1>1, <1>2, <1>4, <1>11 DEF Shows, VisibleSize, CameraFirst
  <2> QED
    BY <2>1, <2>2, <2>3
<1>13. TopmostTouched'
  <2> SUFFICES ASSUME Unmoved
               PROVE  LET covering == {k \in DOMAIN mChildren' : Covers(k, n)'} IN
                      IF mTouchedChild' = None THEN covering = {}
                      ELSE /\ mTouchedChildIndex' \in covering
                           /\ mChildren'[mTouchedChildIndex'] = mTouchedChild'
                           /\ \A k \in covering : k <= mTouchedChildIndex'
    BY <1>10, <1>11 DEF TopmostTouched, Covers
  <2>1. p = IF CameraFirst THEN Unproject(n) ELSE n
    BY <1>1, AdjustedIs DEF p
  <2>2. ASSUME NEW k \in DOMAIN mChildren
        PROVE  Covers(k, n)' <=> k \in Hit(p)
    <3>1. elementSize'[mChildren'[k]] = Sized[mChildren[k]]
      BY <1>1 DEF LayoutChildren
    <3>2. absolute' = absolute /\ mTransforms' = mTransforms
      BY <1>1, <1>4
    <3>3. Covers(k, n)' <=> Inside(IF absolute THEN Apply(Inverted(mTransforms[k]), p) ELSE p,
                                   Sized[mChildren[k]])
      BY <3>1, <3>2, <2>1, <1>10 DEF Covers
    <3> QED
      BY <3>3, HitIs
  <2>3. {k \in DOMAIN mChildren' : Covers(k, n)'} = Hit(p)
    BY <2>2, <1>1 DEF Hit
  <2> QED
    BY <2>3, <1>1, <1>5, <1>6
<1> QED
  BY <1>3, <1>8, <1>9, <1>12, <1>13 DEF Seen, LaidOutWhenDrawn

LEMMA MoveStep ==
    ASSUME TreeInv, NEW n \in Fingers, NEW ends \in BOOLEAN, MoveTouch(n, ends)
    PROVE  TreeInv' /\ Seen'
<1> DEFINE p == Adjusted(n)
           i == mTouchedChildIndex
<1>1. /\ LayoutChildren /\ CacheInverses({i}) /\ current /\ mTouchedChild # None
      /\ mTouchedChild' \in {None, mTouchedChild} /\ mTouchedChildIndex' = i
      /\ received' = Event("move", mTouchedChild, n, ChildPoint(i, p))
      /\ UNCHANGED <<camera, scene>>
      /\ UNCHANGED <<mChildren, mListSize, absolute>>
  BY DEF MoveTouch, LayoutChildren
<1>2. /\ UNCHANGED <<mPhysicalResolution, mPosition, mAspectRatio>>
      /\ UNCHANGED <<mScreenSize, current, mComponents, sceneSize>>
  BY <1>1 DEF camera, scene
<1>3. /\ LaidOut'
      /\ elementSize' \in [Elements -> {Zero, Virtual} \cup Screens \cup OwnSizes]
      /\ ownSize' \in [Elements -> BOOLEAN]
  BY <1>1, <1>2, LayoutKeeps
<1>4. InversesFresh' /\ mTransforms' = mTransforms
  BY <1>1, CacheKeeps
<1>5. i \in DOMAIN mChildren /\ i \in Indices /\ mChildren[i] = mTouchedChild
  BY <1>1, IndexForEvery DEF TreeInv, TreeTypeOK, TouchInPlace
<1> HIDE DEF i, p
<1>6. TouchInPlace'
  BY <1>1, <1>5 DEF TouchInPlace
<1>7. TreeTypeOK'
  BY <1>1, <1>2, <1>3, <1>4 DEF TreeInv, TreeTypeOK
<1>8. TreeInv'
  BY <1>2, <1>3, <1>4, <1>6, <1>7 DEF TreeInv, SizesTold, Has
<1>9. /\ received'.what = "move" /\ received'.child = mTouchedChild /\ received'.finger = n
      /\ received'.point = ChildPoint(i, p)
  BY <1>1 DEF Event
<1>10. TouchedWhereDrawn'
  <2> SUFFICES ASSUME Unmoved
               PROVE  Shows(mTouchedChildIndex, received.point, received.finger)'
    BY <1>1, <1>2 DEF TouchedWhereDrawn, Unmoved, CameraFirst
  <2>1. Shows(i, ChildPoint(i, p), n)
    BY <1>1, <1>5, SeenUnderFinger DEF p
  <2>2. \A k, q : mTouchedChildIndex' = k /\ received'.point = q /\ Shows(k, q, n)
            => Shows(mTouchedChildIndex, received.point, received.finger)'
    BY <1>1, <1>2, <1>4, <1>9 DEF Shows, VisibleSize, CameraFirst
  <2> QED
    BY <1>1, <1>9, <2>1, <2>2
<1> QED
  BY <1>7, <1>8, <1>9, <1>10 DEF Seen, TopmostTouched, LaidOutWhenDrawn

LEMMA TreeStep == TreeInv /\ Seen /\ [TreeNext]_treeVars => TreeInv' /\ Seen'
<1> SUFFICES ASSUME TreeInv, Seen, [TreeNext]_treeVars PROVE TreeInv' /\ Seen'
  OBVIOUS
<1>1. ASSUME NEW c \in {"camera", "children"}, AddSceneComponent(c) PROVE TreeInv' /\ Seen'
  BY <1>1, AddStep, Silent DEF AddSceneComponent
<1>2. CASE ShowScene
  BY <1>2, ShowStep, Silent DEF ShowScene
<1>3. ASSUME NEW s \in Screens, ResizeScreen(s) PROVE TreeInv' /\ Seen'
  BY <1>3, ResizeStep, Silent DEF ResizeScreen
<1>4. ASSUME NEW p \in Positions, MoveCamera(p) PROVE TreeInv' /\ Seen'
  BY <1>4, MoveCameraStep, Silent DEF MoveCamera
<1>5. ASSUME NEW e \in Elements, NEW i \in 1 .. Len(mChildren) + 1, InsertElement(i, e)
      PROVE  TreeInv' /\ Seen'
  BY <1>5, InsertStep, Silent DEF InsertElement
<1>6. ASSUME NEW i \in DOMAIN mChildren, RemoveElement(i) PROVE TreeInv' /\ Seen'
  BY <1>6, RemoveStep, Silent DEF RemoveElement
<1>7. ASSUME NEW b \in BOOLEAN, SetLayoutStrategy(b) PROVE TreeInv' /\ Seen'
  BY <1>7, StrategyStep, Silent DEF SetLayoutStrategy
<1>8. ASSUME NEW i \in Indices, NEW t \in Transforms, SetTransform(i, t)
      PROVE  TreeInv' /\ Seen'
  BY <1>8, TransformStep, Silent DEF SetTransform
<1>9. ASSUME NEW e \in Elements, NEW s \in OwnSizes, ResizeElement(e, s)
      PROVE  TreeInv' /\ Seen'
  BY <1>9, ResizeElementStep, Silent DEF ResizeElement
<1>10. CASE DrawScene
  BY <1>10, DrawStepKeeps
<1>11. ASSUME NEW n \in Fingers, BeginTouch(n) PROVE TreeInv' /\ Seen'
  BY <1>11, BeginStep
<1>12. ASSUME NEW n \in Fingers, NEW ends \in BOOLEAN, MoveTouch(n, ends)
       PROVE  TreeInv' /\ Seen'
  BY <1>12, MoveStep
<1>13. CASE UNCHANGED treeVars
  <2>1. /\ UNCHANGED <<mPhysicalResolution, mPosition, mAspectRatio, mListSize>>
        /\ UNCHANGED <<mScreenSize, current, mComponents, sceneSize, received>>
        /\ UNCHANGED <<mChildren, mNeedsLayout, absolute, elementSize, ownSize>>
        /\ UNCHANGED <<mTransforms, mInverseTransforms, mTouchedChild, mTouchedChildIndex>>
    BY <1>13 DEF treeVars, camera, scene, children, transforms, touched
  <2>2. TreeInv'
    BY <2>1 DEF TreeInv, TreeTypeOK, SizesTold, LaidOut, InversesFresh, TouchInPlace, Has
  <2>3. TouchedWhereDrawn'
    BY <2>1 DEF Seen, TouchedWhereDrawn, Unmoved, CameraFirst, Shows, VisibleSize
  <2>4. TopmostTouched'
    BY <2>1 DEF Seen, TopmostTouched, Unmoved, CameraFirst, Covers, Unproject, VisibleSize
  <2>5. LaidOutWhenDrawn'
    BY <2>1, <2>2 DEF Seen, TreeInv, LaidOutWhenDrawn, Has
  <2> QED
    BY <2>2, <2>3, <2>4, <2>5 DEF Seen
<1> QED
  BY <1>1, <1>2, <1>3, <1>4, <1>5, <1>6, <1>7, <1>8, <1>9, <1>10, <1>11, <1>12, <1>13
  DEF TreeNext

LEMMA TreeInvariance == TreeSpec => [](TreeInv /\ Seen)
BY TreeInitially, TreeStep, PTL DEF TreeSpec

\* The place of a child where a touch reaches it is the place where it is drawn
\* under the finger, for all screens, transforms and orders of the components.
THEOREM DrawnWhereTouched == TreeSpec => []TouchedWhereDrawn
BY TreeInvariance, PTL DEF Seen

\* A touch begins on the topmost child under the finger.
THEOREM TopmostReached == TreeSpec => []TopmostTouched
BY TreeInvariance, PTL DEF Seen

\* No layout is forgotten, for any number of children.
THEOREM NoLayoutForgotten == TreeSpec => []LaidOutWhenDrawn
BY TreeInvariance, PTL DEF Seen

=============================================================================
