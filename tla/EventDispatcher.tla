--------------------------- MODULE EventDispatcher ---------------------------
(***************************************************************************)
(* ObserverList, the EventDispatcher that keeps one per event type, and    *)
(* the observers that AbstractScene owns by key. Everything happens on one *)
(* thread, but a callback may send events, add and remove observers: the   *)
(* passes over the lists form a stack, and the lists change under them.    *)
(***************************************************************************)
EXTENDS Naturals, Sequences

CONSTANTS
    Events,         \* the event types
    Handlers,       \* observers created by addEventObserver
    Clients,        \* observers with owners of their own
    Keys,           \* the keys handlers are added under
    Watched,        \* the event whose list is compared with its registry
    Null,           \* an empty slot
    MaxDepth,       \* bound: nested calls of sendEvent
    MaxSlots        \* bound: length of a list

Observers == Handlers \cup Clients

ASSUME DispatcherAssumption ==
    /\ Null \notin Observers
    /\ Watched \in Events
    /\ Handlers \cap Clients = {}
    /\ MaxDepth \in Nat
    /\ MaxSlots \in Nat

VARIABLES
    mObservers,         \* per event, the slots of its ObserverList
    mEventObserverMap,  \* per key, the <<event, handler>> pairs it owns
    passes              \* the forEach() calls under way, innermost last

vars == <<mObservers, mEventObserverMap, passes>>

Depth == Len(passes)
Top == passes[Depth]
Slots(e) == DOMAIN mObservers[e]
Registered(e) == {mObservers[e][k] : k \in Slots(e)} \ {Null}
Owned == UNION {mEventObserverMap[k] : k \in Keys}

Pass == [event : Events, index : Nat \ {0}, calling : BOOLEAN]

Init ==
    /\ mObservers = [e \in Events |-> <<>>]
    /\ mEventObserverMap = [k \in Keys |-> {}]
    /\ passes = <<>>

\* Only a callback, or whoever drives the scene, can call anything.
UserCode == Depth > 0 => Top.calling

-----------------------------------------------------------------------------
(* Calls. A list holds an observer at most once: a handler is allocated    *)
(* for the call that adds it, and clients are expected not to add twice.   *)

\* ObserverList::add, as a change of the lists.
Added(e, o) == [mObservers EXCEPT ![e] = Append(@, o)]

\* Mutant: the element is erased at once and the others move up.
Erased(s, S) == SelectSeq(s, LAMBDA o : o \notin S)

\* ObserverList::remove: the slot is emptied, nothing moves.
Emptied(s, S) == [k \in DOMAIN s |-> IF s[k] \in S THEN Null ELSE s[k]]

AddObserver(e, o) ==
    /\ UserCode
    /\ o \notin Registered(e)
    /\ Len(mObservers[e]) < MaxSlots
    /\ mObservers' = Added(e, o)
    /\ UNCHANGED <<mEventObserverMap, passes>>

RemoveObserver(e, o) ==
    /\ UserCode
    /\ mObservers' = [mObservers EXCEPT ![e] = Emptied(@, {o})]
    /\ UNCHANGED <<mEventObserverMap, passes>>

RemoveEverywhere(o) ==
    /\ UserCode
    /\ mObservers' = [e \in Events |-> Emptied(mObservers[e], {o})]
    /\ UNCHANGED <<mEventObserverMap, passes>>

\* AbstractScene::addEventObserver<e>(k, handler)
AddEventObserver(k, e, o) ==
    /\ UserCode
    /\ \A f \in Events : <<f, o>> \notin Owned
    /\ Len(mObservers[e]) < MaxSlots
    /\ mObservers' = Added(e, o)
    /\ mEventObserverMap' = [mEventObserverMap EXCEPT ![k] = @ \cup {<<e, o>>}]
    /\ UNCHANGED passes

\* AbstractScene::removeEventObservers(k): the handlers are destroyed.
RemoveEventObservers(k) ==
    /\ UserCode
    /\ mObservers' =
           [e \in Events |->
               Emptied(mObservers[e], {o \in Handlers : <<e, o>> \in mEventObserverMap[k]})]
    /\ mEventObserverMap' = [mEventObserverMap EXCEPT ![k] = {}]
    /\ UNCHANGED passes

\* sendEvent() enters forEach().
SendEvent(e) ==
    /\ UserCode
    /\ Depth < MaxDepth
    /\ passes' = Append(passes, [event |-> e, index |-> 1, calling |-> FALSE])
    /\ UNCHANGED <<mObservers, mEventObserverMap>>

-----------------------------------------------------------------------------
(* The loop of forEach(), in the innermost pass *)

\* mIterating == 1: no other pass over the same list is suspended.
Outermost == \A p \in 1 .. Depth - 1 : passes[p].event # Top.event

AtSlot ==
    /\ Depth > 0
    /\ ~Top.calling
    /\ Top.index <= Len(mObservers[Top.event])

Call(o) ==
    /\ AtSlot
    /\ o = mObservers[Top.event][Top.index]
    /\ o # Null
    /\ passes' = [passes EXCEPT ![Depth].calling = TRUE]
    /\ UNCHANGED <<mObservers, mEventObserverMap>>

Return ==
    /\ Depth > 0
    /\ Top.calling
    /\ passes' = [passes EXCEPT ![Depth].calling = FALSE, ![Depth].index = @ + 1]
    /\ UNCHANGED <<mObservers, mEventObserverMap>>

Skip ==
    /\ AtSlot
    /\ mObservers[Top.event][Top.index] = Null
    /\ ~Outermost
    /\ passes' = [passes EXCEPT ![Depth].index = @ + 1]
    /\ UNCHANGED <<mObservers, mEventObserverMap>>

\* Mutant: pop_back() without the move.
Dropped(s, i) == SubSeq(s, 1, Len(s) - 1)

\* The last slot fills the gap: slot i of s without slot i.
Moved(s, i) ==
    [k \in 1 .. Len(s) - 1 |-> IF k = i THEN s[Len(s)] ELSE s[k]]

Compact ==
    /\ AtSlot
    /\ mObservers[Top.event][Top.index] = Null
    /\ Outermost
    /\ mObservers' = [mObservers EXCEPT ![Top.event] = Moved(@, Top.index)]
    /\ UNCHANGED <<mEventObserverMap, passes>>

Finish ==
    /\ Depth > 0
    /\ ~Top.calling
    /\ Top.index > Len(mObservers[Top.event])
    /\ passes' = SubSeq(passes, 1, Depth - 1)
    /\ UNCHANGED <<mObservers, mEventObserverMap>>

-----------------------------------------------------------------------------
Next ==
    \/ \E e \in Events :
           \/ \E o \in Clients : AddObserver(e, o) \/ RemoveObserver(e, o)
           \/ \E k \in Keys, o \in Handlers : AddEventObserver(k, e, o)
           \/ SendEvent(e)
    \/ \E o \in Clients : RemoveEverywhere(o)
    \/ \E k \in Keys : RemoveEventObservers(k)
    \/ \E o \in Observers : Call(o)
    \/ Return \/ Skip \/ Compact \/ Finish

Spec == Init /\ [][Next]_vars

-----------------------------------------------------------------------------
(* Properties *)

\* Every variable keeps its type.
TypeOK ==
    /\ mObservers \in [Events -> Seq(Observers \cup {Null})]
    /\ mEventObserverMap \in [Keys -> SUBSET (Events \X Handlers)]
    /\ passes \in Seq(Pass)

\* The lists and the map of owners agree, whatever compaction does to the
\* slots: a live handler has exactly one slot, in the list of its event, and
\* no list keeps a pointer to a handler that was destroyed with its key.
Occupies(e, o) == {k \in Slots(e) : mObservers[e][k] = o}

HandlersListedOnce ==
    /\ TypeOK
    /\ \A e \in Events, o \in Handlers :
          IF <<e, o>> \in Owned
          THEN \E k \in Slots(e) : Occupies(e, o) = {k}
          ELSE Occupies(e, o) = {}

\* The list of any one event implements ObserverRegistry: each pass calls every
\* observer exactly once that is registered before it ends and not removed
\* before its turn, whatever the callbacks add, remove and send.
Running(e) == {p \in 1 .. Depth : passes[p].event = e}
FirstDue(p) == IF passes[p].calling THEN passes[p].index + 1 ELSE passes[p].index
Due(e, p) ==
    IF p \in Running(e)
    THEN {mObservers[e][k] : k \in FirstDue(p) .. Len(mObservers[e])} \ {Null}
    ELSE {}

Registry ==
    INSTANCE ObserverRegistry WITH
        Passes <- 1 .. MaxDepth,
        registered <- Registered(Watched),
        running <- Running(Watched),
        due <- [p \in 1 .. MaxDepth |-> Due(Watched, p)]

ImplementsRegistry == Registry!Spec

=============================================================================
