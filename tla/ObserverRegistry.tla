-------------------------- MODULE ObserverRegistry --------------------------
(***************************************************************************)
(* What an observer list promises for one event: a pass over the list owes *)
(* one call to every observer that is registered, to those that register   *)
(* while it runs as well, and to nobody who has been removed. Passes may   *)
(* overlap; the order of the calls is not promised.                        *)
(***************************************************************************)
CONSTANTS
    Observers,
    Passes          \* names of the passes that may overlap

VARIABLES
    registered,     \* the observers of the event
    running,        \* the passes under way
    due             \* the observers each pass still has to call

vars == <<registered, running, due>>

Init ==
    /\ registered = {}
    /\ running = {}
    /\ due = [p \in Passes |-> {}]

Register(o) ==
    /\ o \notin registered
    /\ registered' = registered \cup {o}
    /\ due' = [p \in Passes |-> IF p \in running THEN due[p] \cup {o} ELSE {}]
    /\ UNCHANGED running

Unregister(S) ==
    /\ registered' = registered \ S
    /\ due' = [p \in Passes |-> due[p] \ S]
    /\ UNCHANGED running

Begin(p) ==
    /\ p \notin running
    /\ running' = running \cup {p}
    /\ due' = [due EXCEPT ![p] = registered]
    /\ UNCHANGED registered

Notify(p, o) ==
    /\ o \in due[p]
    /\ due' = [due EXCEPT ![p] = @ \ {o}]
    /\ UNCHANGED <<registered, running>>

End(p) ==
    /\ p \in running
    /\ due[p] = {}
    /\ running' = running \ {p}
    /\ UNCHANGED <<registered, due>>

Next ==
    \/ \E o \in Observers : Register(o)
    \/ \E S \in SUBSET Observers : Unregister(S)
    \/ \E p \in Passes : Begin(p) \/ End(p) \/ \E o \in Observers : Notify(p, o)

Spec == Init /\ [][Next]_vars

=============================================================================
