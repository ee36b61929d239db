------------------------------ MODULE FifoQueue ------------------------------
(***************************************************************************)
(* What a ProducerConsumerQueue promises to the engine: every operation is *)
(* one indivisible step, items leave in the order they entered, and an     *)
(* item leaves once, either to one caller or by clear(). ThreadManager and *)
(* ResourceLoading rely on this; ProducerConsumerQueue implements it.      *)
(***************************************************************************)
EXTENDS Sequences

CONSTANT Items          \* the closures that are enqueued

VARIABLES
    queue,              \* the items inside, oldest first
    entered,            \* the items that entered, in order
    handed,             \* the items handed to a caller, in order
    cleared             \* the items removed by clear(), in order

Init ==
    /\ queue = <<>>
    /\ entered = <<>>
    /\ handed = <<>>
    /\ cleared = <<>>

Put(i) ==
    /\ queue' = Append(queue, i)
    /\ entered' = Append(entered, i)
    /\ UNCHANGED <<handed, cleared>>

Take ==
    /\ queue # <<>>
    /\ queue' = Tail(queue)
    /\ handed' = Append(handed, Head(queue))
    /\ UNCHANGED <<entered, cleared>>

Clear ==
    /\ cleared' = cleared \o queue
    /\ queue' = <<>>
    /\ UNCHANGED <<entered, handed>>

Next == (\E i \in Items : Put(i)) \/ Take \/ Clear

Spec == Init /\ [][Next]_<<queue, entered, handed, cleared>>

=============================================================================
