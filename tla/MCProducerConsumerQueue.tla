----------------------- MODULE MCProducerConsumerQueue -----------------------
(***************************************************************************)
(* A queue with all its users at once: the main thread posts to it, flushes *)
(* it and clears it, and two workers sleep on it and post to it.           *)
(***************************************************************************)
EXTENDS ProducerConsumerQueue, TLC

CONSTANTS main, w1, w2, load1, load2, del1

\* Destroying load1's context drops the last reference to a texture.
MCRelease == (load1 :> del1) @@ (load2 :> None) @@ (del1 :> None)

MCThreads == {main, w1, w2}
MCWorkers == {w1, w2}
MCItems == {load1, load2, del1}

=============================================================================
