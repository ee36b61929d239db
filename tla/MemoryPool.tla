----------------------------- MODULE MemoryPool -----------------------------
(***************************************************************************)
(* MemoryPool::alloc: memory is cut from arenas that are never given back. *)
(* An arena has the usual size, or that of a request which is not smaller. *)
(* An address is an arena and an offset into it; what was allocated is     *)
(* remembered in order, as a history.                                      *)
(***************************************************************************)
EXTENDS Integers, Sequences

CONSTANTS
    mArenaSize,
    Sizes,          \* what is asked for
    MaxArenas       \* bound: arenas in the pool

ASSUME PoolAssumption ==
    /\ mArenaSize \in Nat
    /\ Sizes \subseteq Nat \ {0}

VARIABLES
    arenas,         \* from the oldest to the newest: size and bytesLeft
    allocated       \* history: the blocks alloc() has returned

pool == <<arenas, allocated>>

Arena == [size : Nat, bytesLeft : Nat]
Block == [arena : Nat, offset : Nat, size : Nat]

PoolInit ==
    /\ arenas = <<>>
    /\ allocated = <<>>

-----------------------------------------------------------------------------

\* The arenas that have room for a request. One of the size of an arena, or
\* larger, always gets an arena of its own.
WithRoom(size) ==
    IF size < mArenaSize
    THEN {i \in DOMAIN arenas : arenas[i].bytesLeft >= size}
    ELSE {}

\* Mutant: the offset is taken after bytesLeft has been reduced.
CutLate(i, size) ==
    /\ arenas' = [arenas EXCEPT ![i].bytesLeft = @ - size]
    /\ allocated' = Append(allocated,
                        [arena |-> i, offset |-> mArenaSize - arenas'[i].bytesLeft,
                         size |-> size])

\* The offset is counted from the usual size, whatever the arena's is.
Cut(i, size) ==
    /\ arenas' = [arenas EXCEPT ![i].bytesLeft = @ - size]
    /\ allocated' = Append(allocated,
                        [arena |-> i, offset |-> mArenaSize - arenas[i].bytesLeft,
                         size |-> size])

NewArena(size) ==
    LET arenaSize == IF size > mArenaSize THEN size ELSE mArenaSize IN
    /\ Len(arenas) < MaxArenas
    /\ arenas' = Append(arenas, [size |-> arenaSize, bytesLeft |-> arenaSize - size])
    /\ allocated' = Append(allocated,
                        [arena |-> Len(arenas) + 1, offset |-> 0, size |-> size])

\* The list is searched from the newest arena.
Alloc(size) ==
    IF WithRoom(size) # {}
    THEN \E i \in WithRoom(size) :
            /\ \A j \in WithRoom(size) : j <= i
            /\ Cut(i, size)
    ELSE NewArena(size)

\* malloc() fails: alloc() returns null.
OutOfMemory(size) ==
    /\ WithRoom(size) = {}
    /\ UNCHANGED pool

PoolNext == \E size \in Sizes : Alloc(size) \/ OutOfMemory(size)

PoolSpec == PoolInit /\ [][PoolNext]_pool

-----------------------------------------------------------------------------
(* Properties *)

\* The arenas and the blocks are what the code stores.
PoolTypeOK ==
    /\ arenas \in Seq(Arena)
    /\ allocated \in Seq(Block)

\* alloc() returns memory of the arena that it was cut from.
Inside(b) ==
    /\ b.arena \in DOMAIN arenas
    /\ b.offset + b.size <= arenas[b.arena].size

Apart(b, c) ==
    \/ b.arena # c.arena
    \/ b.offset + b.size <= c.offset
    \/ c.offset + c.size <= b.offset

\* No two requests are ever given the same byte, and all bytes exist, although
\* offsets are counted from a size that is not that of every arena.
BlocksDisjoint ==
    /\ \A k \in DOMAIN allocated : Inside(allocated[k])
    /\ \A k, l \in DOMAIN allocated : k # l => Apart(allocated[k], allocated[l])
=============================================================================
