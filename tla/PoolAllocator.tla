--------------------------- MODULE PoolAllocator ----------------------------
(***************************************************************************)
(* The values of uniforms: GLES2Uniform allocates them from a static       *)
(* PoolAllocator, slots of one size cut from a MemoryPool and kept in a    *)
(* free list once they are freed. Memory is taken not to run out: operator *)
(* new would return null and the constructor of the value would crash.     *)
(***************************************************************************)
EXTENDS MemoryPool, FiniteSets

CONSTANTS
    Holders,       \* places that hold a GLES2Uniform
    SlotSize,      \* sizeof(ValueUnion)
    Null

ASSUME AllocatorAssumption ==
    /\ IsFiniteSet(Holders)
    /\ SlotSize \in Sizes
    /\ Null \notin Nat

VARIABLES
    mFreeList,      \* slots are named by their place in `allocated`
    mValue,         \* of every uniform: a slot, or null
    lost            \* history: slots that nothing refers to any more

slotVars == <<pool, mFreeList, mValue, lost>>

SlotsInit ==
    /\ PoolInit
    /\ mFreeList = <<>>
    /\ mValue = [u \in Holders |-> Null]
    /\ lost = {}

-----------------------------------------------------------------------------

\* The free list after reset(): `delete mValue` runs operator delete.
Freed(u) == IF mValue[u] = Null THEN mFreeList ELSE Append(mFreeList, mValue[u])

\* reset() and ~GLES2Uniform
ResetValue(u) ==
    /\ mFreeList' = Freed(u)
    /\ mValue' = [mValue EXCEPT ![u] = Null]
    /\ UNCHANGED <<pool, lost>>

\* Mutant: the slot that is handed out stays in the free list.
SetValueShared(u) ==
    IF Freed(u) # <<>>
    THEN /\ mValue' = [mValue EXCEPT ![u] = Freed(u)[Len(Freed(u))]]
         /\ mFreeList' = Freed(u)
         /\ UNCHANGED <<pool, lost>>
    ELSE /\ Alloc(SlotSize)
         /\ mValue' = [mValue EXCEPT ![u] = Len(allocated')]
         /\ UNCHANGED <<mFreeList, lost>>

\* setFloat() and the others: reset(), then operator new.
SetValue(u) ==
    IF Freed(u) # <<>>
    THEN /\ mValue' = [mValue EXCEPT ![u] = Freed(u)[Len(Freed(u))]]
         /\ mFreeList' = SubSeq(Freed(u), 1, Len(Freed(u)) - 1)
         /\ UNCHANGED <<pool, lost>>
    ELSE /\ Alloc(SlotSize)
         /\ mValue' = [mValue EXCEPT ![u] = Len(allocated')]
         /\ UNCHANGED <<mFreeList, lost>>

\* The move constructor (u had no value) and the move assignment, which drops
\* the value of u without a reset().
Move(u, w) ==
    /\ mValue' = [mValue EXCEPT ![u] = mValue[w], ![w] = Null]
    /\ lost' = lost \cup (({mValue[u]} \cup (IF u = w THEN {mValue[w]} ELSE {})) \ {Null})
    /\ UNCHANGED <<pool, mFreeList>>

SlotsNext ==
    \/ \E u \in Holders : ResetValue(u) \/ SetValue(u)
    \/ \E u, w \in Holders : Move(u, w)

SlotsSpec == SlotsInit /\ [][SlotsNext]_slotVars

-----------------------------------------------------------------------------
(* Properties *)

\* Every variable keeps its type.
SlotsTypeOK ==
    /\ PoolTypeOK
    /\ mFreeList \in Seq(DOMAIN allocated)
    /\ mValue \in [Holders -> DOMAIN allocated \cup {Null}]
    /\ lost \subseteq DOMAIN allocated

\* A slot that holds the value of a uniform is held by no other uniform and is
\* not in the free list, which holds no slot twice: whatever is set, reset and
\* moved, no value is overwritten while it is in use, and none is freed twice.
SlotsOwnedOnce ==
    /\ \A u, w \in Holders : mValue[u] = mValue[w] => u = w \/ mValue[u] = Null
    /\ \A k \in DOMAIN mFreeList :
          /\ \A u \in Holders : mValue[u] # mFreeList[k]
          /\ \A l \in DOMAIN mFreeList : mFreeList[k] = mFreeList[l] => k = l
          /\ mFreeList[k] \notin lost
    /\ \A u \in Holders : mValue[u] \notin lost
=============================================================================
