------------------------------- MODULE MemPooler ------------------------------
(***************************************************************************)
(* The memory pooler, src/core/utils/src/MemPooler.cpp, with the pools it  *)
(* lends (MemPool) and what their users do to them.  The pooler keeps its  *)
(* pools by their chunk size.                                              *)
(***************************************************************************)
EXTENDS MemPool

CONSTANTS
    Id,           \* names of pools
    Sizes,        \* the chunk sizes that are asked for
    Puts,         \* what users put, of Seq(Byte)
    MaxPools,     \* MAX_POOLS_COUNT
    MaxBytes,     \* bound of the model: MaxBytes[id] is what a pool contains at most
    MaxChunks     \* bound of the model: how far chunksCount and chunkIndex go in it

ASSUME PoolerAssumption ==
    /\ Puts \subseteq Seq(Byte) /\ MaxPools \in Nat /\ Sizes \subseteq Nat
    /\ MaxBytes \in [Id -> Nat] /\ MaxChunks \in [Id -> Nat]

VARIABLES
    used,         \* used[s]: the pools in use; their order means nothing
    unused,       \* unused[s]: the pools to be lent again, a stack
    pool          \* the pools, by name

poolVars == <<used, unused, pool>>

PoolsInit ==
    /\ used = [s \in Sizes |-> {}]
    /\ unused = [s \in Sizes |-> <<>>]
    /\ pool = [id \in Id |-> NewPool(0)]

InUse == UNION {used[s] : s \in Sizes}
Kept(s) == {unused[s][i] : i \in DOMAIN unused[s]}
Existing == InUse \cup UNION {Kept(s) : s \in Sizes}

\* Mutation of ObtainKept: the pool stays on the stack.
ObtainTwice(s) ==
    /\ unused[s] # <<>>
    /\ used' = [used EXCEPT ![s] = @ \cup {Last(unused[s])}]
    /\ UNCHANGED <<unused, pool>>

\* obtain, lines 45-62: the pool kept last,
ObtainKept(s) ==
    /\ unused[s] # <<>>
    /\ used' = [used EXCEPT ![s] = @ \cup {Last(unused[s])}]
    /\ unused' = [unused EXCEPT ![s] = Front(@)]
    /\ UNCHANGED pool

\* or a new one.
ObtainNew(s, id) ==
    /\ unused[s] = <<>> /\ id \notin Existing
    /\ used' = [used EXCEPT ![s] = @ \cup {id}]
    /\ pool' = [pool EXCEPT ![id] = NewPool(s)]
    /\ UNCHANGED unused

\* Mutation of Recycle: the pool is not reset.
RecycleDirty(id) ==
    LET s == pool[id].size IN
    /\ id \in InUse
    /\ used' = [used EXCEPT ![s] = @ \ {id}]
    /\ IF Len(unused[s]) >= MaxPools
       THEN /\ pool' = [pool EXCEPT ![id] = NewPool(0)]
            /\ UNCHANGED unused
       ELSE /\ unused' = [unused EXCEPT ![s] = Append(@, id)]
            /\ pool' = [pool EXCEPT ![id] = Trim(@)]

\* recycle, lines 64-82: the pool is deleted, or emptied and kept.
Recycle(id) ==
    LET s == pool[id].size IN
    /\ id \in InUse
    /\ used' = [used EXCEPT ![s] = @ \ {id}]
    /\ IF Len(unused[s]) >= MaxPools
       THEN /\ pool' = [pool EXCEPT ![id] = NewPool(0)]
            /\ UNCHANGED unused
       ELSE /\ unused' = [unused EXCEPT ![s] = Append(@, id)]
            /\ pool' = [pool EXCEPT ![id] = Trim(Reset(@))]

\* What the user of a pool does to it.
Use(id, p) ==
    /\ id \in InUse
    /\ pool' = [pool EXCEPT ![id] = p]
    /\ UNCHANGED <<used, unused>>

HasRoom(id, n) ==
    /\ pool[id].count < MaxChunks[id] /\ pool[id].index < MaxChunks[id]
    /\ GetSize(pool[id]) + n <= MaxBytes[id]

UserPuts(id) == \E data \in Puts : HasRoom(id, Len(data)) /\ Use(id, Put(pool[id], data))
UserPutsString(id) ==
    \E data \in Puts :
        /\ HasRoom(id, Len(data) + 1)
        /\ Use(id, PutString(pool[id], data))
UserShrinks(id) == \E n \in 1..MaxBytes[id] : CanShrink(pool[id], n) /\ Use(id, Shrink(pool[id], n))
UserResets(id) == Use(id, Reset(pool[id]))
UserFrees(id) == Use(id, Free(pool[id]))
UserFlattens(id) == \E extra \in {0, 1} : Use(id, Flatten(pool[id], extra))
UserReserves(id) == \E n \in 1..MaxBytes[id] : HasRoom(id, 0) /\ Use(id, Reserve(pool[id], n))

PoolsNext ==
    \/ \E s \in Sizes : ObtainKept(s) \/ \E id \in Id : ObtainNew(s, id)
    \/ \E id \in Id :
         \/ Recycle(id)
         \/ UserPuts(id) \/ UserPutsString(id) \/ UserShrinks(id)
         \/ UserResets(id) \/ UserFrees(id) \/ UserFlattens(id) \/ UserReserves(id)

PoolsSpec == PoolsInit /\ [][PoolsNext]_poolVars

-----------------------------------------------------------------------------
\* Types.
PoolsTypeOK ==
    /\ used \in [Sizes -> SUBSET Id]
    /\ unused \in [Sizes -> Seq(Id)]
    /\ \A id \in Id :
         /\ pool[id].cur \in 0..Len(pool[id].chunks)
         /\ pool[id].count \in 0..Len(pool[id].chunks)
         /\ \A i \in DOMAIN pool[id].chunks : pool[id].chunks[i].data \in Seq(Byte)

\* No pool has two users, none is lent while it is kept, and it goes back to
\* the size it was made for (obtain and recycle, MemPooler.cpp lines 45-82).
OneUserPerPool ==
    /\ \A s \in Sizes : IsInjective(unused[s]) /\ used[s] \cap Kept(s) = {}
    /\ \A s, r \in Sizes :
         s # r => (used[s] \cup Kept(s)) \cap (used[r] \cup Kept(r)) = {}
    /\ \A s \in Sizes : \A id \in used[s] \cup Kept(s) : pool[id].size = s

\* The pooler keeps MAX_POOLS_COUNT pools of a size at most.
KeptBounded == \A s \in Sizes : Len(unused[s]) <= MaxPools

\* What the pooler keeps of the pools, lent or kept.
LendingInv == OneUserPerPool /\ KeptBounded

\* Nothing is put beyond the end of a buffer, and the chunk in use is one of
\* the table that has been counted, whatever order the table was filled in.
WithinBuffers ==
    \A id \in InUse :
        /\ pool[id].cur <= pool[id].count
        /\ \A i \in 1..pool[id].count :
             Len(pool[id].chunks[i].data) <= pool[id].chunks[i].cap

\* The response is written from the first getChunkCount chunks
\* (modules/share/ngrest_server.cpp lines 184-196), its length is getSize: the
\* chunks behind the one in use are empty, although the count goes on after
\* reset (MemPool.cpp lines 41-50 and 170) and a full table is entered behind
\* the chunks that are empty (line 167).
CountedChunksAreContents ==
    \A id \in InUse : DataTo(pool[id], pool[id].count) = Contents(pool[id])

\* What a pool's bookkeeping keeps of its chunks, over any calls and over reuse.
ContentsInv == PoolsTypeOK /\ WithinBuffers /\ CountedChunksAreContents

\* A pool is what its users put into it: the chunks, the table and the pools
\* used again implement Pools.
Abstract == INSTANCE Pools WITH
    lent  <- InUse,
    bytes <- [id \in Id |-> Contents(pool[id])]
PoolsKeepContents == Abstract!Spec

\* flatten and reserve move the contents to other buffers and change nothing of
\* them, wherever the table's chunks come from (MemPool.cpp lines 97-150).
MovingKeepsContents ==
    [][\A id \in Id : UserFlattens(id) \/ UserReserves(id)
           => Contents(pool[id])' = Contents(pool[id])]_poolVars

\* Both: the bytes of a pool change as its user's calls say.
PoolsKeepBytes == PoolsKeepContents /\ MovingKeepsContents

\* getChunkCount is "number of chunks allocated", MemPool.h lines 162-169.
ChunkCountIsAllocated ==
    \A id \in InUse :
        pool[id].count = Cardinality({i \in DOMAIN pool[id].chunks : pool[id].chunks[i].cap > 0})

\* free does "free all allocated memory", MemPool.h lines 111-114.
FreeReleasesAll == \A id \in InUse : Unreleased(pool[id]) = {}
==============================================================================
