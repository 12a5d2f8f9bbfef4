------------------------------- MODULE MemPool --------------------------------
(***************************************************************************)
(* A memory pool, src/core/utils/src/MemPool.h and MemPool.cpp, as a       *)
(* record and one operator per operation:                                  *)
(*   chunks   the table of chunks; its length is chunksReserved            *)
(*   count    chunksCount                                                  *)
(*   index    chunkIndex                                                   *)
(*   cur      the position of currChunk in the table, 0 for null           *)
(*   size     chunkSize, the capacity of a new chunk                       *)
(* A chunk has the capacity of its buffer (0: there is none) and what is   *)
(* in the buffer.  Positions start at 1.                                   *)
(***************************************************************************)
EXTENDS Naturals, Sequences, FiniteSets, SequencesExt

CONSTANTS
    Byte,
    NUL,           \* the terminator of C strings
    TableStep      \* NGREST_MEMPOOL_CHUNK_RESERVE

ASSUME MemPoolAssumption == NUL \in Byte /\ TableStep \in Nat \ {0}

Greater(a, b) == IF a > b THEN a ELSE b

NoChunk == [cap |-> 0, data |-> <<>>]

NewPool(chunkSize) ==
    [chunks |-> <<>>, count |-> 0, index |-> 0, cur |-> 0, size |-> chunkSize]

\* The data of the chunks up to position n, one after the other.
DataTo(p, n) == FlattenSeq([i \in 1..n |-> p.chunks[i].data])

\* What the pool contains: the chunks up to currChunk.
Contents(p) == DataTo(p, p.cur)

\* getSize, MemPool.h lines 238-246.
GetSize(p) == Len(Contents(p))

\* newChunk, MemPool.cpp lines 153-182.  A full table is enlarged and the new
\* chunk is the first of the new ones; otherwise it is the next in the table,
\* with the buffer that is there if it is large enough.
NewChunk(p, n) ==
    LET full  == p.count + 1 > Len(p.chunks)
        table == IF full
                 THEN [i \in 1..(p.count + TableStep) |->
                          IF i <= p.count THEN p.chunks[i] ELSE NoChunk]
                 ELSE p.chunks
        cur   == IF full THEN p.count + 1 ELSE p.cur + 1
    IN  [p EXCEPT !.chunks = [table EXCEPT ![cur] = [cap  |-> Greater(@.cap, n),
                                                     data |-> <<>>]],
                  !.count = @ + 1, !.index = @ + 1, !.cur = cur]

\* Does grow, MemPool.h lines 206-218, need a new chunk for n bytes?
NeedsChunk(p, n) ==
    p.cur = 0 \/ Len(p.chunks[p.cur].data) + n > p.chunks[p.cur].cap

\* grow and the writing of what the caller puts there: putData, putChar, alloc.
Put(p, data) ==
    LET q == IF NeedsChunk(p, Len(data)) THEN NewChunk(p, Greater(Len(data), p.size)) ELSE p
    IN  [q EXCEPT !.chunks[q.cur].data = @ \o data]

\* putCString with a size and a terminator, lines 73-79.
PutString(p, data) == Put(Put(p, data), <<NUL>>)

\* shrinkLastChunk, MemPool.h lines 225-232, when it succeeds.
CanShrink(p, n) == p.cur # 0 /\ Len(p.chunks[p.cur].data) >= n
Shrink(p, n) ==
    [p EXCEPT !.chunks[p.cur].data = SubSeq(@, 1, Len(@) - n)]

\* Mutation of Reset: only the chunk in use is emptied.
ResetCurrent(p) ==
    IF p.chunks = <<>> THEN p
    ELSE [p EXCEPT !.chunks[p.cur].data = <<>>, !.cur = 1, !.index = 0]

\* reset, lines 41-50.
Reset(p) ==
    IF p.chunks = <<>> THEN p
    ELSE [p EXCEPT !.chunks = [i \in DOMAIN p.chunks |->
                                  IF i <= p.count THEN [p.chunks[i] EXCEPT !.data = <<>>]
                                  ELSE p.chunks[i]],
                   !.cur = 1, !.index = 0]

\* free, lines 52-61.  chunkIndex stays.
Free(p) == [p EXCEPT !.chunks = <<>>, !.count = 0, !.cur = 0]

\* The buffers that free does not release.
Unreleased(p) == {i \in DOMAIN p.chunks : i > p.count /\ p.chunks[i].cap > 0}

\* trim, lines 86-95.
Trim(p) ==
    LET excess == p.count - (p.index + 1) IN
    IF p.index + 1 >= p.count THEN p
    ELSE [p EXCEPT !.chunks = [i \in DOMAIN p.chunks |->
                                  IF i \in p.cur + 1 .. p.cur + excess THEN NoChunk
                                  ELSE p.chunks[i]],
                   !.count = p.index + 1]

\* flatten, lines 97-132; extra is 1 for the terminator, which is behind the
\* contents and not of them.
Flatten(p, extra) ==
    IF p.count = 0 THEN p
    ELSE [p EXCEPT !.chunks = [i \in DOMAIN p.chunks |->
                                  IF i = 1 THEN [cap  |-> Greater(p.chunks[1].cap, GetSize(p) + extra),
                                                 data |-> Contents(p)]
                                  ELSE IF i <= p.cur THEN NoChunk ELSE p.chunks[i]],
                   !.count = 1, !.cur = 1, !.index = 0]

\* reserve, lines 134-150.
Reserve(p, n) ==
    IF p.count = 0 THEN NewChunk(p, Greater(n, p.size))
    ELSE [p EXCEPT !.chunks[p.cur].cap = Greater(@, n)]
==============================================================================
