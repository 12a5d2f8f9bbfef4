-------------------------------- MODULE Pools ---------------------------------
(***************************************************************************)
(* What a memory pool is to its users (src/core/utils/src/MemPool.h and    *)
(* MemPooler.h): a sequence of bytes that only grows at its end, that can  *)
(* be shortened there, or emptied.  A pool is lent to one user at a time   *)
(* and is empty when it is.                                                *)
(***************************************************************************)
EXTENDS Naturals, Sequences

CONSTANTS Id, Byte

VARIABLES lent,     \* the pools that are in use
          bytes     \* what each of them contains

Init == lent = {} /\ bytes = [p \in Id |-> <<>>]

Lend(p) ==
    /\ p \notin lent /\ bytes[p] = <<>>
    /\ lent' = lent \cup {p}
    /\ UNCHANGED bytes

Return(p) ==
    /\ p \in lent
    /\ lent' = lent \ {p}
    /\ bytes' = [bytes EXCEPT ![p] = <<>>]

Put(p, data) ==
    /\ p \in lent
    /\ bytes' = [bytes EXCEPT ![p] = @ \o data]
    /\ UNCHANGED lent

Shorten(p, n) ==
    /\ p \in lent
    /\ bytes' = [bytes EXCEPT ![p] = SubSeq(@, 1, n)]
    /\ UNCHANGED lent

\* The data put at once: what has been appended to the pool.
Added(p) == SubSeq(bytes'[p], Len(bytes[p]) + 1, Len(bytes'[p]))

Next == \E p \in Id :
    \/ Lend(p) \/ Return(p)
    \/ Added(p) \in Seq(Byte) /\ Put(p, Added(p))
    \/ \E n \in 0..Len(bytes[p]) : Shorten(p, n)

Spec == Init /\ [][Next]_<<lent, bytes>>
==============================================================================
