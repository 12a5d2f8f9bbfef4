---------------------------- MODULE MemPoolProofs -----------------------------
(***************************************************************************)
(* For any number of pools, sizes and limits: the pooler lends a pool to   *)
(* one user at a time, never one that it keeps, and keeps no more pools    *)
(* than it should; and the pools, with their tables of chunks, are what    *)
(* Pools says: the bytes that their users have put, and nothing else.      *)
(***************************************************************************)
EXTENDS MemPooler, SequenceTheorems, Numbers, TLAPS

Fields == {"chunks", "count", "index", "cur", "size"}

\* What the pooler's lists and the pools are.
ListTypes ==
    /\ used \in [Sizes -> SUBSET Id]
    /\ unused \in [Sizes -> Seq(Id)]
    /\ DOMAIN pool = Id
    /\ \A id \in Id : DOMAIN pool[id] = Fields

\* No pool is on a stack twice, or there and in use.
Distinct ==
    \A s \in Sizes :
        /\ \A i, j \in DOMAIN unused[s] : unused[s][i] = unused[s][j] => i = j
        /\ used[s] \cap Kept(s) = {}

\* A pool in one of the lists of a size has that size.
OwnSize == \A s \in Sizes : \A id \in used[s] \cup Kept(s) : pool[id].size = s

PoolerInv == ListTypes /\ Distinct /\ OwnSize /\ KeptBounded

\* q has the fields and the chunk size of p.
Alike(p, q) == DOMAIN q = Fields /\ q.size = p.size

\* No operation changes the chunk size of a pool.
LEMMA NewChunkAlike ==
    ASSUME NEW p, NEW n, DOMAIN p = Fields
    PROVE  Alike(p, NewChunk(p, n))
  BY DEF NewChunk, Alike, Fields

LEMMA PutAlike ==
    ASSUME NEW p, NEW data, DOMAIN p = Fields
    PROVE  Alike(p, Put(p, data))
<1> DEFINE q == IF NeedsChunk(p, Len(data)) THEN NewChunk(p, Greater(Len(data), p.size)) ELSE p
<1>1. Alike(p, q)
  BY NewChunkAlike DEF Alike
<1>2. Put(p, data) = [q EXCEPT !.chunks[q.cur].data = @ \o data]
  BY DEF Put
<1>3. QED
  BY <1>1, <1>2 DEF Alike, Fields

LEMMA OperationsAlike ==
    ASSUME NEW p, NEW n, NEW data, DOMAIN p = Fields
    PROVE  /\ Alike(p, PutString(p, data))
           /\ Alike(p, Shrink(p, n))
           /\ Alike(p, Reset(p))
           /\ Alike(p, Free(p))
           /\ Alike(p, Trim(p))
           /\ Alike(p, Flatten(p, n))
           /\ Alike(p, Reserve(p, n))
<1>1. Alike(p, PutString(p, data))
  <2>1. Alike(p, Put(p, data))
    BY PutAlike
  <2>2. Alike(Put(p, data), Put(Put(p, data), <<NUL>>))
    BY <2>1, PutAlike DEF Alike
  <2>3. QED
    BY <2>1, <2>2 DEF PutString, Alike
<1>2. Alike(p, Shrink(p, n))
  BY DEF Shrink, Alike, Fields
<1>3. Alike(p, Reset(p))
  BY DEF Reset, Alike, Fields
<1>4. Alike(p, Free(p))
  BY DEF Free, Alike, Fields
<1>5. Alike(p, Trim(p))
  BY DEF Trim, Alike, Fields
<1>6. Alike(p, Flatten(p, n))
  BY DEF Flatten, Alike, Fields
<1>7. Alike(p, Reserve(p, n))
  BY NewChunkAlike DEF Reserve, Alike, Fields
<1>8. QED
  BY <1>1, <1>2, <1>3, <1>4, <1>5, <1>6, <1>7

LEMMA PoolsInitInv == PoolsInit => PoolerInv
  BY PoolerAssumption
  DEF PoolsInit, PoolerInv, ListTypes, Distinct, OwnSize, KeptBounded, Kept, NewPool, Fields

\* A pool in use is in the list of its own size.
LEMMA InUseSize ==
    ASSUME PoolerInv, NEW id \in InUse
    PROVE  id \in Id /\ pool[id].size \in Sizes /\ id \in used[pool[id].size]
  BY DEF PoolerInv, ListTypes, OwnSize, InUse

\* What the user of a pool does leaves the lists and the sizes alone.
LEMMA UseInv ==
    ASSUME PoolerInv, NEW id \in Id, NEW p, Use(id, p), Alike(pool[id], p)
    PROVE  PoolerInv'
<1>1. \A i \in Id : pool'[i].size = pool[i].size /\ DOMAIN pool'[i] = Fields
  BY DEF Use, Alike, PoolerInv, ListTypes
<1>2. \A s \in Sizes : Kept(s)' = Kept(s)
  BY DEF Use, Kept
<1>3. ListTypes'
  BY <1>1 DEF Use, PoolerInv, ListTypes
<1>4. Distinct' /\ KeptBounded'
  BY <1>2 DEF Use, PoolerInv, Distinct, KeptBounded
<1>5. \A s \in Sizes : used[s] \cup Kept(s) \subseteq Id
  BY DEF PoolerInv, ListTypes, Kept
<1>6. OwnSize'
  BY <1>1, <1>2, <1>5 DEF Use, PoolerInv, OwnSize
<1>7. QED
  BY <1>3, <1>4, <1>6 DEF PoolerInv

LEMMA UserInv ==
    ASSUME PoolerInv, NEW id \in Id,
           \/ UserPuts(id) \/ UserPutsString(id) \/ UserShrinks(id)
           \/ UserResets(id) \/ UserFrees(id) \/ UserFlattens(id) \/ UserReserves(id)
    PROVE  PoolerInv'
<1>1. DOMAIN pool[id] = Fields
  BY DEF PoolerInv, ListTypes
<1>2. CASE UserPuts(id)
  BY <1>1, <1>2, PutAlike, UseInv DEF UserPuts
<1>3. CASE UserPutsString(id)
  BY <1>1, <1>3, OperationsAlike, UseInv DEF UserPutsString
<1>4. CASE UserShrinks(id)
  BY <1>1, <1>4, OperationsAlike, UseInv DEF UserShrinks
<1>5. CASE UserResets(id)
  BY <1>1, <1>5, OperationsAlike, UseInv DEF UserResets
<1>6. CASE UserFrees(id)
  BY <1>1, <1>6, OperationsAlike, UseInv DEF UserFrees
<1>7. CASE UserFlattens(id)
  BY <1>1, <1>7, OperationsAlike, UseInv DEF UserFlattens
<1>8. CASE UserReserves(id)
  BY <1>1, <1>8, OperationsAlike, UseInv DEF UserReserves
<1>9. QED
  BY <1>2, <1>3, <1>4, <1>5, <1>6, <1>7, <1>8

\* obtain moves the pool kept last to those in use.
LEMMA ObtainKeptInv ==
    ASSUME PoolerInv, NEW s \in Sizes, ObtainKept(s)
    PROVE  PoolerInv'
<1> DEFINE u == unused[s]
           n == Len(u)
<1> USE DEF PoolerInv, ListTypes
<1>1. u \in Seq(Id) /\ n \in Nat \ {0} /\ u[n] \in Id /\ Last(u) = u[n]
  BY DEF ObtainKept, Last
<1>2. unused'[s] = SubSeq(u, 1, n - 1) /\ used'[s] = used[s] \cup {u[n]}
  BY <1>1 DEF ObtainKept, Front
<1>3. \A r \in Sizes \ {s} : unused'[r] = unused[r] /\ used'[r] = used[r]
  BY DEF ObtainKept
<1>4. /\ Len(unused'[s]) = n - 1 /\ DOMAIN unused'[s] = 1 .. n - 1
      /\ \A i \in 1 .. n - 1 : unused'[s][i] = u[i]
      /\ unused'[s] \in Seq(Id)
  <2>1. ASSUME NEW w \in Seq(Id), NEW m \in Nat \ {0}, m = Len(w)
        PROVE  /\ SubSeq(w, 1, m - 1) \in Seq(Id) /\ Len(SubSeq(w, 1, m - 1)) = m - 1
               /\ \A i \in 1 .. m - 1 : SubSeq(w, 1, m - 1)[i] = w[i]
    BY <2>1
  <2>2. unused'[s] \in Seq(Id) /\ Len(unused'[s]) = n - 1
        /\ \A i \in 1 .. n - 1 : unused'[s][i] = u[i]
    <3>1. /\ SubSeq(u, 1, n - 1) \in Seq(Id) /\ Len(SubSeq(u, 1, n - 1)) = n - 1
          /\ \A i \in 1 .. n - 1 : SubSeq(u, 1, n - 1)[i] = u[i]
      BY <1>1, <2>1
    <3>2. QED
      BY <1>2, <3>1
  <2>3. QED
    BY <2>2
<1>5. DOMAIN u = 1..n
  BY <1>1
<1>6. ListTypes'
  BY <1>1, <1>4 DEF ObtainKept
<1>7. Kept(s)' \subseteq Kept(s) \ {u[n]} /\ \A r \in Sizes \ {s} : Kept(r)' = Kept(r)
  <2>1. \A i \in 1 .. n - 1 : i \in DOMAIN u /\ n \in DOMAIN u /\ u[i] # u[n]
    BY <1>1, <1>5 DEF Distinct
  <2>2. Kept(s)' = {unused'[s][i] : i \in 1 .. n - 1} /\ Kept(s) = {u[i] : i \in DOMAIN u}
    BY <1>4 DEF Kept
  <2>3. Kept(s)' \subseteq Kept(s) \ {u[n]}
    BY <1>4, <2>1, <2>2
  <2>4. \A r \in Sizes \ {s} : Kept(r)' = Kept(r)
    BY <1>3 DEF Kept
  <2>5. QED
    BY <2>3, <2>4
<1>8. u[n] \in Kept(s)
  BY <1>1, <1>5 DEF Kept
<1>9. Distinct'
  <2>1. ASSUME NEW r \in Sizes
        PROVE  /\ \A i, j \in DOMAIN unused'[r] : unused'[r][i] = unused'[r][j] => i = j
               /\ used'[r] \cap Kept(r)' = {}
    <3>1. CASE r = s
      <4>1. \A i, j \in 1 .. n - 1 : i \in DOMAIN u /\ j \in DOMAIN u
        BY <1>1, <1>5
      <4>2. \A i, j \in DOMAIN unused'[s] : unused'[s][i] = unused'[s][j] => i = j
        BY <1>4, <4>1 DEF Distinct
      <4>3. used'[s] \cap Kept(s)' = {}
        BY <1>2, <1>7 DEF Distinct
      <4>4. QED
        BY <3>1, <4>2, <4>3
    <3>2. CASE r # s
      BY <2>1, <3>2, <1>3, <1>7 DEF Distinct
    <3>3. QED
      BY <3>1, <3>2
  <2>2. QED
    BY <2>1 DEF Distinct
<1>10. OwnSize'
  BY <1>2, <1>3, <1>7, <1>8 DEF OwnSize, ObtainKept
<1>11. KeptBounded'
  <2>1. Len(unused'[s]) <= MaxPools
    BY <1>1, <1>4, PoolerAssumption DEF KeptBounded
  <2>2. QED
    BY <1>3, <2>1 DEF KeptBounded
<1>12. QED
  BY <1>6, <1>9, <1>10, <1>11

\* Or it makes a pool that is in no list.
LEMMA ObtainNewInv ==
    ASSUME PoolerInv, NEW s \in Sizes, NEW id \in Id, ObtainNew(s, id)
    PROVE  PoolerInv'
<1> USE DEF PoolerInv, ListTypes
<1>1. \A r \in Sizes : id \notin used[r] /\ id \notin Kept(r)
  BY DEF ObtainNew, Existing, InUse
<1>2. \A r \in Sizes : Kept(r)' = Kept(r)
  BY DEF ObtainNew, Kept
<1>3. pool'[id].size = s /\ DOMAIN pool'[id] = Fields
      /\ \A i \in Id \ {id} : pool'[i] = pool[i]
  BY DEF ObtainNew, NewPool, Fields
<1>4. ListTypes'
  BY <1>3 DEF ObtainNew
<1>5. Distinct' /\ KeptBounded'
  BY <1>1, <1>2 DEF ObtainNew, Distinct, KeptBounded
<1>6. \A r \in Sizes : Kept(r) \subseteq Id
  BY DEF Kept
<1>7. OwnSize'
  <2>1. ASSUME NEW r \in Sizes, NEW i \in (used[r] \cup Kept(r))'
        PROVE  pool'[i].size = r
    <3>1. CASE i = id
      BY <2>1, <3>1, <1>1, <1>2, <1>3 DEF ObtainNew
    <3>2. CASE i # id
      BY <2>1, <3>2, <1>2, <1>3, <1>6 DEF ObtainNew, OwnSize
    <3>3. QED
      BY <3>1, <3>2
  <2>2. QED
    BY <2>1 DEF OwnSize
<1>8. QED
  BY <1>4, <1>5, <1>7

\* recycle takes a pool from those in use and keeps it, if there is room.
LEMMA RecycleInv ==
    ASSUME PoolerInv, NEW id \in Id, Recycle(id)
    PROVE  PoolerInv'
<1> USE DEF PoolerInv, ListTypes
<1>0. PICK s \in Sizes : s = pool[id].size /\ id \in used[s]
  BY InUseSize DEF Recycle
<1> DEFINE u == unused[s]
<1>1. s \in Sizes /\ s = pool[id].size /\ id \in used[s] /\ id \notin Kept(s)
  BY <1>0 DEF Distinct
<1>2. \A r \in Sizes \ {s} : id \notin used[r] /\ id \notin Kept(r)
  BY <1>1 DEF OwnSize
<1>3. used' = [used EXCEPT ![s] = @ \ {id}]
  BY <1>1 DEF Recycle
<1>4. \A r \in Sizes : Kept(r) \subseteq Id
  BY DEF Kept
<1>5. CASE Len(u) >= MaxPools
  <2>1. unused' = unused /\ pool' = [pool EXCEPT ![id] = NewPool(0)]
    BY <1>1, <1>5 DEF Recycle
  <2>2. \A r \in Sizes : Kept(r)' = Kept(r)
    BY <2>1 DEF Kept
  <2>3. ListTypes'
    BY <1>1, <1>3, <2>1 DEF NewPool, Fields
  <2>4. Distinct' /\ KeptBounded'
    BY <1>1, <1>3, <2>1, <2>2 DEF Distinct, KeptBounded
  <2>5. OwnSize'
    BY <1>1, <1>2, <1>3, <1>4, <2>1, <2>2 DEF OwnSize
  <2>6. QED
    BY <2>3, <2>4, <2>5
<1>6. CASE ~(Len(u) >= MaxPools)
  <2>1. unused' = [unused EXCEPT ![s] = Append(@, id)]
        /\ pool' = [pool EXCEPT ![id] = Trim(Reset(pool[id]))]
    BY <1>1, <1>6 DEF Recycle
  <2>2. Alike(pool[id], Trim(Reset(pool[id])))
    <3>1. Alike(pool[id], Reset(pool[id]))
      BY OperationsAlike
    <3>2. Alike(Reset(pool[id]), Trim(Reset(pool[id])))
      BY <3>1, OperationsAlike DEF Alike
    <3>3. QED
      BY <3>1, <3>2 DEF Alike
  <2>3. u \in Seq(Id) /\ unused'[s] = Append(u, id) /\ \A r \in Sizes \ {s} : unused'[r] = unused[r]
    BY <1>1, <2>1
  <2>4. /\ Len(unused'[s]) = Len(u) + 1 /\ DOMAIN unused'[s] = 1 .. Len(u) + 1
        /\ DOMAIN u = 1..Len(u)
        /\ \A i \in 1..Len(u) : unused'[s][i] = u[i]
        /\ unused'[s][Len(u) + 1] = id /\ unused'[s] \in Seq(Id)
    BY <2>3
  <2>5. Kept(s)' = Kept(s) \cup {id} /\ \A r \in Sizes \ {s} : Kept(r)' = Kept(r)
    <3>1. Kept(s)' = {unused'[s][i] : i \in 1 .. Len(u) + 1} /\ Kept(s) = {u[i] : i \in 1..Len(u)}
      BY <2>4 DEF Kept
    <3>2. Len(u) + 1 \in 1 .. Len(u) + 1 /\ 1..Len(u) \subseteq 1 .. Len(u) + 1
          /\ 1 .. Len(u) + 1 = (1..Len(u)) \cup {Len(u) + 1}
      BY <2>3
    <3>3. Kept(s)' = Kept(s) \cup {id}
      BY <2>4, <3>1, <3>2
    <3>4. \A r \in Sizes \ {s} : Kept(r)' = Kept(r)
      BY <2>3 DEF Kept
    <3>5. QED
      BY <3>3, <3>4
  <2>6. ListTypes'
    BY <1>1, <1>3, <2>1, <2>2, <2>4 DEF Alike
  <2>7. Distinct'
    <3>1. ASSUME NEW r \in Sizes, r # s
          PROVE  /\ \A i, j \in DOMAIN unused'[r] : unused'[r][i] = unused'[r][j] => i = j
                 /\ used'[r] \cap Kept(r)' = {}
      BY <3>1, <1>3, <2>3, <2>5 DEF Distinct
    <3>2. \A i \in 1..Len(u) : u[i] # id
      BY <1>1, <2>4 DEF Kept
    <3>3. \A i, j \in DOMAIN unused'[s] : unused'[s][i] = unused'[s][j] => i = j
      BY <1>1, <2>3, <2>4, <3>2 DEF Distinct
    <3>4. used'[s] \cap Kept(s)' = {}
      BY <1>1, <1>3, <2>5 DEF Distinct
    <3>5. \A r \in Sizes : /\ \A i, j \in DOMAIN unused'[r] : unused'[r][i] = unused'[r][j] => i = j
                           /\ used'[r] \cap Kept(r)' = {}
      BY <3>1, <3>3, <3>4
    <3>6. QED
      BY <3>5 DEF Distinct
  <2>8. OwnSize'
    BY <1>1, <1>2, <1>3, <1>4, <2>1, <2>2, <2>5 DEF OwnSize, Alike
  <2>9. KeptBounded'
    <3>1. Len(unused'[s]) <= MaxPools
      <4>1. Len(u) \in Nat /\ MaxPools \in Nat
        BY <2>3, PoolerAssumption
      <4>2. QED
        BY <1>6, <2>4, <4>1
    <3>2. QED
      BY <2>3, <3>1 DEF KeptBounded
  <2>10. QED
    BY <2>6, <2>7, <2>8, <2>9
<1>7. QED
  BY <1>5, <1>6

LEMMA PoolerStepInv ==
    ASSUME PoolerInv, [PoolsNext]_poolVars
    PROVE  PoolerInv'
<1>1. CASE UNCHANGED poolVars
  BY <1>1 DEF PoolerInv, ListTypes, Distinct, OwnSize, KeptBounded, Kept, poolVars
<1>2. CASE PoolsNext
  BY <1>2, ObtainKeptInv, ObtainNewInv, RecycleInv, UserInv DEF PoolsNext
<1>3. QED
  BY <1>1, <1>2

\* The inductive invariant.
THEOREM PoolerInvariant == PoolsSpec => []PoolerInv
<1>1. PoolsInit => PoolerInv
  BY PoolsInitInv
<1>2. PoolerInv /\ [PoolsNext]_poolVars => PoolerInv'
  BY PoolerStepInv
<1>3. QED
  BY <1>1, <1>2, PTL DEF PoolsSpec

\* No pool has two users or is lent while it is kept.
THEOREM PoolsHaveOneUser == PoolsSpec => []OneUserPerPool
<1>1. PoolerInv => OneUserPerPool
  <2> SUFFICES ASSUME PoolerInv PROVE OneUserPerPool
    OBVIOUS
  <2>1. \A s \in Sizes : IsInjective(unused[s]) /\ used[s] \cap Kept(s) = {}
    BY DEF PoolerInv, Distinct, IsInjective
  <2>2. \A s \in Sizes : \A id \in used[s] \cup Kept(s) : pool[id].size = s
    BY DEF PoolerInv, OwnSize
  <2>3. QED
    BY <2>1, <2>2 DEF OneUserPerPool
<1>2. QED
  BY <1>1, PoolerInvariant, PTL

\* The pooler keeps no more pools of a size than MAX_POOLS_COUNT.
THEOREM PoolsKeptBounded == PoolsSpec => []KeptBounded
<1>1. PoolerInv => KeptBounded
  BY DEF PoolerInv
<1>2. QED
  BY <1>1, PoolerInvariant, PTL

\* The pooler lends a pool to one user, as it was made, and keeps a bounded number.
THEOREM PoolsLent == PoolsSpec => []LendingInv
<1>1. OneUserPerPool /\ KeptBounded => LendingInv
  BY DEF LendingInv
<1>2. QED
  BY <1>1, PoolsHaveOneUser, PoolsKeptBounded, PTL

------------------------------------------------------------------------------
(* The data of the chunks, one after the other.                            *)

\* FlattenSeq appends the sequences one after the other.
LEMMA FlattenIs ==
    ASSUME NEW B, NEW seqs \in Seq(Seq(B)), NEW f \in [0 .. Len(seqs) -> Seq(B)],
           f[0] = <<>>, \A i \in 1 .. Len(seqs) : f[i] = f[i - 1] \o seqs[i]
    PROVE  FlattenSeq(seqs) = f[Len(seqs)]
<1> DEFINE n == Len(seqs)
           flatten == CHOOSE flatten : flatten = [i \in 1 .. n |-> IF i = 1 THEN seqs[i] ELSE flatten[i - 1] \o seqs[i]]
<1>1. FlattenSeq(seqs) = IF n = 0 THEN seqs ELSE flatten[n]
  BY Zenon DEF FlattenSeq
<1>2. n \in Nat /\ \A i \in 1 .. n : seqs[i] \in Seq(B)
  OBVIOUS
<1> HIDE DEF n
<1>5. 1 \in 1 .. n => f[1] = seqs[1]
  <2> SUFFICES ASSUME 1 \in 1 .. n PROVE f[1] = seqs[1]
    OBVIOUS
  <2>1. ASSUME NEW i \in 1 .. n, i = 1
        PROVE  f[i] = f[0] \o seqs[i]
    <3>1. f[i] = f[i - 1] \o seqs[i]
      BY DEF n
    <3>2. i - 1 = 0
      BY <2>1
    <3> QED
      BY <3>1, <3>2
  <2>2. f[1] = <<>> \o seqs[1]
    BY <2>1, Zenon
  <2> QED
    BY <2>2, <1>2, ConcatEmptySeq
<1>3. CASE n = 0
  <2>1. seqs = <<>> /\ f[n] = <<>>
    BY <1>3 DEF n
  <2> QED
    BY <2>1, <1>1, <1>3 DEF n
<1>4. CASE n # 0
  <2> DEFINE g == [i \in 1 .. n |-> f[i]]
  <2>1. g = [i \in 1 .. n |-> IF i = 1 THEN seqs[i] ELSE g[i - 1] \o seqs[i]]
    <3>1. ASSUME NEW i \in 1 .. n
          PROVE  f[i] = IF i = 1 THEN seqs[i] ELSE g[i - 1] \o seqs[i]
      <4>1. CASE i = 1
        BY <4>1, <1>5
      <4>2. CASE i # 1
        <5>1. i - 1 \in 1 .. n /\ g[i - 1] = f[i - 1]
          BY <4>2, <1>2
        <5> QED
          BY <5>1, <4>2 DEF n
      <4> QED
        BY <4>1, <4>2
    <3> QED
      BY <3>1
  <2> HIDE DEF g
  <2>2. flatten = [i \in 1 .. n |-> IF i = 1 THEN seqs[i] ELSE flatten[i - 1] \o seqs[i]]
    BY <2>1
  <2> DEFINE Bad == {i \in 1 .. n : flatten[i] # f[i]}
  <2> HIDE DEF flatten
  <2>3. Bad = {}
    <3> SUFFICES ASSUME Bad # {} PROVE FALSE
      OBVIOUS
    <3>1. PICK m \in Bad : \A k \in Bad : m <= k
      <4>1. Bad \subseteq Nat
        OBVIOUS
      <4> QED
        BY <4>1, LeastNat
    <3>2. m \in 1 .. n /\ flatten[m] # f[m] /\ f[m] = f[m - 1] \o seqs[m]
      BY DEF n
    <3>3. flatten[m] = IF m = 1 THEN seqs[m] ELSE flatten[m - 1] \o seqs[m]
      BY <2>2, <3>2
    <3>4. CASE m = 1
      BY <1>5, <3>2, <3>3, <3>4
    <3>5. CASE m # 1
      <4>1. m - 1 \in 1 .. n /\ ~(m <= m - 1)
        BY <3>2, <3>5, <1>2
      <4>2. flatten[m - 1] = f[m - 1]
        BY <4>1, <3>1
      <4> QED
        BY <4>2, <3>2, <3>3, <3>5
    <3> QED
      BY <3>4, <3>5
  <2>4. \A i \in 1 .. n : flatten[i] = f[i]
    BY <2>3
  <2>5. n \in 1 .. n
    BY <1>2, <1>4
  <2> QED
    BY <1>1, <1>4, <2>4, <2>5 DEF n
<1> QED
  BY <1>3, <1>4

Chunk == [cap : Nat, data : Seq(Byte)]
PoolSet == [chunks : Seq(Chunk), count : Nat, index : Nat, cur : Nat, size : Nat]

\* What the bookkeeping of one pool keeps.
PoolInv(p) ==
    /\ p \in PoolSet
    /\ p.cur <= p.count /\ p.count <= Len(p.chunks)
    /\ p.cur = 0 => p.chunks = <<>>
    /\ \A i \in DOMAIN p.chunks :
         /\ Len(p.chunks[i].data) <= p.chunks[i].cap
         /\ i > p.cur => p.chunks[i].data = <<>>

\* The data up to a chunk is the data up to the one before, and its own.
LEMMA DataIs ==
    ASSUME NEW p, p.chunks \in Seq(Chunk)
    PROVE  \E f \in [0 .. Len(p.chunks) -> Seq(Byte)] :
             /\ f[0] = <<>>
             /\ \A i \in 1 .. Len(p.chunks) : f[i] = f[i - 1] \o p.chunks[i].data
             /\ \A i \in 0 .. Len(p.chunks) : DataTo(p, i) = f[i]
<1> DEFINE N == Len(p.chunks)
           D == Seq(Byte)
           G == [x \in (1 .. N) \X D |-> x[2] \o p.chunks[x[1]].data]
<1>1. N \in Nat /\ \A i \in 1 .. N : p.chunks[i].data \in D
  <2>1. N \in Nat /\ \A i \in 1 .. N : p.chunks[i] \in Chunk
    OBVIOUS
  <2> QED
    BY <2>1 DEF Chunk
<1> HIDE DEF N
<1>2. <<>> \in D /\ \A x, y \in D : x \o y \in D
  BY ConcatProperties
<1>3. ASSUME NEW i \in 1 .. N, NEW x \in D
      PROVE  G[<<i, x>>] = x \o p.chunks[i].data
  OBVIOUS
<1>4. G \in [(1 .. N) \X D -> D]
  <2> SUFFICES ASSUME NEW x \in (1 .. N) \X D PROVE x[2] \o p.chunks[x[1]].data \in D
    BY Zenon
  <2>1. x[1] \in 1 .. N /\ x[2] \in D
    OBVIOUS
  <2> QED
    BY <2>1, <1>1, <1>2
<1> HIDE DEF D, G
<1>5. PICK f \in [0 .. N -> D] : f[0] = <<>> /\ \A i \in 1 .. N : f[i] = G[<<i, f[i - 1]>>]
  <2>1. N \in Nat /\ <<>> \in D
    BY <1>1, <1>2
  <2>2. Recursive(D, <<>>, N, G)
    BY <2>1, <1>4, Recursion, Zenon
  <2> QED
    BY <2>2, Zenon DEF Recursive
<1>6. ASSUME NEW i \in 1 .. N
      PROVE  f[i] = f[i - 1] \o p.chunks[i].data
  <2>1. i - 1 \in 0 .. N
    BY <1>1
  <2>2. f[i - 1] \in D
    BY <2>1
  <2> QED
    BY <2>2, <1>3, <1>5
<1>7. ASSUME NEW n \in 0 .. N
      PROVE  DataTo(p, n) = f[n]
  <2> DEFINE s == [i \in 1 .. n |-> p.chunks[i].data]
             g == [i \in 0 .. n |-> f[i]]
  <2>1. n \in Nat /\ 0 .. n \subseteq 0 .. N /\ 1 .. n \subseteq 1 .. N
    BY <1>1
  <2>2. s \in Seq(D) /\ Len(s) = n
    BY <2>1, <1>1
  <2>3. g \in [0 .. n -> D] /\ g[0] = <<>>
    BY <2>1, <1>5
  <2>4. \A i \in 1 .. n : g[i] = g[i - 1] \o s[i]
    <3> SUFFICES ASSUME NEW i \in 1 .. n PROVE g[i] = g[i - 1] \o s[i]
      OBVIOUS
    <3>1. i - 1 \in 0 .. n /\ i \in 0 .. n /\ i \in 1 .. N
      BY <2>1
    <3> QED
      BY <3>1, <1>6
  <2>5. n \in 0 .. n
    BY <2>1
  <2> HIDE DEF s, g
  <2>6. FlattenSeq(s) = g[n]
    BY <2>2, <2>3, <2>4, FlattenIs DEF D
  <2>7. g[n] = f[n]
    BY <2>5 DEF g
  <2> QED
    BY <2>6, <2>7 DEF DataTo, s
<1> QED
  BY <1>5, <1>6, <1>7 DEF N, D

LEMMA DataStep ==
    ASSUME NEW p, p.chunks \in Seq(Chunk), NEW n \in 1 .. Len(p.chunks)
    PROVE  /\ DataTo(p, n) = DataTo(p, n - 1) \o p.chunks[n].data
           /\ DataTo(p, n) \in Seq(Byte) /\ DataTo(p, n - 1) \in Seq(Byte)
<1>1. PICK f \in [0 .. Len(p.chunks) -> Seq(Byte)] :
        /\ \A i \in 1 .. Len(p.chunks) : f[i] = f[i - 1] \o p.chunks[i].data
        /\ \A i \in 0 .. Len(p.chunks) : DataTo(p, i) = f[i]
  BY DataIs
<1>2. n \in 0 .. Len(p.chunks) /\ n - 1 \in 0 .. Len(p.chunks)
  OBVIOUS
<1> QED
  BY <1>1, <1>2

LEMMA DataNone ==
    ASSUME NEW p, p.chunks \in Seq(Chunk)
    PROVE  DataTo(p, 0) = <<>>
<1>1. 0 \in 0 .. Len(p.chunks)
  OBVIOUS
<1> QED
  BY <1>1, DataIs

LEMMA DataSeq ==
    ASSUME NEW p, p.chunks \in Seq(Chunk), NEW n \in 0 .. Len(p.chunks)
    PROVE  DataTo(p, n) \in Seq(Byte)
<1>1. PICK f \in [0 .. Len(p.chunks) -> Seq(Byte)] :
        \A i \in 0 .. Len(p.chunks) : DataTo(p, i) = f[i]
  BY DataIs
<1> QED
  BY <1>1

\* It depends on nothing else,
LEMMA DataSame ==
    ASSUME NEW p, NEW q, NEW n, \A i \in 1 .. n : p.chunks[i].data = q.chunks[i].data
    PROVE  DataTo(p, n) = DataTo(q, n)
<1>1. [i \in 1 .. n |-> p.chunks[i].data] = [i \in 1 .. n |-> q.chunks[i].data]
  BY Zenon
<1> QED
  BY <1>1 DEF DataTo

\* and empty chunks add nothing.
LEMMA DataTail ==
    ASSUME NEW p, p.chunks \in Seq(Chunk), NEW n \in 0 .. Len(p.chunks), NEW m \in 0 .. n,
           \A i \in m + 1 .. n : p.chunks[i].data = <<>>
    PROVE  DataTo(p, n) = DataTo(p, m)
<1> DEFINE Bad == {k \in m .. n : DataTo(p, k) # DataTo(p, m)}
<1>1. Bad \subseteq Nat /\ m \notin Bad
  OBVIOUS
<1>2. ASSUME NEW k \in Bad
      PROVE  k - 1 \in Bad
  <2>1. k \in m .. n /\ k # m
    BY <1>1
  <2>2. k \in 1 .. Len(p.chunks) /\ k \in m + 1 .. n /\ k - 1 \in m .. n
    BY <2>1
  <2>3. /\ DataTo(p, k) = DataTo(p, k - 1) \o p.chunks[k].data
        /\ DataTo(p, k - 1) \in Seq(Byte)
    BY <2>2, DataStep
  <2>4. DataTo(p, k) = DataTo(p, k - 1)
    BY <2>2, <2>3, ConcatEmptySeq
  <2> QED
    BY <2>2, <2>4
<1>3. Bad = {}
  <2> SUFFICES ASSUME Bad # {} PROVE FALSE
    OBVIOUS
  <2> HIDE DEF Bad
  <2>1. PICK k \in Bad : \A j \in Bad : k <= j
    BY <1>1, LeastNat
  <2>2. k - 1 \in Bad /\ k \in Nat
    BY <1>1, <1>2
  <2> QED
    BY <2>1, <2>2
<1>4. n \in m .. n
  OBVIOUS
<1> QED
  BY <1>3, <1>4

\* What is put into the chunk in use, or taken from it, is at the end of the contents.
LEMMA ChangeLast ==
    ASSUME NEW p, PoolInv(p), p.cur # 0, NEW c \in Chunk, Len(c.data) <= c.cap,
           NEW q, q = [p EXCEPT !.chunks[p.cur] = c]
    PROVE  /\ PoolInv(q)
           /\ DataTo(p, p.cur - 1) \in Seq(Byte)
           /\ Contents(p) = DataTo(p, p.cur - 1) \o p.chunks[p.cur].data
           /\ Contents(q) = DataTo(p, p.cur - 1) \o c.data
<1> DEFINE n == p.cur
           N == Len(p.chunks)
<1>1. /\ p \in PoolSet /\ p.chunks \in Seq(Chunk) /\ n \in 1 .. N /\ N \in Nat /\ n \in Nat
      /\ DOMAIN p.chunks = 1 .. N
  BY DEF PoolInv, PoolSet
<1>2. /\ q = [p EXCEPT !.chunks = [p.chunks EXCEPT ![n] = c]]
      /\ q \in PoolSet
      /\ q.cur = n /\ q.count = p.count
      /\ q.chunks = [p.chunks EXCEPT ![n] = c]
  <2> DEFINE s == [p.chunks EXCEPT ![n] = c]
  <2>1. s \in Seq(Chunk)
    BY <1>1
  <2>2. q = [p EXCEPT !.chunks = s]
    OBVIOUS
  <2>3. n = p.cur
    OBVIOUS
  <2> HIDE DEF s, n, N
  <2>4. q \in PoolSet /\ q.cur = n /\ q.count = p.count /\ q.chunks = s
    BY <1>1, <2>1, <2>2, <2>3 DEF PoolSet
  <2> QED
    BY <2>2, <2>4 DEF s
<1>3. /\ q.chunks \in Seq(Chunk) /\ Len(q.chunks) = N /\ DOMAIN q.chunks = 1 .. N
      /\ q.chunks[n] = c
      /\ \A i \in (1 .. N) \ {n} : q.chunks[i] = p.chunks[i]
  BY <1>1, <1>2
<1>4. PoolInv(q)
  <2>1. q.cur <= q.count /\ q.count <= Len(q.chunks) /\ q.cur # 0
    BY <1>1, <1>2, <1>3 DEF PoolInv
  <2>2. ASSUME NEW i \in DOMAIN q.chunks
        PROVE  Len(q.chunks[i].data) <= q.chunks[i].cap /\ (i > q.cur => q.chunks[i].data = <<>>)
    <3>1. CASE i = n
      BY <3>1, <1>1, <1>2, <1>3
    <3>2. CASE i # n
      BY <3>2, <1>1, <1>2, <1>3 DEF PoolInv
    <3> QED
      BY <3>1, <3>2
  <2> QED
    BY <1>2, <2>1, <2>2 DEF PoolInv
<1>5. DataTo(q, n - 1) = DataTo(p, n - 1)
  <2>1. \A i \in 1 .. n - 1 : i \in (1 .. N) \ {n}
    BY <1>1
  <2>2. \A i \in 1 .. n - 1 : p.chunks[i].data = q.chunks[i].data
    BY <2>1, <1>3
  <2> QED
    BY <2>2, DataSame
<1>6. /\ DataTo(p, n) = DataTo(p, n - 1) \o p.chunks[n].data
      /\ DataTo(p, n - 1) \in Seq(Byte)
  BY <1>1, DataStep
<1>7. DataTo(q, n) = DataTo(q, n - 1) \o q.chunks[n].data
  BY <1>1, <1>3, DataStep
<1> QED
  BY <1>2, <1>3, <1>4, <1>5, <1>6, <1>7 DEF Contents

\* A sequence that is put away and back.
LEMMA Shortened ==
    ASSUME NEW a \in Seq(Byte), NEW b \in Seq(Byte), NEW n \in Nat, n <= Len(b)
    PROVE  /\ SubSeq(b, 1, Len(b) - n) \in Seq(Byte) /\ Len(SubSeq(b, 1, Len(b) - n)) <= Len(b)
           /\ a \o SubSeq(b, 1, Len(b) - n) = SubSeq(a \o b, 1, Len(a \o b) - n)
<1> DEFINE m == Len(b) - n
           l == a \o SubSeq(b, 1, m)
           r == SubSeq(a \o b, 1, Len(a \o b) - n)
<1>1. /\ Len(a) \in Nat /\ Len(b) \in Nat /\ m \in Nat /\ m <= Len(b)
      /\ a \o b \in Seq(Byte) /\ Len(a \o b) = Len(a) + Len(b)
      /\ \A i \in 1 .. Len(a) + Len(b) : (a \o b)[i] = IF i <= Len(a) THEN a[i] ELSE b[i - Len(a)]
  BY ConcatProperties
<1>2. \A i \in 1 .. m : b[i] \in Byte
  BY <1>1
<1>3. /\ SubSeq(b, 1, m) \in Seq(Byte) /\ Len(SubSeq(b, 1, m)) = m
      /\ \A i \in 1 .. m : SubSeq(b, 1, m)[i] = b[i]
  BY <1>1, <1>2
<1>4. /\ l \in Seq(Byte) /\ Len(l) = Len(a) + m
      /\ \A i \in 1 .. Len(a) + m : l[i] = IF i <= Len(a) THEN a[i] ELSE SubSeq(b, 1, m)[i - Len(a)]
  <2>1. SubSeq(b, 1, m) \in Seq(Byte) /\ Len(SubSeq(b, 1, m)) = m
    BY <1>3
  <2> HIDE DEF m
  <2>2. /\ l \in Seq(Byte) /\ Len(l) = Len(a) + Len(SubSeq(b, 1, m))
        /\ \A i \in 1 .. Len(a) + Len(SubSeq(b, 1, m)) :
             l[i] = IF i <= Len(a) THEN a[i] ELSE SubSeq(b, 1, m)[i - Len(a)]
    BY <2>1, ConcatProperties, Zenon
  <2> QED
    BY <2>1, <2>2
<1>5. Len(a \o b) - n = Len(a) + m
  BY <1>1
<1>6. \A i \in 1 .. Len(a) + m : (a \o b)[i] \in Byte
  BY <1>1
<1>7. /\ r \in Seq(Byte) /\ Len(r) = Len(a) + m
      /\ \A i \in 1 .. Len(a) + m : r[i] = (a \o b)[i]
  BY <1>1, <1>5, <1>6
<1>8. ASSUME NEW i \in 1 .. Len(a) + m
      PROVE  l[i] = r[i]
  <2>1. CASE i <= Len(a)
    BY <2>1, <1>1, <1>4, <1>7
  <2>2. CASE ~(i <= Len(a))
    <3>1. i - Len(a) \in 1 .. m /\ i \in 1 .. Len(a) + Len(b)
      BY <2>2, <1>1
    <3> QED
      BY <3>1, <2>2, <1>1, <1>3, <1>4, <1>7
  <2> QED
    BY <2>1, <2>2
<1> HIDE DEF l, r
<1>9. l = r
  BY <1>4, <1>7, <1>8, SeqEqual
<1> QED
  BY <1>1, <1>3, <1>9 DEF l, r

\* A pool without chunks is empty.
LEMMA EmptyPool ==
    ASSUME NEW p, PoolInv(p), p.chunks = <<>>
    PROVE  p.count = 0 /\ p.cur = 0 /\ Contents(p) = <<>>
<1>1. p.chunks \in Seq(Chunk) /\ p.count \in Nat /\ p.cur \in Nat /\ Len(p.chunks) = 0
  BY DEF PoolInv, PoolSet
<1>2. p.count = 0 /\ p.cur = 0
  BY <1>1 DEF PoolInv
<1> QED
  BY <1>1, <1>2, DataNone DEF Contents

\* The chunk that newChunk enters follows empty ones.
LEMMA NewChunkInv ==
    ASSUME NEW p, PoolInv(p), NEW n \in Nat, NEW q, q = NewChunk(p, n)
    PROVE  /\ PoolInv(q) /\ Contents(q) = Contents(p) /\ q.cur # 0
           /\ q.chunks[q.cur].data = <<>> /\ q.chunks[q.cur].cap >= n
<1> DEFINE N == Len(p.chunks)
           full == p.count + 1 > N
           M == IF full THEN p.count + TableStep ELSE N
           table == IF full
                    THEN [i \in 1..(p.count + TableStep) |->
                             IF i <= p.count THEN p.chunks[i] ELSE NoChunk]
                    ELSE p.chunks
           cur == IF full THEN p.count + 1 ELSE p.cur + 1
           new == [cap |-> Greater(table[cur].cap, n), data |-> <<>>]
<1>1. /\ p \in PoolSet /\ p.chunks \in Seq(Chunk) /\ N \in Nat /\ DOMAIN p.chunks = 1 .. N
      /\ p.cur \in Nat /\ p.count \in Nat /\ p.index \in Nat
      /\ p.cur <= p.count /\ p.count <= N /\ TableStep \in Nat \ {0}
  BY MemPoolAssumption DEF PoolInv, PoolSet
<1>2. full => N = p.count
  BY <1>1
<1>3. NoChunk \in Chunk /\ Len(NoChunk.data) = 0 /\ NoChunk.data = <<>> /\ NoChunk.cap = 0
  BY DEF NoChunk, Chunk
<1>4. /\ M \in Nat /\ N <= M /\ p.cur + 1 <= cur /\ cur <= p.count + 1 /\ cur \in 1 .. M
      /\ p.count + 1 <= M
  <2>1. CASE full
    <3>1. N = p.count /\ M = p.count + TableStep /\ cur = p.count + 1
      BY <1>2, <2>1
    <3> HIDE DEF full, M, N, cur, table, new
    <3> QED
      BY <1>1, <3>1, SMTT(30)
  <2>2. CASE ~full
    <3>1. M = N /\ cur = p.cur + 1
      BY <2>2
    <3>2. ~(p.count + 1 > N)
      BY <2>2
    <3> HIDE DEF full, M, N, cur, table, new
    <3> QED
      BY <1>1, <3>1, <3>2
  <2> QED
    BY <2>1, <2>2
<1>5. /\ table \in Seq(Chunk) /\ Len(table) = M
      /\ \A i \in 1 .. M : table[i] = IF i <= N THEN p.chunks[i] ELSE NoChunk
  <2>1. CASE full
    <3>1. \A i \in 1 .. p.count + TableStep : (IF i <= p.count THEN p.chunks[i] ELSE NoChunk) \in Chunk
      BY <1>1, <1>2, <1>3, <2>1
    <3>2. table = [i \in 1..(p.count + TableStep) |->
                     IF i <= p.count THEN p.chunks[i] ELSE NoChunk]
      BY <2>1
    <3> DEFINE K == p.count + TableStep
    <3>3. K \in Nat /\ M = K /\ N = p.count
      BY <1>1, <1>2, <2>1
    <3> HIDE DEF K, M, table
    <3>4. table \in [1 .. K -> Chunk]
      BY <3>1, <3>2 DEF K
    <3>5. table \in Seq(Chunk) /\ Len(table) = K
      BY <3>3, <3>4
    <3> QED
      BY <3>2, <3>3, <3>5 DEF K
  <2>2. CASE ~full
    BY <2>2, <1>1
  <2> QED
    BY <2>1, <2>2
<1>6. q = [p EXCEPT !.chunks = [table EXCEPT ![cur] = new], !.count = @ + 1, !.index = @ + 1, !.cur = cur]
  BY Zenon DEF NewChunk
<1> HIDE DEF full, table, cur, M
<1>7. new \in Chunk /\ new.cap >= n /\ new.data = <<>> /\ Len(new.data) = 0 /\ new.cap \in Nat
  <2>1. table[cur] \in Chunk
    BY <1>4, <1>5
  <2> QED
    BY <2>1 DEF Chunk, Greater
<1> HIDE DEF new
<1>8. /\ q.chunks \in Seq(Chunk) /\ Len(q.chunks) = M /\ DOMAIN q.chunks = 1 .. M
      /\ q.chunks[cur] = new
      /\ \A i \in (1 .. M) \ {cur} : q.chunks[i] = table[i]
  <2>1. q.chunks = [table EXCEPT ![cur] = new]
    BY <1>1, <1>6 DEF PoolSet
  <2> QED
    BY <2>1, <1>4, <1>5, <1>7
<1>9. q.cur = cur /\ q.count = p.count + 1 /\ q.index = p.index + 1 /\ q \in PoolSet
  <2>1. [table EXCEPT ![cur] = new] \in Seq(Chunk)
    BY <1>4, <1>5, <1>7
  <2>2. cur \in Nat
    BY <1>4
  <2> HIDE DEF N
  <2> DEFINE t == [table EXCEPT ![cur] = new]
  <2>3. q = [p EXCEPT !.chunks = t, !.count = @ + 1, !.index = @ + 1, !.cur = cur]
    BY <1>6
  <2> HIDE DEF t
  <2>4. t \in Seq(Chunk) /\ p.count + 1 \in Nat /\ p.index + 1 \in Nat
    BY <2>1, <1>1 DEF t
  <2> QED
    BY <2>2, <2>3, <2>4, <1>1 DEF PoolSet
<1>10. ASSUME NEW i \in 1 .. M
       PROVE  /\ Len(q.chunks[i].data) <= q.chunks[i].cap
              /\ i > p.cur => q.chunks[i].data = <<>>
  <2>1. CASE i = cur
    BY <2>1, <1>7, <1>8
  <2>2. CASE i # cur /\ i <= N
    <3>1. q.chunks[i] = p.chunks[i] /\ i \in DOMAIN p.chunks
      BY <2>2, <1>1, <1>5, <1>8
    <3> QED
      BY <3>1 DEF PoolInv
  <2>3. CASE i # cur /\ ~(i <= N)
    BY <2>3, <1>3, <1>5, <1>8
  <2> QED
    BY <2>1, <2>2, <2>3
<1>11. PoolInv(q)
  <2>1. \A i \in DOMAIN q.chunks : i > q.cur => i > p.cur
    BY <1>1, <1>4, <1>8, <1>9
  <2>2. q.cur <= q.count /\ q.count <= Len(q.chunks) /\ q.cur # 0
    BY <1>1, <1>4, <1>8, <1>9
  <2> QED
    BY <2>1, <2>2, <1>8, <1>9, <1>10 DEF PoolInv
<1>12. DataTo(q, cur) = DataTo(q, p.cur)
  <2>1. \A i \in p.cur + 1 .. cur : i \in 1 .. M /\ i > p.cur
    BY <1>1, <1>4
  <2>2. cur \in 0 .. Len(q.chunks) /\ p.cur \in 0 .. cur
    BY <1>1, <1>4, <1>8
  <2> QED
    BY <2>1, <2>2, <1>8, <1>10, DataTail
<1>13. DataTo(q, p.cur) = DataTo(p, p.cur)
  <2>1. \A i \in 1 .. p.cur : i \in (1 .. M) \ {cur} /\ i <= N
    BY <1>1, <1>4
  <2>2. \A i \in 1 .. p.cur : q.chunks[i].data = p.chunks[i].data
    BY <2>1, <1>5, <1>8
  <2> QED
    BY <2>2, DataSame
<1>14. q.cur # 0 /\ q.chunks[q.cur] = new
  BY <1>4, <1>8, <1>9
<1> QED
  BY <1>7, <1>9, <1>11, <1>12, <1>13, <1>14 DEF Contents

LEMMA ChunkIs ==
    ASSUME NEW c \in Chunk, NEW d
    PROVE  /\ [c EXCEPT !.data = d] = [cap |-> c.cap, data |-> d]
           /\ [c EXCEPT !.cap = d] = [cap |-> d, data |-> c.data]
  BY DEF Chunk

LEMMA Associative == \A a, b, c \in Seq(Byte) : (a \o b) \o c = a \o (b \o c)
  BY ConcatAssociative

\* What the pool needs room for goes to the end of the contents.
LEMMA PutInv ==
    ASSUME NEW p, PoolInv(p), NEW data \in Seq(Byte)
    PROVE  PoolInv(Put(p, data)) /\ Contents(Put(p, data)) = Contents(p) \o data
<1> DEFINE n == Greater(Len(data), p.size)
           q == IF NeedsChunk(p, Len(data)) THEN NewChunk(p, n) ELSE p
           old == q.chunks[q.cur]
           new == [cap |-> old.cap, data |-> old.data \o data]
           pre == DataTo(q, q.cur - 1)
<1>1. Len(data) \in Nat /\ n \in Nat /\ n >= Len(data)
  BY DEF Greater, PoolInv, PoolSet
<1>2. /\ PoolInv(q) /\ q.cur # 0 /\ Contents(q) = Contents(p)
      /\ old.cap >= Len(old.data) + Len(data)
  <2>1. CASE NeedsChunk(p, Len(data))
    <3>1. /\ PoolInv(q) /\ Contents(q) = Contents(p) /\ q.cur # 0
          /\ old.data = <<>> /\ old.cap >= n
      BY <1>1, <2>1, NewChunkInv
    <3> HIDE DEF n, q
    <3>2. old \in Chunk
      BY <3>1 DEF PoolInv, PoolSet
    <3>3. Len(old.data) = 0 /\ old.cap \in Nat
      BY <3>1, <3>2 DEF Chunk
    <3> HIDE DEF old
    <3> QED
      BY <3>1, <3>3, <1>1
  <2>2. CASE ~NeedsChunk(p, Len(data))
    <3>1. q = p /\ p.cur # 0
      BY <2>2 DEF NeedsChunk
    <3>2. p.chunks[p.cur] \in Chunk
      BY <3>1 DEF PoolInv, PoolSet
    <3>3. ~(Len(p.chunks[p.cur].data) + Len(data) > p.chunks[p.cur].cap)
      BY <2>2 DEF NeedsChunk
    <3>4. Len(p.chunks[p.cur].data) \in Nat /\ p.chunks[p.cur].cap \in Nat
      BY <3>2 DEF Chunk
    <3> QED
      BY <3>1, <3>3, <3>4, <1>1
  <2> QED
    BY <2>1, <2>2
<1>3. Put(p, data) = [q EXCEPT !.chunks[q.cur].data = @ \o data]
  BY DEF Put
<1> HIDE DEF q, n
<1>4. old \in Chunk /\ q.chunks \in Seq(Chunk) /\ q.cur \in DOMAIN q.chunks /\ q \in PoolSet
  BY <1>2 DEF PoolInv, PoolSet
<1>5. new \in Chunk /\ old.data \in Seq(Byte) /\ Len(new.data) <= new.cap
  <2>1. old.data \in Seq(Byte) /\ old.cap \in Nat
    BY <1>4 DEF Chunk
  <2> HIDE DEF old
  <2>2. old.data \o data \in Seq(Byte) /\ Len(old.data \o data) = Len(old.data) + Len(data)
    BY <2>1, ConcatProperties
  <2> QED
    BY <2>1, <2>2, <1>1, <1>2 DEF Chunk
<1>6. Put(p, data) = [q EXCEPT !.chunks[q.cur] = new]
  <2>1. [old EXCEPT !.data = old.data \o data] = new
    BY <1>4, ChunkIs, Zenon
  <2> QED
    BY <1>3, <1>4, <2>1
<1> HIDE DEF new
<1>7. /\ PoolInv(Put(p, data)) /\ pre \in Seq(Byte)
      /\ Contents(q) = pre \o old.data /\ Contents(Put(p, data)) = pre \o new.data
  BY <1>2, <1>5, <1>6, ChangeLast
<1> HIDE DEF pre, old
<1>8. pre \o (old.data \o data) = (pre \o old.data) \o data
  <2>1. pre \in Seq(Byte) /\ old.data \in Seq(Byte)
    BY <1>5, <1>7
  <2>2. (pre \o old.data) \o data = pre \o (old.data \o data)
    BY <2>1, Associative, Zenon
  <2> QED
    BY <2>2
<1>9. new.data = old.data \o data
  BY DEF new
<1> QED
  BY <1>2, <1>7, <1>8, <1>9

LEMMA PutStringInv ==
    ASSUME NEW p, PoolInv(p), NEW data \in Seq(Byte)
    PROVE  /\ PoolInv(PutString(p, data))
           /\ Contents(PutString(p, data)) = Contents(p) \o (data \o <<NUL>>)
           /\ data \o <<NUL>> \in Seq(Byte)
<1>1. PoolInv(Put(p, data)) /\ Contents(Put(p, data)) = Contents(p) \o data
  BY PutInv
<1>2. <<NUL>> \in Seq(Byte)
  BY MemPoolAssumption
<1>3. /\ PoolInv(PutString(p, data))
      /\ Contents(PutString(p, data)) = (Contents(p) \o data) \o <<NUL>>
  BY <1>1, <1>2, PutInv DEF PutString
<1>4. Contents(p) \in Seq(Byte)
  <2>1. p.chunks \in Seq(Chunk) /\ p.cur \in 0 .. Len(p.chunks)
    BY DEF PoolInv, PoolSet
  <2> QED
    BY <2>1, DataSeq DEF Contents
<1>5. (Contents(p) \o data) \o <<NUL>> = Contents(p) \o (data \o <<NUL>>)
  BY <1>2, <1>4, ConcatAssociative
<1>6. data \o <<NUL>> \in Seq(Byte)
  BY <1>2, ConcatProperties
<1> QED
  BY <1>3, <1>5, <1>6

LEMMA ShrinkInv ==
    ASSUME NEW p, PoolInv(p), NEW n \in Nat, CanShrink(p, n)
    PROVE  /\ PoolInv(Shrink(p, n))
           /\ Contents(Shrink(p, n)) = SubSeq(Contents(p), 1, Len(Contents(p)) - n)
           /\ n <= Len(Contents(p))
<1> DEFINE old == p.chunks[p.cur]
           new == [cap |-> old.cap, data |-> SubSeq(old.data, 1, Len(old.data) - n)]
           pre == DataTo(p, p.cur - 1)
<1>1. p.cur # 0 /\ Len(old.data) >= n
  BY DEF CanShrink
<1>2. /\ old \in Chunk /\ p.chunks \in Seq(Chunk) /\ p.cur \in DOMAIN p.chunks /\ p \in PoolSet
      /\ Len(old.data) <= old.cap
  BY <1>1 DEF PoolInv, PoolSet
<1>3. old.data \in Seq(Byte) /\ old.cap \in Nat
  BY <1>2 DEF Chunk
<1> HIDE DEF old
<1>4. Len(old.data) \in Nat /\ n <= Len(old.data)
  BY <1>1, <1>3
<1>5. SubSeq(old.data, 1, Len(old.data) - n) \in Seq(Byte)
      /\ Len(SubSeq(old.data, 1, Len(old.data) - n)) = Len(old.data) - n
  <2> DEFINE m == Len(old.data) - n
  <2>1. m \in Nat /\ \A i \in 1 .. m : old.data[i] \in Byte
    BY <1>3, <1>4
  <2> QED
    BY <2>1
<1>6. new \in Chunk /\ Len(new.data) <= new.cap
  BY <1>2, <1>3, <1>4, <1>5 DEF Chunk
<1>7. Shrink(p, n) = [p EXCEPT !.chunks[p.cur] = new]
  <2>1. [old EXCEPT !.data = SubSeq(old.data, 1, Len(old.data) - n)] = new
    BY <1>2, ChunkIs, Zenon
  <2> QED
    BY <1>2, <2>1 DEF Shrink, old
<1>8. /\ PoolInv(Shrink(p, n)) /\ pre \in Seq(Byte)
      /\ Contents(p) = pre \o old.data /\ Contents(Shrink(p, n)) = pre \o new.data
  <2> HIDE DEF new
  <2> QED
    BY <1>1, <1>6, <1>7, ChangeLast DEF old
<1>9. pre \o SubSeq(old.data, 1, Len(old.data) - n)
        = SubSeq(pre \o old.data, 1, Len(pre \o old.data) - n)
  BY <1>3, <1>4, <1>8, Shortened
<1> HIDE DEF pre
<1>10. Len(pre \o old.data) = Len(pre) + Len(old.data) /\ Len(pre) \in Nat
  BY <1>3, <1>8, ConcatProperties
<1>11. n <= Len(Contents(p))
  BY <1>4, <1>8, <1>10
<1>12. new.data = SubSeq(old.data, 1, Len(old.data) - n)
  OBVIOUS
<1> HIDE DEF new
<1> QED
  BY <1>8, <1>9, <1>11, <1>12

LEMMA ReserveInv ==
    ASSUME NEW p, PoolInv(p), NEW n \in Nat
    PROVE  PoolInv(Reserve(p, n)) /\ Contents(Reserve(p, n)) = Contents(p)
<1>1. CASE p.count = 0
  <2>1. Greater(n, p.size) \in Nat
    BY DEF Greater, PoolInv, PoolSet
  <2> QED
    BY <1>1, <2>1, NewChunkInv DEF Reserve
<1>2. CASE p.count # 0
  <2> DEFINE old == p.chunks[p.cur]
             new == [cap |-> Greater(old.cap, n), data |-> old.data]
  <2>1. /\ p.chunks \in Seq(Chunk) /\ p.cur \in DOMAIN p.chunks /\ p \in PoolSet /\ p.cur # 0
    BY <1>2, EmptyPool DEF PoolInv, PoolSet
  <2>2. old \in Chunk /\ Len(old.data) <= old.cap
    BY <2>1 DEF PoolInv, PoolSet
  <2>3. old.data \in Seq(Byte) /\ old.cap \in Nat /\ Len(old.data) \in Nat
    BY <2>2 DEF Chunk
  <2> HIDE DEF old
  <2>4. new \in Chunk /\ Len(new.data) <= new.cap
    BY <2>2, <2>3 DEF Chunk, Greater
  <2>5. Reserve(p, n) = [p EXCEPT !.chunks[p.cur] = new]
    <3>1. [old EXCEPT !.cap = Greater(old.cap, n)] = new
      BY <2>2, ChunkIs, Zenon
    <3> QED
      BY <1>2, <2>1, <3>1 DEF Reserve, old
  <2>6. new.data = old.data
    OBVIOUS
  <2> HIDE DEF new
  <2>7. /\ PoolInv(Reserve(p, n))
        /\ Contents(p) = DataTo(p, p.cur - 1) \o p.chunks[p.cur].data
        /\ Contents(Reserve(p, n)) = DataTo(p, p.cur - 1) \o new.data
    BY <2>1, <2>4, <2>5, ChangeLast
  <2> QED
    BY <2>6, <2>7 DEF old
<1> QED
  BY <1>1, <1>2

\* A pool whose chunks are all empty.
LEMMA EmptiedInv ==
    ASSUME NEW p \in PoolSet, p.cur <= p.count, p.count <= Len(p.chunks), p.cur = 0 => p.chunks = <<>>,
           \A i \in DOMAIN p.chunks : p.chunks[i].data = <<>>
    PROVE  PoolInv(p) /\ Contents(p) = <<>>
<1>1. p.chunks \in Seq(Chunk) /\ p.cur \in 0 .. Len(p.chunks) /\ DOMAIN p.chunks = 1 .. Len(p.chunks)
  BY DEF PoolSet
<1>2. PoolInv(p)
  <2>1. \A i \in DOMAIN p.chunks : Len(p.chunks[i].data) = 0 /\ p.chunks[i].cap \in Nat
    <3> SUFFICES ASSUME NEW i \in DOMAIN p.chunks
                 PROVE  Len(p.chunks[i].data) = 0 /\ p.chunks[i].cap \in Nat
      OBVIOUS
    <3>1. p.chunks[i] \in Chunk /\ p.chunks[i].data = <<>>
      BY <1>1
    <3>2. Len(<<>>) = 0
      OBVIOUS
    <3> QED
      BY <3>1, <3>2 DEF Chunk
  <2> QED
    BY <2>1 DEF PoolInv
<1>3. DataTo(p, p.cur) = DataTo(p, 0)
  <2>1. 0 \in 0 .. p.cur /\ \A i \in 0 + 1 .. p.cur : i \in DOMAIN p.chunks
    BY <1>1
  <2> QED
    BY <2>1, <1>1, DataTail
<1> QED
  BY <1>1, <1>2, <1>3, DataNone DEF Contents

\* reset empties the chunks in use, and the others are empty.
LEMMA ResetInv ==
    ASSUME NEW p, PoolInv(p)
    PROVE  /\ PoolInv(Reset(p)) /\ Contents(Reset(p)) = <<>>
           /\ Reset(p).chunks # <<>> => Reset(p).cur = 1 /\ Reset(p).index = 0
           /\ \A i \in DOMAIN Reset(p).chunks : Reset(p).chunks[i].data = <<>>
<1>1. CASE p.chunks = <<>>
  BY <1>1, EmptyPool DEF Reset
<1>2. CASE p.chunks # <<>>
  <2> DEFINE N == Len(p.chunks)
             t == [i \in DOMAIN p.chunks |-> IF i <= p.count THEN [p.chunks[i] EXCEPT !.data = <<>>]
                                             ELSE p.chunks[i]]
             q == Reset(p)
  <2>1. /\ p \in PoolSet /\ p.chunks \in Seq(Chunk) /\ DOMAIN p.chunks = 1 .. N /\ N \in Nat
        /\ p.cur \in Nat /\ p.count \in Nat /\ p.cur # 0 /\ p.cur <= p.count /\ p.count <= N
    BY <1>2 DEF PoolInv, PoolSet
  <2>2. q = [p EXCEPT !.chunks = t, !.cur = 1, !.index = 0]
    BY <1>2 DEF Reset
  <2>3. ASSUME NEW i \in 1 .. N
        PROVE  t[i] \in Chunk /\ t[i].data = <<>>
    <3>1. p.chunks[i] \in Chunk
      BY <2>1
    <3>2. [p.chunks[i] EXCEPT !.data = <<>>] = [cap |-> p.chunks[i].cap, data |-> <<>>]
      BY <3>1, ChunkIs
    <3>3. ~(i <= p.count) => p.chunks[i].data = <<>>
      BY <2>1 DEF PoolInv
    <3>4. t[i] = IF i <= p.count THEN [p.chunks[i] EXCEPT !.data = <<>>] ELSE p.chunks[i]
      BY <2>1
    <3> HIDE DEF t
    <3>5. CASE i <= p.count
      <4>1. t[i] = [cap |-> p.chunks[i].cap, data |-> <<>>]
        BY <3>2, <3>4, <3>5
      <4>2. p.chunks[i].cap \in Nat
        BY <3>1 DEF Chunk
      <4> QED
        BY <4>1, <4>2 DEF Chunk
    <3>6. CASE ~(i <= p.count)
      BY <3>1, <3>3, <3>4, <3>6
    <3> QED
      BY <3>5, <3>6
  <2>4. DOMAIN t = 1 .. N /\ t = [i \in 1 .. N |-> t[i]]
    BY <2>1
  <2> HIDE DEF t
  <2>5. t \in Seq(Chunk) /\ Len(t) = N
    <3>1. t \in [1 .. N -> Chunk]
      BY <2>3, <2>4
    <3> QED
      BY <3>1, <2>1
  <2>6. /\ q \in PoolSet /\ q.chunks = t /\ q.cur = 1 /\ q.index = 0 /\ q.count = p.count
    <3>1. 0 \in Nat /\ 1 \in Nat
      OBVIOUS
    <3>2. LET r == [p EXCEPT !.chunks = t, !.cur = 1, !.index = 0] IN
          /\ r \in PoolSet
          /\ r.chunks = t /\ r.count = p.count /\ r.index = 0 /\ r.cur = 1
      <4>1. p \in PoolSet /\ t \in Seq(Chunk)
        BY <2>1, <2>5
      <4> HIDE DEF N
      <4> QED
        BY <4>1, <3>1 DEF PoolSet
    <3> QED
      BY <2>2, <3>2
  <2>7. q.cur <= q.count /\ q.count <= Len(q.chunks) /\ q.cur # 0
    BY <2>1, <2>5, <2>6
  <2>8. \A i \in DOMAIN q.chunks : q.chunks[i].data = <<>>
    BY <2>3, <2>4, <2>6
  <2> QED
    BY <2>6, <2>7, <2>8, EmptiedInv
<1> QED
  BY <1>1, <1>2

LEMMA FreeInv ==
    ASSUME NEW p, PoolInv(p)
    PROVE  PoolInv(Free(p)) /\ Contents(Free(p)) = <<>>
<1>1. /\ Free(p) \in PoolSet /\ Free(p).cur = 0 /\ Free(p).count = 0 /\ Free(p).chunks = <<>>
  <2>1. p \in PoolSet /\ <<>> \in Seq(Chunk)
    BY DEF PoolInv
  <2> QED
    <3>1. 0 \in Nat
      OBVIOUS
    <3>2. LET q == [p EXCEPT !.chunks = <<>>, !.count = 0, !.cur = 0] IN
          /\ q \in PoolSet
          /\ q.chunks = <<>> /\ q.count = 0 /\ q.index = p.index /\ q.cur = 0
      BY <2>1, <3>1 DEF PoolSet
    <3> QED
      BY <3>2 DEF Free
<1>2. Len(Free(p).chunks) = 0 /\ DOMAIN Free(p).chunks = {}
  BY <1>1
<1> QED
  BY <1>1, <1>2, EmptiedInv

LEMMA NewPoolInv ==
    ASSUME NEW s \in Nat
    PROVE  PoolInv(NewPool(s)) /\ Contents(NewPool(s)) = <<>>
<1>1. /\ NewPool(s) \in PoolSet /\ NewPool(s).cur = 0 /\ NewPool(s).count = 0
      /\ NewPool(s).chunks = <<>>
  BY DEF NewPool, PoolSet
<1>2. Len(NewPool(s).chunks) = 0 /\ DOMAIN NewPool(s).chunks = {}
  BY <1>1
<1> QED
  BY <1>1, <1>2, EmptiedInv

\* trim lets go of the chunks behind the first.
LEMMA TrimInv ==
    ASSUME NEW p, PoolInv(p)
    PROVE  PoolInv(Trim(Reset(p))) /\ Contents(Trim(Reset(p))) = <<>>
<1> DEFINE r == Reset(p)
           q == Trim(r)
           N == Len(r.chunks)
           t == [i \in DOMAIN r.chunks |-> IF i \in r.cur + 1 .. r.cur + (r.count - (r.index + 1)) THEN NoChunk
                                           ELSE r.chunks[i]]
<1>1. /\ PoolInv(r) /\ Contents(r) = <<>>
      /\ r.chunks # <<>> => r.cur = 1 /\ r.index = 0
      /\ \A i \in DOMAIN r.chunks : r.chunks[i].data = <<>>
  BY ResetInv
<1> SUFFICES PoolInv(q) /\ Contents(q) = <<>>
  OBVIOUS
<1> HIDE DEF r
<1>2. CASE r.index + 1 >= r.count
  <2>1. q = r
    BY <1>2 DEF Trim
  <2> QED
    BY <1>1, <2>1
<1>3. CASE ~(r.index + 1 >= r.count)
  <2>1. /\ r \in PoolSet /\ r.chunks \in Seq(Chunk) /\ DOMAIN r.chunks = 1 .. N /\ N \in Nat
        /\ r.count \in Nat /\ r.index \in Nat /\ r.count <= N
    BY <1>1 DEF PoolInv, PoolSet
  <2>2. r.chunks # <<>> /\ r.cur = 1 /\ r.index = 0
    BY <1>1, <1>3, <2>1, EmptyPool
  <2>3. q = [r EXCEPT !.chunks = t, !.count = r.index + 1]
    BY <1>3 DEF Trim
  <2>4. NoChunk \in Chunk /\ NoChunk.data = <<>>
    BY DEF NoChunk, Chunk
  <2>5. ASSUME NEW i \in 1 .. N
        PROVE  t[i] \in Chunk /\ t[i].data = <<>>
    <3>1. r.chunks[i] \in Chunk /\ r.chunks[i].data = <<>>
      BY <1>1, <2>1
    <3>2. t[i] = NoChunk \/ t[i] = r.chunks[i]
      BY <2>1
    <3> QED
      BY <3>1, <3>2, <2>4
  <2>6. DOMAIN t = 1 .. N /\ t = [i \in 1 .. N |-> t[i]]
    BY <2>1
  <2> HIDE DEF t
  <2>7. t \in Seq(Chunk) /\ Len(t) = N
    <3>1. t \in [1 .. N -> Chunk]
      BY <2>5, <2>6
    <3> QED
      BY <3>1, <2>1
  <2>8. q \in PoolSet /\ q.chunks = t /\ q.cur = 1 /\ q.count = 1
    <3>1. q = [r EXCEPT !.chunks = t, !.count = 1] /\ 1 \in Nat
      BY <2>2, <2>3
    <3>2. LET s == [r EXCEPT !.chunks = t, !.count = 1] IN
          /\ s \in PoolSet
          /\ s.chunks = t /\ s.count = 1 /\ s.index = r.index /\ s.cur = r.cur
      <4>1. r \in PoolSet /\ t \in Seq(Chunk)
        BY <2>1, <2>7
      <4> QED
        BY <4>1, <3>1 DEF PoolSet
    <3> QED
      BY <2>2, <3>1, <3>2
  <2>9. q.cur <= q.count /\ q.count <= Len(q.chunks) /\ q.cur # 0
    BY <1>3, <2>1, <2>2, <2>7, <2>8
  <2>10. \A i \in DOMAIN q.chunks : q.chunks[i].data = <<>>
    BY <2>5, <2>6, <2>8
  <2> QED
    BY <2>8, <2>9, <2>10, EmptiedInv
<1> QED
  BY <1>2, <1>3

\* flatten moves the contents to the first chunk.
LEMMA FlattenInv ==
    ASSUME NEW p, PoolInv(p), NEW extra \in Nat
    PROVE  PoolInv(Flatten(p, extra)) /\ Contents(Flatten(p, extra)) = Contents(p)
<1>1. CASE p.count = 0
  BY <1>1 DEF Flatten
<1>2. CASE p.count # 0
  <2> DEFINE N == Len(p.chunks)
             q == Flatten(p, extra)
             first == [cap |-> Greater(p.chunks[1].cap, GetSize(p) + extra), data |-> Contents(p)]
             t == [i \in DOMAIN p.chunks |-> IF i = 1 THEN first
                                             ELSE IF i <= p.cur THEN NoChunk ELSE p.chunks[i]]
  <2>1. /\ p \in PoolSet /\ p.chunks \in Seq(Chunk) /\ DOMAIN p.chunks = 1 .. N /\ N \in Nat
        /\ p.cur \in Nat /\ p.count \in Nat /\ p.cur <= p.count /\ p.count <= N
    BY DEF PoolInv, PoolSet
  <2>2. p.cur # 0 /\ 1 \in 1 .. N /\ p.cur \in 0 .. N
    BY <1>2, <2>1, EmptyPool DEF PoolInv
  <2>3. q = [p EXCEPT !.chunks = t, !.count = 1, !.cur = 1, !.index = 0]
    BY <1>2 DEF Flatten
  <2>4. Contents(p) \in Seq(Byte) /\ GetSize(p) = Len(Contents(p))
    BY <2>1, <2>2, DataSeq DEF Contents, GetSize
  <2>5. first \in Chunk /\ Len(first.data) <= first.cap /\ first.data = Contents(p)
    <3>1. p.chunks[1].cap \in Nat
      <4>1. p.chunks[1] \in Chunk
        BY <2>1, <2>2
      <4> QED
        BY <4>1 DEF Chunk
    <3>2. Len(Contents(p)) \in Nat
      BY <2>4
    <3>3. /\ Greater(p.chunks[1].cap, GetSize(p) + extra) \in Nat
          /\ Len(Contents(p)) <= Greater(p.chunks[1].cap, GetSize(p) + extra)
      BY <2>4, <3>1, <3>2 DEF Greater
    <3> QED
      BY <2>4, <3>3 DEF Chunk
  <2> HIDE DEF first
  <2>6. NoChunk \in Chunk /\ NoChunk.data = <<>> /\ Len(NoChunk.data) <= NoChunk.cap
    BY DEF NoChunk, Chunk
  <2>7. ASSUME NEW i \in 1 .. N
        PROVE  t[i] \in Chunk /\ Len(t[i].data) <= t[i].cap /\ (i > 1 => t[i].data = <<>>)
    <3>1. t[i] = IF i = 1 THEN first ELSE IF i <= p.cur THEN NoChunk ELSE p.chunks[i]
      BY <2>1
    <3> HIDE DEF t
    <3>2. CASE i = 1
      BY <3>1, <3>2, <2>5
    <3>3. CASE i # 1 /\ i <= p.cur
      BY <3>1, <3>3, <2>6
    <3>4. CASE i # 1 /\ ~(i <= p.cur)
      <4>1. p.chunks[i] \in Chunk /\ p.chunks[i].data = <<>> /\ Len(p.chunks[i].data) <= p.chunks[i].cap
        BY <3>4, <2>1 DEF PoolInv
      <4> QED
        BY <4>1, <3>1, <3>4
    <3> QED
      BY <3>2, <3>3, <3>4
  <2>8. DOMAIN t = 1 .. N /\ t = [i \in 1 .. N |-> t[i]] /\ t[1] = first
    BY <2>1, <2>2
  <2> HIDE DEF t
  <2>9. t \in Seq(Chunk) /\ Len(t) = N
    <3>1. t \in [1 .. N -> Chunk]
      BY <2>7, <2>8
    <3> QED
      BY <3>1, <2>1
  <2>10. q \in PoolSet /\ q.chunks = t /\ q.cur = 1 /\ q.count = 1
    <3>1. 0 \in Nat /\ 1 \in Nat
      OBVIOUS
    <3>2. LET r == [p EXCEPT !.chunks = t, !.count = 1, !.cur = 1, !.index = 0] IN
          /\ r \in PoolSet
          /\ r.chunks = t /\ r.count = 1 /\ r.index = 0 /\ r.cur = 1
      <4>1. p \in PoolSet /\ t \in Seq(Chunk)
        BY <2>1, <2>9
      <4> QED
        BY <4>1, <3>1 DEF PoolSet
    <3> QED
      BY <2>3, <3>2
  <2>11. PoolInv(q)
    <3>1. q.cur <= q.count /\ q.count <= Len(q.chunks) /\ q.cur # 0
      BY <2>1, <2>2, <2>9, <2>10
    <3> QED
      BY <3>1, <2>7, <2>8, <2>10 DEF PoolInv
  <2>12. Contents(q) = <<>> \o Contents(p)
    <3>1. 1 \in 1 .. Len(q.chunks) /\ q.chunks \in Seq(Chunk)
      BY <2>2, <2>9, <2>10
    <3>2. DataTo(q, 1) = DataTo(q, 1 - 1) \o q.chunks[1].data
      BY <3>1, DataStep
    <3>3. 1 - 1 = 0
      OBVIOUS
    <3>4. DataTo(q, 0) = <<>>
      BY <3>1, DataNone
    <3>5. q.chunks[1].data = Contents(p)
      BY <2>5, <2>8, <2>10
    <3>6. DataTo(q, 1) = <<>> \o Contents(p)
      BY <3>2, <3>3, <3>4, <3>5, Zenon
    <3> QED
      BY <3>6, <2>10 DEF Contents
  <2> HIDE DEF q
  <2>13. Contents(q) = Contents(p)
    BY <2>4, <2>12, ConcatEmptySeq
  <2> QED
    BY <2>11, <2>13 DEF q
<1> QED
  BY <1>1, <1>2

------------------------------------------------------------------------------
(* The pools and their users.                                              *)

\* Every pool is sound, and one that is not in use is empty.
BytesInv ==
    /\ \A id \in Id : PoolInv(pool[id])
    /\ \A id \in Id \ InUse : Contents(pool[id]) = <<>>

\* What Pools sees.
Bytes == [id \in Id |-> Contents(pool[id])]
PoolsStep == [Abstract!Next]_<<InUse, Bytes>>

\* A pool that is kept is not in use.
LEMMA KeptIdle ==
    ASSUME PoolerInv, NEW s \in Sizes, NEW id \in Kept(s)
    PROVE  id \in Id /\ id \notin InUse
<1>1. id \in Id
  BY DEF PoolerInv, ListTypes, Kept
<1>2. id \in InUse => id \in used[pool[id].size]
  BY InUseSize
<1>3. pool[id].size = s
  BY DEF PoolerInv, OwnSize
<1> QED
  BY <1>1, <1>2, <1>3 DEF PoolerInv, Distinct

LEMMA ContentsSeq ==
    ASSUME NEW p, PoolInv(p)
    PROVE  Contents(p) \in Seq(Byte)
<1>1. p.chunks \in Seq(Chunk) /\ p.cur \in 0 .. Len(p.chunks)
  BY DEF PoolInv, PoolSet
<1> QED
  BY <1>1, DataSeq DEF Contents

\* A pool that is lent was empty.
LEMMA LendStep ==
    ASSUME NEW id \in Id, Bytes[id] = <<>>, id \notin InUse, InUse' = InUse \cup {id}, Bytes' = Bytes
    PROVE  PoolsStep
<1>1. Abstract!Lend(id)
  BY DEF Abstract!Lend, Bytes
<1> QED
  BY <1>1 DEF PoolsStep, Abstract!Next

\* What its user does: add at the end,
LEMMA PutStep ==
    ASSUME NEW id \in InUse, id \in Id, NEW data \in Seq(Byte), Bytes[id] \in Seq(Byte), InUse' = InUse,
           Bytes' = [Bytes EXCEPT ![id] = @ \o data]
    PROVE  PoolsStep
<1> DEFINE a == Bytes[id]
<1>1. Bytes'[id] = a \o data
  BY DEF Bytes
<1>2. SubSeq(a \o data, Len(a) + 1, Len(a \o data)) = data
  <2> DEFINE r == SubSeq(a \o data, Len(a) + 1, Len(a \o data))
  <2> HIDE DEF a
  <2>1. /\ a \in Seq(Byte) /\ Len(a) \in Nat /\ Len(data) \in Nat
        /\ Len(a \o data) = Len(a) + Len(data)
        /\ \A i \in 1 .. Len(a) + Len(data) : (a \o data)[i] = IF i <= Len(a) THEN a[i] ELSE data[i - Len(a)]
    BY ConcatProperties DEF a
  <2>2. ASSUME NEW i \in 1 .. Len(data)
        PROVE  (a \o data)[i + Len(a)] = data[i] /\ data[i] \in Byte
    <3>1. i + Len(a) \in 1 .. Len(a) + Len(data) /\ ~(i + Len(a) <= Len(a)) /\ (i + Len(a)) - Len(a) = i
      BY <2>1
    <3> QED
      BY <2>1, <3>1
  <2>3. \A i \in Len(a) + 1 .. Len(a) + Len(data) : (a \o data)[i] \in Byte
    <3> SUFFICES ASSUME NEW i \in Len(a) + 1 .. Len(a) + Len(data) PROVE (a \o data)[i] \in Byte
      OBVIOUS
    <3>1. i - Len(a) \in 1 .. Len(data) /\ i \in 1 .. Len(a) + Len(data) /\ ~(i <= Len(a))
      BY <2>1
    <3> QED
      BY <2>1, <2>2, <3>1
  <2>4. /\ r \in Seq(Byte) /\ Len(r) = Len(data)
        /\ \A i \in 1 .. Len(data) : r[i] = (a \o data)[i + Len(a)]
    <3> DEFINE x == Len(a) + 1
               y == Len(a) + Len(data)
               w == a \o data
    <3>1. x \in Int /\ y \in Int /\ \A i \in x .. y : w[i] \in Byte
      BY <2>1, <2>3
    <3>2. (IF x <= y THEN y - x + 1 ELSE 0) = Len(data) /\ y - x + 1 = Len(data)
          /\ \A i \in Nat : x + i - 1 = i + Len(a)
      BY <2>1
    <3> HIDE DEF x, y, w
    <3>3. /\ SubSeq(w, x, y) \in Seq(Byte)
          /\ Len(SubSeq(w, x, y)) = IF x <= y THEN y - x + 1 ELSE 0
          /\ \A i \in 1 .. y - x + 1 : SubSeq(w, x, y)[i] = w[x + i - 1]
      BY <3>1, SubSeqProperties
    <3>4. r = SubSeq(w, x, y)
      BY <2>1 DEF x, y, w
    <3> HIDE DEF r
    <3>5. \A i \in 1 .. Len(data) : r[i] = w[i + Len(a)]
      <4> SUFFICES ASSUME NEW i \in 1 .. Len(data) PROVE r[i] = w[i + Len(a)]
        OBVIOUS
      <4>1. r[i] = w[x + i - 1] /\ x + i - 1 = i + Len(a)
        BY <3>2, <3>3, <3>4
      <4> QED
        BY <4>1
    <3> QED
      BY <3>2, <3>3, <3>4, <3>5 DEF w
  <2> HIDE DEF r
  <2>5. r = data
    BY <2>2, <2>4, SeqEqual
  <2> QED
    BY <2>5 DEF r
<1>3. Abstract!Added(id) = data
  BY <1>1, <1>2 DEF Abstract!Added, Bytes
<1>4. Abstract!Put(id, data)
  BY DEF Abstract!Put, Bytes
<1> QED
  BY <1>3, <1>4 DEF PoolsStep, Abstract!Next

\* or shorten it there.
LEMMA ShortenStep ==
    ASSUME NEW id \in InUse, id \in Id, Bytes[id] \in Seq(Byte), NEW n \in 0 .. Len(Bytes[id]), InUse' = InUse,
           Bytes' = [Bytes EXCEPT ![id] = SubSeq(@, 1, n)]
    PROVE  PoolsStep
<1>1. Abstract!Shorten(id, n)
  BY DEF Abstract!Shorten, Bytes
<1> QED
  BY <1>1 DEF PoolsStep, Abstract!Next, Bytes

\* What a user's call makes of a pool.
LEMMA UseBytes ==
    ASSUME PoolerInv, BytesInv, NEW id \in Id, NEW p, Use(id, p), PoolInv(p)
    PROVE  /\ BytesInv' /\ InUse' = InUse /\ id \in InUse
           /\ Bytes' = [Bytes EXCEPT ![id] = Contents(p)]
           /\ Bytes[id] = Contents(pool[id]) /\ Bytes[id] \in Seq(Byte) /\ PoolInv(pool[id])
<1>1. pool' = [pool EXCEPT ![id] = p] /\ DOMAIN pool = Id /\ InUse' = InUse /\ id \in InUse
  BY DEF Use, InUse, PoolerInv, ListTypes
<1>2. pool'[id] = p /\ \A i \in Id \ {id} : pool'[i] = pool[i]
  BY <1>1
<1>3. BytesInv'
  BY <1>1, <1>2 DEF BytesInv
<1>4. Bytes' = [i \in Id |-> Contents(pool'[i])]
  BY DEF Bytes, Contents, DataTo
<1>5. Bytes' = [Bytes EXCEPT ![id] = Contents(p)]
  BY <1>2, <1>4 DEF Bytes
<1>6. Bytes[id] = Contents(pool[id]) /\ PoolInv(pool[id]) /\ Contents(pool[id]) \in Seq(Byte)
  BY ContentsSeq DEF Bytes, BytesInv
<1> QED
  BY <1>1, <1>3, <1>5, <1>6

LEMMA UserBytes ==
    ASSUME PoolerInv, BytesInv, NEW id \in Id,
           \/ UserPuts(id) \/ UserPutsString(id) \/ UserShrinks(id)
           \/ UserResets(id) \/ UserFrees(id) \/ UserFlattens(id) \/ UserReserves(id)
    PROVE  /\ BytesInv' /\ PoolsStep
           /\ UserFlattens(id) \/ UserReserves(id) => Bytes' = Bytes
<1> DEFINE p == pool[id]
<1>1. PoolInv(p)
  BY DEF BytesInv
<1>2. Puts \subseteq Seq(Byte) /\ MaxBytes[id] \in Nat
  BY PoolerAssumption
<1>3. ASSUME UserFlattens(id) \/ UserReserves(id)
      PROVE  BytesInv' /\ Bytes' = Bytes
  <2>1. PICK q : Use(id, q) /\ PoolInv(q) /\ Contents(q) = Contents(p)
    <3>1. CASE UserFlattens(id)
      <4>1. {0, 1} \subseteq Nat
        OBVIOUS
      <4> QED
        BY <1>1, <3>1, <4>1, FlattenInv DEF UserFlattens
    <3>2. CASE UserReserves(id)
      <4>1. 1 .. MaxBytes[id] \subseteq Nat
        BY <1>2
      <4> QED
        BY <1>1, <3>2, <4>1, ReserveInv DEF UserReserves
    <3> QED
      BY <1>3, <3>1, <3>2
  <2>2. BytesInv' /\ Bytes' = [Bytes EXCEPT ![id] = Contents(q)] /\ Bytes[id] = Contents(p)
    BY <2>1, UseBytes
  <2>3. [Bytes EXCEPT ![id] = Bytes[id]] = Bytes
    BY DEF Bytes
  <2> QED
    BY <2>1, <2>2, <2>3
<1>4. CASE UserFlattens(id) \/ UserReserves(id)
  <2>1. InUse' = InUse
    BY <1>4 DEF UserFlattens, UserReserves, Use, InUse
  <2> QED
    BY <1>3, <1>4, <2>1 DEF PoolsStep
<1>5. ASSUME NEW q, NEW data \in Seq(Byte), Use(id, q), PoolInv(q), Contents(q) = Contents(p) \o data
      PROVE  BytesInv' /\ PoolsStep
  <2>1. /\ BytesInv' /\ InUse' = InUse /\ id \in InUse
        /\ Bytes' = [Bytes EXCEPT ![id] = Contents(q)]
        /\ Bytes[id] = Contents(p) /\ Bytes[id] \in Seq(Byte)
    BY <1>5, UseBytes
  <2>2. Bytes' = [Bytes EXCEPT ![id] = @ \o data]
    BY <1>5, <2>1
  <2> QED
    BY <2>1, <2>2, PutStep
<1>6. ASSUME NEW q, NEW n \in Nat, n <= Len(Contents(p)), Use(id, q), PoolInv(q), Contents(q) = SubSeq(Contents(p), 1, n)
      PROVE  BytesInv' /\ PoolsStep
  <2>1. /\ BytesInv' /\ InUse' = InUse /\ id \in InUse
        /\ Bytes' = [Bytes EXCEPT ![id] = Contents(q)]
        /\ Bytes[id] = Contents(p) /\ Bytes[id] \in Seq(Byte)
    BY <1>6, UseBytes
  <2>2. Bytes' = [Bytes EXCEPT ![id] = SubSeq(@, 1, n)]
    BY <1>6, <2>1
  <2>3. n \in 0 .. Len(Bytes[id])
    BY <1>6, <2>1
  <2> QED
    BY <2>1, <2>2, <2>3, ShortenStep
<1>7. CASE UserPuts(id)
  <2>1. PICK data \in Puts : Use(id, Put(p, data))
    BY <1>7 DEF UserPuts
  <2>2. data \in Seq(Byte)
    BY <1>2
  <2>3. PoolInv(Put(p, data)) /\ Contents(Put(p, data)) = Contents(p) \o data
    BY <1>1, <2>2, PutInv
  <2> QED
    BY <1>3, <1>5, <2>1, <2>2, <2>3
<1>8. CASE UserPutsString(id)
  <2>1. PICK data \in Puts : Use(id, PutString(p, data))
    BY <1>8 DEF UserPutsString
  <2>2. data \in Seq(Byte)
    BY <1>2
  <2>3. /\ PoolInv(PutString(p, data))
        /\ Contents(PutString(p, data)) = Contents(p) \o (data \o <<NUL>>)
        /\ data \o <<NUL>> \in Seq(Byte)
    BY <1>1, <2>2, PutStringInv
  <2> QED
    BY <1>3, <1>5, <2>1, <2>3
<1>9. CASE UserShrinks(id)
  <2>1. PICK n \in 1 .. MaxBytes[id] : CanShrink(p, n) /\ Use(id, Shrink(p, n))
    BY <1>9 DEF UserShrinks
  <2>2. n \in Nat
    BY <1>2
  <2>3. /\ PoolInv(Shrink(p, n))
        /\ Contents(Shrink(p, n)) = SubSeq(Contents(p), 1, Len(Contents(p)) - n)
        /\ n <= Len(Contents(p))
    BY <1>1, <2>1, <2>2, ShrinkInv
  <2>4. Len(Contents(p)) - n \in Nat /\ Len(Contents(p)) - n <= Len(Contents(p))
    <3>1. Contents(p) \in Seq(Byte)
      BY <1>1, ContentsSeq
    <3>2. Len(Contents(p)) \in Nat
      BY <3>1
    <3> QED
      BY <2>2, <2>3, <3>2
  <2> QED
    BY <1>3, <1>6, <2>1, <2>3, <2>4
<1>10. ASSUME NEW q, Use(id, q), PoolInv(q), Contents(q) = <<>>
       PROVE  BytesInv' /\ PoolsStep
  <2>1. Contents(p) \in Seq(Byte)
    BY <1>1, ContentsSeq
  <2>2. SubSeq(Contents(p), 1, 0) = <<>> /\ 0 \in Nat /\ 0 <= Len(Contents(p))
    BY <2>1, SubSeqEmpty
  <2> QED
    BY <1>6, <1>10, <2>2
<1>11. CASE UserResets(id)
  BY <1>1, <1>3, <1>10, <1>11, ResetInv DEF UserResets
<1>12. CASE UserFrees(id)
  BY <1>1, <1>3, <1>10, <1>12, FreeInv DEF UserFrees
<1> QED
  BY <1>3, <1>4, <1>7, <1>8, <1>9, <1>11, <1>12

LEMMA ObtainBytes ==
    ASSUME PoolerInv, BytesInv, NEW s \in Sizes,
           ObtainKept(s) \/ \E id \in Id : ObtainNew(s, id)
    PROVE  BytesInv' /\ PoolsStep
<1>1. ASSUME NEW id \in Id, id \notin InUse, used' = [used EXCEPT ![s] = @ \cup {id}],
             pool' = pool \/ pool' = [pool EXCEPT ![id] = NewPool(s)]
      PROVE  BytesInv' /\ PoolsStep
  <2>1. InUse' = InUse \cup {id}
    <3>1. used'[s] = used[s] \cup {id} /\ \A r \in Sizes \ {s} : used'[r] = used[r]
      BY <1>1 DEF PoolerInv, ListTypes
    <3> QED
      BY <3>1 DEF InUse
  <2>2. Contents(pool[id]) = <<>> /\ PoolInv(pool[id])
    BY <1>1 DEF BytesInv
  <2>3. s \in Nat
    BY PoolerAssumption
  <2>4. /\ \A i \in Id \ {id} : pool'[i] = pool[i]
        /\ PoolInv(pool'[id]) /\ Contents(pool'[id]) = <<>>
    <3>1. PoolInv(NewPool(s)) /\ Contents(NewPool(s)) = <<>>
      BY <2>3, NewPoolInv
    <3>2. CASE pool' = pool
      BY <2>2, <3>2
    <3>3. CASE pool' = [pool EXCEPT ![id] = NewPool(s)]
      BY <3>1, <3>3 DEF PoolerInv, ListTypes
    <3> QED
      BY <1>1, <3>2, <3>3
  <2>5. BytesInv'
    <3>1. \A i \in Id : PoolInv(pool'[i])
      BY <2>4 DEF BytesInv
    <3>2. \A i \in Id \ InUse' : Contents(pool'[i]) = <<>>
      BY <2>1, <2>4 DEF BytesInv
    <3> QED
      BY <3>1, <3>2 DEF BytesInv, Contents, DataTo
  <2>6. Bytes' = Bytes
    <3>1. Bytes' = [i \in Id |-> Contents(pool'[i])]
      BY DEF Bytes, Contents, DataTo
    <3>2. \A i \in Id : Contents(pool'[i]) = Contents(pool[i])
      BY <2>2, <2>4
    <3> QED
      BY <3>1, <3>2 DEF Bytes
  <2> QED
    BY <1>1, <2>1, <2>2, <2>5, <2>6, LendStep DEF Bytes
<1>2. CASE ObtainKept(s)
  <2>1. Last(unused[s]) \in Kept(s)
    <3>1. unused[s] \in Seq(Id) /\ unused[s] # <<>>
      BY <1>2 DEF ObtainKept, PoolerInv, ListTypes
    <3>2. Len(unused[s]) \in DOMAIN unused[s]
      BY <3>1
    <3> QED
      BY <3>2 DEF Kept, Last
  <2>2. Last(unused[s]) \in Id /\ Last(unused[s]) \notin InUse
    BY <2>1, KeptIdle
  <2> QED
    BY <1>1, <1>2, <2>2 DEF ObtainKept
<1>3. ASSUME NEW id \in Id, ObtainNew(s, id)
      PROVE  BytesInv' /\ PoolsStep
  BY <1>1, <1>3 DEF ObtainNew, Existing
<1> QED
  BY <1>2, <1>3

LEMMA RecycleBytes ==
    ASSUME PoolerInv, BytesInv, NEW id \in Id, Recycle(id)
    PROVE  BytesInv' /\ PoolsStep
<1> DEFINE s == pool[id].size
<1>1. id \in InUse /\ s \in Sizes /\ id \in used[s]
  BY InUseSize DEF Recycle
<1>2. \A r \in Sizes \ {s} : id \notin used[r]
  BY DEF PoolerInv, OwnSize
<1>3. used' = [used EXCEPT ![s] = @ \ {id}]
  BY DEF Recycle
<1>4. InUse' = InUse \ {id}
  <2>1. used'[s] = used[s] \ {id} /\ \A r \in Sizes \ {s} : used'[r] = used[r]
    BY <1>1, <1>3 DEF PoolerInv, ListTypes
  <2> QED
    BY <1>2, <2>1 DEF InUse
<1>5. PICK q : pool' = [pool EXCEPT ![id] = q] /\ PoolInv(q) /\ Contents(q) = <<>>
  <2>1. PoolInv(NewPool(0)) /\ Contents(NewPool(0)) = <<>>
    <3>1. 0 \in Nat
      OBVIOUS
    <3> QED
      BY <3>1, NewPoolInv
  <2>2. PoolInv(Trim(Reset(pool[id]))) /\ Contents(Trim(Reset(pool[id]))) = <<>>
    BY TrimInv DEF BytesInv
  <2>3. pool' = [pool EXCEPT ![id] = NewPool(0)] \/ pool' = [pool EXCEPT ![id] = Trim(Reset(pool[id]))]
    BY DEF Recycle
  <2> QED
    BY <2>1, <2>2, <2>3
<1>6. pool'[id] = q /\ \A i \in Id \ {id} : pool'[i] = pool[i]
  BY <1>5 DEF PoolerInv, ListTypes
<1>7. BytesInv'
  <2>1. \A i \in Id : PoolInv(pool'[i])
    BY <1>5, <1>6 DEF BytesInv
  <2>2. \A i \in Id \ InUse' : Contents(pool'[i]) = <<>>
    BY <1>4, <1>5, <1>6 DEF BytesInv
  <2> QED
    BY <2>1, <2>2 DEF BytesInv, Contents, DataTo
<1>8. Bytes' = [Bytes EXCEPT ![id] = <<>>]
  <2>1. Bytes' = [i \in Id |-> Contents(pool'[i])]
    BY DEF Bytes, Contents, DataTo
  <2>2. \A i \in Id : Contents(pool'[i]) = IF i = id THEN <<>> ELSE Contents(pool[i])
    BY <1>5, <1>6
  <2>3. [Bytes EXCEPT ![id] = <<>>] = [i \in Id |-> IF i = id THEN <<>> ELSE Contents(pool[i])]
    BY DEF Bytes
  <2> QED
    BY <2>1, <2>2, <2>3
<1>9. Abstract!Return(id)
  BY <1>1, <1>4, <1>8 DEF Abstract!Return, Bytes
<1> QED
  BY <1>7, <1>9 DEF PoolsStep, Abstract!Next

LEMMA BytesStep ==
    ASSUME PoolerInv, BytesInv, [PoolsNext]_poolVars
    PROVE  BytesInv' /\ PoolsStep
<1>1. CASE UNCHANGED poolVars
  BY <1>1 DEF BytesInv, PoolsStep, Bytes, InUse, Contents, DataTo, poolVars
<1>2. CASE PoolsNext
  BY <1>2, ObtainBytes, RecycleBytes, UserBytes DEF PoolsNext
<1> QED
  BY <1>1, <1>2

LEMMA BytesInit == PoolsInit => BytesInv /\ Abstract!Init
<1> SUFFICES ASSUME PoolsInit PROVE BytesInv /\ Abstract!Init
  OBVIOUS
<1>1. PoolInv(NewPool(0)) /\ Contents(NewPool(0)) = <<>>
  <2>1. 0 \in Nat
    OBVIOUS
  <2> QED
    BY <2>1, NewPoolInv
<1>2. \A id \in Id : pool[id] = NewPool(0)
  BY DEF PoolsInit
<1>3. InUse = {}
  BY DEF PoolsInit, InUse
<1> QED
  BY <1>1, <1>2, <1>3 DEF BytesInv, Abstract!Init

\* The inductive invariant of the contents.
THEOREM BytesInvariant == PoolsSpec => []BytesInv
<1>1. PoolsInit => BytesInv
  BY BytesInit
<1>2. PoolerInv /\ BytesInv /\ [PoolsNext]_poolVars => BytesInv'
  BY BytesStep
<1>3. QED
  BY <1>1, <1>2, PoolerInvariant, PTL DEF PoolsSpec

\* The chunks that are counted are the contents, and no buffer is overrun.
THEOREM ContentsAreCounted == PoolsSpec => []ContentsInv
<1>1. PoolerInv /\ BytesInv => ContentsInv
  <2> SUFFICES ASSUME PoolerInv, BytesInv PROVE ContentsInv
    OBVIOUS
  <2>1. ASSUME NEW id \in Id
        PROVE  /\ pool[id].cur \in 0 .. Len(pool[id].chunks) /\ pool[id].count \in 0 .. Len(pool[id].chunks)
               /\ pool[id].cur <= pool[id].count
               /\ \A i \in DOMAIN pool[id].chunks : pool[id].chunks[i].data \in Seq(Byte)
               /\ \A i \in 1 .. pool[id].count : Len(pool[id].chunks[i].data) <= pool[id].chunks[i].cap
               /\ DataTo(pool[id], pool[id].count) = Contents(pool[id])
    <3> DEFINE p == pool[id]
    <3>1. PoolInv(p)
      BY DEF BytesInv
    <3> HIDE DEF p
    <3>2. /\ p.chunks \in Seq(Chunk) /\ p.cur \in Nat /\ p.count \in Nat
          /\ p.cur <= p.count /\ p.count <= Len(p.chunks)
          /\ DOMAIN p.chunks = 1 .. Len(p.chunks)
      BY <3>1 DEF PoolInv, PoolSet
    <3>3. p.cur \in 0 .. Len(p.chunks) /\ p.count \in 0 .. Len(p.chunks) /\ p.cur \in 0 .. p.count
      BY <3>2
    <3>4. \A i \in DOMAIN p.chunks : p.chunks[i].data \in Seq(Byte)
      <4>1. \A i \in DOMAIN p.chunks : p.chunks[i] \in Chunk
        BY <3>2
      <4> QED
        BY <4>1 DEF Chunk
    <3>5. \A i \in 1 .. p.count : i \in DOMAIN p.chunks
      BY <3>2
    <3>6. \A i \in 1 .. p.count : Len(p.chunks[i].data) <= p.chunks[i].cap
      BY <3>1, <3>5 DEF PoolInv
    <3>7. \A i \in p.cur + 1 .. p.count : p.chunks[i].data = <<>>
      <4>1. \A i \in p.cur + 1 .. p.count : i \in DOMAIN p.chunks /\ i > p.cur
        BY <3>2
      <4> QED
        BY <3>1, <4>1 DEF PoolInv
    <3>8. DataTo(p, p.count) = Contents(p)
      BY <3>2, <3>3, <3>7, DataTail DEF Contents
    <3> QED
      BY <3>2, <3>3, <3>4, <3>6, <3>8 DEF p
  <2>2. InUse \subseteq Id
    BY DEF InUse, PoolerInv, ListTypes
  <2>3. PoolsTypeOK
    BY <2>1 DEF PoolsTypeOK, PoolerInv, ListTypes
  <2>4. WithinBuffers
    BY <2>1, <2>2 DEF WithinBuffers
  <2>5. CountedChunksAreContents
    BY <2>1, <2>2 DEF CountedChunksAreContents
  <2> QED
    BY <2>3, <2>4, <2>5 DEF ContentsInv
<1> QED
  BY <1>1, PoolerInvariant, BytesInvariant, PTL

\* Chunks, tables and pools used again implement byte sequences.
THEOREM ImplementsPools == PoolsSpec => PoolsKeepBytes
<1>1. PoolsInit => Abstract!Init
  BY BytesInit
<1>2. PoolerInv /\ BytesInv /\ [PoolsNext]_poolVars => [Abstract!Next]_<<InUse, [id \in Id |-> Contents(pool[id])]>>
  BY BytesStep DEF PoolsStep, Bytes
<1>3. ASSUME PoolerInv, BytesInv, PoolsNext
      PROVE  \A id \in Id : UserFlattens(id) \/ UserReserves(id) => Contents(pool[id])' = Contents(pool[id])
  <2> SUFFICES ASSUME NEW id \in Id, UserFlattens(id) \/ UserReserves(id)
               PROVE  Contents(pool[id])' = Contents(pool[id])
    OBVIOUS
  <2>1. Bytes' = Bytes
    BY <1>3, UserBytes, Zenon
  <2>2. Bytes'[id] = Contents(pool[id])' /\ Bytes[id] = Contents(pool[id])
    BY DEF Bytes, Contents, DataTo
  <2> QED
    BY <2>1, <2>2
<1>4. PoolsSpec => MovingKeepsContents
  <2>1. PoolerInv /\ BytesInv /\ [PoolsNext]_poolVars
          => [\A id \in Id : UserFlattens(id) \/ UserReserves(id) => Contents(pool[id])' = Contents(pool[id])]_poolVars
    BY <1>3
  <2> QED
    BY <2>1, PoolerInvariant, BytesInvariant, PTL DEF PoolsSpec, MovingKeepsContents
<1>5. PoolsSpec => PoolsKeepContents
  BY <1>1, <1>2, PoolerInvariant, BytesInvariant, PTL DEF PoolsSpec, PoolsKeepContents, Abstract!Spec
<1> QED
  BY <1>4, <1>5 DEF PoolsKeepBytes
==============================================================================
