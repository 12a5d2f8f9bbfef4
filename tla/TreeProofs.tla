------------------------------- MODULE TreeProofs -------------------------------
(***************************************************************************)
(* Proofs about the tree of XML nodes: for any nodes, the pointers are     *)
(* those of a forest of lists, after every operation.                      *)
(***************************************************************************)
EXTENDS XmlTree, Numbers, FiniteSetTheorems, FunctionTheorems, TLAPS

\* n is in the list s.
In(s, n) == \E i \in 1 .. Len(s) : s[i] = n

\* K[e] is the list of the children of e.
Lists(alive, K) ==
    /\ K \in [alive -> Seq(alive)]
    /\ \A e \in alive \ Element : K[e] = <<>>

\* A node is in one list, once.
Once(K) ==
    \A e, f \in DOMAIN K : \A i \in 1 .. Len(K[e]), j \in 1 .. Len(K[f]) :
        K[e][i] = K[f][j] => e = f /\ i = j

LEMMA OnceAt ==
    ASSUME NEW K, Once(K), NEW f \in DOMAIN K, NEW g \in DOMAIN K,
           NEW i \in 1 .. Len(K[f]), NEW j \in 1 .. Len(K[g]), K[f][i] = K[g][j]
    PROVE  f = g /\ i = j
  BY DEF Once

\* Among any nodes there is one that is no child of the others.
NoCircle(K) ==
    \A A \in SUBSET DOMAIN K : A # {} => \E x \in A : \A y \in A : ~In(K[y], x)

\* The pointers of t are those of the lists K.
Ends(t, K) ==
    \A n \in Node :
        /\ t.first[n] = IF n \in t.alive /\ K[n] # <<>> THEN K[n][1] ELSE None
        /\ t.last[n] = IF n \in t.alive /\ K[n] # <<>> THEN K[n][Len(K[n])] ELSE None

Links(t, K) ==
    \A e \in t.alive : \A i \in 1 .. Len(K[e]) :
        /\ t.parent[K[e][i]] = e
        /\ t.prev[K[e][i]] = IF i = 1 THEN None ELSE K[e][i - 1]
        /\ t.next[K[e][i]] = IF i = Len(K[e]) THEN None ELSE K[e][i + 1]

Unlinked(t, K) ==
    \A n \in Node : (\A e \in t.alive : ~In(K[e], n)) =>
        t.parent[n] = None /\ t.prev[n] = None /\ t.next[n] = None

Holds(t, K) ==
    /\ t \in Trees
    /\ Lists(t.alive, K) /\ Once(K) /\ NoCircle(K)
    /\ Ends(t, K) /\ Links(t, K) /\ Unlinked(t, K)

-----------------------------------------------------------------------------
(* Walks.                                                                  *)

\* The number of nodes, and of the nodes of a list.
LEMMA NodesAre ==
    Cardinality(Node) \in Nat /\ None \notin Node /\ IsFiniteSet(Node)
  BY XmlTreeAssumption, FS_CardinalityType

LEMMA ListIs ==
    ASSUME NEW t, NEW K, Holds(t, K), NEW e \in t.alive
    PROVE  /\ e \in Node /\ t.alive \subseteq Node /\ K[e] \in Seq(t.alive) /\ Len(K[e]) \in 0 .. Cardinality(Node)
           /\ \A i \in 1 .. Len(K[e]) : K[e][i] \in Node /\ K[e][i] \in t.alive /\ K[e][i] # None
<1> DEFINE s == K[e]
<1>1. t.alive \subseteq Node /\ s \in Seq(t.alive)
  BY DEF Holds, Lists, Trees
<1>2. Len(s) \in Nat /\ \A i \in 1 .. Len(s) : s[i] \in t.alive
  BY <1>1
<1>3. Len(s) <= Cardinality(Node)
  <2> DEFINE f == [i \in 1 .. Len(s) |-> s[i]]
  <2>1. \A i \in 1 .. Len(s) : s[i] \in Node
    BY <1>1, <1>2
  <2>2. f \in [1 .. Len(s) -> Node]
    BY <2>1
  <2>3. \A i, j \in 1 .. Len(s) : s[i] = s[j] => i = j
    <3>1. DOMAIN K = t.alive /\ Once(K)
      BY DEF Holds, Lists
    <3> QED
      BY <3>1 DEF Once
  <2>4. \A i, j \in 1 .. Len(s) : f[i] = f[j] => i = j
    BY <2>3
  <2>5. f \in Injection(1 .. Len(s), Node)
    BY <2>2, <2>4 DEF Injection, IsInjective
  <2>6. Cardinality(1 .. Len(s)) <= Cardinality(Node)
    BY <2>5, NodesAre, FS_Injection
  <2>7. Cardinality(1 .. Len(s)) = Len(s)
    BY <1>2, FS_Interval
  <2> QED
    BY <2>6, <2>7
<1> QED
  BY <1>1, <1>2, <1>3, NodesAre

\* The walk along the siblings finds the list.
LEMMA ChildrenAre ==
    ASSUME NEW t, NEW K, Holds(t, K), NEW e \in Node
    PROVE  ChildrenOf(t, e) = IF e \in t.alive THEN K[e] ELSE <<>>
<1> DEFINE N == Cardinality(Node)
           D == [Pointer -> Seq(Node)]
           Step(h) == [n \in Pointer |-> IF n = None THEN <<>> ELSE <<n>> \o h[t.next[n]]]
           d == [n \in Pointer |-> <<>>]
           G == [x \in (1 .. N) \X D |-> Step(x[2])]
           Solved(f) == [steps \in 0 .. N |->
                            [n \in Pointer |-> IF n = None \/ steps = 0 THEN <<>>
                                               ELSE <<n>> \o f[steps - 1][t.next[n]]]]
           along == CHOOSE f : f = Solved(f)
<1>1. N \in Nat /\ d \in D
  BY NodesAre
<1>2. ChildrenOf(t, e) = along[N][t.first[e]]
  BY DEF ChildrenOf
<1> HIDE DEF N
<1>a. t.next \in [Node -> Pointer]
  BY DEF Holds, Trees
<1>3. ASSUME NEW h \in D PROVE Step(h) \in D
  <2> SUFFICES ASSUME NEW n \in Pointer
               PROVE  (IF n = None THEN <<>> ELSE <<n>> \o h[t.next[n]]) \in Seq(Node)
    BY Zenon
  <2>1. CASE n # None
    <3>1. n \in Node /\ t.next[n] \in Pointer /\ h[t.next[n]] \in Seq(Node)
      BY <2>1, <1>a DEF Pointer
    <3> QED
      BY <2>1, <3>1
  <2> QED
    BY <2>1
<1>4. ASSUME NEW i \in 1 .. N, NEW h \in D
      PROVE  G[<<i, h>>] = Step(h)
  OBVIOUS
<1>5. G \in [(1 .. N) \X D -> D]
  <2> HIDE DEF D
  <2> SUFFICES ASSUME NEW x \in (1 .. N) \X D PROVE Step(x[2]) \in D
    BY Zenon
  <2>1. x[2] \in D
    OBVIOUS
  <2> QED
    BY <2>1, <1>3, Zenon
<1> HIDE DEF G
<1>6. PICK h \in [0 .. N -> D] : h[0] = d /\ \A i \in 1 .. N : h[i] = G[<<i, h[i - 1]>>]
  <2> HIDE DEF D, d
  <2>1. Recursive(D, d, N, G)
    BY <1>1, <1>5, Recursion, Zenon
  <2> QED
    BY <2>1, Zenon DEF Recursive
<1>7. ASSUME NEW i \in 1 .. N
      PROVE  h[i] = Step(h[i - 1])
  <2> HIDE DEF D
  <2>1. h[i - 1] \in D
    BY <1>1
  <2> QED
    BY <2>1, <1>4, <1>6
<1>8. h = Solved(h)
  <2>1. ASSUME NEW i \in 0 .. N
        PROVE  h[i] = [n \in Pointer |-> IF n = None \/ i = 0 THEN <<>> ELSE <<n>> \o h[i - 1][t.next[n]]]
    <3>1. CASE i = 0
      BY <3>1, <1>6
    <3>2. CASE i # 0
      <4>1. i \in 1 .. N
        BY <3>2, <1>1
      <4> QED
        BY <4>1, <3>2, <1>7
    <3> QED
      BY <3>1, <3>2
  <2>2. DOMAIN h = 0 .. N
    OBVIOUS
  <2>3. h = [i \in 0 .. N |-> h[i]]
    BY <2>2
  <2> QED
    BY <2>1, <2>3, Zenon
<1>9. along = Solved(along)
  BY <1>8
<1> HIDE DEF along
<1>10. ASSUME NEW i \in 0 .. N, NEW n \in Pointer
       PROVE  along[i][n] = IF n = None \/ i = 0 THEN <<>> ELSE <<n>> \o along[i - 1][t.next[n]]
  <2>1. along[i] = [x \in Pointer |-> IF x = None \/ i = 0 THEN <<>> ELSE <<x>> \o along[i - 1][t.next[x]]]
    <3>1. along[i] = Solved(along)[i]
      BY <1>9, Zenon
    <3> QED
      BY <3>1
  <2> QED
    BY <2>1, Zenon
<1> HIDE DEF D, d
<1> DEFINE s == IF e \in t.alive THEN K[e] ELSE <<>>
           L == Len(s)
           At(j) == IF j <= L THEN s[j] ELSE None
           Part(k) == [i \in 1 .. k |-> s[L - k + i]]
           Good(k) == \A steps \in k .. N : along[steps][At(L - k + 1)] = Part(k)
           S == {k \in 0 .. L : Good(k)}
<1>11. /\ L \in Nat /\ L <= N /\ s \in Seq(Node)
       /\ \A i \in 1 .. L : s[i] \in Node /\ s[i] # None /\ t.next[s[i]] = IF i = L THEN None ELSE s[i + 1]
       /\ t.first[e] = IF L = 0 THEN None ELSE s[1]
  <2>1. CASE e \in t.alive
    <3>1. K[e] \in Seq(Node) /\ Len(K[e]) \in 0 .. N /\ \A i \in 1 .. Len(K[e]) : K[e][i] \in Node /\ K[e][i] # None
      BY <2>1, ListIs DEF N
    <3>2. \A i \in 1 .. Len(K[e]) : t.next[K[e][i]] = IF i = Len(K[e]) THEN None ELSE K[e][i + 1]
      BY <2>1 DEF Holds, Links
    <3>3. t.first[e] = IF K[e] # <<>> THEN K[e][1] ELSE None
      BY <2>1 DEF Holds, Ends
    <3>4. K[e] = <<>> <=> Len(K[e]) = 0
      BY <3>1
    <3> QED
      BY <3>1, <3>2, <3>3, <3>4, <2>1, <1>1
  <2>2. CASE e \notin t.alive
    <3>1. t.first[e] = None
      BY <2>2 DEF Holds, Ends
    <3> QED
      BY <3>1, <2>2, <1>1
  <2> QED
    BY <2>1, <2>2
<1> HIDE DEF s
<1> HIDE DEF L
<1>12. 0 \in S
  <2>1. At(L - 0 + 1) = None
    BY <1>11
  <2>2. \A steps \in 0 .. N : along[steps][None] = <<>>
    BY <1>10 DEF Pointer
  <2>3. Part(0) = <<>>
    OBVIOUS
  <2>4. Good(0)
    BY <2>1, <2>2, <2>3
  <2> QED
    BY <2>4, <1>11
<1>13. ASSUME NEW k \in 1 .. L, k - 1 \in S PROVE k \in S
  <2> DEFINE x == s[L - k + 1]
  <2>1. L - k + 1 \in 1 .. L /\ At(L - k + 1) = x /\ x \in Node /\ x # None /\ k \in 0 .. L
    BY <1>11
  <2>2. t.next[x] = At(L - (k - 1) + 1)
    BY <1>11, <2>1
  <2>3. ASSUME NEW steps \in k .. N
        PROVE  along[steps][At(L - k + 1)] = Part(k)
    <3>1. steps \in 0 .. N /\ steps # 0 /\ steps - 1 \in k - 1 .. N
      BY <1>11, <1>1
    <3>2. along[steps][x] = <<x>> \o along[steps - 1][t.next[x]]
      BY <3>1, <2>1, <1>10 DEF Pointer
    <3>3. along[steps - 1][t.next[x]] = Part(k - 1)
      BY <3>1, <2>2, <1>13
    <3>4. <<x>> \o Part(k - 1) = Part(k)
      <4>1. \A i \in 1 .. k - 1 : L - (k - 1) + i \in 1 .. L /\ L - (k - 1) + i = L - k + (i + 1)
        BY <1>11
      <4>2. Part(k - 1) \in Seq(Node) /\ Len(Part(k - 1)) = k - 1
        BY <4>1, <1>11
      <4>3. Part(k) \in Seq(Node) /\ Len(Part(k)) = k
        <5>1. \A i \in 1 .. k : L - k + i \in 1 .. L
          BY <1>11
        <5> QED
          BY <5>1, <1>11
      <4>4. <<x>> \o Part(k - 1) \in Seq(Node) /\ Len(<<x>> \o Part(k - 1)) = k
        BY <4>2, <2>1
      <4>5. ASSUME NEW i \in 1 .. k PROVE (<<x>> \o Part(k - 1))[i] = Part(k)[i]
        <5>1. CASE i = 1
          BY <5>1, <4>2, <2>1
        <5>2. CASE i # 1
          <6>1. i - 1 \in 1 .. k - 1
            BY <5>2, <1>11
          <6>2. (<<x>> \o Part(k - 1))[i] = Part(k - 1)[i - 1]
            <7> DEFINE q == Part(k - 1)
            <7>1. q \in Seq(Node) /\ Len(q) = k - 1
              BY <4>2
            <7> HIDE DEF q
            <7> QED
              BY <7>1, <6>1, <5>2, <2>1
          <6>3. L - (k - 1) + (i - 1) = L - k + i
            BY <1>11
          <6> QED
            BY <6>1, <6>2, <6>3
        <5> QED
          BY <5>1, <5>2
      <4> DEFINE p == <<x>> \o Part(k - 1)  q == Part(k)
      <4> HIDE DEF p, q
      <4>6. p \in Seq(Node) /\ q \in Seq(Node) /\ Len(p) = k /\ Len(q) = k /\ \A i \in 1 .. k : p[i] = q[i]
        BY <4>3, <4>4, <4>5 DEF p, q
      <4>7. p = q
        BY <4>6
      <4> QED
        BY <4>7 DEF p, q
    <3> QED
      BY <3>2, <3>3, <3>4, <2>1
  <2>4. Good(k)
    BY <2>3
  <2> HIDE DEF Good
  <2> QED
    BY <2>4, <2>1
<1>14. Good(L)
  <2> HIDE DEF Good
  <2>1. \A i \in 0 .. L : i \in S
    <3> HIDE DEF S
    <3> QED
      BY <1>11, <1>12, <1>13, NatSteps, Zenon
  <2>2. L \in 0 .. L
    BY <1>11
  <2> QED
    BY <2>1, <2>2
<1>15. along[N][At(1)] = Part(L)
  <2>1. N \in L .. N /\ L - L + 1 = 1
    BY <1>11, <1>1
  <2> QED
    BY <1>14, <2>1
<1>16. At(1) = t.first[e]
  BY <1>11
<1>17. Part(L) = s
  <2>1. \A i \in 1 .. L : L - L + i = i
    BY <1>11
  <2>2. Part(L) = [i \in 1 .. L |-> s[i]]
    BY <2>1
  <2> QED
    BY <2>2, <1>11 DEF L
<1> QED
  BY <1>2, <1>15, <1>16, <1>17 DEF s

-----------------------------------------------------------------------------
(* What is below a node.                                                   *)

Closed(K, C) == \A x \in C : \A i \in 1 .. Len(K[x]) : K[x][i] \in C

\* The least closed set with n in it.
Under(K, n) ==
    {x \in DOMAIN K : \A C \in SUBSET DOMAIN K : n \in C /\ Closed(K, C) => x \in C}

LEMMA UnderIs ==
    ASSUME NEW A, NEW K \in [A -> Seq(A)], NEW n \in A
    PROVE  /\ n \in Under(K, n) /\ Under(K, n) \subseteq A
           /\ Closed(K, Under(K, n))
           /\ \A C \in SUBSET A : n \in C /\ Closed(K, C) => Under(K, n) \subseteq C
<1>1. n \in Under(K, n) /\ Under(K, n) \subseteq A
      /\ \A C \in SUBSET A : n \in C /\ Closed(K, C) => Under(K, n) \subseteq C
  BY DEF Under
<1>2. ASSUME NEW x \in Under(K, n), NEW i \in 1 .. Len(K[x])
      PROVE  K[x][i] \in Under(K, n)
  <2>1. x \in A /\ K[x] \in Seq(A) /\ K[x][i] \in A
    BY <1>1
  <2>2. ASSUME NEW C \in SUBSET A, n \in C, Closed(K, C)
        PROVE  K[x][i] \in C
    BY <1>1, <2>2 DEF Closed
  <2> QED
    BY <2>1, <2>2 DEF Under
<1> QED
  BY <1>1, <1>2 DEF Closed

\* What is below a node: it, and what is below its children.
LEMMA UnderUnfolds ==
    ASSUME NEW A, NEW K \in [A -> Seq(A)], NEW n \in A
    PROVE  /\ \A i \in 1 .. Len(K[n]) : Under(K, K[n][i]) \subseteq Under(K, n)
           /\ \A x \in Under(K, n) : x = n \/ \E i \in 1 .. Len(K[n]) : x \in Under(K, K[n][i])
<1>0. K[n] \in Seq(A) /\ \A i \in 1 .. Len(K[n]) : K[n][i] \in A
  OBVIOUS
<1>1. ASSUME NEW i \in 1 .. Len(K[n]) PROVE Under(K, K[n][i]) \subseteq Under(K, n)
  <2>1. K[n][i] \in Under(K, n) /\ Closed(K, Under(K, n)) /\ Under(K, n) \in SUBSET A
    BY UnderIs DEF Closed
  <2> QED
    BY <2>1, <1>0, UnderIs
<1> DEFINE C == {x \in A : x = n \/ \E i \in 1 .. Len(K[n]) : x \in Under(K, K[n][i])}
<1>2. C \in SUBSET A /\ n \in C
  OBVIOUS
<1>3. ASSUME NEW x \in C, NEW i \in 1 .. Len(K[x]) PROVE K[x][i] \in C
  <2>1. x \in A /\ K[x][i] \in A
    OBVIOUS
  <2>2. CASE x = n
    <3>1. K[n][i] \in Under(K, K[n][i])
      BY <2>2, <1>0, UnderIs
    <3> QED
      BY <3>1, <2>1, <2>2
  <2>3. CASE x # n
    <3>1. PICK j \in 1 .. Len(K[n]) : x \in Under(K, K[n][j])
      BY <2>3
    <3>2. K[x][i] \in Under(K, K[n][j])
      BY <3>1, <1>0, UnderIs DEF Closed
    <3> QED
      BY <3>2, <2>1
  <2> QED
    BY <2>2, <2>3
<1>4. Under(K, n) \subseteq C
  <2>1. Closed(K, C)
    BY <1>3 DEF Closed
  <2> HIDE DEF C
  <2> QED
    BY <2>1, <1>2, UnderIs
<1> QED
  BY <1>1, <1>4

\* Without circles, a node is not below its children.
LEMMA UnderShrinks ==
    ASSUME NEW A, NEW K \in [A -> Seq(A)], NoCircle(K), NEW n \in A, NEW i \in 1 .. Len(K[n])
    PROVE  K[n][i] \in A /\ n \notin Under(K, K[n][i])
<1> DEFINE c == K[n][i]  U == Under(K, c)
<1>1. c \in A
  OBVIOUS
<1> HIDE DEF c
<1>2. c \in U /\ U \in SUBSET A /\ Closed(K, U)
  BY <1>1, UnderIs
<1>3. U \in SUBSET DOMAIN K /\ U # {}
  BY <1>2
<1> HIDE DEF U
<1>4. PICK x \in U : \A y \in U : ~In(K[y], x)
  BY <1>3 DEF NoCircle
<1>5. x = c
  <2> SUFFICES ASSUME x # c PROVE FALSE
    OBVIOUS
  <2> DEFINE C == U \ {x}
  <2>1. C \in SUBSET A /\ c \in C
    BY <1>2
  <2>2. Closed(K, C)
    <3>1. ASSUME NEW y \in C, NEW j \in 1 .. Len(K[y]) PROVE K[y][j] \in C
      <4>1. K[y][j] \in U
        BY <1>2 DEF Closed
      <4>2. K[y][j] # x
        BY <1>4 DEF In
      <4> QED
        BY <4>1, <4>2
    <3> QED
      BY <3>1 DEF Closed
  <2>3. U \subseteq C
    <3> HIDE DEF C
    <3> QED
      BY <2>1, <2>2, <1>1, UnderIs DEF U
  <2> QED
    BY <2>3
<1>6. n \notin U
  BY <1>4, <1>5 DEF In, c
<1> QED
  BY <1>1, <1>6 DEF c, U

\* There is less below a child.
LEMMA UnderCounts ==
    ASSUME NEW A, IsFiniteSet(A), NEW K \in [A -> Seq(A)], NoCircle(K), NEW n \in A
    PROVE  /\ Cardinality(Under(K, n)) \in 1 .. Cardinality(A)
           /\ \A i \in 1 .. Len(K[n]) : Cardinality(Under(K, K[n][i])) < Cardinality(Under(K, n))
<1>1. ASSUME NEW x \in A
      PROVE  /\ IsFiniteSet(Under(K, x)) /\ Cardinality(Under(K, x)) \in Nat
             /\ Cardinality(Under(K, x)) <= Cardinality(A) /\ Cardinality(Under(K, x)) # 0
  <2>1. Under(K, x) \in SUBSET A /\ x \in Under(K, x)
    BY UnderIs
  <2>2. IsFiniteSet(Under(K, x)) /\ Cardinality(Under(K, x)) <= Cardinality(A)
    BY <2>1, FS_Subset
  <2> QED
    BY <2>1, <2>2, FS_CardinalityType, FS_EmptySet
<1>2. ASSUME NEW i \in 1 .. Len(K[n])
      PROVE  Cardinality(Under(K, K[n][i])) < Cardinality(Under(K, n))
  <2>1. K[n][i] \in A /\ Under(K, K[n][i]) \in SUBSET Under(K, n)
        /\ n \in Under(K, n) /\ n \notin Under(K, K[n][i])
    BY UnderShrinks, UnderUnfolds, UnderIs
  <2>2. /\ Cardinality(Under(K, K[n][i])) <= Cardinality(Under(K, n))
        /\ Cardinality(Under(K, K[n][i])) # Cardinality(Under(K, n))
    BY <2>1, <1>1, FS_Subset
  <2> QED
    BY <2>1, <2>2, <1>1
<1>3. Cardinality(A) \in Nat
  BY FS_CardinalityType
<1> QED
  BY <1>1, <1>2, <1>3

\* r[i][x] is what is found below x in i steps.
Finds(r, A, K, N) ==
    \A i \in 0 .. N : \A x \in A :
        r[i][x] = {x} \cup IF i = 0 THEN {} ELSE UNION {r[i - 1][y] : y \in ToSet(K[x])}

\* With enough steps, that is all there is.
FindsAll(r, A, K, N) ==
    \A i \in 0 .. N : \A x \in A : Cardinality(Under(K, x)) <= i + 1 => r[i][x] = Under(K, x)

LEMMA ReachedIs ==
    ASSUME NEW A, IsFiniteSet(A), NEW K \in [A -> Seq(A)], NoCircle(K), NEW N \in Nat, NEW r,
           Finds(r, A, K, N)
    PROVE  FindsAll(r, A, K, N)
<1> DEFINE Good(i) == \A x \in A : Cardinality(Under(K, x)) <= i + 1 => r[i][x] = Under(K, x)
           S == {i \in 0 .. N : Good(i)}
<1>1. \A x \in A : Cardinality(Under(K, x)) \in Nat
  BY UnderCounts
<1>2. ASSUME NEW x \in A
      PROVE  ToSet(K[x]) = {K[x][j] : j \in 1 .. Len(K[x])} /\ \A j \in 1 .. Len(K[x]) : K[x][j] \in A
  <2>1. K[x] \in Seq(A)
    OBVIOUS
  <2> QED
    BY <2>1 DEF ToSet
<1>3. ASSUME NEW i \in 0 .. N, NEW x \in A, Cardinality(Under(K, x)) <= i + 1,
             i # 0 => Good(i - 1)
      PROVE  r[i][x] = Under(K, x)
  <2>1. ASSUME NEW j \in 1 .. Len(K[x])
        PROVE  i # 0 /\ r[i - 1][K[x][j]] = Under(K, K[x][j])
    <3> DEFINE y == K[x][j]
    <3>1. y \in A /\ Cardinality(Under(K, y)) < Cardinality(Under(K, x)) /\ Cardinality(Under(K, y)) # 0
      BY <1>2, UnderCounts, SMTT(45)
    <3> HIDE DEF y
    <3>2. i # 0 /\ Cardinality(Under(K, y)) <= (i - 1) + 1
      BY <3>1, <1>1, <1>3
    <3> QED
      BY <3>1, <3>2, <1>3 DEF y
  <2>2. r[i][x] = {x} \cup IF i = 0 THEN {} ELSE UNION {r[i - 1][y] : y \in ToSet(K[x])}
    BY <1>3 DEF Finds
  <2>3. ASSUME NEW z \in r[i][x] PROVE z \in Under(K, x)
    <3>1. x \in Under(K, x) /\ \A j \in 1 .. Len(K[x]) : Under(K, K[x][j]) \subseteq Under(K, x)
      BY UnderIs, UnderUnfolds
    <3>2. z = x \/ \E y \in ToSet(K[x]) : i # 0 /\ z \in r[i - 1][y]
      BY <2>2, <2>3
    <3>3. CASE z # x
      <4>1. PICK y \in ToSet(K[x]) : z \in r[i - 1][y]
        BY <3>2, <3>3
      <4>2. PICK j \in 1 .. Len(K[x]) : y = K[x][j]
        BY <1>2
      <4>3. z \in r[i - 1][K[x][j]]
        BY <4>1, <4>2
      <4>4. z \in Under(K, K[x][j])
        BY <4>3, <2>1, Zenon
      <4> QED
        BY <4>4, <3>1, Zenon
    <3> QED
      BY <3>1, <3>3
  <2>4. ASSUME NEW z \in Under(K, x) PROVE z \in r[i][x]
    <3>0. \A w \in Under(K, x) : w = x \/ \E j \in 1 .. Len(K[x]) : w \in Under(K, K[x][j])
      BY UnderUnfolds, ZenonT(30)
    <3>1. z = x \/ \E j \in 1 .. Len(K[x]) : z \in Under(K, K[x][j])
      BY <3>0
    <3>2. CASE \E j \in 1 .. Len(K[x]) : z \in Under(K, K[x][j])
      <4>1. PICK j \in 1 .. Len(K[x]) : z \in Under(K, K[x][j])
        BY <3>2
      <4>2. i # 0 /\ z \in r[i - 1][K[x][j]] /\ K[x][j] \in ToSet(K[x])
        BY <4>1, <2>1, <1>2
      <4> QED
        BY <4>2, <2>2
    <3> QED
      BY <3>1, <3>2, <2>2
  <2> QED
    BY <2>3, <2>4
<1>4. Good(0)
  BY <1>3
<1>5. ASSUME NEW i \in 1 .. N, i - 1 \in S PROVE i \in S
  <2>1. i \in 0 .. N /\ Good(i - 1)
    BY <1>5
  <2> HIDE DEF Good
  <2>2. \A x \in A : Cardinality(Under(K, x)) <= i + 1 => r[i][x] = Under(K, x)
    BY <2>1, <1>3
  <2> QED
    BY <2>1, <2>2 DEF Good
<1>6. \A i \in 0 .. N : i \in S
  <2>1. 0 \in S
    BY <1>4
  <2> HIDE DEF S
  <2> QED
    BY <2>1, <1>5, NatSteps, Zenon
<1> QED
  BY <1>6 DEF FindsAll

LEMMA BelowIs ==
    ASSUME NEW t, NEW K, Holds(t, K), NEW n \in t.alive
    PROVE  Below(t, n) = Under(K, n)
<1> DEFINE N == Cardinality(Node)
           D == [Node -> SUBSET Node]
           Step(h) == [x \in Node |-> {x} \cup UNION {h[y] : y \in ToSet(ChildrenOf(t, x))}]
           d == [x \in Node |-> {x}]
           G == [x \in (1 .. N) \X D |-> Step(x[2])]
           Solved(f) == [steps \in 0 .. N |->
                            [x \in Node |-> {x} \cup IF steps = 0 THEN {}
                                                     ELSE UNION {f[steps - 1][y] : y \in ToSet(ChildrenOf(t, x))}]]
           reached == CHOOSE f : f = Solved(f)
<1>1. N \in Nat /\ d \in D
  BY NodesAre
<1>2. Below(t, n) = reached[N][n]
  BY DEF Below
<1>a. t.alive \subseteq Node /\ IsFiniteSet(t.alive) /\ K \in [t.alive -> Seq(t.alive)] /\ NoCircle(K)
      /\ Cardinality(t.alive) <= N
  <2>1. t.alive \in SUBSET Node /\ K \in [t.alive -> Seq(t.alive)] /\ NoCircle(K)
    BY DEF Holds, Lists, Trees
  <2> QED
    BY <2>1, NodesAre, FS_Subset
<1> HIDE DEF N
<1>b. ASSUME NEW x \in Node PROVE \A y \in ToSet(ChildrenOf(t, x)) : y \in Node
  <2>1. CASE x \in t.alive
    <3>1. ChildrenOf(t, x) = K[x] /\ K[x] \in Seq(t.alive)
      BY <2>1, <1>a, ChildrenAre
    <3> QED
      BY <3>1, <1>a DEF ToSet
  <2>2. CASE x \notin t.alive
    <3>1. ChildrenOf(t, x) = <<>>
      BY <2>2, ChildrenAre
    <3> QED
      BY <3>1 DEF ToSet
  <2> QED
    BY <2>1, <2>2
<1>3. ASSUME NEW h \in D PROVE Step(h) \in D
  <2> SUFFICES ASSUME NEW x \in Node
               PROVE  {x} \cup UNION {h[y] : y \in ToSet(ChildrenOf(t, x))} \in SUBSET Node
    BY Zenon
  <2>1. \A y \in ToSet(ChildrenOf(t, x)) : h[y] \subseteq Node
    BY <1>b
  <2> QED
    BY <2>1
<1>4. ASSUME NEW i \in 1 .. N, NEW h \in D
      PROVE  G[<<i, h>>] = Step(h)
  OBVIOUS
<1>5. G \in [(1 .. N) \X D -> D]
  <2> HIDE DEF D
  <2> SUFFICES ASSUME NEW x \in (1 .. N) \X D PROVE Step(x[2]) \in D
    BY Zenon
  <2>1. x[2] \in D
    OBVIOUS
  <2> QED
    BY <2>1, <1>3, Zenon
<1> HIDE DEF G
<1>6. PICK h \in [0 .. N -> D] : h[0] = d /\ \A i \in 1 .. N : h[i] = G[<<i, h[i - 1]>>]
  <2> HIDE DEF D, d
  <2>1. Recursive(D, d, N, G)
    BY <1>1, <1>5, Recursion, Zenon
  <2> QED
    BY <2>1, Zenon DEF Recursive
<1>7. ASSUME NEW i \in 1 .. N
      PROVE  h[i] = Step(h[i - 1])
  <2> HIDE DEF D
  <2>1. h[i - 1] \in D
    BY <1>1
  <2> QED
    BY <2>1, <1>4, <1>6
<1>8. h = Solved(h)
  <2>1. ASSUME NEW i \in 0 .. N
        PROVE  h[i] = [x \in Node |-> {x} \cup IF i = 0 THEN {}
                                               ELSE UNION {h[i - 1][y] : y \in ToSet(ChildrenOf(t, x))}]
    <3>1. CASE i = 0
      BY <3>1, <1>6
    <3>2. CASE i # 0
      <4>1. i \in 1 .. N
        BY <3>2, <1>1
      <4> QED
        BY <4>1, <3>2, <1>7
    <3> QED
      BY <3>1, <3>2
  <2>2. DOMAIN h = 0 .. N
    OBVIOUS
  <2>3. h = [i \in 0 .. N |-> h[i]]
    BY <2>2
  <2> QED
    BY <2>1, <2>3, Zenon
<1>9. reached = Solved(reached)
  BY <1>8
<1> HIDE DEF D, d, reached
<1>10. ASSUME NEW i \in 0 .. N, NEW x \in t.alive
       PROVE  reached[i][x] = {x} \cup IF i = 0 THEN {} ELSE UNION {reached[i - 1][y] : y \in ToSet(K[x])}
  <2>1. reached[i] = Solved(reached)[i]
    BY <1>9, Zenon
  <2>2. x \in Node /\ ChildrenOf(t, x) = K[x]
    BY <1>a, ChildrenAre
  <2> QED
    BY <2>1, <2>2
<1>11. Cardinality(Under(K, n)) \in Nat /\ Cardinality(Under(K, n)) <= N + 1 /\ N \in 0 .. N
  <2>1. Cardinality(Under(K, n)) \in 1 .. Cardinality(t.alive)
    BY <1>a, UnderCounts
  <2>2. Cardinality(t.alive) \in Nat
    BY <1>a, FS_CardinalityType
  <2> QED
    BY <1>a, <1>1, <2>1, <2>2
<1>12. FindsAll(reached, t.alive, K, N)
  <2>1. Finds(reached, t.alive, K, N)
    BY <1>10 DEF Finds
  <2> QED
    BY <1>1, <1>a, <2>1, ReachedIs, Zenon
<1> QED
  BY <1>2, <1>11, <1>12 DEF FindsAll

-----------------------------------------------------------------------------
(* A node gets a place in a list.                                          *)

\* The list s with n at p.
Placed(s, p, n) == [i \in 1 .. Len(s) + 1 |-> IF i < p THEN s[i] ELSE IF i = p THEN n ELSE s[i - 1]]

\* n comes below e, behind pv and before nx.
Inserted(t, e, n, pv, nx) ==
    [t EXCEPT !.first = [x \in Node |-> IF x = e /\ pv = None THEN n ELSE @[x]],
              !.last = [x \in Node |-> IF x = e /\ nx = None THEN n ELSE @[x]],
              !.parent = [x \in Node |-> IF x = n THEN e ELSE @[x]],
              !.prev = [x \in Node |-> IF x = n THEN pv ELSE IF x = nx THEN n ELSE @[x]],
              !.next = [x \in Node |-> IF x = n THEN nx ELSE IF x = pv THEN n ELSE @[x]]]

LEMMA PlacedIs ==
    ASSUME NEW A, NEW s \in Seq(A), NEW n \in A, NEW p \in 1 .. Len(s) + 1
    PROVE  /\ Placed(s, p, n) \in Seq(A) /\ Len(Placed(s, p, n)) = Len(s) + 1
           /\ \A i \in 1 .. Len(s) + 1 :
                Placed(s, p, n)[i] = IF i < p THEN s[i] ELSE IF i = p THEN n ELSE s[i - 1]
           /\ \A i \in 1 .. Len(s) + 1 : i < p => i \in 1 .. Len(s)
           /\ \A i \in 1 .. Len(s) + 1 : i > p => i - 1 \in 1 .. Len(s)
           /\ \A x : In(Placed(s, p, n), x) <=> In(s, x) \/ x = n
<1> DEFINE q == Placed(s, p, n)
<1>1. Len(s) \in Nat /\ \A i \in 1 .. Len(s) : s[i] \in A
  OBVIOUS
<1>2. /\ \A i \in 1 .. Len(s) + 1 : i < p => i \in 1 .. Len(s)
      /\ \A i \in 1 .. Len(s) + 1 : i > p => i - 1 \in 1 .. Len(s)
  BY <1>1
<1>3. \A i \in 1 .. Len(s) + 1 : (IF i < p THEN s[i] ELSE IF i = p THEN n ELSE s[i - 1]) \in A
  BY <1>1, <1>2
<1>4. q \in Seq(A) /\ Len(q) = Len(s) + 1
      /\ \A i \in 1 .. Len(s) + 1 : q[i] = IF i < p THEN s[i] ELSE IF i = p THEN n ELSE s[i - 1]
  BY <1>1, <1>3 DEF Placed
<1> HIDE DEF q
<1>5. ASSUME NEW x, In(q, x) PROVE In(s, x) \/ x = n
  BY <1>5, <1>2, <1>4 DEF In
<1>6. ASSUME NEW x, In(s, x) PROVE In(q, x)
  <2>1. PICK i \in 1 .. Len(s) : s[i] = x
    BY <1>6 DEF In
  <2>2. CASE i < p
    <3>1. i \in 1 .. Len(q) /\ q[i] = x
      BY <2>1, <2>2, <1>1, <1>4
    <3> QED
      BY <3>1 DEF In
  <2>3. CASE ~(i < p)
    <3>1. i + 1 \in 1 .. Len(q) /\ q[i + 1] = x
      BY <2>1, <2>3, <1>1, <1>4
    <3> QED
      BY <3>1 DEF In
  <2> QED
    BY <2>2, <2>3
<1>7. In(q, n)
  <2>1. p \in 1 .. Len(q) /\ q[p] = n
    BY <1>1, <1>4
  <2> QED
    BY <2>1 DEF In
<1> QED
  BY <1>2, <1>4, <1>5, <1>6, <1>7 DEF q

\* The lists have no circle when n was not above e.
LEMMA PlacedNoCircle ==
    ASSUME NEW A, NEW K \in [A -> Seq(A)], NoCircle(K), NEW n \in A, NEW e \in A,
           e \notin Under(K, n), NEW J, DOMAIN J = A,
           \A y, x \in A : In(J[y], x) => In(K[y], x) \/ (y = e /\ x = n)
    PROVE  NoCircle(J)
<1> SUFFICES ASSUME NEW B \in SUBSET A, B # {}
             PROVE  \E x \in B : \A y \in B : ~In(J[y], x)
  BY DEF NoCircle
<1>1. PICK x \in B : \A y \in B : ~In(K[y], x)
  BY DEF NoCircle
<1>2. CASE x # n \/ e \notin B
  BY <1>1, <1>2
<1>3. CASE x = n /\ e \in B
  <2> DEFINE U == Under(K, n)  C == B \ U
  <2>0. n \in U /\ Closed(K, U)
    BY UnderIs
  <2>1. C \in SUBSET DOMAIN K /\ C # {}
    BY <1>3
  <2>2. PICK z \in C : \A y \in C : ~In(K[y], z)
    BY <2>1 DEF NoCircle
  <2>3. z \in B /\ z # n /\ z \in A /\ z \notin U
    BY <2>0, <2>2
  <2> HIDE DEF U
  <2>4. ASSUME NEW y \in B, In(J[y], z) PROVE FALSE
    <3>1. In(K[y], z)
      BY <2>3, <2>4
    <3>2. y \in U
      BY <3>1, <2>2
    <3>3. z \in U
      BY <3>1, <3>2, <2>0 DEF Closed, In
    <3> QED
      BY <3>3, <2>3
  <2> QED
    BY <2>3, <2>4
<1> QED
  BY <1>2, <1>3

\* e, n and p are a node that n may be placed below, and where.
MayPlace(t, K, e, n, p) ==
    /\ e \in t.alive /\ e \in Element /\ n \in t.alive
    /\ \A f \in t.alive : ~In(K[f], n)
    /\ e \notin Under(K, n)
    /\ p \in 1 .. Len(K[e]) + 1

PlacedIn(K, e, n, p) == [K EXCEPT ![e] = Placed(K[e], p, n)]

LEMMA PlacedHolds ==
    ASSUME NEW t, NEW K, Holds(t, K), NEW e, NEW n, NEW p, MayPlace(t, K, e, n, p),
           NEW pv, pv = IF p = 1 THEN None ELSE K[e][p - 1],
           NEW nx, nx = IF p = Len(K[e]) + 1 THEN None ELSE K[e][p]
    PROVE  Holds(Inserted(t, e, n, pv, nx), PlacedIn(K, e, n, p))
<1> DEFINE u == Inserted(t, e, n, pv, nx)
           J == PlacedIn(K, e, n, p)
           A == t.alive
           s == K[e]
           L == Len(s)
           q == Placed(s, p, n)
<1>1. /\ A \subseteq Node /\ K \in [A -> Seq(A)] /\ NoCircle(K)
      /\ e \in A /\ e \in Element /\ n \in A /\ n \in Node /\ e \in Node
      /\ \A f \in A : ~In(K[f], n)
      /\ s \in Seq(A) /\ L \in Nat /\ p \in 1 .. L + 1
  BY DEF Holds, Lists, Trees, MayPlace
<1>2. /\ \A f, g \in A : \A i \in 1 .. Len(K[f]), j \in 1 .. Len(K[g]) : K[f][i] = K[g][j] => f = g /\ i = j
      /\ \A f \in A : \A i \in 1 .. Len(K[f]) : K[f][i] # n /\ K[f][i] # None /\ K[f][i] \in A
  <2>1. DOMAIN K = A /\ Once(K)
    BY <1>1 DEF Holds
  <2>2. ASSUME NEW f \in A, NEW i \in 1 .. Len(K[f])
        PROVE  K[f][i] # n /\ K[f][i] # None /\ K[f][i] \in A
    <3>1. K[f][i] # None /\ K[f][i] \in A
      BY ListIs, Zenon
    <3>2. K[f][i] # n
      BY <1>1, Zenon DEF In
    <3> QED
      BY <3>1, <3>2
  <2> QED
    BY <2>1, <2>2, Zenon DEF Once
<1>N. L \in Nat /\ p \in Nat /\ 1 <= p /\ p <= L + 1
  BY <1>1
<1>3. /\ q \in Seq(A) /\ Len(q) = L + 1
      /\ \A i \in 1 .. L + 1 : q[i] = IF i < p THEN s[i] ELSE IF i = p THEN n ELSE s[i - 1]
      /\ \A i \in 1 .. L + 1 : i < p => i \in 1 .. L
      /\ \A i \in 1 .. L + 1 : i > p => i - 1 \in 1 .. L
      /\ \A x : In(q, x) <=> In(s, x) \/ x = n
  <2>1. s \in Seq(A) /\ n \in A /\ p \in 1 .. Len(s) + 1
    BY <1>1
  <2> HIDE DEF A, s
  <2> QED
    BY <2>1, PlacedIs, Zenon
<1>4. J \in [A -> Seq(A)] /\ J[e] = q /\ \A f \in A : f # e => J[f] = K[f]
  BY <1>1, <1>3 DEF PlacedIn
<1>5. /\ t.alive \in SUBSET Node /\ t.parent \in [Node -> Pointer] /\ t.next \in [Node -> Pointer]
      /\ t.prev \in [Node -> Pointer] /\ t.first \in [Node -> Pointer] /\ t.last \in [Node -> Pointer]
      /\ t \in Trees
  BY DEF Holds, Trees
<1>6. pv \in Pointer /\ nx \in Pointer /\ n \in Pointer /\ e \in Pointer /\ n # None
      /\ (pv = None <=> p = 1) /\ (nx = None <=> p = L + 1)
      /\ (p # 1 => p - 1 \in 1 .. L /\ pv = s[p - 1]) /\ (p # L + 1 => p \in 1 .. L /\ nx = s[p])
  <2>1. (p # 1 => p - 1 \in 1 .. L) /\ (p # L + 1 => p \in 1 .. L)
    BY <1>1
  <2> QED
    BY <2>1, <1>1, <1>2, NodesAre DEF Pointer
<1>7. /\ u \in Trees /\ u.alive = A
      /\ \A x \in Node : /\ u.first[x] = IF x = e /\ pv = None THEN n ELSE t.first[x]
                         /\ u.last[x] = IF x = e /\ nx = None THEN n ELSE t.last[x]
                         /\ u.parent[x] = IF x = n THEN e ELSE t.parent[x]
                         /\ u.prev[x] = IF x = n THEN pv ELSE IF x = nx THEN n ELSE t.prev[x]
                         /\ u.next[x] = IF x = n THEN nx ELSE IF x = pv THEN n ELSE t.next[x]
  BY <1>5, <1>6 DEF Inserted, Trees
<1> HIDE DEF u, J, A, s, L, q
<1>8. Lists(A, J)
  <2>1. \A f \in A \ Element : J[f] = <<>>
    BY <1>1, <1>4 DEF Holds, Lists, A
  <2> QED
    BY <1>4, <2>1 DEF Lists
<1>9. Once(J)
  <2> SUFFICES ASSUME NEW f \in A, NEW g \in A, NEW i \in 1 .. Len(J[f]), NEW j \in 1 .. Len(J[g]),
                      J[f][i] = J[g][j]
               PROVE  f = g /\ i = j
    BY <1>4 DEF Once
  <2>1. CASE f # e /\ g # e
    <3>1. J[f] = K[f] /\ J[g] = K[g]
      BY <2>1, <1>4
    <3>2. i \in 1 .. Len(K[f]) /\ j \in 1 .. Len(K[g]) /\ K[f][i] = K[g][j]
      BY <3>1
    <3> QED
      BY <3>2, <1>2, ZenonT(30)
  <2>2. ASSUME NEW h \in A, h # e, NEW k \in 1 .. Len(K[h]), NEW m \in 1 .. L + 1
        PROVE  q[m] # K[h][k]
    <3>1. m < p => m \in 1 .. L /\ q[m] = s[m]
      BY <1>3
    <3>2. m > p => m - 1 \in 1 .. L /\ q[m] = s[m - 1]
      BY <1>N, <1>3
    <3>3. m = p => q[m] = n
      BY <1>N, <1>3
    <3>4. m < p \/ m > p \/ m = p
      BY <1>N
    <3>5. \A o \in 1 .. L : s[o] # K[h][k]
      BY <2>2, <1>1, <1>2, Zenon DEF s, L
    <3>6. K[h][k] # n
      BY <1>2, Zenon
    <3> QED
      BY <3>1, <3>2, <3>3, <3>4, <3>5, <3>6
  <2>3. CASE f = e /\ g # e
    <3>1. J[f] = q /\ J[g] = K[g] /\ Len(q) = L + 1
      BY <2>3, <1>3, <1>4
    <3>2. i \in 1 .. L + 1 /\ j \in 1 .. Len(K[g]) /\ q[i] = K[g][j]
      BY <3>1
    <3> QED
      BY <3>2, <2>2, <2>3
  <2>4. CASE f # e /\ g = e
    <3>1. J[g] = q /\ J[f] = K[f] /\ Len(q) = L + 1
      BY <2>4, <1>3, <1>4
    <3>2. j \in 1 .. L + 1 /\ i \in 1 .. Len(K[f]) /\ q[j] = K[f][i]
      BY <3>1
    <3> QED
      BY <3>2, <2>2, <2>4
  <2>5. CASE f = e /\ g = e
    <3>1. i \in 1 .. L + 1 /\ j \in 1 .. L + 1 /\ q[i] = q[j]
      BY <2>5, <1>3, <1>4
    <3>2. \A k, m \in 1 .. L : s[k] = s[m] => k = m
      BY <1>1, <1>2 DEF s, L
    <3>3. \A k \in 1 .. L : s[k] # n
      BY <1>1, <1>2 DEF s, L
    <3>4. /\ i < p => i \in 1 .. L /\ q[i] = s[i]
          /\ i = p => q[i] = n
          /\ i > p => i - 1 \in 1 .. L /\ q[i] = s[i - 1]
      BY <3>1, <1>N, <1>3
    <3>5. /\ j < p => j \in 1 .. L /\ q[j] = s[j]
          /\ j = p => q[j] = n
          /\ j > p => j - 1 \in 1 .. L /\ q[j] = s[j - 1]
      BY <3>1, <1>N, <1>3
    <3>6. i \in Nat /\ j \in Nat
      BY <3>1, <1>N
    <3>7. i = j
      <4>1. CASE i = p
        BY <4>1, <3>1, <3>3, <3>4, <3>5, <3>6, <1>N
      <4>2. CASE j = p
        BY <4>2, <3>1, <3>3, <3>4, <3>5, <3>6, <1>N
      <4>3. CASE i < p /\ j < p
        BY <4>3, <3>1, <3>2, <3>4, <3>5
      <4>4. CASE i < p /\ j > p
        <5>1. i = j - 1
          BY <4>4, <3>1, <3>2, <3>4, <3>5
        <5> QED
          BY <5>1, <4>4, <3>6, <1>N
      <4>5. CASE i > p /\ j < p
        <5>1. j = i - 1
          BY <4>5, <3>1, <3>2, <3>4, <3>5
        <5> QED
          BY <5>1, <4>5, <3>6, <1>N
      <4>6. CASE i > p /\ j > p
        <5>1. i - 1 = j - 1
          BY <4>6, <3>1, <3>2, <3>4, <3>5
        <5> QED
          BY <5>1, <3>6
      <4> QED
        BY <4>1, <4>2, <4>3, <4>4, <4>5, <4>6, <3>6, <1>N
    <3> QED
      BY <3>7, <2>5
  <2> QED
    BY <2>1, <2>3, <2>4, <2>5
<1>10. NoCircle(J)
  <2>1. \A y, x \in A : In(J[y], x) => In(K[y], x) \/ (y = e /\ x = n)
    BY <1>3, <1>4 DEF s
  <2>2. e \notin Under(K, n) /\ DOMAIN J = A
    BY <1>4 DEF MayPlace
  <2> QED
    BY <2>1, <2>2, <1>1, PlacedNoCircle
<1>11. Ends(u, J)
  <2> SUFFICES ASSUME NEW x \in Node
               PROVE  /\ u.first[x] = IF x \in A /\ J[x] # <<>> THEN J[x][1] ELSE None
                      /\ u.last[x] = IF x \in A /\ J[x] # <<>> THEN J[x][Len(J[x])] ELSE None
    BY <1>7 DEF Ends
  <2>1. /\ t.first[x] = IF x \in A /\ K[x] # <<>> THEN K[x][1] ELSE None
        /\ t.last[x] = IF x \in A /\ K[x] # <<>> THEN K[x][Len(K[x])] ELSE None
    BY DEF Holds, Ends, A
  <2>2. CASE x # e
    BY <2>1, <2>2, <1>4, <1>7
  <2>3. CASE x = e
    <3>1. q # <<>> /\ 1 \in 1 .. L + 1 /\ L + 1 \in 1 .. L + 1
      BY <1>1, <1>3
    <3>2. q[1] = IF p = 1 THEN n ELSE s[1]
      BY <3>1, <1>1, <1>3
    <3>3. q[L + 1] = IF p = L + 1 THEN n ELSE s[L]
      BY <3>1, <1>1, <1>3
    <3>4. p # 1 \/ p # L + 1 => L # 0 /\ s # <<>>
      <4>1. p # 1 \/ p # L + 1 => L # 0
        BY <1>N
      <4>2. s = <<>> => L = 0
        BY DEF L
      <4> QED
        BY <4>1, <4>2
    <3>5. t.first[e] = IF s # <<>> THEN s[1] ELSE None
      BY <2>1, <2>3, <1>1 DEF s
    <3>6. t.last[e] = IF s # <<>> THEN s[L] ELSE None
      BY <2>1, <2>3, <1>1 DEF s, L
    <3> QED
      BY <3>1, <3>2, <3>3, <3>4, <3>5, <3>6, <2>3, <1>1, <1>3, <1>4, <1>6, <1>7, SMTT(45)
  <2> QED
    BY <2>2, <2>3
<1>12. Links(u, J)
  <2> SUFFICES ASSUME NEW f \in A, NEW i \in 1 .. Len(J[f])
               PROVE  /\ u.parent[J[f][i]] = f
                      /\ u.prev[J[f][i]] = IF i = 1 THEN None ELSE J[f][i - 1]
                      /\ u.next[J[f][i]] = IF i = Len(J[f]) THEN None ELSE J[f][i + 1]
    BY <1>7 DEF Links
  <2>0. \A g \in A : \A j \in 1 .. Len(K[g]) :
            /\ t.parent[K[g][j]] = g
            /\ t.prev[K[g][j]] = IF j = 1 THEN None ELSE K[g][j - 1]
            /\ t.next[K[g][j]] = IF j = Len(K[g]) THEN None ELSE K[g][j + 1]
    BY DEF Holds, Links, A
  <2>1. CASE f # e
    <3> DEFINE x == K[f][i]
    <3>1. J[f] = K[f] /\ i \in 1 .. Len(K[f])
      BY <2>1, <1>4
    <3>2. x # n /\ x # None /\ x \in Node
      BY <3>1, <1>1, <1>2
    <3>3. \A j \in 1 .. L : x # s[j]
      BY <2>1, <3>1, <1>1, <1>2 DEF s, L
    <3>4. x # pv /\ x # nx
      BY <3>2, <3>3, <1>6
    <3>5. u.parent[x] = t.parent[x] /\ u.prev[x] = t.prev[x] /\ u.next[x] = t.next[x]
      BY <3>2, <3>4, <1>7
    <3>6. /\ t.parent[x] = f /\ t.prev[x] = IF i = 1 THEN None ELSE K[f][i - 1]
          /\ t.next[x] = IF i = Len(K[f]) THEN None ELSE K[f][i + 1]
      BY <3>1, <2>0, ZenonT(30)
    <3> QED
      BY <3>1, <3>5, <3>6
  <2>2. CASE f = e
    <3>1. i \in 1 .. L + 1 /\ J[f] = q /\ Len(q) = L + 1
      BY <2>2, <1>3, <1>4
    <3>2. \A j \in 1 .. L :
            /\ s[j] # n /\ s[j] # None /\ s[j] \in Node /\ t.parent[s[j]] = e
            /\ t.prev[s[j]] = IF j = 1 THEN None ELSE s[j - 1]
            /\ t.next[s[j]] = IF j = L THEN None ELSE s[j + 1]
            /\ \A k \in 1 .. L : s[j] = s[k] => j = k
      <4> SUFFICES ASSUME NEW j \in 1 .. L
                   PROVE  /\ s[j] # n /\ s[j] # None /\ s[j] \in Node /\ t.parent[s[j]] = e
                          /\ t.prev[s[j]] = IF j = 1 THEN None ELSE s[j - 1]
                          /\ t.next[s[j]] = IF j = L THEN None ELSE s[j + 1]
                          /\ \A k \in 1 .. L : s[j] = s[k] => j = k
        BY Zenon
      <4>1. e \in A /\ j \in 1 .. Len(K[e])
        BY <1>1 DEF L, s
      <4>2. s[j] # n /\ s[j] # None /\ s[j] \in A
        BY <4>1, <1>2, Zenon DEF s
      <4>3. /\ t.parent[s[j]] = e
            /\ t.prev[s[j]] = IF j = 1 THEN None ELSE s[j - 1]
            /\ t.next[s[j]] = IF j = L THEN None ELSE s[j + 1]
        BY <4>1, <2>0, ZenonT(30) DEF s, L
      <4>4. \A k \in 1 .. L : s[j] = s[k] => j = k
        BY <4>1, <1>2, Zenon DEF s, L
      <4> QED
        BY <4>2, <4>3, <4>4, <1>1
    <3>3. CASE i < p
      <4>1. i \in 1 .. L /\ q[i] = s[i] /\ (i # 1 => i - 1 \in 1 .. L + 1 /\ q[i - 1] = s[i - 1])
        BY <3>1, <3>3, <1>N, <1>3
      <4>2. i # p - 1 => i + 1 \in 1 .. L + 1 /\ q[i + 1] = s[i + 1] /\ i # L /\ s[i] # pv
        BY <3>1, <3>2, <3>3, <4>1, <1>N, <1>3, <1>6
      <4>3. i = p - 1 => q[i + 1] = n /\ s[i] = pv
        BY <3>1, <3>3, <1>N, <1>3, <1>6
      <4>4. s[i] # nx
        BY <3>2, <3>3, <4>1, <1>N, <1>6
      <4>5. u.parent[q[i]] = e
        BY <3>2, <4>1, <1>7
      <4>6. u.prev[q[i]] = IF i = 1 THEN None ELSE q[i - 1]
        BY <3>2, <4>1, <4>4, <1>7
      <4>7. u.next[q[i]] = q[i + 1] /\ i # L + 1
        BY <3>2, <4>1, <4>2, <4>3, <1>N, <1>7
      <4> QED
        BY <4>5, <4>6, <4>7, <3>1, <2>2
    <3>4. CASE i = p
      <4>1. q[i] = n
        BY <3>1, <3>4, <1>3
      <4>2. p # 1 => q[p - 1] = s[p - 1]
        BY <1>N, <1>3
      <4>3. p # L + 1 => q[p + 1] = s[p]
        BY <1>N, <1>3
      <4> QED
        <5>1. u.parent[n] = e /\ u.prev[n] = pv /\ u.next[n] = nx
          BY <1>1, <1>7
        <5>2. pv = IF p = 1 THEN None ELSE q[p - 1]
          BY <4>2, <1>6
        <5>3. nx = IF p = L + 1 THEN None ELSE q[p + 1]
          BY <4>3, <1>6
        <5> QED
          BY <3>1, <3>4, <4>1, <5>1, <5>2, <5>3, <2>2
    <3>5. CASE i > p
      <4>1. i - 1 \in 1 .. L /\ q[i] = s[i - 1] /\ (i # L + 1 => i + 1 \in 1 .. L + 1 /\ q[i + 1] = s[i])
        BY <3>1, <3>5, <1>N, <1>3
      <4>2. i # p + 1 => i - 1 \in 1 .. L + 1 /\ q[i - 1] = s[i - 2] /\ i - 1 # 1 /\ s[i - 1] # nx
        BY <3>1, <3>2, <3>5, <4>1, <1>N, <1>3, <1>6
      <4>3. i = p + 1 => q[i - 1] = n /\ s[i - 1] = nx
        BY <3>1, <3>5, <1>N, <1>3, <1>6
      <4>4. s[i - 1] # pv
        BY <3>2, <3>5, <4>1, <1>N, <1>6
      <4>5. u.parent[q[i]] = e
        BY <3>2, <4>1, <1>7
      <4>6. u.prev[q[i]] = q[i - 1] /\ i # 1
        <5>1. t.prev[s[i - 1]] = IF i - 1 = 1 THEN None ELSE s[i - 2]
          BY <3>2, <4>1
        <5> QED
          BY <5>1, <3>2, <3>5, <4>1, <4>2, <4>3, <1>N, <1>7
      <4>7. u.next[q[i]] = IF i = L + 1 THEN None ELSE q[i + 1]
        <5>1. t.next[s[i - 1]] = IF i - 1 = L THEN None ELSE s[i]
          BY <3>2, <4>1
        <5>2. i - 1 = L <=> i = L + 1
          BY <3>1, <1>1
        <5>3. u.next[s[i - 1]] = t.next[s[i - 1]]
          BY <3>2, <4>1, <4>4, <1>7
        <5> QED
          BY <5>1, <5>2, <5>3, <4>1
      <4> QED
        BY <4>5, <4>6, <4>7, <3>1, <2>2
    <3> QED
      BY <3>1, <3>3, <3>4, <3>5, <1>N
  <2> QED
    BY <2>1, <2>2
<1>13. Unlinked(u, J)
  <2> SUFFICES ASSUME NEW x \in Node, \A f \in A : ~In(J[f], x)
               PROVE  u.parent[x] = None /\ u.prev[x] = None /\ u.next[x] = None
    BY <1>7 DEF Unlinked
  <2>1. x # n /\ \A f \in A : ~In(K[f], x)
    BY <1>1, <1>3, <1>4 DEF s
  <2>2. t.parent[x] = None /\ t.prev[x] = None /\ t.next[x] = None
    BY <2>1 DEF Holds, Unlinked, A
  <2>3. \A i \in 1 .. L : s[i] # x
    BY <2>1, <1>1 DEF s, L, In
  <2>4. ASSUME x = pv \/ x = nx PROVE x = None
    BY <2>3, <2>4, <1>6
  <2>5. x # None
    BY NodesAre
  <2> QED
    BY <2>1, <2>2, <2>4, <2>5, <1>7
<1> QED
  BY <1>7, <1>8, <1>9, <1>10, <1>11, <1>12, <1>13 DEF Holds, u, J

-----------------------------------------------------------------------------
(* A node leaves its list.                                                 *)

\* The list s without what is at p.
TakenOut(s, p) == [i \in 1 .. Len(s) - 1 |-> IF i < p THEN s[i] ELSE s[i + 1]]

LEMMA TakenOutIs ==
    ASSUME NEW A, NEW s \in Seq(A), NEW p \in 1 .. Len(s),
           \A i, j \in 1 .. Len(s) : s[i] = s[j] => i = j
    PROVE  /\ TakenOut(s, p) \in Seq(A) /\ Len(TakenOut(s, p)) = Len(s) - 1
           /\ \A i \in 1 .. Len(s) - 1 : i < p => i \in 1 .. Len(s) /\ TakenOut(s, p)[i] = s[i]
           /\ \A i \in 1 .. Len(s) - 1 : ~(i < p) => i + 1 \in 1 .. Len(s) /\ TakenOut(s, p)[i] = s[i + 1]
           /\ \A x : In(TakenOut(s, p), x) <=> In(s, x) /\ x # s[p]
<1> DEFINE q == TakenOut(s, p)  L == Len(s)
<1>1. L \in Nat /\ \A i \in 1 .. L : s[i] \in A
  OBVIOUS
<1>N. L \in Nat /\ p \in Nat /\ 1 <= p /\ p <= L
  BY <1>1
<1>2. \A i \in 1 .. L - 1 : i \in 1 .. L /\ i + 1 \in 1 .. L
  BY <1>N
<1>3. \A i \in 1 .. L - 1 : (IF i < p THEN s[i] ELSE s[i + 1]) \in A
  BY <1>1, <1>2
<1>4. q \in Seq(A) /\ Len(q) = L - 1 /\ \A i \in 1 .. L - 1 : q[i] = IF i < p THEN s[i] ELSE s[i + 1]
  <2>1. q = [i \in 1 .. L - 1 |-> IF i < p THEN s[i] ELSE s[i + 1]]
    BY DEF TakenOut
  <2>2. L - 1 \in Nat
    BY <1>N
  <2> HIDE DEF q
  <2> QED
    BY <2>1, <2>2, <1>3
<1> HIDE DEF q, L
<1>0. \A i, j \in 1 .. L : s[i] = s[j] => i = j
  BY DEF L
<1>5. ASSUME NEW x, In(q, x) PROVE In(s, x) /\ x # s[p]
  <2>1. PICK i \in 1 .. L - 1 : q[i] = x
    BY <1>4, <1>5 DEF In
  <2>2. CASE i < p
    <3>1. i \in 1 .. L /\ x = s[i] /\ i # p
      BY <2>1, <2>2, <1>2, <1>4, <1>N
    <3> QED
      BY <3>1, <1>0, <1>N DEF In, L
  <2>3. CASE ~(i < p)
    <3>1. i + 1 \in 1 .. L /\ x = s[i + 1] /\ i + 1 # p
      BY <2>1, <2>3, <1>2, <1>4, <1>N
    <3> QED
      BY <3>1, <1>0, <1>N DEF In, L
  <2> QED
    BY <2>2, <2>3
<1>6. ASSUME NEW x, In(s, x), x # s[p] PROVE In(q, x)
  <2>1. PICK i \in 1 .. L : s[i] = x
    BY <1>6 DEF In, L
  <2>2. CASE i < p
    <3>1. i \in 1 .. L - 1 /\ q[i] = x
      BY <2>1, <2>2, <1>N, <1>4
    <3> QED
      BY <3>1, <1>4 DEF In
  <2>3. CASE ~(i < p)
    <3>1. i # p
      BY <2>1, <1>6
    <3>2. i - 1 \in 1 .. L - 1 /\ ~(i - 1 < p) /\ i - 1 + 1 = i
      BY <2>1, <2>3, <3>1, <1>N
    <3>3. q[i - 1] = x
      BY <3>2, <2>1, <1>4
    <3> QED
      BY <3>2, <3>3, <1>4 DEF In
  <2> QED
    BY <2>2, <2>3
<1> QED
  BY <1>2, <1>4, <1>5, <1>6 DEF q, L

TakenFrom(K, e, p) == [K EXCEPT ![e] = TakenOut(K[e], p)]

\* With fewer children there is no circle, either.
LEMMA FewerNoCircle ==
    ASSUME NEW A, NEW K, DOMAIN K = A, NoCircle(K), NEW J, DOMAIN J \subseteq A,
           \A y, x \in DOMAIN J : In(J[y], x) => In(K[y], x)
    PROVE  NoCircle(J)
  BY DEF NoCircle

LEMMA DetachedHolds ==
    ASSUME NEW t, NEW K, Holds(t, K), NEW e \in t.alive, NEW p \in 1 .. Len(K[e])
    PROVE  Holds(Detached(t, K[e][p]), TakenFrom(K, e, p))
<1> DEFINE n == K[e][p]
           u == Detached(t, n)
           J == TakenFrom(K, e, p)
           A == t.alive
           s == K[e]
           L == Len(s)
           q == TakenOut(s, p)
<1>1. /\ A \subseteq Node /\ K \in [A -> Seq(A)] /\ NoCircle(K)
      /\ e \in A /\ n \in A /\ n \in Node /\ e \in Node
      /\ s \in Seq(A) /\ L \in Nat /\ p \in 1 .. L
  <2>1. A \subseteq Node /\ K \in [A -> Seq(A)] /\ NoCircle(K)
    BY DEF Holds, Lists, Trees
  <2> QED
    BY <2>1
<1>N. L \in Nat /\ p \in Nat /\ 1 <= p /\ p <= L
  BY <1>1
<1>2. /\ \A f, g \in A : \A i \in 1 .. Len(K[f]), j \in 1 .. Len(K[g]) : K[f][i] = K[g][j] => f = g /\ i = j
      /\ \A f \in A : \A i \in 1 .. Len(K[f]) : K[f][i] # None /\ K[f][i] \in A
  <2>1. DOMAIN K = A /\ Once(K)
    BY <1>1 DEF Holds
  <2>2. \A f \in A : \A i \in 1 .. Len(K[f]) : K[f][i] # None /\ K[f][i] \in A
    BY ListIs, Zenon
  <2> QED
    BY <2>1, <2>2, Zenon DEF Once
<1>0. \A g \in A : \A j \in 1 .. Len(K[g]) :
          /\ t.parent[K[g][j]] = g
          /\ t.prev[K[g][j]] = IF j = 1 THEN None ELSE K[g][j - 1]
          /\ t.next[K[g][j]] = IF j = Len(K[g]) THEN None ELSE K[g][j + 1]
  BY DEF Holds, Links
<1>3. \A j \in 1 .. L :
        /\ s[j] # None /\ s[j] \in Node /\ t.parent[s[j]] = e
        /\ t.prev[s[j]] = IF j = 1 THEN None ELSE s[j - 1]
        /\ t.next[s[j]] = IF j = L THEN None ELSE s[j + 1]
        /\ \A k \in 1 .. L : s[j] = s[k] => j = k
  <2> SUFFICES ASSUME NEW j \in 1 .. L
               PROVE  /\ s[j] # None /\ s[j] \in Node /\ t.parent[s[j]] = e
                      /\ t.prev[s[j]] = IF j = 1 THEN None ELSE s[j - 1]
                      /\ t.next[s[j]] = IF j = L THEN None ELSE s[j + 1]
                      /\ \A k \in 1 .. L : s[j] = s[k] => j = k
    BY Zenon
  <2>2. s[j] # None /\ s[j] \in A
    BY <1>2, Zenon
  <2>3. /\ t.parent[s[j]] = e
        /\ t.prev[s[j]] = IF j = 1 THEN None ELSE s[j - 1]
        /\ t.next[s[j]] = IF j = L THEN None ELSE s[j + 1]
    BY <1>0, ZenonT(30)
  <2>4. \A k \in 1 .. L : s[j] = s[k] => j = k
    BY <1>2, Zenon
  <2> QED
    BY <2>2, <2>3, <2>4, <1>1
<1>4. /\ q \in Seq(A) /\ Len(q) = L - 1
      /\ \A i \in 1 .. L - 1 : i < p => i \in 1 .. L /\ q[i] = s[i]
      /\ \A i \in 1 .. L - 1 : ~(i < p) => i + 1 \in 1 .. L /\ q[i] = s[i + 1]
      /\ \A x : In(q, x) <=> In(s, x) /\ x # n
  <2>1. s \in Seq(A) /\ p \in 1 .. Len(s) /\ \A i, j \in 1 .. Len(s) : s[i] = s[j] => i = j
    BY <1>1, <1>3
  <2> HIDE DEF A, s
  <2> QED
    BY <2>1, TakenOutIs, Zenon DEF s
<1>5. J \in [A -> Seq(A)] /\ J[e] = q /\ \A f \in A : f # e => J[f] = K[f]
  BY <1>1, <1>4 DEF TakenFrom
<1> DEFINE nx == t.next[n]  pv == t.prev[n]
<1>6. /\ n # None /\ t.parent[n] = e /\ e # None
      /\ nx = (IF p = L THEN None ELSE s[p + 1]) /\ pv = (IF p = 1 THEN None ELSE s[p - 1])
      /\ nx \in Pointer /\ pv \in Pointer
      /\ (p # 1 => p - 1 \in 1 .. L /\ pv = s[p - 1] /\ pv # None)
      /\ (p # L => p + 1 \in 1 .. L /\ nx = s[p + 1] /\ nx # None)
  <2>1. (p # 1 => p - 1 \in 1 .. L) /\ (p # L => p + 1 \in 1 .. L)
    BY <1>N
  <2>2. nx = (IF p = L THEN None ELSE s[p + 1]) /\ pv = (IF p = 1 THEN None ELSE s[p - 1])
        /\ t.parent[n] = e /\ n # None
    BY <1>1, <1>3
  <2>3. e # None
    BY <1>1, NodesAre
  <2> QED
    BY <2>1, <2>2, <2>3, <1>3 DEF Pointer
<1>7. t.first[e] = s[1] /\ t.last[e] = s[L]
  <2>1. s # <<>>
    BY <1>N
  <2> QED
    BY <2>1, <1>1 DEF Holds, Ends
<1>8. /\ u \in Trees /\ u.alive = A
      /\ \A x \in Node : /\ u.first[x] = IF x = e /\ p = 1 THEN nx ELSE t.first[x]
                         /\ u.last[x] = IF x = e /\ p = L THEN pv ELSE t.last[x]
                         /\ u.parent[x] = IF x = n THEN None ELSE t.parent[x]
                         /\ u.prev[x] = IF x = n THEN None ELSE IF x = nx THEN pv ELSE t.prev[x]
                         /\ u.next[x] = IF x = n THEN None ELSE IF x = pv THEN nx ELSE t.next[x]
  <2>1. /\ t.alive \in SUBSET Node /\ t.parent \in [Node -> Pointer] /\ t.next \in [Node -> Pointer]
        /\ t.prev \in [Node -> Pointer] /\ t.first \in [Node -> Pointer] /\ t.last \in [Node -> Pointer]
        /\ t \in Trees
    BY DEF Holds, Trees
  <2>2. (t.first[e] = n <=> p = 1) /\ (t.last[e] = n <=> p = L)
    <3>1. 1 \in 1 .. L /\ L \in 1 .. L
      BY <1>N
    <3> QED
      BY <3>1, <1>1, <1>3, <1>7
  <2>3. None \in Pointer
    BY DEF Pointer
  <2>4. u = [t EXCEPT !.first = IF p = 1 THEN [t.first EXCEPT ![e] = nx] ELSE t.first,
                      !.last = IF p = L THEN [t.last EXCEPT ![e] = pv] ELSE t.last,
                      !.parent = [t.parent EXCEPT ![n] = None],
                      !.prev = [x \in Node |-> IF x = n THEN None ELSE IF x = nx THEN pv ELSE t.prev[x]],
                      !.next = [x \in Node |-> IF x = n THEN None ELSE IF x = pv THEN nx ELSE t.next[x]]]
    <3> HIDE DEF n, L
    <3>1. t.parent[n] = e /\ e # None /\ (t.first[e] = n <=> p = 1) /\ (t.last[e] = n <=> p = L)
      BY <1>6, <2>2
    <3> QED
      BY <3>1 DEF Detached
  <2> HIDE DEF u, n, nx, pv, L
  <2> QED
    BY <2>1, <2>3, <2>4, <1>1, <1>6 DEF Trees
<1> HIDE DEF u, J, A, s, L, q, n, nx, pv
<1>9. Lists(A, J)
  <2>1. \A f \in A \ Element : K[f] = <<>>
    BY DEF Holds, Lists, A
  <2>2. s # <<>>
    BY <1>1, <1>N DEF L
  <2>3. \A f \in A \ Element : J[f] = <<>>
    BY <2>1, <2>2, <1>1, <1>5 DEF s
  <2> QED
    BY <1>5, <2>3 DEF Lists
<1>10. Once(J)
  <2> SUFFICES ASSUME NEW f \in A, NEW g \in A, NEW i \in 1 .. Len(J[f]), NEW j \in 1 .. Len(J[g]),
                      J[f][i] = J[g][j]
               PROVE  f = g /\ i = j
    BY <1>5 DEF Once
  <2>1. ASSUME NEW h \in A, NEW k \in 1 .. Len(J[h])
        PROVE  /\ k \in Nat
               /\ \E m \in 1 .. Len(K[h]) : /\ J[h][k] = K[h][m]
                                            /\ m = IF h # e \/ k < p THEN k ELSE k + 1
    <3>1. CASE h # e
      <4>1. J[h] = K[h] /\ Len(K[h]) \in Nat
        BY <3>1, <1>5, <1>1
      <4>2. k \in 1 .. Len(K[h]) /\ J[h][k] = K[h][k]
        BY <4>1
      <4>3. k \in Nat
        BY <4>1, <4>2
      <4> QED
        BY <4>2, <4>3, <3>1
    <3>2. CASE h = e
      <4>1. J[h] = q /\ k \in 1 .. L - 1 /\ k \in Nat
        BY <3>2, <1>4, <1>5, <1>N
      <4>2. CASE k < p
        <5>1. k \in 1 .. Len(K[h]) /\ q[k] = K[h][k]
          BY <4>1, <4>2, <1>4, <3>2 DEF s, L
        <5> QED
          BY <4>1, <4>2, <5>1
      <4>3. CASE ~(k < p)
        <5>1. k + 1 \in 1 .. Len(K[h]) /\ q[k] = K[h][k + 1]
          BY <4>1, <4>3, <1>4, <3>2 DEF s, L
        <5> QED
          BY <4>1, <4>3, <5>1, <3>2
      <4> QED
        BY <4>2, <4>3
    <3> QED
      BY <3>1, <3>2
  <2>2. PICK k \in 1 .. Len(K[f]) : J[f][i] = K[f][k] /\ k = IF f # e \/ i < p THEN i ELSE i + 1
    BY <2>1
  <2>3. PICK m \in 1 .. Len(K[g]) : J[g][j] = K[g][m] /\ m = IF g # e \/ j < p THEN j ELSE j + 1
    BY <2>1
  <2>4. f = g /\ k = m
    <3>1. K[f][k] = K[g][m]
      BY <2>2, <2>3
    <3> QED
      BY <3>1, <1>2, Zenon
  <2>5. i \in Nat /\ j \in Nat
    BY <2>1
  <2> QED
    BY <2>2, <2>3, <2>4, <2>5, <1>N
<1>11. NoCircle(J)
  <2>1. \A y, x \in DOMAIN J : In(J[y], x) => In(K[y], x)
    BY <1>4, <1>5 DEF s
  <2>2. DOMAIN K = A /\ DOMAIN J \subseteq A /\ NoCircle(K)
    BY <1>1, <1>5
  <2> QED
    BY <2>1, <2>2, FewerNoCircle, Zenon
<1>12. Ends(u, J)
  <2> SUFFICES ASSUME NEW x \in Node
               PROVE  /\ u.first[x] = IF x \in A /\ J[x] # <<>> THEN J[x][1] ELSE None
                      /\ u.last[x] = IF x \in A /\ J[x] # <<>> THEN J[x][Len(J[x])] ELSE None
    BY <1>8 DEF Ends
  <2>1. /\ t.first[x] = IF x \in A /\ K[x] # <<>> THEN K[x][1] ELSE None
        /\ t.last[x] = IF x \in A /\ K[x] # <<>> THEN K[x][Len(K[x])] ELSE None
    BY DEF Holds, Ends, A
  <2>2. CASE x # e
    BY <2>1, <2>2, <1>5, <1>8
  <2>3. CASE x = e
    <3>1. u.first[e] = (IF p = 1 THEN nx ELSE s[1]) /\ u.last[e] = (IF p = L THEN pv ELSE s[L])
      BY <1>1, <1>7, <1>8
    <3>2. CASE L = 1
      <4>1. p = 1 /\ p = L /\ nx = None /\ pv = None
        BY <3>2, <1>N, <1>6
      <4>2. Len(q) = 0
        BY <3>2, <1>4
      <4>3. q = <<>>
        BY <4>2, <1>4
      <4> QED
        BY <4>1, <4>3, <3>1, <2>3, <1>5
    <3>3. CASE L # 1
      <4>1. Len(q) # 0 /\ 1 \in 1 .. L - 1 /\ L - 1 \in 1 .. L - 1 /\ L - 1 + 1 = L /\ 1 + 1 = 2
        BY <3>3, <1>N, <1>4
      <4>2. q # <<>>
        BY <4>1
      <4>3. q[1] = IF p = 1 THEN s[2] ELSE s[1]
        BY <4>1, <1>4, <1>N
      <4>4. q[L - 1] = IF p = L THEN s[L - 1] ELSE s[L]
        BY <4>1, <1>4, <1>N
      <4>5. p = 1 => p # L /\ nx = s[2]
        BY <3>3, <1>6, <1>N
      <4>6. p = L => p # 1 /\ pv = s[L - 1]
        BY <3>3, <1>6, <1>N
      <4> QED
        BY <4>2, <4>3, <4>4, <4>5, <4>6, <3>1, <2>3, <1>1, <1>4, <1>5
    <3> QED
      BY <3>2, <3>3
  <2> QED
    BY <2>2, <2>3
<1>13. Links(u, J)
  <2> SUFFICES ASSUME NEW f \in A, NEW i \in 1 .. Len(J[f])
               PROVE  /\ u.parent[J[f][i]] = f
                      /\ u.prev[J[f][i]] = IF i = 1 THEN None ELSE J[f][i - 1]
                      /\ u.next[J[f][i]] = IF i = Len(J[f]) THEN None ELSE J[f][i + 1]
    BY <1>8 DEF Links
  <2>1. CASE f # e
    <3> DEFINE x == K[f][i]
    <3>1. J[f] = K[f] /\ i \in 1 .. Len(K[f])
      BY <2>1, <1>5
    <3>2. x # None /\ x \in Node
      BY <3>1, <1>1, <1>2
    <3>3. \A j \in 1 .. L : x # s[j]
      BY <2>1, <3>1, <1>1, <1>2, Zenon DEF s, L
    <3>4. x # pv /\ x # nx /\ x # n
      BY <3>2, <3>3, <1>1, <1>6 DEF n, s
    <3>5. u.parent[x] = t.parent[x] /\ u.prev[x] = t.prev[x] /\ u.next[x] = t.next[x]
      BY <3>2, <3>4, <1>8
    <3>6. /\ t.parent[x] = f /\ t.prev[x] = IF i = 1 THEN None ELSE K[f][i - 1]
          /\ t.next[x] = IF i = Len(K[f]) THEN None ELSE K[f][i + 1]
      BY <3>1, <1>0 DEF A
    <3> QED
      BY <3>1, <3>5, <3>6
  <2>2. CASE f = e
    <3>1. i \in 1 .. L - 1 /\ J[f] = q /\ Len(q) = L - 1
      BY <2>2, <1>4, <1>5
    <3>2. n = s[p]
      BY DEF n, s
    <3>3. CASE i < p
      <4>1. i \in 1 .. L /\ q[i] = s[i] /\ (i # 1 => i - 1 \in 1 .. L - 1 /\ q[i - 1] = s[i - 1])
        BY <3>1, <3>3, <1>N, <1>4
      <4>2. s[i] # n /\ s[i] # nx /\ s[i] \in Node
        BY <3>2, <3>3, <4>1, <1>N, <1>3, <1>6
      <4>3. u.parent[s[i]] = e /\ u.prev[s[i]] = IF i = 1 THEN None ELSE s[i - 1]
        BY <4>1, <4>2, <1>3, <1>8
      <4>4. CASE i = p - 1
        <5>1. s[i] = pv /\ u.next[s[i]] = nx
          BY <4>2, <4>4, <3>3, <4>1, <1>N, <1>6, <1>8
        <5>2. CASE p = L
          BY <5>1, <5>2, <4>1, <4>3, <4>4, <3>1, <2>2, <1>6
        <5>3. CASE p # L
          <6>1. i # L - 1 /\ i + 1 \in 1 .. L - 1 /\ ~(i + 1 < p) /\ i + 1 + 1 = p + 1
            BY <5>3, <4>4, <4>1, <1>N
          <6>2. q[i + 1] = nx
            BY <6>1, <5>3, <1>4, <1>6
          <6> QED
            BY <5>1, <6>1, <6>2, <4>1, <4>3, <3>1, <2>2
        <5> QED
          BY <5>2, <5>3
      <4>5. CASE i # p - 1
        <5>1. i # L - 1 /\ i # L /\ i + 1 \in 1 .. L - 1 /\ i + 1 < p
          BY <4>5, <3>3, <4>1, <1>N
        <5>2. s[i] # pv
          BY <4>5, <4>2, <4>1, <1>3, <1>6, <1>N
        <5>3. u.next[s[i]] = s[i + 1] /\ q[i + 1] = s[i + 1]
          BY <5>1, <5>2, <4>1, <4>2, <1>3, <1>4, <1>8
        <5> QED
          BY <5>1, <5>3, <4>1, <4>3, <3>1, <2>2
      <4> QED
        BY <4>4, <4>5
    <3>4. CASE ~(i < p)
      <4> DEFINE k == i + 1
      <4>1. /\ k \in 1 .. L /\ q[i] = s[k] /\ k > p /\ k - 1 = i /\ k # 1
            /\ (i # L - 1 => k # L /\ i + 1 \in 1 .. L - 1 /\ q[i + 1] = s[k + 1]) /\ (i = L - 1 => k = L)
        BY <3>1, <3>4, <1>N, <1>4
      <4> HIDE DEF k
      <4>2. s[k] # n /\ s[k] # pv /\ s[k] \in Node
        BY <3>2, <4>1, <1>N, <1>3, <1>6
      <4>3. u.parent[s[k]] = e /\ u.next[s[k]] = IF k = L THEN None ELSE s[k + 1]
        BY <4>1, <4>2, <1>3, <1>8
      <4>4. u.prev[s[k]] = IF i = 1 THEN None ELSE q[i - 1]
        <5>1. CASE i = p
          <6>1. s[k] = nx
            BY <5>1, <4>1, <1>6, <1>N
          <6>2. u.prev[s[k]] = pv
            BY <6>1, <4>2, <1>8
          <6>3. p # 1 => q[p - 1] = s[p - 1]
            <7>1. p # 1 => p - 1 \in 1 .. L - 1 /\ p - 1 < p
              BY <1>N
            <7> QED
              BY <7>1, <1>4
          <6> QED
            BY <6>2, <6>3, <5>1, <1>6
        <5>2. CASE i # p
          <6>1. s[k] # nx
            BY <5>2, <4>1, <1>3, <1>6, <1>N
          <6>2. u.prev[s[k]] = s[k - 1]
            BY <6>1, <4>1, <4>2, <1>3, <1>8
          <6>3. i - 1 \in 1 .. L - 1 /\ ~(i - 1 < p) /\ i - 1 + 1 = i
            BY <5>2, <3>1, <3>4, <1>N
          <6>4. q[i - 1] = s[i]
            BY <6>3, <1>4
          <6> QED
            BY <6>2, <6>3, <6>4, <4>1, <1>N
        <5> QED
          BY <5>1, <5>2
      <4> QED
        BY <4>1, <4>3, <4>4, <3>1, <2>2
    <3> QED
      BY <3>3, <3>4
  <2> QED
    BY <2>1, <2>2
<1>14. Unlinked(u, J)
  <2> SUFFICES ASSUME NEW x \in Node, \A f \in A : ~In(J[f], x)
               PROVE  u.parent[x] = None /\ u.prev[x] = None /\ u.next[x] = None
    BY <1>8 DEF Unlinked
  <2>1. CASE x = n
    BY <2>1, <1>8
  <2>2. CASE x # n
    <3>1. \A f \in A : ~In(K[f], x)
      BY <2>2, <1>1, <1>4, <1>5 DEF s
    <3>2. t.parent[x] = None /\ t.prev[x] = None /\ t.next[x] = None
      BY <3>1 DEF Holds, Unlinked, A
    <3>3. \A i \in 1 .. L : s[i] # x
      BY <3>1, <1>1 DEF s, L, In
    <3>4. x # None
      BY NodesAre
    <3>5. x # pv /\ x # nx
      BY <3>3, <3>4, <1>6
    <3> QED
      BY <2>2, <3>2, <3>5, <1>8
  <2> QED
    BY <2>1, <2>2
<1> QED
  BY <1>8, <1>9, <1>10, <1>11, <1>12, <1>13, <1>14 DEF Holds, u, J, n

-----------------------------------------------------------------------------
(* Nodes are destroyed.                                                    *)

\* Who has a child that is below n, other than n, is below n.
LEMMA OwnersUnder ==
    ASSUME NEW A, NEW K \in [A -> Seq(A)], Once(K), NEW n \in A, NEW x \in Under(K, n), x # n,
           NEW e \in A, In(K[e], x)
    PROVE  e \in Under(K, n)
<1> DEFINE U == Under(K, n)  C == U \ {x}
<1>1. U \in SUBSET A /\ n \in U /\ Closed(K, U)
  BY UnderIs
<1> HIDE DEF U
<1> SUFFICES ASSUME e \notin U PROVE FALSE
  BY DEF U
<1>2. Closed(K, C)
  <2>1. ASSUME NEW y \in C, NEW i \in 1 .. Len(K[y]) PROVE K[y][i] \in C
    <3>1. K[y][i] \in U
      BY <1>1 DEF Closed
    <3>2. K[y][i] # x
      <4>1. y \in A /\ y # e
        BY <1>1
      <4> QED
        BY <4>1 DEF In, Once
    <3> QED
      BY <3>1, <3>2
  <2> QED
    BY <2>1 DEF Closed
<1>3. C \in SUBSET A /\ n \in C
  BY <1>1
<1>4. U \subseteq C
  <2> HIDE DEF C
  <2> QED
    BY <1>2, <1>3, UnderIs DEF U
<1> QED
  BY <1>4 DEF U

\* S is all that is below some nodes, none of which is in a list of another.
Separate(K, S) ==
    /\ S \subseteq DOMAIN K /\ Closed(K, S)
    /\ \A e \in DOMAIN K \ S : \A x \in S : ~In(K[e], x)

Without(K, S) == [x \in DOMAIN K \ S |-> K[x]]

LEMMA FreedHolds ==
    ASSUME NEW t, NEW K, Holds(t, K), NEW S, Separate(K, S)
    PROVE  Holds(Freed(t, S), Without(K, S))
<1> DEFINE u == Freed(t, S)  J == Without(K, S)  A == t.alive  B == A \ S
<1>1. /\ A \subseteq Node /\ K \in [A -> Seq(A)] /\ NoCircle(K) /\ DOMAIN K = A /\ Once(K)
      /\ \A e \in A : \A i \in 1 .. Len(K[e]) : K[e][i] \in A /\ (K[e][i] \in S <=> e \in S)
  <2>1. A \subseteq Node /\ K \in [A -> Seq(A)] /\ NoCircle(K) /\ Once(K)
    BY DEF Holds, Lists, Trees
  <2>2. ASSUME NEW e \in A, NEW i \in 1 .. Len(K[e])
        PROVE  K[e][i] \in A /\ (K[e][i] \in S <=> e \in S)
    <3>1. K[e][i] \in A
      BY <2>1
    <3> QED
      BY <2>1, <3>1 DEF Separate, Closed, In
  <2> QED
    BY <2>1, <2>2
<1>2. /\ t.alive \in SUBSET Node /\ t.parent \in [Node -> Pointer] /\ t.next \in [Node -> Pointer]
      /\ t.prev \in [Node -> Pointer] /\ t.first \in [Node -> Pointer] /\ t.last \in [Node -> Pointer]
      /\ None \in Pointer
  BY DEF Holds, Trees, Pointer
<1>3. /\ u \in Trees /\ u.alive = B
      /\ \A x \in Node : /\ u.first[x] = IF x \in S THEN None ELSE t.first[x]
                         /\ u.last[x] = IF x \in S THEN None ELSE t.last[x]
                         /\ u.parent[x] = IF x \in S THEN None ELSE t.parent[x]
                         /\ u.prev[x] = IF x \in S THEN None ELSE t.prev[x]
                         /\ u.next[x] = IF x \in S THEN None ELSE t.next[x]
  BY <1>2 DEF Freed, Trees
<1>4. DOMAIN J = B /\ \A x \in B : J[x] = K[x]
  BY <1>1 DEF Without
<1>5. J \in [B -> Seq(B)]
  <2>1. ASSUME NEW x \in B PROVE K[x] \in Seq(B)
    <3>1. K[x] \in Seq(A) /\ Len(K[x]) \in Nat /\ \A i \in 1 .. Len(K[x]) : K[x][i] \in B
      BY <1>1
    <3> QED
      BY <3>1
  <2>2. J = [x \in B |-> K[x]]
    BY <1>1 DEF Without
  <2> QED
    BY <2>1, <2>2
<1> HIDE DEF u, J
<1>6. Lists(B, J)
  BY <1>4, <1>5 DEF Holds, Lists
<1>7. Once(J)
  <2> SUFFICES ASSUME NEW f \in B, NEW g \in B, NEW i \in 1 .. Len(J[f]), NEW j \in 1 .. Len(J[g]),
                      J[f][i] = J[g][j]
               PROVE  f = g /\ i = j
    BY <1>4 DEF Once
  <2>0. f \in DOMAIN K /\ g \in DOMAIN K
    BY <1>1
  <2>1. i \in 1 .. Len(K[f]) /\ j \in 1 .. Len(K[g]) /\ K[f][i] = K[g][j]
    BY <1>4
  <2> QED
    <3>1. Once(K)
      BY <1>1
    <3> QED
      BY <2>1, <2>0, <3>1, OnceAt
<1>8. NoCircle(J)
  <2>1. \A y, x \in DOMAIN J : In(J[y], x) => In(K[y], x)
    BY <1>4
  <2>2. DOMAIN J \subseteq A
    BY <1>4
  <2> QED
    BY <2>1, <2>2, <1>1, FewerNoCircle, Zenon
<1>9. Ends(u, J)
  <2> SUFFICES ASSUME NEW x \in Node
               PROVE  /\ u.first[x] = IF x \in B /\ J[x] # <<>> THEN J[x][1] ELSE None
                      /\ u.last[x] = IF x \in B /\ J[x] # <<>> THEN J[x][Len(J[x])] ELSE None
    BY <1>3 DEF Ends
  <2>1. /\ t.first[x] = IF x \in A /\ K[x] # <<>> THEN K[x][1] ELSE None
        /\ t.last[x] = IF x \in A /\ K[x] # <<>> THEN K[x][Len(K[x])] ELSE None
    BY DEF Holds, Ends
  <2> QED
    BY <2>1, <1>3, <1>4
<1>10. Links(u, J)
  <2> SUFFICES ASSUME NEW e \in B, NEW i \in 1 .. Len(J[e])
               PROVE  /\ u.parent[J[e][i]] = e
                      /\ u.prev[J[e][i]] = IF i = 1 THEN None ELSE J[e][i - 1]
                      /\ u.next[J[e][i]] = IF i = Len(J[e]) THEN None ELSE J[e][i + 1]
    BY <1>3 DEF Links
  <2>1. J[e] = K[e] /\ i \in 1 .. Len(K[e])
    BY <1>4
  <2>2. K[e][i] \in Node /\ K[e][i] \notin S
    BY <2>1, <1>1
  <2>3. /\ t.parent[K[e][i]] = e
        /\ t.prev[K[e][i]] = IF i = 1 THEN None ELSE K[e][i - 1]
        /\ t.next[K[e][i]] = IF i = Len(K[e]) THEN None ELSE K[e][i + 1]
    BY <2>1 DEF Holds, Links
  <2> QED
    BY <2>1, <2>2, <2>3, <1>3
<1>11. Unlinked(u, J)
  <2> SUFFICES ASSUME NEW x \in Node, \A e \in B : ~In(J[e], x)
               PROVE  u.parent[x] = None /\ u.prev[x] = None /\ u.next[x] = None
    BY <1>3 DEF Unlinked
  <2>1. CASE x \in S
    BY <2>1, <1>3
  <2>2. CASE x \notin S
    <3>1. \A e \in A : ~In(K[e], x)
      BY <2>2, <1>1, <1>4 DEF In
    <3>2. t.parent[x] = None /\ t.prev[x] = None /\ t.next[x] = None
      BY <3>1 DEF Holds, Unlinked
    <3> QED
      BY <2>2, <3>2, <1>3
  <2> QED
    BY <2>1, <2>2
<1> QED
  BY <1>3, <1>6, <1>7, <1>8, <1>9, <1>10, <1>11 DEF Holds, u, J

\* The parent of a node, and its place there.
LEMMA ParentIs ==
    ASSUME NEW t, NEW K, Holds(t, K), NEW n \in Node
    PROVE  /\ t.parent[n] = None <=> \A e \in t.alive : ~In(K[e], n)
           /\ \A e \in t.alive : In(K[e], n) <=> t.parent[n] = e
           /\ t.parent[n] # None => t.parent[n] \in t.alive /\ n \in t.alive
                                    /\ \E p \in 1 .. Len(K[t.parent[n]]) : K[t.parent[n]][p] = n
<1>1. \A e \in t.alive : In(K[e], n) => t.parent[n] = e /\ e # None /\ n \in t.alive
  <2> SUFFICES ASSUME NEW e \in t.alive, NEW i \in 1 .. Len(K[e]), K[e][i] = n
               PROVE  t.parent[n] = e /\ e # None /\ n \in t.alive
    BY DEF In
  <2>1. t.parent[n] = e
    BY DEF Holds, Links
  <2>2. e \in Node /\ n \in t.alive
    BY ListIs
  <2> QED
    BY <2>1, <2>2, NodesAre
<1>2. (\A e \in t.alive : ~In(K[e], n)) => t.parent[n] = None
  BY DEF Holds, Unlinked
<1>3. t.parent[n] = None <=> \A e \in t.alive : ~In(K[e], n)
  BY <1>1, <1>2
<1>4. \A e \in t.alive : In(K[e], n) <=> t.parent[n] = e
  <2> SUFFICES ASSUME NEW e \in t.alive, t.parent[n] = e PROVE In(K[e], n)
    BY <1>1
  <2>1. e # None
    BY ListIs, NodesAre
  <2>2. PICK f \in t.alive : In(K[f], n)
    BY <2>1, <1>2
  <2> QED
    BY <2>2, <1>1
<1>5. ASSUME t.parent[n] # None
      PROVE  t.parent[n] \in t.alive /\ n \in t.alive
             /\ \E p \in 1 .. Len(K[t.parent[n]]) : K[t.parent[n]][p] = n
  <2>1. PICK e \in t.alive : In(K[e], n)
    BY <1>5, <1>3
  <2>2. t.parent[n] = e /\ n \in t.alive
    BY <2>1, <1>1
  <2> QED
    BY <2>1, <2>2 DEF In
<1> QED
  BY <1>3, <1>4, <1>5

\* The lists when n and what is below it have been deleted.
DeletedFrom(t, K, n) ==
    [x \in t.alive \ Under(K, n) |->
        IF x = t.parent[n] THEN TakenOut(K[x], CHOOSE p \in 1 .. Len(K[x]) : K[x][p] = n) ELSE K[x]]

LEMMA DeletedHolds ==
    ASSUME NEW t, NEW K, Holds(t, K), NEW n \in t.alive
    PROVE  Holds(Deleted(t, n), DeletedFrom(t, K, n))
<1> DEFINE A == t.alive  U == Under(K, n)
<1>1. /\ A \subseteq Node /\ K \in [A -> Seq(A)] /\ NoCircle(K) /\ DOMAIN K = A /\ Once(K)
      /\ n \in A /\ n \in Node
  BY DEF Holds, Lists, Trees
<1>2. U \subseteq A /\ n \in U /\ Closed(K, U)
  BY <1>1, UnderIs
<1>3. \A x \in U : \A e \in A : x # n /\ In(K[e], x) => e \in U
  BY <1>1, OwnersUnder, Zenon
<1>4. Below(t, n) = U
  BY <1>1, BelowIs
<1>5. CASE t.parent[n] = None
  <2>1. Deleted(t, n) = Freed(t, U)
    BY <1>4, <1>5 DEF Deleted
  <2>2. Separate(K, U)
    <3>1. \A e \in A : ~In(K[e], n)
      BY <1>1, <1>5, ParentIs
    <3> QED
      BY <1>1, <1>2, <1>3, <3>1 DEF Separate
  <2>3. DeletedFrom(t, K, n) = Without(K, U)
    <3>1. \A x \in A : x # t.parent[n]
      BY <1>1, <1>5, NodesAre
    <3> QED
      BY <3>1, <1>1 DEF DeletedFrom, Without
  <2> QED
    BY <2>1, <2>2, <2>3, FreedHolds
<1>6. CASE t.parent[n] # None
  <2> DEFINE e == t.parent[n]  p == CHOOSE i \in 1 .. Len(K[e]) : K[e][i] = n
             J == TakenFrom(K, e, p)  u == Detached(t, n)
  <2>1. e \in A /\ p \in 1 .. Len(K[e]) /\ K[e][p] = n
    BY <1>1, <1>6, ParentIs
  <2>2. Deleted(t, n) = Freed(u, U)
    BY <1>4, <1>6 DEF Deleted
  <2> HIDE DEF e, p, u
  <2>3. Holds(u, J)
    BY <2>1, DetachedHolds DEF u
  <2>4. e \notin U
    <3>1. e \notin Under(K, K[e][p])
      BY <1>1, <2>1, UnderShrinks
    <3> QED
      BY <3>1, <2>1
  <2>5. DOMAIN J = A /\ \A x \in A : x # e => J[x] = K[x]
    BY <1>1 DEF TakenFrom
  <2>6. \A x : In(J[e], x) <=> In(K[e], x) /\ x # n
    <3>1. K[e] \in Seq(A) /\ \A i, j \in 1 .. Len(K[e]) : K[e][i] = K[e][j] => i = j
      BY <1>1, <2>1 DEF Once
    <3>2. \A x : In(TakenOut(K[e], p), x) <=> In(K[e], x) /\ x # K[e][p]
      BY <3>1, <2>1, TakenOutIs
    <3>3. J[e] = TakenOut(K[e], p)
      BY <1>1, <2>1 DEF TakenFrom
    <3> QED
      BY <3>2, <3>3, <2>1
  <2>7. Separate(J, U)
    <3>1. Closed(J, U)
      BY <1>2, <2>4, <2>5 DEF Closed
    <3>2. ASSUME NEW f \in A \ U, NEW x \in U PROVE ~In(J[f], x)
      <4>1. CASE f = e
        BY <4>1, <3>2, <2>6, <1>3
      <4>2. CASE f # e
        <5>1. x = n => ~In(K[f], x)
          <6>1. In(K[f], n) <=> e = f
            BY <1>1, ParentIs DEF e
          <6> QED
            BY <6>1, <4>2
        <5> QED
          BY <5>1, <4>2, <3>2, <2>5, <1>3
      <4> QED
        BY <4>1, <4>2
    <3> QED
      BY <3>1, <3>2, <1>2, <2>5 DEF Separate
  <2>8. DeletedFrom(t, K, n) = Without(J, U)
    <3>1. DeletedFrom(t, K, n) = [x \in A \ U |-> IF x = e THEN TakenOut(K[x], CHOOSE i \in 1 .. Len(K[x]) : K[x][i] = n) ELSE K[x]]
      BY DEF DeletedFrom, e
    <3>2. ASSUME NEW x \in A \ U
          PROVE  J[x] = IF x = e THEN TakenOut(K[x], CHOOSE i \in 1 .. Len(K[x]) : K[x][i] = n) ELSE K[x]
      <4>1. CASE x = e
        <5>1. J[e] = TakenOut(K[e], CHOOSE i \in 1 .. Len(K[e]) : K[e][i] = n)
          BY <1>1, <2>1 DEF TakenFrom, p
        <5> QED
          BY <4>1, <5>1
      <4>2. CASE x # e
        BY <4>2, <2>5
      <4> QED
        BY <4>1, <4>2
    <3>3. Without(J, U) = [x \in A \ U |-> J[x]]
      BY <2>5 DEF Without
    <3> QED
      BY <3>1, <3>2, <3>3
  <2> HIDE DEF J
  <2> QED
    BY <2>2, <2>3, <2>7, <2>8, FreedHolds
<1> QED
  BY <1>5, <1>6

LEMMA ClearedHolds ==
    ASSUME NEW t, NEW K, Holds(t, K), NEW e \in t.alive
    PROVE  Holds(Cleared(t, e), [x \in t.alive \ (Under(K, e) \ {e}) |-> IF x = e THEN <<>> ELSE K[x]])
<1> DEFINE A == t.alive
           S == Under(K, e) \ {e}
           B == A \ S
           J == [x \in B |-> IF x = e THEN <<>> ELSE K[x]]
           u == Cleared(t, e)
<1>1. /\ A \subseteq Node /\ K \in [A -> Seq(A)] /\ NoCircle(K) /\ DOMAIN K = A /\ Once(K)
      /\ e \in A /\ e \in Node
  BY DEF Holds, Lists, Trees
<1>2. /\ S \subseteq A /\ e \notin S /\ B \subseteq A /\ e \in B
      /\ \A x \in S : \A i \in 1 .. Len(K[x]) : K[x][i] \in S
      /\ \A i \in 1 .. Len(K[e]) : K[e][i] \in S
  <2>1. Under(K, e) \subseteq A /\ e \in Under(K, e) /\ Closed(K, Under(K, e))
    BY <1>1, UnderIs
  <2>2. ASSUME NEW x \in Under(K, e), NEW i \in 1 .. Len(K[x]) PROVE K[x][i] # e
    <3>1. x \in A /\ K[x][i] \in A
      BY <2>1, <1>1
    <3>2. x \notin Under(K, K[x][i])
      BY <3>1, <1>1, UnderShrinks
    <3> QED
      BY <3>2, <2>2
  <2> QED
    BY <2>1, <2>2, <1>1 DEF Closed
<1>3. \A x \in S : \A f \in A : In(K[f], x) => f \in S \/ f = e
  <2> SUFFICES ASSUME NEW x \in S, NEW f \in A, In(K[f], x) PROVE f \in Under(K, e)
    BY Zenon
  <2> QED
    BY <1>1, OwnersUnder
<1>4. Below(t, e) \ {e} = S
  BY <1>1, BelowIs
<1>5. /\ t.alive \in SUBSET Node /\ t.parent \in [Node -> Pointer] /\ t.next \in [Node -> Pointer]
      /\ t.prev \in [Node -> Pointer] /\ t.first \in [Node -> Pointer] /\ t.last \in [Node -> Pointer]
      /\ None \in Pointer /\ t \in Trees
  BY DEF Holds, Trees, Pointer
<1>6. u = Freed([t EXCEPT !.first[e] = None, !.last[e] = None], S)
  BY <1>4 DEF Cleared
<1> HIDE DEF S
<1>7. /\ u \in Trees /\ u.alive = B
      /\ \A x \in Node : /\ u.first[x] = IF x \in S \/ x = e THEN None ELSE t.first[x]
                         /\ u.last[x] = IF x \in S \/ x = e THEN None ELSE t.last[x]
                         /\ u.parent[x] = IF x \in S THEN None ELSE t.parent[x]
                         /\ u.prev[x] = IF x \in S THEN None ELSE t.prev[x]
                         /\ u.next[x] = IF x \in S THEN None ELSE t.next[x]
  <2> HIDE DEF u
  <2> QED
    BY <1>5, <1>6, <1>1 DEF Freed, Trees
<1>8. DOMAIN J = B /\ J[e] = <<>> /\ \A x \in B : x # e => J[x] = K[x]
  BY <1>2
<1>9. ASSUME NEW x \in B, x # e, NEW i \in 1 .. Len(K[x]) PROVE K[x][i] \in B
  <2>1. K[x][i] \in A
    BY <1>1, <1>9
  <2>2. In(K[x], K[x][i])
    BY <1>9 DEF In
  <2> QED
    BY <2>1, <2>2, <1>3, <1>9
<1>10. J \in [B -> Seq(B)]
  <2>1. ASSUME NEW x \in B PROVE (IF x = e THEN <<>> ELSE K[x]) \in Seq(B)
    <3>1. CASE x # e
      <4>1. K[x] \in Seq(A) /\ Len(K[x]) \in Nat /\ \A i \in 1 .. Len(K[x]) : K[x][i] \in B
        BY <1>1, <1>9, <3>1
      <4> QED
        BY <4>1, <3>1
    <3> QED
      BY <3>1
  <2> QED
    BY <2>1
<1> HIDE DEF u, J, B
<1>11. Lists(B, J)
  BY <1>8, <1>10 DEF Holds, Lists, B
<1>12. Once(J)
  <2> SUFFICES ASSUME NEW f \in B, NEW g \in B, NEW i \in 1 .. Len(J[f]), NEW j \in 1 .. Len(J[g]),
                      J[f][i] = J[g][j]
               PROVE  f = g /\ i = j
    BY <1>8 DEF Once
  <2>1. f # e /\ g # e
    BY <1>8
  <2>2. J[f] = K[f] /\ J[g] = K[g] /\ f \in A /\ g \in A
    BY <2>1, <1>2, <1>8
  <2>0. f \in DOMAIN K /\ g \in DOMAIN K
    BY <2>2, <1>1
  <2>3. K[f][i] = K[g][j] /\ i \in 1 .. Len(K[f]) /\ j \in 1 .. Len(K[g])
    BY <2>2
  <2> QED
    <3>1. Once(K)
      BY <1>1
    <3> QED
      BY <2>0, <2>3, <3>1, OnceAt
<1>13. NoCircle(J)
  <2>1. ASSUME NEW y \in DOMAIN J, NEW x, In(J[y], x) PROVE In(K[y], x)
    <3>1. y # e
      BY <2>1, <1>8 DEF In
    <3> QED
      BY <3>1, <2>1, <1>8
  <2>2. DOMAIN J \subseteq A
    BY <1>2, <1>8
  <2> QED
    BY <2>1, <2>2, <1>1, FewerNoCircle, Zenon
<1>14. Ends(u, J)
  <2> SUFFICES ASSUME NEW x \in Node
               PROVE  /\ u.first[x] = IF x \in B /\ J[x] # <<>> THEN J[x][1] ELSE None
                      /\ u.last[x] = IF x \in B /\ J[x] # <<>> THEN J[x][Len(J[x])] ELSE None
    BY <1>7 DEF Ends
  <2>1. /\ t.first[x] = IF x \in A /\ K[x] # <<>> THEN K[x][1] ELSE None
        /\ t.last[x] = IF x \in A /\ K[x] # <<>> THEN K[x][Len(K[x])] ELSE None
    BY DEF Holds, Ends
  <2> QED
    BY <2>1, <1>2, <1>7, <1>8 DEF B
<1>15. Links(u, J)
  <2> SUFFICES ASSUME NEW f \in B, NEW i \in 1 .. Len(J[f])
               PROVE  /\ u.parent[J[f][i]] = f
                      /\ u.prev[J[f][i]] = IF i = 1 THEN None ELSE J[f][i - 1]
                      /\ u.next[J[f][i]] = IF i = Len(J[f]) THEN None ELSE J[f][i + 1]
    BY <1>7 DEF Links
  <2>1. f # e
    BY <1>8
  <2>2. J[f] = K[f] /\ i \in 1 .. Len(K[f]) /\ f \in A
    BY <2>1, <1>2, <1>8
  <2>3. K[f][i] \in Node /\ K[f][i] \notin S
    BY <2>1, <2>2, <1>1, <1>9 DEF B
  <2>4. /\ t.parent[K[f][i]] = f
        /\ t.prev[K[f][i]] = IF i = 1 THEN None ELSE K[f][i - 1]
        /\ t.next[K[f][i]] = IF i = Len(K[f]) THEN None ELSE K[f][i + 1]
    BY <2>2 DEF Holds, Links
  <2> QED
    BY <2>2, <2>3, <2>4, <1>7
<1>16. Unlinked(u, J)
  <2> SUFFICES ASSUME NEW x \in Node, \A f \in B : ~In(J[f], x)
               PROVE  u.parent[x] = None /\ u.prev[x] = None /\ u.next[x] = None
    BY <1>7 DEF Unlinked
  <2>1. CASE x \in S
    BY <2>1, <1>7
  <2>2. CASE x \notin S
    <3>1. ASSUME NEW f \in A, In(K[f], x) PROVE FALSE
      <4>1. f \notin S /\ f # e
        <5>1. PICK i \in 1 .. Len(K[f]) : K[f][i] = x
          BY <3>1 DEF In
        <5> QED
          BY <5>1, <2>2, <1>2
      <4> QED
        BY <4>1, <3>1, <1>8 DEF B
    <3>2. t.parent[x] = None /\ t.prev[x] = None /\ t.next[x] = None
      BY <3>1 DEF Holds, Unlinked
    <3> QED
      BY <2>2, <3>2, <1>7
  <2> QED
    BY <2>1, <2>2
<1> QED
  BY <1>7, <1>11, <1>12, <1>13, <1>14, <1>15, <1>16 DEF Holds, u, J, B, S

-----------------------------------------------------------------------------
(* Some of the members of a list.                                          *)

\* F[i] are those among the first i.
Filters(F, A, s, S) ==
    /\ F \in [0 .. Len(s) -> Seq(A)] /\ F[0] = <<>>
    /\ \A i \in 1 .. Len(s) : F[i] = IF s[i] \in S THEN Append(F[i - 1], s[i]) ELSE F[i - 1]

LEMMA ThoseBy ==
    ASSUME NEW A, NEW s \in Seq(A), NEW S
    PROVE  \E F : Filters(F, A, s, S) /\ Those(s, S) = F[Len(s)]
<1> DEFINE N == Len(s)
           D == Seq(A)
           Step(i, q) == IF s[i] \in S THEN Append(q, s[i]) ELSE q
           d == <<>>
           G == [x \in (1 .. N) \X D |-> Step(x[1], x[2])]
           Solved(f) == [i \in 0 .. N |-> IF i = 0 THEN d
                                          ELSE IF s[i] \in S THEN Append(f[i - 1], s[i]) ELSE f[i - 1]]
           upTo == CHOOSE f : f = Solved(f)
<1>1. N \in Nat /\ d \in D /\ \A i \in 1 .. N : s[i] \in A
  OBVIOUS
<1>2. Those(s, S) = upTo[N]
  BY DEF Those
<1> HIDE DEF N
<1>3. ASSUME NEW i \in 1 .. N, NEW q \in D PROVE Step(i, q) \in D
  BY <1>1
<1>4. ASSUME NEW i \in 1 .. N, NEW q \in D
      PROVE  G[<<i, q>>] = Step(i, q)
  OBVIOUS
<1>5. G \in [(1 .. N) \X D -> D]
  <2> HIDE DEF D
  <2> SUFFICES ASSUME NEW x \in (1 .. N) \X D PROVE Step(x[1], x[2]) \in D
    BY Zenon
  <2>1. x[1] \in 1 .. N /\ x[2] \in D
    OBVIOUS
  <2> QED
    BY <2>1, <1>3, Zenon
<1> HIDE DEF G
<1>6. PICK h \in [0 .. N -> D] : h[0] = d /\ \A i \in 1 .. N : h[i] = G[<<i, h[i - 1]>>]
  <2> HIDE DEF D, d
  <2>1. Recursive(D, d, N, G)
    BY <1>1, <1>5, Recursion, Zenon
  <2> QED
    BY <2>1, Zenon DEF Recursive
<1>7. ASSUME NEW i \in 1 .. N
      PROVE  h[i] = Step(i, h[i - 1])
  <2> HIDE DEF D
  <2>1. h[i - 1] \in D
    BY <1>1
  <2> QED
    BY <2>1, <1>4, <1>6
<1>8. h = Solved(h)
  <2>1. ASSUME NEW i \in 0 .. N
        PROVE  h[i] = IF i = 0 THEN d ELSE IF s[i] \in S THEN Append(h[i - 1], s[i]) ELSE h[i - 1]
    <3>1. i = 0 \/ i \in 1 .. N
      BY <1>1
    <3> QED
      BY <3>1, <1>6, <1>7
  <2> QED
    BY <2>1
<1>9. upTo = Solved(upTo)
  BY <1>8
<1> HIDE DEF upTo
<1>10. \A i \in 0 .. N : upTo[i] = IF i = 0 THEN d ELSE IF s[i] \in S THEN Append(upTo[i - 1], s[i]) ELSE upTo[i - 1]
  BY <1>9
<1> DEFINE Typed == {i \in 0 .. N : upTo[i] \in D}
<1>11. \A i \in 0 .. N : i \in Typed
  <2>1. 0 \in Typed
    <3>1. 0 \in 0 .. N
      BY <1>1
    <3>2. upTo[0] = d
      BY <3>1, <1>10
    <3> QED
      BY <3>1, <3>2, <1>1
  <2>2. ASSUME NEW i \in 1 .. N, i - 1 \in Typed PROVE i \in Typed
    <3>1. upTo[i - 1] \in D /\ i \in 0 .. N /\ i # 0
      BY <2>2, <1>1
    <3>2. upTo[i] = Step(i, upTo[i - 1])
      BY <3>1, <1>10
    <3> QED
      BY <3>1, <3>2, <1>3
  <2> HIDE DEF Typed
  <2> QED
    BY <2>1, <2>2, <1>1, NatSteps, Zenon
<1>12. Filters(upTo, A, s, S)
  <2>1. upTo = [i \in 0 .. N |-> upTo[i]]
    BY <1>9
  <2>2. upTo \in [0 .. N -> D]
    BY <2>1, <1>11
  <2>3. \A i \in 1 .. N : i \in 0 .. N /\ i # 0
    BY <1>1
  <2> QED
    <3>1. upTo[0] = <<>>
      BY <1>1, <1>10
    <3>2. \A i \in 1 .. N : upTo[i] = IF s[i] \in S THEN Append(upTo[i - 1], s[i]) ELSE upTo[i - 1]
      BY <2>3, <1>10
    <3> HIDE DEF D
    <3>3. upTo \in [0 .. Len(s) -> Seq(A)]
      BY <2>2 DEF D, N
    <3> QED
      BY <3>1, <3>2, <3>3, Zenon DEF Filters, N
<1> QED
  BY <1>2, <1>12 DEF N

\* The members of the list that are in S, each once if the list has no member twice.
LEMMA ThoseIs ==
    ASSUME NEW A, NEW s \in Seq(A), NEW S, \A i, j \in 1 .. Len(s) : s[i] = s[j] => i = j
    PROVE  /\ Those(s, S) \in Seq(A)
           /\ \A x : In(Those(s, S), x) <=> In(s, x) /\ x \in S
           /\ \A i, j \in 1 .. Len(Those(s, S)) : Those(s, S)[i] = Those(s, S)[j] => i = j
<1> DEFINE N == Len(s)
<1>1. PICK F : Filters(F, A, s, S) /\ Those(s, S) = F[N]
  BY ThoseBy
<1>2. N \in Nat /\ \A i \in 1 .. N : s[i] \in A
  OBVIOUS
<1>3. /\ \A i \in 0 .. N : F[i] \in Seq(A)
      /\ F[0] = <<>>
      /\ \A i \in 1 .. N : F[i] = IF s[i] \in S THEN Append(F[i - 1], s[i]) ELSE F[i - 1]
  BY <1>1 DEF Filters
<1>0. \A i, j \in 1 .. N : s[i] = s[j] => i = j
  OBVIOUS
<1> HIDE DEF N
<1> DEFINE Good(i) == /\ \A x : In(F[i], x) <=> x \in S /\ \E j \in 1 .. i : s[j] = x
                      /\ \A j, k \in 1 .. Len(F[i]) : F[i][j] = F[i][k] => j = k
           T == {i \in 0 .. N : Good(i)}
<1>4. 0 \in T
  <2>1. Len(F[0]) = 0
    BY <1>3
  <2>2. Good(0)
    BY <2>1 DEF In
  <2> QED
    BY <2>2, <1>2
<1>5. ASSUME NEW i \in 1 .. N, i - 1 \in T PROVE i \in T
  <2> DEFINE q == F[i - 1]  y == s[i]
  <2>1. /\ q \in Seq(A) /\ y \in A /\ i \in 0 .. N /\ i \in Nat
        /\ \A x : In(q, x) <=> x \in S /\ \E j \in 1 .. i - 1 : s[j] = x
        /\ \A j, k \in 1 .. Len(q) : q[j] = q[k] => j = k
    BY <1>2, <1>3, <1>5
  <2>2. F[i] = IF y \in S THEN Append(q, y) ELSE q
    BY <1>3
  <2>3. \A x : (\E j \in 1 .. i : s[j] = x) <=> (\E j \in 1 .. i - 1 : s[j] = x) \/ x = y
    <3>1. \A j : j \in 1 .. i <=> j \in 1 .. i - 1 \/ j = i
      BY <2>1
    <3> QED
      BY <3>1
  <2>4. ~\E j \in 1 .. i - 1 : s[j] = y
    <3>1. \A j \in 1 .. i - 1 : j \in 1 .. N /\ j # i
      BY <1>2
    <3> QED
      BY <3>1, <1>0
  <2> HIDE DEF q, y
  <2>5. CASE y \notin S
    BY <2>1, <2>2, <2>3, <2>5
  <2>6. CASE y \in S
    <3>1. Len(q) \in Nat /\ Len(F[i]) = Len(q) + 1 /\ F[i][Len(q) + 1] = y /\ \A j \in 1 .. Len(q) : F[i][j] = q[j]
      BY <2>1, <2>2, <2>6
    <3>2. \A j : j \in 1 .. Len(q) + 1 <=> j \in 1 .. Len(q) \/ j = Len(q) + 1
      BY <3>1
    <3>3. \A x : In(F[i], x) <=> In(q, x) \/ x = y
      BY <3>1, <3>2 DEF In
    <3>4. ~In(q, y)
      BY <2>1, <2>4
    <3>5. \A j \in 1 .. Len(q) : q[j] # y
      BY <3>4 DEF In
    <3>6. \A j, k \in 1 .. Len(F[i]) : F[i][j] = F[i][k] => j = k
      BY <3>1, <3>2, <3>5, <2>1
    <3>7. \A x : In(F[i], x) <=> x \in S /\ \E j \in 1 .. i : s[j] = x
      BY <3>3, <2>1, <2>3, <2>6
    <3> QED
      BY <3>6, <3>7, <2>1
  <2> QED
    BY <2>5, <2>6
<1>6. Good(N)
  <2> HIDE DEF Good
  <2>1. \A i \in 0 .. N : i \in T
    <3> HIDE DEF T
    <3> QED
      BY <1>2, <1>4, <1>5, NatSteps, Zenon
  <2> QED
    BY <2>1, <1>2
<1>7. \A x : In(s, x) <=> \E j \in 1 .. N : s[j] = x
  BY DEF In, N
<1>8. Those(s, S) \in Seq(A)
  BY <1>1, <1>2, <1>3
<1> QED
  BY <1>1, <1>6, <1>7, <1>8

LEMMA ThoseAll ==
    ASSUME NEW A, NEW s \in Seq(A), NEW S, \A i \in 1 .. Len(s) : s[i] \in S
    PROVE  Those(s, S) = s
<1> DEFINE N == Len(s)
<1>1. PICK F : Filters(F, A, s, S) /\ Those(s, S) = F[N]
  BY ThoseBy
<1>2. N \in Nat /\ \A i \in 1 .. N : s[i] \in A
  OBVIOUS
<1>3. /\ \A i \in 0 .. N : F[i] \in Seq(A)
      /\ F[0] = <<>>
      /\ \A i \in 1 .. N : F[i] = Append(F[i - 1], s[i])
  BY <1>1 DEF Filters
<1> HIDE DEF N
<1> DEFINE T == {i \in 0 .. N : Len(F[i]) = i /\ \A j \in 1 .. i : F[i][j] = s[j]}
<1>4. 0 \in T
  BY <1>2, <1>3
<1>5. ASSUME NEW i \in 1 .. N, i - 1 \in T PROVE i \in T
  <2>1. F[i - 1] \in Seq(A) /\ Len(F[i - 1]) = i - 1 /\ \A j \in 1 .. i - 1 : F[i - 1][j] = s[j]
    BY <1>2, <1>3, <1>5
  <2>2. F[i] = Append(F[i - 1], s[i]) /\ s[i] \in A /\ i \in 0 .. N
    <3>1. F[i] = Append(F[i - 1], s[i])
      BY <1>3, Zenon
    <3>2. s[i] \in A
      BY <1>2, Zenon
    <3> QED
      BY <3>1, <3>2
  <2> DEFINE q == F[i - 1]
  <2> HIDE DEF q
  <2>3. q \in Seq(A) /\ Len(q) = i - 1 /\ F[i] = Append(q, s[i]) /\ \A j \in 1 .. i - 1 : q[j] = s[j]
    BY <2>1, <2>2 DEF q
  <2>4. Len(F[i]) = i /\ F[i][i] = s[i] /\ \A j \in 1 .. i - 1 : F[i][j] = q[j]
    BY <2>2, <2>3
  <2>5. \A j \in 1 .. i : j = i \/ j \in 1 .. i - 1
    BY <1>2
  <2> QED
    BY <2>2, <2>3, <2>4, <2>5
<1>6. \A i \in 0 .. N : i \in T
  <2> HIDE DEF T
  <2> QED
    BY <1>2, <1>4, <1>5, NatSteps, Zenon
<1>7. F[N] \in Seq(A) /\ Len(F[N]) = N /\ \A j \in 1 .. N : F[N][j] = s[j]
  BY <1>2, <1>3, <1>6
<1> DEFINE q == F[N]
<1> HIDE DEF q
<1>8. q \in Seq(A) /\ Len(q) = Len(s) /\ \A j \in 1 .. Len(s) : q[j] = s[j]
  BY <1>7 DEF q, N
<1>9. q = s
  BY <1>8
<1> QED
  BY <1>1, <1>9 DEF q

LEMMA ThoseAlike ==
    ASSUME NEW s, NEW S, NEW T, \A i \in 1 .. Len(s) : s[i] \in S <=> s[i] \in T, Len(s) \in Nat
    PROVE  Those(s, S) = Those(s, T)
<1> DEFINE Up(R, f) == [i \in 0 .. Len(s) |-> IF i = 0 THEN <<>>
                                       ELSE IF s[i] \in R THEN Append(f[i - 1], s[i]) ELSE f[i - 1]]
<1>1. \A f : Up(S, f) = Up(T, f)
  <2> SUFFICES ASSUME NEW f, NEW i \in 0 .. Len(s), i # 0 PROVE s[i] \in S <=> s[i] \in T
    BY Zenon
  <2>1. i \in 1 .. Len(s)
    OBVIOUS
  <2> QED
    BY <2>1
<1>2. Those(s, S) = (CHOOSE f : f = Up(S, f))[Len(s)] /\ Those(s, T) = (CHOOSE f : f = Up(T, f))[Len(s)]
  BY DEF Those
<1> HIDE DEF Up
<1>3. (CHOOSE f : f = Up(S, f)) = (CHOOSE f : f = Up(T, f))
  BY <1>1
<1> QED
  BY <1>2, <1>3

\* Taking a member out of those that are in S leaves those that are in S without it.
LEMMA ThoseTakenOut ==
    ASSUME NEW A, NEW s \in Seq(A), NEW S, \A i, j \in 1 .. Len(s) : s[i] = s[j] => i = j,
           NEW p \in 1 .. Len(Those(s, S))
    PROVE  TakenOut(Those(s, S), p) = Those(s, S \ {Those(s, S)[p]})
<1> DEFINE N == Len(s)  x == Those(s, S)[p]
<1>1. PICK F : Filters(F, A, s, S) /\ Those(s, S) = F[N]
  BY ThoseBy
<1>2. PICK H : Filters(H, A, s, S \ {x}) /\ Those(s, S \ {x}) = H[N]
  BY ThoseBy
<1>3. N \in Nat /\ \A i \in 1 .. N : s[i] \in A
  OBVIOUS
<1>4. /\ \A i \in 0 .. N : F[i] \in Seq(A) /\ H[i] \in Seq(A)
      /\ F[0] = <<>> /\ H[0] = <<>>
      /\ \A i \in 1 .. N : F[i] = IF s[i] \in S THEN Append(F[i - 1], s[i]) ELSE F[i - 1]
      /\ \A i \in 1 .. N : H[i] = IF s[i] \in S \ {x} THEN Append(H[i - 1], s[i]) ELSE H[i - 1]
  BY <1>1, <1>2 DEF Filters
<1>5. x \in S /\ \A i, j \in 1 .. Len(F[N]) : F[N][i] = F[N][j] => i = j
  <2>1. In(Those(s, S), x)
    BY DEF In
  <2> QED
    BY <2>1, <1>1, ThoseIs
<1>6. p \in 1 .. Len(F[N]) /\ F[N][p] = x
  BY <1>1
<1>0. \A i, j \in 1 .. N : s[i] = s[j] => i = j
  OBVIOUS
<1> HIDE DEF N, x
<1> DEFINE Good(i) == \/ (\A j \in 1 .. i : s[j] # x) /\ H[i] = F[i]
                      \/ /\ \E j \in 1 .. i : s[j] = x
                         /\ \E k \in 1 .. Len(F[i]) : F[i][k] = x /\ H[i] = TakenOut(F[i], k)
           T == {i \in 0 .. N : Good(i)}
<1>7. 0 \in T
  BY <1>3, <1>4
<1>8. ASSUME NEW i \in 1 .. N, i - 1 \in T PROVE i \in T
  <2> DEFINE q == F[i - 1]  r == H[i - 1]  y == s[i]
  <2>1. q \in Seq(A) /\ r \in Seq(A) /\ y \in A /\ i \in 0 .. N /\ i \in Nat /\ Len(q) \in Nat
    BY <1>3, <1>4
  <2>2. /\ F[i] = IF y \in S THEN Append(q, y) ELSE q
        /\ H[i] = IF y \in S \ {x} THEN Append(r, y) ELSE r
    BY <1>4
  <2>3. \A j : j \in 1 .. i <=> j \in 1 .. i - 1 \/ j = i
    BY <2>1
  <2>4. \/ (\A j \in 1 .. i - 1 : s[j] # x) /\ r = q
        \/ /\ \E j \in 1 .. i - 1 : s[j] = x
           /\ \E k \in 1 .. Len(q) : q[k] = x /\ r = TakenOut(q, k)
    BY <1>8
  <2>5. \A j \in 1 .. i - 1 : s[j] # y
    <3>1. \A j \in 1 .. i - 1 : j \in 1 .. N /\ j # i
      BY <1>3
    <3> QED
      BY <3>1, <1>0
  <2> HIDE DEF q, r
  <2>6. Good(i)
    <3>1. CASE y = x
      <4>1. r = q /\ F[i] = Append(q, x) /\ H[i] = q
        BY <3>1, <2>2, <2>4, <2>5, <1>5
      <4> DEFINE k == Len(q) + 1
      <4>2. Len(F[i]) = k /\ k \in 1 .. Len(F[i]) /\ F[i][k] = x /\ \A j \in 1 .. Len(q) : F[i][j] = q[j]
        BY <4>1, <2>1, <3>1
      <4>3. TakenOut(F[i], k) = [j \in 1 .. Len(q) |-> q[j]]
        <5>1. Len(F[i]) - 1 = Len(q) /\ \A j \in 1 .. Len(q) : j < k
          BY <4>2, <2>1
        <5> QED
          BY <5>1, <4>2 DEF TakenOut
      <4>4. [j \in 1 .. Len(q) |-> q[j]] = q
        BY <2>1
      <4>5. s[i] = x /\ i \in 1 .. i
        BY <3>1, <2>1
      <4> HIDE DEF k
      <4> QED
        BY <4>1, <4>2, <4>3, <4>4, <4>5
    <3>2. CASE y # x /\ y \notin S
      BY <3>2, <2>2, <2>3, <2>4 DEF q, r
    <3>3. CASE y # x /\ y \in S
      <4>1. F[i] = Append(q, y) /\ H[i] = Append(r, y)
        BY <3>3, <2>2
      <4>2. CASE (\A j \in 1 .. i - 1 : s[j] # x) /\ r = q
        BY <4>1, <4>2, <3>3, <2>3
      <4>3. CASE /\ \E j \in 1 .. i - 1 : s[j] = x
                 /\ \E k \in 1 .. Len(q) : q[k] = x /\ r = TakenOut(q, k)
        <5>1. PICK k \in 1 .. Len(q) : q[k] = x /\ r = TakenOut(q, k)
          BY <4>3
        <5>2. /\ Len(F[i]) = Len(q) + 1 /\ k \in 1 .. Len(F[i]) /\ F[i][k] = x
              /\ \A j \in 1 .. Len(q) : F[i][j] = q[j]
              /\ F[i][Len(q) + 1] = y
          BY <4>1, <5>1, <2>1
        <5>3. Append(r, y) = TakenOut(F[i], k)
          <6> DEFINE L == Len(q)
          <6>1. L \in Nat /\ k \in 1 .. L /\ Len(F[i]) = L + 1
            BY <2>1, <5>1, <5>2
          <6>2. r = [j \in 1 .. L - 1 |-> IF j < k THEN q[j] ELSE q[j + 1]]
            BY <5>1 DEF TakenOut
          <6>3. TakenOut(F[i], k) = [j \in 1 .. L |-> IF j < k THEN F[i][j] ELSE F[i][j + 1]]
            <7>1. Len(F[i]) - 1 = L
              BY <6>1
            <7> QED
              BY <7>1 DEF TakenOut
          <6> DEFINE a == Append(r, y)  b == TakenOut(F[i], k)
          <6>4. L - 1 \in Nat
            BY <6>1
          <6>5. Len(r) = L - 1
            BY <6>2, <6>4
          <6>6. a \in Seq(A) /\ Len(a) = L /\ a[L] = y /\ \A j \in 1 .. L - 1 : a[j] = r[j]
            BY <6>4, <6>5, <2>1
          <6>7. \A j \in 1 .. L - 1 : j \in 1 .. L /\ j + 1 \in 1 .. L
            BY <6>1
          <6>8. F[i] \in Seq(A) /\ \A j \in 1 .. L + 1 : F[i][j] \in A
            BY <4>1, <2>1, <6>1
          <6> HIDE DEF L, a
          <6>9. \A j \in 1 .. L : a[j] = IF j < k THEN F[i][j] ELSE F[i][j + 1]
            <7>1. \A j \in 1 .. L : j \in 1 .. L - 1 \/ j = L
              BY <6>1
            <7>2. ASSUME NEW j \in 1 .. L - 1 PROVE a[j] = IF j < k THEN F[i][j] ELSE F[i][j + 1]
              BY <6>2, <6>6, <6>7, <5>2 DEF L
            <7>3. a[L] = IF L < k THEN F[i][L] ELSE F[i][L + 1]
              BY <6>1, <6>6, <5>2 DEF L
            <7> QED
              BY <7>1, <7>2, <7>3
          <6>10. a = [j \in 1 .. L |-> a[j]]
            BY <6>6
          <6>11. a = b
            BY <6>3, <6>9, <6>10
          <6> QED
            BY <6>11 DEF a
        <5> QED
          BY <4>1, <4>3, <5>2, <5>3, <2>3
      <4> QED
        BY <4>2, <4>3, <2>4
    <3> QED
      BY <3>1, <3>2, <3>3
  <2> QED
    BY <2>1, <2>6
<1>9. Good(N)
  <2> HIDE DEF Good
  <2>1. \A i \in 0 .. N : i \in T
    <3> HIDE DEF T
    <3> QED
      BY <1>3, <1>7, <1>8, NatSteps, Zenon
  <2> QED
    BY <2>1, <1>3
<1>10. \E j \in 1 .. N : s[j] = x
  <2>1. In(Those(s, S), x)
    BY DEF In, x
  <2>2. In(s, x)
    BY <2>1, ThoseIs
  <2> QED
    BY <2>2 DEF In, N
<1>11. PICK k \in 1 .. Len(F[N]) : F[N][k] = x /\ H[N] = TakenOut(F[N], k)
  BY <1>9, <1>10
<1>12. k = p
  BY <1>5, <1>6, <1>11
<1> QED
  BY <1>1, <1>2, <1>11, <1>12 DEF x

-----------------------------------------------------------------------------
(* The operations on the pointers are those on the lists.                  *)

LEMMA TreesAlike ==
    ASSUME NEW t \in Trees, NEW u \in Trees, t.alive = u.alive,
           \A x \in Node : /\ t.first[x] = u.first[x] /\ t.last[x] = u.last[x]
                           /\ t.parent[x] = u.parent[x] /\ t.prev[x] = u.prev[x] /\ t.next[x] = u.next[x]
    PROVE  t = u
<1>1. /\ t.parent \in [Node -> Pointer] /\ t.next \in [Node -> Pointer]
      /\ t.prev \in [Node -> Pointer] /\ t.first \in [Node -> Pointer] /\ t.last \in [Node -> Pointer]
      /\ u.parent \in [Node -> Pointer] /\ u.next \in [Node -> Pointer]
      /\ u.prev \in [Node -> Pointer] /\ u.first \in [Node -> Pointer] /\ u.last \in [Node -> Pointer]
  BY DEF Trees
<1>2. /\ t.parent = u.parent /\ t.next = u.next /\ t.prev = u.prev
      /\ t.first = u.first /\ t.last = u.last
  BY <1>1
<1> QED
  BY <1>2 DEF Trees

LEMMA EmptyHolds ==
    ASSUME TreeInit
    PROVE  Holds(tree, [n \in {} |-> <<>>])
<1> DEFINE K == [n \in {} |-> <<>>]
<1>1. /\ tree \in Trees /\ tree.alive = {}
      /\ \A x \in Node : /\ tree.first[x] = None /\ tree.last[x] = None
                         /\ tree.parent[x] = None /\ tree.prev[x] = None /\ tree.next[x] = None
  BY DEF TreeInit, NoPointers, Trees, Pointer
<1>2. DOMAIN K = {} /\ K \in [{} -> Seq({})]
  OBVIOUS
<1> HIDE DEF K
<1> QED
  BY <1>1, <1>2 DEF Holds, Lists, Once, NoCircle, Ends, Links, Unlinked

NewIn(K, n) == [x \in DOMAIN K \cup {n} |-> IF x = n THEN <<>> ELSE K[x]]

LEMMA ConstructedHolds ==
    ASSUME NEW t, NEW K, Holds(t, K), NEW n \in Node \ t.alive
    PROVE  Holds(Constructed(t, n), NewIn(K, n))
<1> DEFINE u == Constructed(t, n)  J == NewIn(K, n)  A == t.alive  B == A \cup {n}
<1>1. /\ A \subseteq Node /\ K \in [A -> Seq(A)] /\ NoCircle(K) /\ DOMAIN K = A /\ Once(K)
      /\ t \in Trees
  BY DEF Holds, Lists, Trees
<1>2. /\ u \in Trees /\ u.alive = B /\ u.first = t.first /\ u.last = t.last
      /\ u.parent = t.parent /\ u.prev = t.prev /\ u.next = t.next
  BY <1>1 DEF Constructed, Trees
<1>3. DOMAIN J = B /\ J[n] = <<>> /\ \A x \in A : J[x] = K[x]
  BY <1>1 DEF NewIn
<1>4. J \in [B -> Seq(B)]
  <2>1. J = [x \in B |-> IF x = n THEN <<>> ELSE K[x]]
    BY <1>1 DEF NewIn
  <2>2. ASSUME NEW x \in B PROVE (IF x = n THEN <<>> ELSE K[x]) \in Seq(B)
    <3>1. CASE x # n
      <4>1. K[x] \in Seq(A) /\ Len(K[x]) \in Nat /\ \A i \in 1 .. Len(K[x]) : K[x][i] \in B
        BY <1>1, <3>1
      <4> QED
        BY <4>1, <3>1
    <3> QED
      BY <3>1
  <2> QED
    BY <2>1, <2>2
<1> HIDE DEF u, J
<1>5. Lists(B, J)
  BY <1>3, <1>4 DEF Holds, Lists
<1>6. Once(J)
  <2> SUFFICES ASSUME NEW f \in B, NEW g \in B, NEW i \in 1 .. Len(J[f]), NEW j \in 1 .. Len(J[g]),
                      J[f][i] = J[g][j]
               PROVE  f = g /\ i = j
    BY <1>3 DEF Once
  <2>1. f # n /\ g # n
    BY <1>3
  <2>2. /\ f \in DOMAIN K /\ g \in DOMAIN K /\ i \in 1 .. Len(K[f]) /\ j \in 1 .. Len(K[g])
        /\ K[f][i] = K[g][j]
    BY <2>1, <1>1, <1>3
  <2>3. Once(K)
    BY <1>1
  <2> QED
    BY <2>2, <2>3, OnceAt
<1>7. NoCircle(J)
  <2> SUFFICES ASSUME NEW S \in SUBSET B, S # {}
               PROVE  \E x \in S : \A y \in S : ~In(J[y], x)
    BY <1>3 DEF NoCircle
  <2>0. ~In(J[n], n) /\ \A x : ~In(J[n], x)
    BY <1>3 DEF In
  <2>1. CASE S \subseteq {n}
    BY <2>0, <2>1
  <2>2. CASE ~(S \subseteq {n})
    <3>1. S \ {n} \in SUBSET DOMAIN K /\ S \ {n} # {}
      BY <2>2, <1>1
    <3>2. PICK x \in S \ {n} : \A y \in S \ {n} : ~In(K[y], x)
      BY <3>1, <1>1 DEF NoCircle
    <3> QED
      BY <3>2, <2>0, <1>3
  <2> QED
    BY <2>1, <2>2
<1>8. Ends(u, J)
  BY <1>2, <1>3 DEF Holds, Ends
<1>9. Links(u, J)
  <2> SUFFICES ASSUME NEW e \in B, NEW i \in 1 .. Len(J[e])
               PROVE  /\ t.parent[J[e][i]] = e
                      /\ t.prev[J[e][i]] = IF i = 1 THEN None ELSE J[e][i - 1]
                      /\ t.next[J[e][i]] = IF i = Len(J[e]) THEN None ELSE J[e][i + 1]
    BY <1>2 DEF Links
  <2>1. e \in A /\ J[e] = K[e]
    BY <1>3
  <2> QED
    BY <2>1 DEF Holds, Links
<1>10. Unlinked(u, J)
  BY <1>2, <1>3 DEF Holds, Unlinked
<1> QED
  BY <1>2, <1>5, <1>6, <1>7, <1>8, <1>9, <1>10 DEF Holds, u, J

\* What has no children has nothing below it.
LEMMA UnderLeaf ==
    ASSUME NEW A, NEW K \in [A -> Seq(A)], NEW n \in A, K[n] = <<>>
    PROVE  Under(K, n) = {n}
<1>1. \A x \in Under(K, n) : x = n
  BY UnderUnfolds
<1> QED
  BY <1>1, UnderIs

\* The three ways to insert.
LEMMA InsertsHold ==
    ASSUME NEW t, NEW K, Holds(t, K), NEW e, NEW n, NEW p, MayPlace(t, K, e, n, p)
    PROVE  /\ p = Len(K[e]) + 1 => Holds(Appended(t, e, n), PlacedIn(K, e, n, p))
           /\ p # Len(K[e]) + 1 => Holds(InsertedBefore(t, e, n, K[e][p]), PlacedIn(K, e, n, p))
           /\ p # 1 => Holds(InsertedAfter(t, e, n, K[e][p - 1]), PlacedIn(K, e, n, p))
<1> DEFINE s == K[e]
           L == Len(s)
           pv == IF p = 1 THEN None ELSE s[p - 1]
           nx == IF p = L + 1 THEN None ELSE s[p]
           u == Inserted(t, e, n, pv, nx)
<1>1. Holds(u, PlacedIn(K, e, n, p))
  BY PlacedHolds
<1>2. u \in Trees
  BY <1>1 DEF Holds
<1>3. /\ t.alive \subseteq Node /\ e \in t.alive /\ n \in t.alive /\ e \in Node /\ n \in Node
      /\ s \in Seq(t.alive) /\ L \in Nat /\ p \in 1 .. L + 1
      /\ t.alive \in SUBSET Node /\ t.parent \in [Node -> Pointer] /\ t.next \in [Node -> Pointer]
      /\ t.prev \in [Node -> Pointer] /\ t.first \in [Node -> Pointer] /\ t.last \in [Node -> Pointer]
      /\ t \in Trees
  BY DEF Holds, Lists, Trees, MayPlace
<1>N. L \in Nat /\ p \in Nat /\ 1 <= p /\ p <= L + 1
  BY <1>3
<1>4. /\ \A i \in 1 .. L : s[i] \in Node /\ s[i] # None
      /\ \A i \in 1 .. L : t.prev[s[i]] = IF i = 1 THEN None ELSE s[i - 1]
      /\ \A i \in 1 .. L : t.next[s[i]] = IF i = L THEN None ELSE s[i + 1]
      /\ \A i, j \in 1 .. L : s[i] = s[j] => i = j
  <2>1. \A i \in 1 .. L : s[i] \in Node /\ s[i] # None
    BY <1>3, ListIs, Zenon
  <2>2. \A i \in 1 .. L : /\ t.prev[s[i]] = IF i = 1 THEN None ELSE s[i - 1]
                          /\ t.next[s[i]] = IF i = L THEN None ELSE s[i + 1]
    <3>1. e \in t.alive /\ Links(t, K)
      BY <1>3 DEF Holds
    <3> QED
      BY <3>1 DEF Links
  <2>3. \A i, j \in 1 .. L : s[i] = s[j] => i = j
    <3>1. Once(K) /\ e \in DOMAIN K
      BY <1>3 DEF Holds, Lists
    <3> QED
      BY <3>1, OnceAt
  <2> QED
    BY <2>1, <2>2, <2>3
<1>5. t.first[e] = (IF L = 0 THEN None ELSE s[1]) /\ t.last[e] = (IF L = 0 THEN None ELSE s[L])
  <2>1. s = <<>> <=> L = 0
    BY <1>3
  <2> QED
    BY <2>1, <1>3 DEF Holds, Ends
<1>6. t.parent[n] = None /\ t.prev[n] = None /\ t.next[n] = None
  BY <1>3 DEF Holds, Unlinked, MayPlace
<1>7. /\ n # None /\ e # None /\ n \in Pointer /\ e \in Pointer /\ pv \in Pointer /\ nx \in Pointer
      /\ (pv = None <=> p = 1) /\ (nx = None <=> p = L + 1)
      /\ (p # 1 => p - 1 \in 1 .. L /\ pv = s[p - 1]) /\ (p # L + 1 => p \in 1 .. L /\ nx = s[p])
  <2>1. (p # 1 => p - 1 \in 1 .. L) /\ (p # L + 1 => p \in 1 .. L)
    BY <1>N
  <2> QED
    BY <2>1, <1>3, <1>4, NodesAre DEF Pointer
<1>8. /\ u.alive = t.alive
      /\ \A x \in Node : /\ u.first[x] = IF x = e /\ pv = None THEN n ELSE t.first[x]
                         /\ u.last[x] = IF x = e /\ nx = None THEN n ELSE t.last[x]
                         /\ u.parent[x] = IF x = n THEN e ELSE t.parent[x]
                         /\ u.prev[x] = IF x = n THEN pv ELSE IF x = nx THEN n ELSE t.prev[x]
                         /\ u.next[x] = IF x = n THEN nx ELSE IF x = pv THEN n ELSE t.next[x]
  BY <1>3 DEF Inserted, Trees
<1>9. \A i \in 1 .. L : s[i] # n
  <2>1. ~In(K[e], n)
    BY DEF MayPlace
  <2> QED
    BY <2>1 DEF In
<1> HIDE DEF s, L, pv, nx, u
<1>10. ASSUME p = L + 1 PROVE Appended(t, e, n) = u
  <2> DEFINE w == Appended(t, e, n)
  <2>1. nx = None /\ (L = 0 <=> p = 1) /\ (L # 0 => pv = s[L] /\ L \in 1 .. L /\ 1 \in 1 .. L)
    BY <1>10, <1>7, <1>N
  <2>2. /\ w \in Trees /\ w.alive = t.alive
        /\ \A x \in Node :
            /\ w.first[x] = IF x = e /\ (t.first[e] = None \/ t.last[e] = None) THEN n ELSE t.first[x]
            /\ w.last[x] = IF x = e THEN n ELSE t.last[x]
            /\ w.parent[x] = IF x = n THEN e ELSE t.parent[x]
            /\ w.prev[x] = IF x = n /\ ~(t.first[e] = None \/ t.last[e] = None) THEN t.last[e] ELSE t.prev[x]
            /\ w.next[x] = IF x = t.last[e] /\ ~(t.first[e] = None \/ t.last[e] = None) THEN n ELSE t.next[x]
    BY <1>3, <1>7, ZenonT(30) DEF Appended, Trees
  <2> HIDE DEF w
  <2>3. (t.first[e] = None \/ t.last[e] = None) <=> pv = None
    BY <2>1, <1>4, <1>5, <1>7
  <2>4. pv # None => t.last[e] = pv
    BY <2>1, <1>5, <1>7
  <2>5. \A x \in Node : /\ w.first[x] = u.first[x] /\ w.last[x] = u.last[x]
                        /\ w.parent[x] = u.parent[x] /\ w.prev[x] = u.prev[x] /\ w.next[x] = u.next[x]
    <3> SUFFICES ASSUME NEW x \in Node
                 PROVE  /\ w.first[x] = u.first[x] /\ w.last[x] = u.last[x]
                        /\ w.parent[x] = u.parent[x] /\ w.prev[x] = u.prev[x] /\ w.next[x] = u.next[x]
      OBVIOUS
    <3>1. x # None /\ x # nx
      BY <2>1, NodesAre
    <3>2. w.first[x] = u.first[x] /\ w.last[x] = u.last[x] /\ w.parent[x] = u.parent[x]
      BY <2>1, <2>2, <2>3, <1>8
    <3>3. w.prev[x] = u.prev[x]
      BY <2>2, <2>3, <2>4, <3>1, <1>6, <1>8
    <3>4. w.next[x] = u.next[x]
      <4>1. pv # n
        BY <1>7, <1>9
      <4>2. x = n => w.next[x] = None /\ u.next[x] = None
        BY <2>1, <2>2, <2>3, <2>4, <4>1, <1>6, <1>8
      <4>3. x # n => w.next[x] = u.next[x]
        BY <2>2, <2>3, <2>4, <3>1, <1>8
      <4> QED
        BY <4>2, <4>3
    <3> QED
      BY <3>2, <3>3, <3>4
  <2>6. w.alive = u.alive
    BY <2>2, <1>8
  <2> QED
    BY <2>2, <2>5, <2>6, <1>2, TreesAlike DEF w
<1>11. ASSUME p # L + 1 PROVE InsertedBefore(t, e, n, s[p]) = u
  <2> DEFINE b == s[p]  w == InsertedBefore(t, e, n, b)
  <2>1. p \in 1 .. L /\ nx = b /\ b \in Node /\ b # n /\ b # None
    BY <1>11, <1>4, <1>7, <1>9
  <2>2. t.prev[b] = pv /\ (t.first[e] = b <=> pv = None) /\ L # 0 /\ 1 \in 1 .. L
    <3>1. t.prev[b] = IF p = 1 THEN None ELSE s[p - 1]
      BY <2>1, <1>4
    <3>2. L # 0 /\ 1 \in 1 .. L
      BY <2>1, <1>N
    <3>3. t.first[e] = s[1]
      BY <3>2, <1>5
    <3> QED
      BY <2>1, <3>1, <3>2, <3>3, <1>4, <1>7 DEF pv
  <2> HIDE DEF b
  <2>3. /\ w \in Trees /\ w.alive = t.alive
        /\ \A x \in Node :
            /\ w.first[x] = IF x = e /\ pv = None THEN n ELSE t.first[x]
            /\ w.last[x] = t.last[x]
            /\ w.parent[x] = IF x = n THEN e ELSE t.parent[x]
            /\ w.prev[x] = IF x = n THEN (IF pv = None THEN t.prev[x] ELSE pv) ELSE IF x = b THEN n ELSE t.prev[x]
            /\ w.next[x] = IF x = n THEN b ELSE IF pv # None /\ x = pv THEN n ELSE t.next[x]
    <3> DEFINE P == [t.prev EXCEPT ![b] = n, ![n] = IF t.first[e] = b THEN t.prev[n] ELSE pv]
    <3>1. w = [t EXCEPT !.first[e] = IF @ = b THEN n ELSE @,
                        !.next = [x \in Node |-> IF x = n THEN b ELSE IF t.first[e] # b /\ x = pv THEN n ELSE @[x]],
                        !.prev = P,
                        !.parent[n] = e]
      BY <2>2, Zenon DEF InsertedBefore
    <3>2. b \in Pointer
      BY <2>1 DEF Pointer
    <3> HIDE DEF w, P
    <3>a. w.alive = t.alive /\ w.parent = [t.parent EXCEPT ![n] = e]
          /\ w.first = [t.first EXCEPT ![e] = IF @ = b THEN n ELSE @] /\ w.last = t.last
      BY <3>1, <1>3 DEF Trees
    <3>b. w.next = [x \in Node |-> IF x = n THEN b ELSE IF t.first[e] # b /\ x = pv THEN n ELSE t.next[x]]
      BY <3>1, <1>3 DEF Trees
    <3>c. w.prev = P
      BY <3>1, <1>3 DEF Trees
    <3>d. w.prev = [x \in Node |-> IF x = n THEN (IF pv = None THEN t.prev[x] ELSE pv)
                                   ELSE IF x = b THEN n ELSE t.prev[x]]
      BY <3>c, <1>3, <2>1, <2>2 DEF P
    <3>e. DOMAIN w = {"alive", "parent", "next", "prev", "first", "last"}
          /\ w = [f \in DOMAIN w |-> w[f]]
      BY <3>1, <1>3 DEF Trees
    <3>3. w \in Trees /\ w.alive = t.alive
      <4>1. /\ w.parent \in [Node -> Pointer] /\ w.next \in [Node -> Pointer] /\ w.prev \in [Node -> Pointer]
            /\ w.first \in [Node -> Pointer] /\ w.last \in [Node -> Pointer]
        BY <3>a, <3>b, <3>d, <3>2, <1>3, <1>7
      <4> QED
        BY <4>1, <3>a, <3>e, <1>3 DEF Trees
    <3>4. \A x \in Node : w.first[x] = (IF x = e /\ pv = None THEN n ELSE t.first[x]) /\ w.last[x] = t.last[x]
      BY <3>1, <1>3, <2>2 DEF Trees
    <3>5. \A x \in Node : w.parent[x] = IF x = n THEN e ELSE t.parent[x]
      BY <3>1, <1>3 DEF Trees
    <3>6. \A x \in Node : w.prev[x] = IF x = n THEN (IF pv = None THEN t.prev[x] ELSE pv)
                                      ELSE IF x = b THEN n ELSE t.prev[x]
      BY <3>d
    <3>7. \A x \in Node : w.next[x] = IF x = n THEN b ELSE IF pv # None /\ x = pv THEN n ELSE t.next[x]
      BY <3>1, <1>3, <2>2 DEF Trees
    <3> QED
      BY <3>3, <3>4, <3>5, <3>6, <3>7
  <2> HIDE DEF w
  <2>4. \A x \in Node : /\ w.first[x] = u.first[x] /\ w.last[x] = u.last[x]
                        /\ w.parent[x] = u.parent[x] /\ w.prev[x] = u.prev[x] /\ w.next[x] = u.next[x]
    <3> SUFFICES ASSUME NEW x \in Node
                 PROVE  /\ w.first[x] = u.first[x] /\ w.last[x] = u.last[x]
                        /\ w.parent[x] = u.parent[x] /\ w.prev[x] = u.prev[x] /\ w.next[x] = u.next[x]
      OBVIOUS
    <3>1. x # None
      BY NodesAre
    <3> QED
      BY <2>1, <2>3, <3>1, <1>6, <1>8
  <2>5. w.alive = u.alive
    BY <2>3, <1>8
  <2> QED
    BY <2>3, <2>4, <2>5, <1>2, TreesAlike DEF w, b
<1>12. ASSUME p # 1 PROVE InsertedAfter(t, e, n, s[p - 1]) = u
  <2> DEFINE b == s[p - 1]  w == InsertedAfter(t, e, n, b)
  <2>1. p - 1 \in 1 .. L /\ pv = b /\ b \in Node /\ b # n /\ b # None
    BY <1>12, <1>4, <1>7, <1>9
  <2>2. t.next[b] = nx /\ (t.last[e] = b <=> nx = None) /\ L # 0 /\ L \in 1 .. L
    <3>1. t.next[b] = IF p - 1 = L THEN None ELSE s[p - 1 + 1]
      BY <2>1, <1>4
    <3>2. L # 0 /\ L \in 1 .. L /\ p - 1 + 1 = p /\ (p - 1 = L <=> p = L + 1)
      BY <2>1, <1>N
    <3>3. t.last[e] = s[L]
      BY <3>2, <1>5
    <3> QED
      BY <2>1, <3>1, <3>2, <3>3, <1>4, <1>7 DEF nx
  <2> HIDE DEF b
  <2>3. /\ w \in Trees /\ w.alive = t.alive
        /\ \A x \in Node :
            /\ w.first[x] = t.first[x]
            /\ w.last[x] = IF x = e /\ nx = None THEN n ELSE t.last[x]
            /\ w.parent[x] = IF x = n THEN e ELSE t.parent[x]
            /\ w.next[x] = IF x = n THEN (IF nx = None THEN t.next[x] ELSE nx) ELSE IF x = b THEN n ELSE t.next[x]
            /\ w.prev[x] = IF x = n THEN b ELSE IF nx # None /\ x = nx THEN n ELSE t.prev[x]
    <3> DEFINE P == [t.next EXCEPT ![b] = n, ![n] = IF t.last[e] = b THEN t.next[n] ELSE nx]
    <3>1. w = [t EXCEPT !.last[e] = IF @ = b THEN n ELSE @,
                        !.prev = [x \in Node |-> IF x = n THEN b ELSE IF t.last[e] # b /\ x = nx THEN n ELSE @[x]],
                        !.next = P,
                        !.parent[n] = e]
      BY <2>2, Zenon DEF InsertedAfter
    <3>2. b \in Pointer
      BY <2>1 DEF Pointer
    <3> HIDE DEF w, P
    <3>a. w.alive = t.alive /\ w.parent = [t.parent EXCEPT ![n] = e]
          /\ w.last = [t.last EXCEPT ![e] = IF @ = b THEN n ELSE @] /\ w.first = t.first
      BY <3>1, <1>3 DEF Trees
    <3>b. w.prev = [x \in Node |-> IF x = n THEN b ELSE IF t.last[e] # b /\ x = nx THEN n ELSE t.prev[x]]
      BY <3>1, <1>3 DEF Trees
    <3>c. w.next = P
      BY <3>1, <1>3 DEF Trees
    <3>d. w.next = [x \in Node |-> IF x = n THEN (IF nx = None THEN t.next[x] ELSE nx)
                                   ELSE IF x = b THEN n ELSE t.next[x]]
      BY <3>c, <1>3, <2>1, <2>2 DEF P
    <3>e. DOMAIN w = {"alive", "parent", "next", "prev", "first", "last"}
          /\ w = [f \in DOMAIN w |-> w[f]]
      BY <3>1, <1>3 DEF Trees
    <3>3. w \in Trees /\ w.alive = t.alive
      <4>1. /\ w.parent \in [Node -> Pointer] /\ w.next \in [Node -> Pointer] /\ w.prev \in [Node -> Pointer]
            /\ w.first \in [Node -> Pointer] /\ w.last \in [Node -> Pointer]
        BY <3>a, <3>b, <3>d, <3>2, <1>3, <1>7
      <4> QED
        BY <4>1, <3>a, <3>e, <1>3 DEF Trees
    <3>4. \A x \in Node : w.last[x] = (IF x = e /\ nx = None THEN n ELSE t.last[x]) /\ w.first[x] = t.first[x]
      BY <3>1, <1>3, <2>2 DEF Trees
    <3>5. \A x \in Node : w.parent[x] = IF x = n THEN e ELSE t.parent[x]
      BY <3>1, <1>3 DEF Trees
    <3>6. \A x \in Node : w.next[x] = IF x = n THEN (IF nx = None THEN t.next[x] ELSE nx)
                                      ELSE IF x = b THEN n ELSE t.next[x]
      BY <3>d
    <3>7. \A x \in Node : w.prev[x] = IF x = n THEN b ELSE IF nx # None /\ x = nx THEN n ELSE t.prev[x]
      BY <3>1, <1>3, <2>2 DEF Trees
    <3> QED
      BY <3>3, <3>4, <3>5, <3>6, <3>7
  <2> HIDE DEF w
  <2>4. \A x \in Node : /\ w.first[x] = u.first[x] /\ w.last[x] = u.last[x]
                        /\ w.parent[x] = u.parent[x] /\ w.prev[x] = u.prev[x] /\ w.next[x] = u.next[x]
    <3> SUFFICES ASSUME NEW x \in Node
                 PROVE  /\ w.first[x] = u.first[x] /\ w.last[x] = u.last[x]
                        /\ w.parent[x] = u.parent[x] /\ w.prev[x] = u.prev[x] /\ w.next[x] = u.next[x]
      OBVIOUS
    <3>1. x # None
      BY NodesAre
    <3> QED
      BY <2>1, <2>3, <3>1, <1>6, <1>8
  <2>5. w.alive = u.alive
    BY <2>3, <1>8
  <2> QED
    BY <2>3, <2>4, <2>5, <1>2, TreesAlike DEF w, b
<1> QED
  BY <1>1, <1>10, <1>11, <1>12 DEF s, L

-----------------------------------------------------------------------------
(* New children, and children that go.                                     *)

LEMMA PlacedLast ==
    ASSUME NEW A, NEW s \in Seq(A), NEW n \in A
    PROVE  Placed(s, Len(s) + 1, n) = Append(s, n)
<1> DEFINE L == Len(s)
<1>1. L \in Nat /\ L + 1 \in 1 .. L + 1
  OBVIOUS
<1>2. Append(s, n) = [i \in 1 .. L + 1 |-> IF i = L + 1 THEN n ELSE s[i]]
  <2> DEFINE q == Append(s, n)
  <2>1. q \in Seq(A) /\ Len(q) = L + 1 /\ q[L + 1] = n /\ \A i \in 1 .. L : q[i] = s[i]
    OBVIOUS
  <2>2. \A i \in 1 .. L + 1 : i = L + 1 \/ i \in 1 .. L
    BY <1>1
  <2> HIDE DEF q, L
  <2>3. q = [i \in 1 .. L + 1 |-> q[i]]
    BY <2>1
  <2>4. \A i \in 1 .. L + 1 : q[i] = IF i = L + 1 THEN n ELSE s[i]
    BY <2>1, <2>2
  <2> QED
    BY <2>3, <2>4 DEF q
<1>3. Placed(s, L + 1, n) = [i \in 1 .. L + 1 |-> IF i < L + 1 THEN s[i] ELSE IF i = L + 1 THEN n ELSE s[i - 1]]
  BY DEF Placed
<1> HIDE DEF L
<1>4. \A i \in 1 .. L + 1 : (i = L + 1 <=> ~(i < L + 1))
  BY <1>1
<1> QED
  BY <1>2, <1>3, <1>4 DEF L

LEMMA AppendHolds ==
    ASSUME NEW t, NEW K, Holds(t, K), NEW e \in t.alive, e \in Element, NEW n \in t.alive,
           \A f \in t.alive : ~In(K[f], n), e \notin Under(K, n)
    PROVE  Holds(Appended(t, e, n), [K EXCEPT ![e] = Append(K[e], n)])
<1> DEFINE p == Len(K[e]) + 1
<1>1. K[e] \in Seq(t.alive) /\ p \in 1 .. Len(K[e]) + 1
  BY ListIs
<1>2. MayPlace(t, K, e, n, p)
  BY <1>1 DEF MayPlace
<1>3. p = Len(K[e]) + 1
  OBVIOUS
<1> HIDE DEF p
<1>4. Holds(Appended(t, e, n), PlacedIn(K, e, n, p))
  BY <1>2, <1>3, InsertsHold
<1>5. PlacedIn(K, e, n, p) = [K EXCEPT ![e] = Append(K[e], n)]
  <2>1. Placed(K[e], p, n) = Append(K[e], n)
    BY <1>1, <1>3, PlacedLast
  <2> QED
    BY <2>1 DEF PlacedIn
<1> QED
  BY <1>4, <1>5

\* The lists when n is new, and the last child of e.
WithChild(K, e, n) ==
    [x \in DOMAIN K \cup {n} |-> IF x = n THEN <<>> ELSE IF x = e THEN Append(K[e], n) ELSE K[x]]

LEMMA NewChildHolds ==
    ASSUME NEW t, NEW K, Holds(t, K), NEW e \in t.alive, e \in Element, NEW n \in Node \ t.alive
    PROVE  Holds(Appended(Constructed(t, n), e, n), WithChild(K, e, n))
<1> DEFINE u == Constructed(t, n)  J == NewIn(K, n)
<1>1. Holds(u, J)
  BY ConstructedHolds
<1>2. DOMAIN K = t.alive /\ K \in [t.alive -> Seq(t.alive)] /\ t \in Trees
  BY DEF Holds, Lists
<1>3. u.alive = t.alive \cup {n}
  BY <1>2 DEF Constructed, Trees
<1>4. J \in [u.alive -> Seq(u.alive)]
  BY <1>1 DEF Holds, Lists
<1>5. J[n] = <<>> /\ \A x \in t.alive : J[x] = K[x]
  BY <1>2 DEF NewIn
<1>6. \A f \in u.alive : ~In(J[f], n)
  <2> SUFFICES ASSUME NEW f \in u.alive, NEW i \in 1 .. Len(J[f]), J[f][i] = n PROVE FALSE
    BY DEF In
  <2>1. f \in t.alive /\ J[f] = K[f]
    BY <1>3, <1>5
  <2> QED
    BY <2>1, <1>2
<1>7. Under(J, n) = {n}
  BY <1>3, <1>4, <1>5, UnderLeaf
<1>8. DOMAIN J = u.alive /\ e \in u.alive /\ n \in u.alive /\ e # n
  BY <1>3, <1>4
<1> HIDE DEF u, J
<1>9. Holds(Appended(u, e, n), [J EXCEPT ![e] = Append(J[e], n)])
  BY <1>1, <1>6, <1>7, <1>8, AppendHolds
<1>10. [J EXCEPT ![e] = Append(J[e], n)] = WithChild(K, e, n)
  BY <1>2, <1>3, <1>5, <1>8 DEF WithChild
<1> QED
  BY <1>9, <1>10 DEF u

\* The lists without the nodes of S.
GoneFrom(K, S) == [x \in DOMAIN K \ S |-> Those(K[x], DOMAIN K \ S)]

LEMMA DeletedIs ==
    ASSUME NEW t, NEW K, Holds(t, K), NEW n \in t.alive
    PROVE  Holds(Deleted(t, n), GoneFrom(K, Under(K, n)))
<1> DEFINE A == t.alive  U == Under(K, n)
<1>1. A \subseteq Node /\ K \in [A -> Seq(A)] /\ NoCircle(K) /\ DOMAIN K = A /\ Once(K) /\ n \in A /\ n \in Node
  BY DEF Holds, Lists, Trees
<1>2. U \subseteq A /\ n \in U
  BY <1>1, UnderIs
<1>3. \A x \in U : \A e \in A : x # n /\ In(K[e], x) => e \in U
  BY <1>1, OwnersUnder, Zenon
<1>4. ASSUME NEW x \in A \ U
      PROVE  (IF x = t.parent[n] THEN TakenOut(K[x], CHOOSE p \in 1 .. Len(K[x]) : K[x][p] = n) ELSE K[x])
             = Those(K[x], A \ U)
  <2> DEFINE s == K[x]
  <2>1. s \in Seq(A) /\ Len(s) \in Nat /\ (\A i, j \in 1 .. Len(s) : s[i] = s[j] => i = j)
        /\ \A i \in 1 .. Len(s) : s[i] \in A
    <3>1. s \in Seq(A)
      BY <1>1
    <3>2. \A i, j \in 1 .. Len(s) : s[i] = s[j] => i = j
      BY <1>1, <1>4 DEF Once
    <3> QED
      BY <3>1, <3>2
  <2>2. \A i \in 1 .. Len(s) : s[i] \in U => s[i] = n
    BY <1>3, <1>4 DEF In
  <2>3. In(s, n) <=> t.parent[n] = x
    BY <1>1, <1>4, ParentIs
  <2>4. CASE x = t.parent[n]
    <3> DEFINE p == CHOOSE i \in 1 .. Len(s) : s[i] = n
    <3>1. p \in 1 .. Len(s) /\ s[p] = n
      BY <2>3, <2>4 DEF In
    <3> HIDE DEF p, s
    <3>2. Those(s, A) = s
      BY <2>1, ThoseAll
    <3>3. TakenOut(Those(s, A), p) = Those(s, A \ {Those(s, A)[p]})
      BY <2>1, <3>1, <3>2, ThoseTakenOut
    <3>4. Those(s, A \ {n}) = Those(s, A \ U)
      <4>1. \A i \in 1 .. Len(s) : s[i] \in A \ {n} <=> s[i] \in A \ U
        BY <1>2, <2>1, <2>2
      <4> HIDE DEF A, U
      <4> QED
        BY <4>1, <2>1, ThoseAlike
    <3> QED
      BY <3>1, <3>2, <3>3, <3>4, <2>4 DEF s, p
  <2>5. CASE x # t.parent[n]
    <3>1. \A i \in 1 .. Len(s) : s[i] \in A \ U
      BY <2>1, <2>2, <2>3, <2>5 DEF In
    <3> HIDE DEF s
    <3> QED
      BY <3>1, <2>1, <2>5, ThoseAll DEF s
  <2> QED
    BY <2>4, <2>5
<1>5. DeletedFrom(t, K, n) = GoneFrom(K, U)
  <2>1. GoneFrom(K, U) = [x \in A \ U |-> Those(K[x], A \ U)]
    BY <1>1 DEF GoneFrom
  <2>2. DeletedFrom(t, K, n) = [x \in A \ U |-> IF x = t.parent[n]
                                                THEN TakenOut(K[x], CHOOSE p \in 1 .. Len(K[x]) : K[x][p] = n)
                                                ELSE K[x]]
    BY DEF DeletedFrom
  <2> QED
    BY <2>1, <2>2, <1>4
<1> QED
  BY <1>5, DeletedHolds

\* The lists when e owns nothing any more.
Emptied(A, K, e) == [x \in A \ (Under(K, e) \ {e}) |-> IF x = e THEN <<>> ELSE K[x]]

LEMMA ClearedIs ==
    ASSUME NEW t, NEW K, Holds(t, K), NEW e \in t.alive
    PROVE  /\ Holds(Cleared(t, e), GoneFrom(K, Under(K, e) \ {e}))
           /\ GoneFrom(K, Under(K, e) \ {e}) = Emptied(t.alive, K, e)
<1> DEFINE A == t.alive  S == Under(K, e) \ {e}
<1>1. A \subseteq Node /\ K \in [A -> Seq(A)] /\ NoCircle(K) /\ DOMAIN K = A /\ Once(K) /\ e \in A
  BY DEF Holds, Lists, Trees
<1>2. Under(K, e) \subseteq A /\ e \in Under(K, e) /\ Closed(K, Under(K, e))
  BY <1>1, UnderIs
<1>3. \A x \in S : \A f \in A : In(K[f], x) => f \in Under(K, e)
  BY <1>1, OwnersUnder
<1>4. \A i \in 1 .. Len(K[e]) : K[e][i] \in S
  <2> SUFFICES ASSUME NEW i \in 1 .. Len(K[e]) PROVE K[e][i] \in S
    OBVIOUS
  <2>1. K[e][i] \in Under(K, e)
    BY <1>2 DEF Closed
  <2>2. K[e][i] \in A /\ e \notin Under(K, K[e][i])
    BY <1>1, UnderShrinks
  <2>3. K[e][i] \in Under(K, K[e][i])
    BY <2>2, <1>1, UnderIs
  <2> QED
    BY <2>1, <2>2, <2>3
<1>5. ASSUME NEW x \in A \ S
      PROVE  (IF x = e THEN <<>> ELSE K[x]) = Those(K[x], A \ S)
  <2> DEFINE s == K[x]
  <2>1. s \in Seq(A) /\ Len(s) \in Nat /\ (\A i, j \in 1 .. Len(s) : s[i] = s[j] => i = j)
        /\ \A i \in 1 .. Len(s) : s[i] \in A
    <3>1. s \in Seq(A)
      BY <1>1
    <3>2. \A i, j \in 1 .. Len(s) : s[i] = s[j] => i = j
      BY <1>1, <1>5 DEF Once
    <3> QED
      BY <3>1, <3>2
  <2>2. CASE x = e
    <3> DEFINE q == Those(s, A \ S)
    <3>1. q \in Seq(A) /\ \A y : In(q, y) => In(s, y) /\ y \in A \ S
      <4> HIDE DEF A, S, s
      <4> QED
        BY <2>1, ThoseIs
    <3>2. \A y : ~In(q, y)
      BY <3>1, <2>2, <1>4 DEF In
    <3> HIDE DEF q
    <3>3. \A i \in 1 .. Len(q) : FALSE
      BY <3>2 DEF In
    <3>4. q = <<>>
      BY <3>1, <3>3
    <3> QED
      BY <3>4, <2>2 DEF q
  <2>3. CASE x # e
    <3>1. \A i \in 1 .. Len(s) : s[i] \in A \ S
      BY <2>1, <2>3, <1>3, <1>5 DEF In
    <3> HIDE DEF s
    <3> QED
      BY <3>1, <2>1, <2>3, ThoseAll DEF s
  <2> QED
    BY <2>2, <2>3
<1>6. GoneFrom(K, S) = [x \in A \ S |-> IF x = e THEN <<>> ELSE K[x]]
  <2>1. GoneFrom(K, S) = [x \in A \ S |-> Those(K[x], A \ S)]
    BY <1>1 DEF GoneFrom
  <2> QED
    BY <2>1, <1>5
<1> QED
  BY <1>6, ClearedHolds DEF Emptied

-----------------------------------------------------------------------------
(* The operations on any pointers.                                         *)

LEMMA OperationsTyped ==
    ASSUME NEW t \in Trees, NEW n \in Node
    PROVE  /\ Constructed(t, n) \in Trees
           /\ \A S : Freed(t, S) \in Trees
           /\ Detached(t, n) \in Trees /\ Deleted(t, n) \in Trees
           /\ \A e \in Node : Appended(t, e, n) \in Trees
<1>1. /\ t.alive \in SUBSET Node /\ t.parent \in [Node -> Pointer] /\ t.next \in [Node -> Pointer]
      /\ t.prev \in [Node -> Pointer] /\ t.first \in [Node -> Pointer] /\ t.last \in [Node -> Pointer]
      /\ None \in Pointer /\ n \in Pointer /\ Node \subseteq Pointer
  BY DEF Trees, Pointer
<1>2. Constructed(t, n) \in Trees
  BY <1>1 DEF Constructed, Trees
<1>3. ASSUME NEW u \in Trees, NEW S PROVE Freed(u, S) \in Trees
  <2>1. /\ u.alive \in SUBSET Node /\ u.parent \in [Node -> Pointer] /\ u.next \in [Node -> Pointer]
        /\ u.prev \in [Node -> Pointer] /\ u.first \in [Node -> Pointer] /\ u.last \in [Node -> Pointer]
    BY DEF Trees
  <2> QED
    BY <2>1, <1>1 DEF Freed, Trees
<1>4. Detached(t, n) \in Trees
  <2> DEFINE p == t.parent[n]  nx == t.next[n]  pv == t.prev[n]  u == Detached(t, n)
             fst == IF p # None /\ t.first[p] = n THEN [t.first EXCEPT ![p] = nx] ELSE t.first
             lst == IF p # None /\ t.last[p] = n THEN [t.last EXCEPT ![p] = pv] ELSE t.last
  <2>1. p \in Pointer /\ nx \in Pointer /\ pv \in Pointer
    BY <1>1
  <2>2. u = [t EXCEPT !.first = fst, !.last = lst, !.parent[n] = None,
                      !.prev = [x \in Node |-> IF x = n THEN None ELSE IF x = nx THEN pv ELSE t.prev[x]],
                      !.next = [x \in Node |-> IF x = n THEN None ELSE IF x = pv THEN nx ELSE t.next[x]]]
    BY Zenon DEF Detached
  <2> HIDE DEF u
  <2>3. fst \in [Node -> Pointer] /\ lst \in [Node -> Pointer]
    BY <1>1, <2>1
  <2> HIDE DEF fst, lst, nx, pv, p
  <2>4. u \in Trees
    BY <1>1, <2>1, <2>2, <2>3 DEF Trees
  <2> QED
    BY <2>4 DEF u
<1>5. Deleted(t, n) \in Trees
  BY <1>3, <1>4 DEF Deleted
<1>6. ASSUME NEW e \in Node PROVE Appended(t, e, n) \in Trees
  <2> DEFINE was == t.last[e]  u == Appended(t, e, n)
             N == IF t.first[e] = None \/ was = None THEN t.next ELSE [t.next EXCEPT ![was] = n]
             V == IF t.first[e] = None \/ was = None THEN t.prev[n] ELSE was
  <2>1. was \in Pointer /\ e \in Pointer
    BY <1>1
  <2>2. u = [t EXCEPT !.first[e] = IF @ = None \/ was = None THEN n ELSE @, !.next = N,
                      !.prev[n] = V, !.parent[n] = e, !.last[e] = n]
    BY Zenon DEF Appended
  <2> HIDE DEF u
  <2>3. N \in [Node -> Pointer] /\ V \in Pointer
    BY <1>1, <2>1
  <2> HIDE DEF N, V, was
  <2>4. u \in Trees
    BY <1>1, <2>1, <2>2, <2>3 DEF Trees
  <2> QED
    BY <2>4 DEF u
<1> QED
  BY <1>2, <1>3, <1>4, <1>5, <1>6

-----------------------------------------------------------------------------
(* Children are deleted one after the other.                               *)

\* F[i] is the tree after the first i.
Deletes(F, t, nodes) ==
    F[0] = t /\ \A i \in 1 .. Len(nodes) : F[i] = Deleted(F[i - 1], nodes[i])

LEMMA DeletedEachBy ==
    ASSUME NEW t \in Trees, NEW nodes \in Seq(Node)
    PROVE  \E F : Deletes(F, t, nodes) /\ DeletedEach(t, nodes) = F[Len(nodes)]
<1> DEFINE N == Len(nodes)
           G == [x \in (1 .. N) \X Trees |-> Deleted(x[2], nodes[x[1]])]
           Solved(f) == [i \in 0 .. N |-> IF i = 0 THEN t ELSE Deleted(f[i - 1], nodes[i])]
           after == CHOOSE f : f = Solved(f)
<1>1. N \in Nat /\ \A i \in 1 .. N : nodes[i] \in Node
  OBVIOUS
<1>2. DeletedEach(t, nodes) = after[N]
  BY DEF DeletedEach
<1> HIDE DEF N
<1>3. ASSUME NEW i \in 1 .. N, NEW u \in Trees
      PROVE  G[<<i, u>>] = Deleted(u, nodes[i])
  OBVIOUS
<1>4. G \in [(1 .. N) \X Trees -> Trees]
  <2> SUFFICES ASSUME NEW x \in (1 .. N) \X Trees PROVE Deleted(x[2], nodes[x[1]]) \in Trees
    BY Zenon
  <2>1. x[1] \in 1 .. N /\ x[2] \in Trees
    OBVIOUS
  <2> QED
    BY <2>1, <1>1, OperationsTyped, Zenon
<1> HIDE DEF G
<1>5. PICK h \in [0 .. N -> Trees] : h[0] = t /\ \A i \in 1 .. N : h[i] = G[<<i, h[i - 1]>>]
  <2>1. Recursive(Trees, t, N, G)
    BY <1>1, <1>4, Recursion, Zenon
  <2> QED
    BY <2>1, Zenon DEF Recursive
<1>6. ASSUME NEW i \in 1 .. N
      PROVE  h[i] = Deleted(h[i - 1], nodes[i])
  <2>1. h[i - 1] \in Trees
    BY <1>1
  <2> QED
    BY <2>1, <1>3, <1>5
<1>7. h = Solved(h)
  <2>1. ASSUME NEW i \in 0 .. N
        PROVE  h[i] = IF i = 0 THEN t ELSE Deleted(h[i - 1], nodes[i])
    <3>1. i = 0 \/ i \in 1 .. N
      BY <1>1
    <3> QED
      BY <3>1, <1>5, <1>6
  <2> QED
    BY <2>1
<1>8. after = Solved(after)
  BY <1>7
<1> HIDE DEF after
<1>9. \A i \in 0 .. N : after[i] = IF i = 0 THEN t ELSE Deleted(after[i - 1], nodes[i])
  BY <1>8
<1>10. Deletes(after, t, nodes)
  <2>1. 0 \in 0 .. N /\ \A i \in 1 .. N : i \in 0 .. N /\ i # 0
    BY <1>1
  <2> QED
    BY <2>1, <1>9 DEF Deletes, N
<1> QED
  BY <1>2, <1>10 DEF N

\* Some childless children of e, each once.
Leaves(K, e, nodes) ==
    /\ nodes \in Seq(DOMAIN K)
    /\ \A i, j \in 1 .. Len(nodes) : nodes[i] = nodes[j] => i = j
    /\ \A i \in 1 .. Len(nodes) : In(K[e], nodes[i]) /\ K[nodes[i]] = <<>>

LEMMA LeafDeleted ==
    ASSUME NEW A, NEW K \in [A -> Seq(A)], Once(K), NEW e \in A, NEW M, NEW x \in A \ M,
           e \notin M, In(K[e], x), K[x] = <<>>, NEW u, Holds(u, GoneFrom(K, M)), x # e
    PROVE  Holds(Deleted(u, x), GoneFrom(K, M \cup {x}))
<1> DEFINE J == GoneFrom(K, M)
<1>1. DOMAIN J = A \ M /\ \A y \in A \ M : J[y] = Those(K[y], A \ M)
  BY DEF GoneFrom
<1>2. u.alive = A \ M /\ J \in [u.alive -> Seq(u.alive)] /\ A \ M \subseteq Node
  BY <1>1 DEF Holds, Lists, Trees
<1>3. \A y \in A : K[y] \in Seq(A) /\ Len(K[y]) \in Nat /\ \A i, j \in 1 .. Len(K[y]) : K[y][i] = K[y][j] => i = j
  BY DEF Once
<1> HIDE DEF J
<1>4. J[x] = <<>>
  <2>1. \A i \in 1 .. Len(K[x]) : K[x][i] \in A \ M
    OBVIOUS
  <2> QED
    BY <2>1, <1>1, <1>3, ThoseAll
<1>5. Under(J, x) = {x}
  <2>1. x \in u.alive
    BY <1>2
  <2>2. J \in [u.alive -> Seq(u.alive)]
    BY <1>2
  <2> QED
    <3> DEFINE B == u.alive
    <3>1. x \in B /\ J \in [B -> Seq(B)] /\ J[x] = <<>>
      BY <2>1, <2>2, <1>4
    <3> HIDE DEF B
    <3> QED
      BY <3>1, UnderLeaf
<1>6. In(J[e], x) /\ u.parent[x] = e
  <2>1. In(J[e], x)
    BY <1>1, <1>3, ThoseIs
  <2> QED
    BY <2>1, <1>2, ParentIs DEF J
<1>7. Holds(Deleted(u, x), DeletedFrom(u, J, x))
  BY <1>2, DeletedHolds DEF J
<1> DEFINE p == CHOOSE i \in 1 .. Len(J[e]) : J[e][i] = x
           B == (A \ M) \ {x}
<1>8. p \in 1 .. Len(J[e]) /\ J[e][p] = x
  BY <1>6 DEF In
<1>9. DeletedFrom(u, J, x) = [y \in B |-> IF y = e THEN TakenOut(J[y], CHOOSE i \in 1 .. Len(J[y]) : J[y][i] = x) ELSE J[y]]
  BY <1>2, <1>5, <1>6 DEF DeletedFrom
<1> HIDE DEF p
<1>10. TakenOut(J[e], p) = Those(K[e], B)
  <2>1. J[e] = Those(K[e], A \ M)
    BY <1>1
  <2>2. TakenOut(Those(K[e], A \ M), p) = Those(K[e], (A \ M) \ {Those(K[e], A \ M)[p]})
    <3> DEFINE C == A \ M  s == K[e]
    <3>1. s \in Seq(A) /\ (\A i, j \in 1 .. Len(s) : s[i] = s[j] => i = j) /\ p \in 1 .. Len(Those(s, C))
      BY <2>1, <1>3, <1>8
    <3> HIDE DEF C, s
    <3>a. s \in Seq(A)
      BY <3>1
    <3>b. \A i, j \in 1 .. Len(s) : s[i] = s[j] => i = j
      BY <3>1
    <3>c. \A i \in 1 .. Len(Those(s, C)) : TakenOut(Those(s, C), i) = Those(s, C \ {Those(s, C)[i]})
      BY <3>a, <3>b, ThoseTakenOut
    <3>2. TakenOut(Those(s, C), p) = Those(s, C \ {Those(s, C)[p]})
      BY <3>1, <3>c
    <3> QED
      BY <3>2 DEF C, s
  <2> QED
    BY <2>1, <2>2, <1>8
<1>11. ASSUME NEW y \in B, y # e PROVE J[y] = Those(K[y], B)
  <2>1. \A i \in 1 .. Len(K[y]) : K[y][i] # x
    <3>1. PICK j \in 1 .. Len(K[e]) : K[e][j] = x
      BY DEF In
    <3> QED
      BY <3>1, <1>11, SMTT(45) DEF Once
  <2>2. \A i \in 1 .. Len(K[y]) : K[y][i] \in A \ M <=> K[y][i] \in B
    BY <2>1
  <2>3. Those(K[y], A \ M) = Those(K[y], B)
    <3> DEFINE C == A \ M  s == K[y]
    <3>1. Len(s) \in Nat /\ \A i \in 1 .. Len(s) : s[i] \in C <=> s[i] \in B
      BY <2>2, <1>3
    <3> HIDE DEF C, B, s
    <3>2. Those(s, C) = Those(s, B)
      BY <3>1, ThoseAlike
    <3> QED
      BY <3>2 DEF C, s
  <2> QED
    BY <2>3, <1>1
<1>12. GoneFrom(K, M \cup {x}) = [y \in B |-> Those(K[y], B)]
  <2>1. DOMAIN K \ (M \cup {x}) = B
    OBVIOUS
  <2> QED
    BY <2>1 DEF GoneFrom
<1>13. DeletedFrom(u, J, x) = GoneFrom(K, M \cup {x})
  <2>1. ASSUME NEW y \in B
        PROVE  (IF y = e THEN TakenOut(J[y], CHOOSE i \in 1 .. Len(J[y]) : J[y][i] = x) ELSE J[y]) = Those(K[y], B)
    <3>1. y = e => TakenOut(J[y], CHOOSE i \in 1 .. Len(J[y]) : J[y][i] = x) = Those(K[y], B)
      BY <1>10 DEF p
    <3> QED
      BY <3>1, <1>11
  <2> HIDE DEF B
  <2> QED
    BY <2>1, <1>9, <1>12, ZenonT(30)
<1> QED
  BY <1>7, <1>13

LEMMA DeletedEachHolds ==
    ASSUME NEW t, NEW K, Holds(t, K), NEW e \in t.alive, NEW nodes, Leaves(K, e, nodes)
    PROVE  Holds(DeletedEach(t, nodes), GoneFrom(K, ToSet(nodes)))
<1> DEFINE A == t.alive  N == Len(nodes)
<1>1. A \subseteq Node /\ K \in [A -> Seq(A)] /\ DOMAIN K = A /\ Once(K) /\ t \in Trees /\ NoCircle(K)
  BY DEF Holds, Lists, Trees
<1>2. /\ nodes \in Seq(A) /\ nodes \in Seq(Node) /\ N \in Nat /\ \A i \in 1 .. N : nodes[i] \in A
      /\ \A i, j \in 1 .. N : nodes[i] = nodes[j] => i = j
      /\ \A i \in 1 .. N : In(K[e], nodes[i]) /\ K[nodes[i]] = <<>>
  BY <1>1 DEF Leaves
<1>3. PICK F : Deletes(F, t, nodes) /\ DeletedEach(t, nodes) = F[N]
  BY <1>1, <1>2, DeletedEachBy
<1>4. F[0] = t /\ \A i \in 1 .. N : F[i] = Deleted(F[i - 1], nodes[i])
  BY <1>3 DEF Deletes
<1>5. \A i \in 1 .. N : nodes[i] # e
  <2> SUFFICES ASSUME NEW i \in 1 .. N, nodes[i] = e PROVE FALSE
    OBVIOUS
  <2>1. In(K[e], e) /\ K[e] = <<>>
    BY <1>2
  <2> QED
    BY <2>1 DEF In
<1> HIDE DEF N
<1> DEFINE M(i) == {nodes[j] : j \in 1 .. i}
           T == {i \in 0 .. N : Holds(F[i], GoneFrom(K, M(i)))}
<1>6. 0 \in T
  <2>1. M(0) = {}
    OBVIOUS
  <2>2. GoneFrom(K, {}) = K
    <3>1. ASSUME NEW x \in A PROVE Those(K[x], A) = K[x]
      <4>1. K[x] \in Seq(A) /\ \A i \in 1 .. Len(K[x]) : K[x][i] \in A
        BY <1>1
      <4> QED
        BY <4>1, ThoseAll
    <3>2. GoneFrom(K, {}) = [x \in A |-> Those(K[x], A)]
      <4>1. DOMAIN K \ {} = A
        BY <1>1
      <4> QED
        BY <4>1 DEF GoneFrom
    <3>3. GoneFrom(K, {}) = [x \in A |-> K[x]]
      BY <3>1, <3>2
    <3> QED
      BY <3>3, <1>1
  <2> HIDE DEF M
  <2>3. Holds(F[0], GoneFrom(K, M(0)))
    BY <2>1, <2>2, <1>4
  <2> QED
    BY <2>3, <1>2
<1>7. ASSUME NEW i \in 1 .. N, i - 1 \in T PROVE i \in T
  <2> DEFINE x == nodes[i]
  <2>1. Holds(F[i - 1], GoneFrom(K, M(i - 1))) /\ F[i] = Deleted(F[i - 1], x) /\ i \in 0 .. N
    BY <1>2, <1>4, <1>7
  <2>2. x \in A /\ In(K[e], x) /\ K[x] = <<>> /\ x # e
    BY <1>2, <1>5
  <2>3. \A j \in 1 .. i - 1 : j \in 1 .. N /\ j # i
    BY <1>2
  <2>4. x \notin M(i - 1) /\ e \notin M(i - 1)
    BY <2>3, <1>2, <1>5
  <2>5. M(i) = M(i - 1) \cup {x}
    <3>1. \A j : j \in 1 .. i <=> j \in 1 .. i - 1 \/ j = i
      BY <1>2
    <3> QED
      BY <3>1
  <2> HIDE DEF M, x
  <2>6. Holds(Deleted(F[i - 1], x), GoneFrom(K, M(i - 1) \cup {x}))
    <3> DEFINE Q == M(i - 1)  u == F[i - 1]
    <3>1. x \in A \ Q /\ e \notin Q /\ Holds(u, GoneFrom(K, Q))
      BY <2>1, <2>2, <2>4
    <3> HIDE DEF A, Q, u
    <3>2. K \in [A -> Seq(A)] /\ e \in A /\ Once(K)
      BY <1>1 DEF A
    <3>3. Holds(Deleted(u, x), GoneFrom(K, Q \cup {x}))
      BY <2>2, <3>1, <3>2, LeafDeleted
    <3> QED
      BY <3>3 DEF Q, u
  <2> QED
    BY <2>1, <2>5, <2>6
<1>8. \A i \in 0 .. N : i \in T
  <2> HIDE DEF T
  <2> QED
    BY <1>2, <1>6, <1>7, NatSteps, Zenon
<1>9. M(N) = ToSet(nodes)
  BY <1>2 DEF ToSet, N
<1>10. N \in 0 .. N
  BY <1>2
<1> QED
  BY <1>3, <1>8, <1>9, <1>10

-----------------------------------------------------------------------------
(* Copies: m[x] is the copy of x, and S the nodes whose children are copied. *)

\* Two nodes share what is below them only if one is below the other.
LEMMA UnderMeets ==
    ASSUME NEW A, NEW K \in [A -> Seq(A)], Once(K), NEW a \in A, NEW b \in A,
           a \notin Under(K, b), b \notin Under(K, a)
    PROVE  Under(K, a) \cap Under(K, b) = {}
<1> DEFINE U == Under(K, a)  V == Under(K, b)  C == U \ V
<1>1. U \subseteq A /\ a \in U /\ Closed(K, U) /\ V \subseteq A /\ b \in V
  BY UnderIs
<1>2. ASSUME NEW x \in V, NEW e \in A, x # b, In(K[e], x) PROVE e \in V
  BY <1>2, OwnersUnder
<1>3. C \in SUBSET A /\ a \in C
  BY <1>1
<1>4. Closed(K, C)
  <2> SUFFICES ASSUME NEW y \in C, NEW i \in 1 .. Len(K[y]) PROVE K[y][i] \in C
    BY DEF Closed
  <2>1. K[y][i] \in U /\ y \in A /\ In(K[y], K[y][i])
    BY <1>1 DEF Closed, In
  <2>2. K[y][i] # b
    BY <2>1
  <2> HIDE DEF U, V
  <2>3. K[y][i] \notin V
    BY <2>1, <2>2, <1>2
  <2> QED
    BY <2>1, <2>3
<1>5. U \subseteq C
  <2> HIDE DEF C
  <2> QED
    BY <1>3, <1>4, UnderIs
<1> QED
  BY <1>5

\* Who is below n, other than n, is a child of one that is.
LEMMA UnderOwned ==
    ASSUME NEW A, NEW K \in [A -> Seq(A)], NEW n \in A, NEW x \in Under(K, n), x # n
    PROVE  \E e \in Under(K, n) : In(K[e], x)
<1> DEFINE U == Under(K, n)  C == U \ {x}
<1> SUFFICES ASSUME \A e \in U : ~In(K[e], x) PROVE FALSE
  OBVIOUS
<1>1. U \subseteq A /\ n \in U /\ Closed(K, U)
  BY UnderIs
<1>2. Closed(K, C)
  BY <1>1 DEF Closed, In
<1>3. C \in SUBSET A /\ n \in C
  BY <1>1
<1>4. U \subseteq C
  <2> HIDE DEF C
  <2> QED
    BY <1>2, <1>3, UnderIs
<1> QED
  BY <1>4

\* What is below the children of x is not below another child, and x is not.
LEMMA UnderApart ==
    ASSUME NEW A, NEW K \in [A -> Seq(A)], Once(K), NoCircle(K), NEW x \in A,
           NEW i \in 1 .. Len(K[x]), NEW j \in 1 .. Len(K[x]), i # j
    PROVE  Under(K, K[x][i]) \cap Under(K, K[x][j]) = {}
<1>1. K[x][i] \in A /\ K[x][j] \in A /\ K[x][i] # K[x][j] /\ In(K[x], K[x][i]) /\ In(K[x], K[x][j])
  BY DEF Once, In
<1>2. x \notin Under(K, K[x][i]) /\ x \notin Under(K, K[x][j])
  BY UnderShrinks
<1> DEFINE a == K[x][i]  b == K[x][j]
<1> HIDE DEF a, b
<1>3. a \in A /\ b \in A /\ a # b /\ In(K[x], a) /\ In(K[x], b) /\ x \notin Under(K, a) /\ x \notin Under(K, b)
  BY <1>1, <1>2 DEF a, b
<1>4. a \notin Under(K, b)
  BY <1>3, OwnersUnder
<1>5. b \notin Under(K, a)
  BY <1>3, OwnersUnder
<1>6. Under(K, a) \cap Under(K, b) = {}
  BY <1>3, <1>4, <1>5, UnderMeets
<1> QED
  BY <1>6 DEF a, b

Plan(A, K, m, S) ==
    /\ A \subseteq Node /\ IsFiniteSet(A) /\ Lists(A, K) /\ Once(K) /\ NoCircle(K)
    /\ S \subseteq A /\ DOMAIN m \subseteq S
    /\ \A x \in S : \A k \in 1 .. Len(K[x]) : K[x][k] \in DOMAIN m
    /\ \A y, z \in DOMAIN m : m[y] = m[z] => y = z
    /\ \A y \in DOMAIN m : m[y] \in Node /\ Kind[m[y]] = Kind[y]

\* What is below the first i children of x.
Upto(K, x, i) == UNION {Under(K, K[x][j]) : j \in 1 .. i}

LEMMA UptoIs ==
    ASSUME NEW A, NEW K, NEW m, NEW S, Plan(A, K, m, S), NEW x \in S
    PROVE  /\ Upto(K, x, 0) = {} /\ Upto(K, x, Len(K[x])) = Under(K, x) \ {x}
           /\ \A i \in 1 .. Len(K[x]) :
                /\ Upto(K, x, i) = Upto(K, x, i - 1) \cup Under(K, K[x][i])
                /\ Upto(K, x, i - 1) \cap Under(K, K[x][i]) = {}
                /\ Upto(K, x, i) \subseteq Under(K, x) \ {x}
           /\ Under(K, x) \ {x} \subseteq DOMAIN m
<1> DEFINE L == Len(K[x])
<1>1. K \in [A -> Seq(A)] /\ Once(K) /\ NoCircle(K) /\ x \in A /\ S \subseteq A /\ DOMAIN m \subseteq S
      /\ \A y \in S : \A k \in 1 .. Len(K[y]) : K[y][k] \in DOMAIN m
  BY DEF Plan, Lists
<1>2. L \in Nat /\ \A i \in 1 .. L : K[x][i] \in A
  BY <1>1
<1> HIDE DEF L
<1>3. Upto(K, x, 0) = {}
  BY DEF Upto
<1>4. Upto(K, x, L) = Under(K, x) \ {x}
  <2>1. \A y \in Under(K, x) : y = x \/ \E i \in 1 .. L : y \in Under(K, K[x][i])
    BY <1>1, UnderUnfolds DEF L
  <2>2. \A i \in 1 .. L : Under(K, K[x][i]) \subseteq Under(K, x) /\ x \notin Under(K, K[x][i])
    BY <1>1, UnderUnfolds, UnderShrinks DEF L
  <2> QED
    BY <2>1, <2>2 DEF Upto
<1>5. ASSUME NEW i \in 1 .. L
      PROVE  /\ Upto(K, x, i) = Upto(K, x, i - 1) \cup Under(K, K[x][i])
             /\ Upto(K, x, i - 1) \cap Under(K, K[x][i]) = {}
             /\ Upto(K, x, i) \subseteq Under(K, x) \ {x}
  <2>1. \A j : j \in 1 .. i <=> j \in 1 .. i - 1 \/ j = i
    BY <1>2
  <2>2. Upto(K, x, i) = Upto(K, x, i - 1) \cup Under(K, K[x][i])
    BY <2>1 DEF Upto
  <2>3. ASSUME NEW j \in 1 .. i - 1 PROVE Under(K, K[x][j]) \cap Under(K, K[x][i]) = {}
    <3>1. j \in 1 .. L /\ i # j
      BY <1>2
    <3> QED
      BY <3>1, <1>1, UnderApart DEF L
  <2>4. Upto(K, x, i - 1) \cap Under(K, K[x][i]) = {}
    BY <2>3 DEF Upto
  <2>5. Upto(K, x, i) \subseteq Upto(K, x, L)
    <3>1. \A j \in 1 .. i : j \in 1 .. L
      BY <1>2
    <3> QED
      BY <3>1 DEF Upto
  <2> QED
    BY <2>2, <2>4, <2>5, <1>4
<1>6. Under(K, x) \ {x} \subseteq DOMAIN m
  <2> DEFINE C == {x} \cup DOMAIN m
  <2>1. Closed(K, C) /\ x \in C /\ C \in SUBSET A
    BY <1>1 DEF Closed
  <2> HIDE DEF C
  <2>2. Under(K, x) \subseteq C
    BY <2>1, <1>1, UnderIs
  <2> QED
    BY <2>2 DEF C
<1> QED
  BY <1>3, <1>4, <1>5, <1>6 DEF L

\* The lists J are L, where g has got copies of i children of x, and copies of the
\* nodes of P, which are below these.
Grown(J, K, m, L, g, x, P, i) ==
    /\ DOMAIN J = DOMAIN L \cup {m[y] : y \in P}
    /\ \A z \in DOMAIN L \ {g} : J[z] = L[z]
    /\ Len(J[g]) = Len(L[g]) + i
    /\ \A k \in 1 .. Len(L[g]) : J[g][k] = L[g][k]
    /\ \A k \in 1 .. i : J[g][Len(L[g]) + k] = m[K[x][k]]
    /\ \A y \in P : J[m[y]] = [k \in 1 .. Len(K[y]) |-> m[K[y][k]]]

\* There is room for the copies of what is below x, and g may own them.
Ready(u, L, g, x, K, m) ==
    /\ Holds(u, L) /\ g \in u.alive
    /\ K[x] # <<>> => g \in Element
    /\ \A y \in Under(K, x) \ {x} : m[y] \notin u.alive

\* The copies of the children of x before the i-th are there.
LEMMA ReadyChild ==
    ASSUME NEW A, NEW K, NEW m, NEW S, Plan(A, K, m, S), NEW x \in S, NEW i \in 1 .. Len(K[x]),
           NEW u, NEW L, NEW g, Ready(u, L, g, x, K, m),
           NEW v, NEW J, Holds(v, J), Grown(J, K, m, L, g, x, Upto(K, x, i - 1), i - 1)
    PROVE  /\ K[x][i] \in S /\ m[K[x][i]] \in Node \ v.alive
           /\ Ready(Constructed(v, m[K[x][i]]), NewIn(J, m[K[x][i]]), m[K[x][i]], K[x][i], K, m)
<1> DEFINE c == K[x][i]  B == m[c]  U == Under(K, c)  P == Upto(K, x, i - 1)
<1>1. /\ K \in [A -> Seq(A)] /\ NoCircle(K) /\ x \in A /\ c \in A /\ c \in DOMAIN m /\ c \in S /\ A \subseteq Node
      /\ \A y, z \in DOMAIN m : m[y] = m[z] => y = z
      /\ \A y \in DOMAIN m : m[y] \in Node /\ Kind[m[y]] = Kind[y]
      /\ \A y \in A \ Element : K[y] = <<>>
  BY DEF Plan, Lists
<1>2. /\ P \cap U = {} /\ P \cup U \subseteq Under(K, x) \ {x} /\ P \cup U \subseteq DOMAIN m
  BY UptoIs
<1>3. c \in U
  BY <1>1, UnderIs
<1>4. /\ DOMAIN J = DOMAIN L \cup {m[y] : y \in P} /\ v.alive = DOMAIN J /\ u.alive = DOMAIN L /\ v \in Trees
      /\ \A y \in Under(K, x) \ {x} : m[y] \notin u.alive
  BY DEF Grown, Holds, Lists, Ready
<1> HIDE DEF U, P, c
<1>5. \A y \in U : m[y] \notin v.alive
  BY <1>1, <1>2, <1>4
<1>6. Holds(Constructed(v, B), NewIn(J, B))
  <2>1. B \in Node \ v.alive
    BY <1>1, <1>3, <1>5
  <2> HIDE DEF B
  <2> QED
    BY <2>1, ConstructedHolds
<1>7. (Constructed(v, B)).alive = v.alive \cup {B}
  BY <1>4 DEF Constructed, Trees
<1>8. K[c] # <<>> => B \in Element
  BY <1>1 DEF Element
<1>9. \A y \in U \ {c} : m[y] \notin v.alive \cup {B}
  BY <1>1, <1>2, <1>3, <1>5
<1> QED
  BY <1>1, <1>3, <1>5, <1>6, <1>7, <1>8, <1>9 DEF Ready, U, c

\* The next child of x has been copied, with what is below it: it is appended.
LEMMA CopyChild ==
    ASSUME NEW A, NEW K, NEW m, NEW S, Plan(A, K, m, S), NEW x \in S, NEW i \in 1 .. Len(K[x]),
           NEW u, NEW L, NEW g, Ready(u, L, g, x, K, m),
           NEW v, NEW J, Holds(v, J), Grown(J, K, m, L, g, x, Upto(K, x, i - 1), i - 1),
           NEW c, c = K[x][i], NEW B, B = m[c],
           NEW w, NEW H, Holds(w, H), Grown(H, K, m, NewIn(J, B), B, c, Under(K, c) \ {c}, Len(K[c]))
    PROVE  \E F : Holds(Appended(w, g, B), F) /\ Grown(F, K, m, L, g, x, Upto(K, x, i), i)
<1> DEFINE U == Under(K, c)  P == Upto(K, x, i - 1)
           F == [H EXCEPT ![g] = Append(H[g], B)]
<1>1. /\ K \in [A -> Seq(A)] /\ NoCircle(K) /\ x \in A /\ c \in A /\ c \in DOMAIN m /\ c \in S /\ A \subseteq Node
      /\ \A y, z \in DOMAIN m : m[y] = m[z] => y = z
      /\ i \in Nat /\ i - 1 \in Nat /\ i # 0 /\ K[x] # <<>>
  BY DEF Plan, Lists
<1>2. /\ P \cap U = {} /\ P \cup U \subseteq Under(K, x) \ {x} /\ P \cup U \subseteq DOMAIN m
      /\ Upto(K, x, i) = P \cup U
  BY UptoIs
<1>3. U \subseteq A /\ c \in U /\ Closed(K, U)
  BY <1>1, UnderIs, ZenonT(30)
<1>4. /\ DOMAIN J = DOMAIN L \cup {m[y] : y \in P}
      /\ \A z \in DOMAIN L \ {g} : J[z] = L[z]
      /\ Len(J[g]) = Len(L[g]) + (i - 1)
      /\ \A k \in 1 .. Len(L[g]) : J[g][k] = L[g][k]
      /\ \A k \in 1 .. i - 1 : J[g][Len(L[g]) + k] = m[K[x][k]]
      /\ \A y \in P : J[m[y]] = [k \in 1 .. Len(K[y]) |-> m[K[y][k]]]
  BY DEF Grown
<1>5. /\ v.alive = DOMAIN J /\ u.alive = DOMAIN L /\ w.alive = DOMAIN H
      /\ J \in [DOMAIN J -> Seq(DOMAIN J)] /\ L \in [DOMAIN L -> Seq(DOMAIN L)] /\ H \in [DOMAIN H -> Seq(DOMAIN H)]
      /\ \A y \in Under(K, x) \ {x} : m[y] \notin DOMAIN L
      /\ g \in DOMAIN L /\ g \in Element
  BY <1>1 DEF Ready, Holds, Lists
<1>6. DOMAIN NewIn(J, B) = DOMAIN J \cup {B} /\ NewIn(J, B)[B] = <<>>
      /\ \A y \in DOMAIN J : y # B => NewIn(J, B)[y] = J[y]
  BY DEF NewIn
<1>7. /\ DOMAIN H = DOMAIN J \cup {B} \cup {m[y] : y \in U \ {c}}
      /\ \A z \in DOMAIN J \ {B} : H[z] = J[z]
      /\ Len(H[B]) = Len(K[c])
      /\ \A k \in 1 .. Len(K[c]) : H[B][k] = m[K[c][k]]
      /\ \A y \in U \ {c} : H[m[y]] = [k \in 1 .. Len(K[y]) |-> m[K[y][k]]]
  <2> DEFINE N == NewIn(J, B)  Q == U \ {c}
  <2>1. /\ DOMAIN H = DOMAIN N \cup {m[y] : y \in Q}
        /\ \A z \in DOMAIN N \ {B} : H[z] = N[z]
        /\ Len(H[B]) = Len(N[B]) + Len(K[c])
        /\ \A k \in 1 .. Len(K[c]) : H[B][Len(N[B]) + k] = m[K[c][k]]
        /\ \A y \in Q : H[m[y]] = [k \in 1 .. Len(K[y]) |-> m[K[y][k]]]
    BY DEF Grown
  <2>2. Len(N[B]) = 0 /\ Len(K[c]) \in Nat
    BY <1>1, <1>6
  <2>3. DOMAIN N = DOMAIN J \cup {B} /\ \A z \in DOMAIN J \ {B} : N[z] = J[z]
    BY <1>6
  <2> HIDE DEF N, Q
  <2>4. Len(H[B]) = Len(K[c]) /\ \A k \in 1 .. Len(K[c]) : H[B][k] = m[K[c][k]]
    <3>1. \A k \in 1 .. Len(K[c]) : Len(N[B]) + k = k
      BY <2>2
    <3> QED
      BY <2>1, <2>2, <3>1, SMTT(45)
  <2> QED
    BY <2>1, <2>3, <2>4 DEF Q
<1>8. \A y \in P \cup U : m[y] \notin DOMAIN L
  BY <1>2, <1>5
<1> HIDE DEF U, P
<1>9. B \notin DOMAIN J /\ \A y \in U : m[y] \notin DOMAIN J
  BY <1>1, <1>2, <1>3, <1>4, <1>8
<1>10. g \in DOMAIN J /\ g # B /\ H[g] = J[g] /\ B \in DOMAIN H /\ g \in DOMAIN H
  BY <1>4, <1>5, <1>7, <1>9, SMTT(45)
\* No list has the copy yet.
<1>11. ASSUME NEW y \in U PROVE \A k \in 1 .. Len(K[y]) : K[y][k] \in U /\ K[y][k] # c
  <2> SUFFICES ASSUME NEW k \in 1 .. Len(K[y]) PROVE K[y][k] \in U /\ K[y][k] # c
    OBVIOUS
  <2>1. K[y][k] \in U /\ y \in A
    BY <1>3 DEF Closed
  <2>2. y \notin Under(K, K[y][k])
    BY <2>1, <1>1, UnderShrinks
  <2> QED
    BY <2>1, <2>2 DEF U
<1>12. ASSUME NEW y \in U, NEW k, k \in 1 .. Len(H[m[y]])
       PROVE  m[y] \in DOMAIN H /\ \E z \in U : z # c /\ H[m[y]][k] = m[z]
  <2>0. Len(K[y]) \in Nat
    BY <1>1, <1>3
  <2>1. m[y] \in DOMAIN H /\ Len(H[m[y]]) = Len(K[y])
        /\ \A j \in 1 .. Len(K[y]) : H[m[y]][j] = m[K[y][j]]
    <3>1. CASE y = c
      BY <3>1, <1>7, <1>10
    <3>2. CASE y # c
      <4>1. H[m[y]] = [j \in 1 .. Len(K[y]) |-> m[K[y][j]]]
        BY <3>2, <1>7
      <4>2. m[y] \in DOMAIN H
        BY <3>2, <1>7
      <4> DEFINE s == H[m[y]]
      <4>3. Len(s) = Len(K[y])
        <5> HIDE DEF s
        <5>1. s = [j \in 1 .. Len(K[y]) |-> m[K[y][j]]]
          BY <4>1 DEF s
        <5> QED
          BY <5>1, <2>0
      <4> QED
        BY <4>1, <4>2, <4>3
    <3> QED
      BY <3>1, <3>2
  <2> QED
    BY <2>1, <1>11, <1>12
<1>13. ASSUME NEW f \in DOMAIN H, In(H[f], B) PROVE FALSE
  <2>1. PICK k \in 1 .. Len(H[f]) : H[f][k] = B
    BY <1>13 DEF In
  <2>2. CASE f \in DOMAIN J
    <3>1. H[f] = J[f] /\ J[f] \in Seq(DOMAIN J)
      BY <2>2, <1>5, <1>7, <1>9
    <3>2. J[f][k] \in DOMAIN J
      BY <2>1, <3>1
    <3> QED
      BY <2>1, <3>1, <3>2, <1>9
  <2>3. CASE f \notin DOMAIN J
    <3>1. PICK y \in U : f = m[y]
      BY <2>3, <1>3, <1>7
    <3>2. PICK z \in U : z # c /\ H[f][k] = m[z]
      BY <2>1, <3>1, <1>12
    <3> QED
      BY <2>1, <3>2, <1>1, <1>2, <1>3
  <2> QED
    BY <2>2, <2>3
\* g is not below the copy.
<1>14. g \notin Under(H, B)
  <2> DEFINE C == {m[y] : y \in U}
  <2>1. B \in C /\ C \in SUBSET DOMAIN H
    BY <1>3, <1>7
  <2>2. Closed(H, C)
    <3> SUFFICES ASSUME NEW y \in U, NEW k \in 1 .. Len(H[m[y]]) PROVE H[m[y]][k] \in C
      BY DEF Closed
    <3>1. PICK z \in U : z # c /\ H[m[y]][k] = m[z]
      BY <1>12
    <3> QED
      BY <3>1
  <2>3. g \notin C
    BY <1>5, <1>8
  <2> HIDE DEF C
  <2>4. Under(H, B) \subseteq C
    <3> DEFINE D == DOMAIN H
    <3>1. H \in [D -> Seq(D)] /\ B \in D /\ C \in SUBSET D
      BY <2>1, <1>5, <1>10
    <3> HIDE DEF D
    <3> QED
      BY <3>1, <2>1, <2>2, UnderIs
  <2> QED
    BY <2>3, <2>4
<1>15. Holds(Appended(w, g, B), F)
  <2>1. g \in w.alive /\ B \in w.alive /\ \A f \in w.alive : ~In(H[f], B)
    BY <1>5, <1>10, <1>13
  <2> QED
    BY <2>1, <1>5, <1>14, AppendHolds
\* The lists are as they should.
<1>16. DOMAIN F = DOMAIN H /\ F[g] = Append(J[g], B) /\ \A z \in DOMAIN H : z # g => F[z] = H[z]
  BY <1>10
<1> HIDE DEF F
<1>17. DOMAIN F = DOMAIN L \cup {m[y] : y \in P \cup U}
  BY <1>3, <1>4, <1>7, <1>16, SMTT(45)
<1>18. \A z \in DOMAIN L \ {g} : F[z] = L[z]
  BY <1>4, <1>7, <1>9, <1>16
<1>19. /\ Len(F[g]) = Len(L[g]) + i
       /\ \A k \in 1 .. Len(L[g]) : F[g][k] = L[g][k]
       /\ \A k \in 1 .. i : F[g][Len(L[g]) + k] = m[K[x][k]]
  <2> DEFINE q == J[g]  n == Len(L[g])
  <2>1. q \in Seq(DOMAIN J) /\ n \in Nat
    BY <1>5, <1>10
  <2>2. Len(q) = n + (i - 1) /\ (\A k \in 1 .. n : q[k] = L[g][k]) /\ \A k \in 1 .. i - 1 : q[n + k] = m[K[x][k]]
    BY <1>4
  <2>3. F[g] = Append(q, B)
    BY <1>16
  <2> HIDE DEF q, n
  <2>4. Len(F[g]) = Len(q) + 1 /\ F[g][Len(q) + 1] = B /\ \A k \in 1 .. Len(q) : F[g][k] = q[k]
    BY <2>1, <2>3
  <2>5. Len(q) + 1 = n + i /\ (\A k \in 1 .. n : k \in 1 .. Len(q)) /\ \A k \in 1 .. i - 1 : n + k \in 1 .. Len(q)
    BY <2>1, <2>2, <1>1
  <2>6. \A k \in 1 .. i : k = i \/ k \in 1 .. i - 1
    BY <1>1
  <2>7. \A k \in 1 .. i : F[g][n + k] = m[K[x][k]]
    <3> SUFFICES ASSUME NEW k \in 1 .. i PROVE F[g][n + k] = m[K[x][k]]
      OBVIOUS
    <3>1. CASE k = i
      BY <3>1, <2>4, <2>5
    <3>2. CASE k \in 1 .. i - 1
      BY <3>2, <2>2, <2>4, <2>5
    <3> QED
      BY <3>1, <3>2, <2>6
  <2> QED
    BY <2>2, <2>4, <2>5, <2>7 DEF n
<1>20. \A y \in P \cup U : F[m[y]] = [k \in 1 .. Len(K[y]) |-> m[K[y][k]]]
  <2> SUFFICES ASSUME NEW y \in P \cup U PROVE F[m[y]] = [k \in 1 .. Len(K[y]) |-> m[K[y][k]]]
    OBVIOUS
  <2>1. m[y] # g
    BY <1>5, <1>8
  <2>2. CASE y \in P
    <3>1. m[y] \in DOMAIN J /\ m[y] # B
      BY <2>2, <1>4, <1>9
    <3>2. H[m[y]] = J[m[y]] /\ m[y] \in DOMAIN H
      BY <3>1, <1>7
    <3>3. F[m[y]] = J[m[y]]
      BY <3>2, <2>1, <1>16
    <3> QED
      BY <3>3, <2>2, <1>4
  <2>3. CASE y \in U \ {c}
    BY <2>1, <2>3, <1>7, <1>16
  <2>4. CASE y = c
    <3>1. F[B] = H[B] /\ H[B] \in Seq(DOMAIN H)
      BY <1>5, <1>10, <1>16
    <3> DEFINE s == H[B]  n == Len(K[c])
    <3>2. s \in Seq(DOMAIN H) /\ Len(s) = n /\ \A k \in 1 .. n : s[k] = m[K[c][k]]
      BY <3>1, <1>7
    <3> HIDE DEF s, n
    <3>3. s = [k \in 1 .. n |-> s[k]]
      BY <3>2
    <3>4. s = [k \in 1 .. n |-> m[K[c][k]]]
      BY <3>2, <3>3
    <3> QED
      BY <2>4, <3>1, <3>4 DEF s, n
  <2> QED
    BY <2>2, <2>3, <2>4
<1>21. Grown(F, K, m, L, g, x, Upto(K, x, i), i)
  BY <1>2, <1>17, <1>18, <1>19, <1>20 DEF Grown
<1> QED
  BY <1>15, <1>21

\* What cloneElement makes of a call: a tree, the element that gets the copies of the
\* children c, and whose children these are, when h is what it makes of calls for these.
After(depth, h, c, m, call) ==
    CHOOSE f : f = [i \in 0 .. Len(c) |->
                        IF i = 0 \/ depth = 0 THEN call[1]
                        ELSE Appended(h[<<Constructed(f[i - 1], m[c[i]]), m[c[i]], c[i]>>],
                                      call[2], m[c[i]])]

Made(a, h, c, m, call) ==
    /\ a[0] = call[1]
    /\ \A i \in 1 .. Len(c) :
        a[i] = Appended(h[<<Constructed(a[i - 1], m[c[i]]), m[c[i]], c[i]>>], call[2], m[c[i]])

LEMMA AfterNone ==
    ASSUME NEW h, NEW c, Len(c) \in Nat, NEW m, NEW call
    PROVE  After(0, h, c, m, call)[Len(c)] = call[1]
<1> DEFINE Solved(f) == [i \in 0 .. Len(c) |->
                        IF i = 0 \/ 0 = 0 THEN call[1]
                        ELSE Appended(h[<<Constructed(f[i - 1], m[c[i]]), m[c[i]], c[i]>>],
                                      call[2], m[c[i]])]
           a == CHOOSE f : f = Solved(f)
           b == [i \in 0 .. Len(c) |-> call[1]]
<1>1. \A f : Solved(f) = b
  OBVIOUS
<1>2. After(0, h, c, m, call) = a
  BY DEF After
<1> HIDE DEF Solved
<1>3. a = b
  BY <1>1
<1> HIDE DEF a
<1>4. Len(c) \in 0 .. Len(c)
  OBVIOUS
<1> QED
  BY <1>2, <1>3, <1>4

LEMMA AfterIs ==
    ASSUME NEW S, NEW m, DOMAIN m \subseteq S, \A y \in DOMAIN m : m[y] \in Node,
           NEW c \in Seq(DOMAIN m), NEW h \in [Trees \X Node \X S -> Trees],
           NEW call \in Trees \X Node \X S, NEW depth, depth # 0
    PROVE  /\ After(depth, h, c, m, call)[Len(c)] \in Trees
           /\ Made(After(depth, h, c, m, call), h, c, m, call)
<1> DEFINE N == Len(c)
           Step(i, u) == Appended(h[<<Constructed(u, m[c[i]]), m[c[i]], c[i]>>], call[2], m[c[i]])
           G == [x \in (1 .. N) \X Trees |-> Step(x[1], x[2])]
           Solved(f) == [i \in 0 .. N |-> IF i = 0 \/ depth = 0 THEN call[1] ELSE Step(i, f[i - 1])]
           after == CHOOSE f : f = Solved(f)
<1>1. N \in Nat /\ call[1] \in Trees /\ call[2] \in Node
      /\ \A i \in 1 .. N : c[i] \in DOMAIN m /\ c[i] \in S /\ m[c[i]] \in Node
  OBVIOUS
<1>2. After(depth, h, c, m, call) = after
  BY DEF After
<1> HIDE DEF N
<1>3. ASSUME NEW i \in 1 .. N, NEW u \in Trees PROVE Step(i, u) \in Trees
  <2> DEFINE n == m[c[i]]  y == c[i]
  <2>1. n \in Node /\ y \in S
    BY <1>1
  <2> HIDE DEF n, y
  <2>2. Constructed(u, n) \in Trees
    BY <2>1, OperationsTyped
  <2>3. h[<<Constructed(u, n), n, y>>] \in Trees
    BY <2>1, <2>2
  <2>4. Appended(h[<<Constructed(u, n), n, y>>], call[2], n) \in Trees
    BY <1>1, <2>1, <2>3, OperationsTyped
  <2> QED
    BY <2>4 DEF n, y
<1> HIDE DEF Step
<1>4. ASSUME NEW i \in 1 .. N, NEW u \in Trees
      PROVE  G[<<i, u>>] = Step(i, u)
  OBVIOUS
<1>5. G \in [(1 .. N) \X Trees -> Trees]
  <2> SUFFICES ASSUME NEW x \in (1 .. N) \X Trees PROVE Step(x[1], x[2]) \in Trees
    BY Zenon
  <2>1. x[1] \in 1 .. N /\ x[2] \in Trees
    OBVIOUS
  <2> QED
    BY <2>1, <1>3, Zenon
<1> HIDE DEF G
<1>6. PICK f \in [0 .. N -> Trees] : f[0] = call[1] /\ \A i \in 1 .. N : f[i] = G[<<i, f[i - 1]>>]
  <2>1. Recursive(Trees, call[1], N, G)
    BY <1>1, <1>5, Recursion, Zenon
  <2> QED
    BY <2>1, Zenon DEF Recursive
<1>7. ASSUME NEW i \in 1 .. N
      PROVE  f[i] = Step(i, f[i - 1])
  <2>1. f[i - 1] \in Trees
    BY <1>1
  <2> QED
    BY <2>1, <1>4, <1>6
<1>8. f = Solved(f)
  <2>1. ASSUME NEW i \in 0 .. N
        PROVE  f[i] = IF i = 0 \/ depth = 0 THEN call[1] ELSE Step(i, f[i - 1])
    <3>1. i = 0 \/ i \in 1 .. N
      BY <1>1
    <3> QED
      BY <3>1, <1>6, <1>7
  <2> QED
    BY <2>1
<1>9. after = Solved(after)
  BY <1>8
<1> HIDE DEF after
<1>10. \A i \in 0 .. N : after[i] = IF i = 0 THEN call[1] ELSE Step(i, after[i - 1])
  BY <1>9
<1>11. Made(after, h, c, m, call)
  <2>1. 0 \in 0 .. N /\ \A i \in 1 .. N : i \in 0 .. N /\ i # 0
    BY <1>1
  <2>2. after[0] = call[1] /\ \A i \in 1 .. N : after[i] = Step(i, after[i - 1])
    BY <2>1, <1>10
  <2> QED
    BY <2>2 DEF Made, N, Step
<1> DEFINE T == {i \in 0 .. N : after[i] \in Trees}
<1>12. \A i \in 0 .. N : i \in T
  <2>1. 0 \in T
    BY <1>1, <1>10
  <2>2. ASSUME NEW i \in 1 .. N, i - 1 \in T PROVE i \in T
    <3>1. after[i - 1] \in Trees /\ i \in 0 .. N /\ i # 0
      BY <2>2, <1>1
    <3>2. after[i] = Step(i, after[i - 1])
      BY <3>1, <1>10
    <3> QED
      BY <3>1, <3>2, <1>3
  <2> HIDE DEF T
  <2> QED
    BY <2>1, <2>2, <1>1, NatSteps, Zenon
<1>13. N \in 0 .. N
  BY <1>1
<1> QED
  BY <1>2, <1>11, <1>12, <1>13 DEF N

\* h[depth] is what cloneElement makes of calls, when it goes so deep.
Clones(h, K, m, S, N) ==
    \A call \in Trees \X Node \X S :
        /\ h[0][call] = call[1]
        /\ \A d \in 1 .. N : \E a : /\ Made(a, h[d - 1], K[call[3]], m, call)
                                    /\ h[d][call] = a[Len(K[call[3]])]

\* ClonedInto is what h makes of a call.
IsClonedBy(h, t, K, target, source, m, S) ==
    /\ Clones(h, K, m, S, Cardinality(Node))
    /\ ClonedInto(t, target, source, m) = h[Cardinality(Node)][<<t, target, source>>]

LEMMA ClonedBy ==
    ASSUME NEW t, NEW K, Holds(t, K), NEW m, NEW source, NEW S, S = DOMAIN m \cup {source},
           Plan(t.alive, K, m, S), NEW target
    PROVE  \E h : IsClonedBy(h, t, K, target, source, m, S)
<1> DEFINE N == Cardinality(Node)
           Q == Trees \X Node \X S
           D == [Q -> Trees]
           Kids(call) == ChildrenOf(t, call[3])
           Step(i, h) == [call \in Q |-> After(i, h, Kids(call), m, call)[Len(Kids(call))]]
           d == [call \in Q |-> call[1]]
           G == [x \in (1 .. N) \X D |-> Step(x[1], x[2])]
           Solved(f) == [i \in 0 .. N |-> Step(i, f[i - 1])]
           cloned == CHOOSE f : f = Solved(f)
<1>1. N \in Nat
  BY NodesAre
<1>2. ClonedInto(t, target, source, m) = cloned[N][<<t, target, source>>]
  BY DEF ClonedInto, After
<1>3. /\ S \subseteq Node /\ S \subseteq t.alive /\ DOMAIN m \subseteq S /\ \A y \in DOMAIN m : m[y] \in Node
      /\ \A x \in S : K[x] \in Seq(t.alive) /\ \A k \in 1 .. Len(K[x]) : K[x][k] \in DOMAIN m
  BY DEF Plan, Lists
<1>4. ASSUME NEW call \in Q
      PROVE  Kids(call) = K[call[3]] /\ K[call[3]] \in Seq(DOMAIN m) /\ call[1] \in Trees
  <2>1. call[3] \in S /\ call[1] \in Trees
    OBVIOUS
  <2>2. K[call[3]] \in Seq(DOMAIN m)
    BY <2>1, <1>3
  <2>3. call[3] \in Node /\ call[3] \in t.alive
    BY <2>1, <1>3
  <2>4. Kids(call) = K[call[3]]
    BY <2>3, ChildrenAre
  <2> QED
    BY <2>1, <2>2, <2>4
<1> HIDE DEF N, Kids, Q
<1>5. d \in D
  BY <1>4
<1>6. ASSUME NEW i \in 1 .. N, NEW h \in D PROVE Step(i, h) \in D
  <2> SUFFICES ASSUME NEW call \in Q
               PROVE  After(i, h, Kids(call), m, call)[Len(Kids(call))] \in Trees
    BY Zenon
  <2>1. i # 0 /\ h \in [Trees \X Node \X S -> Trees] /\ call \in Trees \X Node \X S
    BY <1>1 DEF Q
  <2>2. Kids(call) \in Seq(DOMAIN m)
    BY <1>4
  <2> QED
    BY <2>1, <2>2, <1>3, AfterIs
<1> HIDE DEF D
<1>7. ASSUME NEW i \in 1 .. N, NEW h \in D
      PROVE  G[<<i, h>>] = Step(i, h)
  OBVIOUS
<1>8. G \in [(1 .. N) \X D -> D]
  <2> SUFFICES ASSUME NEW x \in (1 .. N) \X D PROVE Step(x[1], x[2]) \in D
    BY Zenon
  <2>1. x[1] \in 1 .. N /\ x[2] \in D
    OBVIOUS
  <2> QED
    BY <2>1, <1>6, Zenon
<1> HIDE DEF G, d
<1>9. PICK f \in [0 .. N -> D] : f[0] = d /\ \A i \in 1 .. N : f[i] = G[<<i, f[i - 1]>>]
  <2>1. Recursive(D, d, N, G)
    BY <1>1, <1>5, <1>8, Recursion, Zenon
  <2> QED
    BY <2>1, Zenon DEF Recursive
<1>10. ASSUME NEW i \in 1 .. N
       PROVE  f[i] = Step(i, f[i - 1])
  <2>1. f[i - 1] \in D
    BY <1>1
  <2> QED
    BY <2>1, <1>7, <1>9
<1>11. \A h : Step(0, h) = d
  <2> SUFFICES ASSUME NEW h, NEW call \in Q
               PROVE  After(0, h, Kids(call), m, call)[Len(Kids(call))] = call[1]
    BY Zenon DEF d
  <2>1. Len(Kids(call)) \in Nat
    BY <1>4
  <2> QED
    BY <2>1, AfterNone
<1> HIDE DEF Step
<1>12. f = Solved(f)
  <2>1. ASSUME NEW i \in 0 .. N PROVE f[i] = Step(i, f[i - 1])
    <3>1. i = 0 \/ i \in 1 .. N
      BY <1>1
    <3> QED
      BY <3>1, <1>9, <1>10, <1>11
  <2> QED
    BY <2>1
<1>13. cloned = Solved(cloned)
  BY <1>12
<1> HIDE DEF cloned
<1>14. \A i \in 0 .. N : cloned[i] = Step(i, cloned[i - 1])
  BY <1>13
<1> DEFINE T == {i \in 0 .. N : cloned[i] \in D}
<1>15. cloned[0] = d
  <2>1. 0 \in 0 .. N
    BY <1>1
  <2> QED
    BY <2>1, <1>11, <1>14
<1>16. \A i \in 0 .. N : i \in T
  <2>1. 0 \in T
    BY <1>1, <1>5, <1>15
  <2>2. ASSUME NEW i \in 1 .. N, i - 1 \in T PROVE i \in T
    <3>1. cloned[i - 1] \in D /\ i \in 0 .. N
      BY <2>2, <1>1
    <3>2. cloned[i] = Step(i, cloned[i - 1])
      BY <3>1, <1>14
    <3> QED
      BY <3>1, <3>2, <1>6
  <2> HIDE DEF T
  <2> QED
    BY <2>1, <2>2, <1>1, NatSteps, Zenon
<1>17. Clones(cloned, K, m, S, N)
  <2> SUFFICES ASSUME NEW call \in Q
               PROVE  /\ cloned[0][call] = call[1]
                      /\ \A i \in 1 .. N : \E a : /\ Made(a, cloned[i - 1], K[call[3]], m, call)
                                                  /\ cloned[i][call] = a[Len(K[call[3]])]
    BY DEF Clones, Q
  <2>1. cloned[0][call] = call[1]
    BY <1>15 DEF d
  <2>2. ASSUME NEW i \in 1 .. N
        PROVE  \E a : Made(a, cloned[i - 1], K[call[3]], m, call) /\ cloned[i][call] = a[Len(K[call[3]])]
    <3> DEFINE h == cloned[i - 1]  a == After(i, h, Kids(call), m, call)
    <3>1. i \in 0 .. N /\ i - 1 \in 0 .. N /\ i # 0
      BY <1>1
    <3>2. h \in D
      BY <3>1, <1>16
    <3>3. cloned[i] = Step(i, h)
      BY <3>1, <1>14
    <3> HIDE DEF h
    <3>4. cloned[i][call] = a[Len(Kids(call))]
      BY <3>3 DEF Step
    <3>5. h \in [Trees \X Node \X S -> Trees] /\ call \in Trees \X Node \X S
      BY <3>2 DEF D, Q
    <3>6. Kids(call) \in Seq(DOMAIN m)
      BY <1>4
    <3>7. Made(a, h, Kids(call), m, call)
      BY <3>1, <3>5, <3>6, <1>3, AfterIs
    <3> HIDE DEF a
    <3>8. Kids(call) = K[call[3]]
      BY <1>4
    <3> QED
      BY <3>4, <3>7, <3>8 DEF h
  <2> QED
    BY <2>1, <2>2
<1> QED
  BY <1>2, <1>17 DEF N, IsClonedBy

LEMMA GrownNone ==
    ASSUME NEW K, NEW m, NEW L, NEW g, NEW x, Len(L[g]) \in Nat
    PROVE  Grown(L, K, m, L, g, x, {}, 0)
<1>1. {m[y] : y \in {}} = {}
  OBVIOUS
<1>2. Len(L[g]) + 0 = Len(L[g]) /\ 1 .. 0 = {}
  OBVIOUS
<1> QED
  BY <1>1, <1>2, Zenon DEF Grown

\* f copies what is below x, where there is no more than d nodes besides x.
CopiesWell(f, d, K, m, S) ==
    \A x \in S : \A u, L, g :
        Ready(u, L, g, x, K, m) /\ Cardinality(Under(K, x)) <= d + 1 =>
            \E J : Holds(f[<<u, g, x>>], J)
                   /\ Grown(J, K, m, L, g, x, Under(K, x) \ {x}, Len(K[x]))

LEMMA CopyDeeper ==
    ASSUME NEW A, NEW K, NEW m, NEW S, Plan(A, K, m, S), NEW N \in Nat, NEW h, Clones(h, K, m, S, N),
           NEW d \in 1 .. N, CopiesWell(h[d - 1], d - 1, K, m, S),
           NEW x \in S, NEW u, NEW L, NEW g, Ready(u, L, g, x, K, m), Cardinality(Under(K, x)) <= d + 1
    PROVE  \E J : Holds(h[d][<<u, g, x>>], J)
                  /\ Grown(J, K, m, L, g, x, Under(K, x) \ {x}, Len(K[x]))
<1> DEFINE call == <<u, g, x>>  n == Len(K[x])
<1>1. /\ K \in [A -> Seq(A)] /\ NoCircle(K) /\ x \in A /\ IsFiniteSet(A) /\ n \in Nat
  BY DEF Plan, Lists
<1>2. Holds(u, L) /\ u \in Trees /\ g \in u.alive /\ g \in Node /\ L \in [u.alive -> Seq(u.alive)]
  BY DEF Ready, Holds, Lists, Trees
<1>3. call \in Trees \X Node \X S /\ call[1] = u /\ call[2] = g /\ call[3] = x
  BY <1>2
<1> HIDE DEF call, n
<1>4. PICK a : Made(a, h[d - 1], K[x], m, call) /\ h[d][call] = a[n]
  <2>1. \E a : Made(a, h[d - 1], K[call[3]], m, call) /\ h[d][call] = a[Len(K[call[3]])]
    BY <1>3 DEF Clones
  <2> QED
    BY <2>1, <1>3 DEF n
<1>5. /\ a[0] = u
      /\ \A i \in 1 .. n : a[i] = Appended(h[d - 1][<<Constructed(a[i - 1], m[K[x][i]]), m[K[x][i]], K[x][i]>>],
                                           g, m[K[x][i]])
  BY <1>3, <1>4 DEF Made, n
<1> DEFINE Good(i) == \E J : Holds(a[i], J) /\ Grown(J, K, m, L, g, x, Upto(K, x, i), i)
           T == {i \in 0 .. n : Good(i)}
<1>6. 0 \in T
  <2>1. Grown(L, K, m, L, g, x, {}, 0)
    <3>1. Len(L[g]) \in Nat
      BY <1>2
    <3> QED
      BY <3>1, GrownNone
  <2>2. Upto(K, x, 0) = {}
    BY UptoIs
  <2>3. Holds(a[0], L) /\ 0 \in 0 .. n
    BY <1>1, <1>2, <1>5
  <2>4. Good(0)
    BY <2>1, <2>2, <2>3
  <2> HIDE DEF Good
  <2> QED
    BY <2>3, <2>4
<1>7. ASSUME NEW i \in 1 .. n, i - 1 \in T PROVE i \in T
  <2> DEFINE c == K[x][i]  B == m[c]  v == a[i - 1]
  <2>1. PICK J : Holds(v, J) /\ Grown(J, K, m, L, g, x, Upto(K, x, i - 1), i - 1)
    BY <1>7
  <2>2. i \in 1 .. Len(K[x]) /\ i \in 0 .. n
    BY <1>1 DEF n
  <2>3. c \in S /\ Ready(Constructed(v, B), NewIn(J, B), B, c, K, m)
    <3> HIDE DEF v
    <3> QED
      BY <2>1, <2>2, ReadyChild
  <2>4. Cardinality(Under(K, c)) <= (d - 1) + 1
    <3>0. ASSUME NEW y \in A PROVE Cardinality(Under(K, y)) \in Nat
      <4>1. Cardinality(Under(K, y)) \in 1 .. Cardinality(A)
        BY <1>1, UnderCounts
      <4>2. Cardinality(A) \in Nat
        BY <1>1, FS_CardinalityType
      <4> QED
        BY <4>1, <4>2
    <3>1. \A j \in 1 .. Len(K[x]) : Cardinality(Under(K, K[x][j])) < Cardinality(Under(K, x))
      BY <1>1, UnderCounts
    <3>2. K[x][i] \in A
      BY <2>2, <1>1
    <3> DEFINE p == Cardinality(Under(K, K[x][i]))  q == Cardinality(Under(K, x))
    <3>3. p \in Nat /\ q \in Nat /\ p < q /\ q <= d + 1
      BY <3>0, <3>1, <3>2, <2>2, <1>1
    <3> HIDE DEF p, q
    <3>4. p <= (d - 1) + 1
      BY <3>3
    <3> QED
      BY <3>4 DEF p
  <2> HIDE DEF c, B, v
  <2> DEFINE w == h[d - 1][<<Constructed(v, B), B, c>>]
  <2>5. PICK H : Holds(w, H) /\ Grown(H, K, m, NewIn(J, B), B, c, Under(K, c) \ {c}, Len(K[c]))
    BY <2>3, <2>4 DEF CopiesWell
  <2>6. a[i] = Appended(w, g, B)
    BY <1>5 DEF c, B, v
  <2> HIDE DEF w
  <2>7. c = K[x][i] /\ B = m[c]
    BY DEF c, B
  <2>8. \E F : Holds(Appended(w, g, B), F) /\ Grown(F, K, m, L, g, x, Upto(K, x, i), i)
    BY <2>1, <2>2, <2>5, <2>7, CopyChild
  <2> QED
    BY <2>2, <2>6, <2>8
<1>8. \A i \in 0 .. n : i \in T
  <2> HIDE DEF T
  <2> QED
    BY <1>1, <1>6, <1>7, NatSteps, Zenon
<1>9. n \in 0 .. n
  BY <1>1
<1>10. PICK J : Holds(a[n], J) /\ Grown(J, K, m, L, g, x, Upto(K, x, n), n)
  BY <1>8, <1>9
<1>11. Upto(K, x, n) = Under(K, x) \ {x}
  BY UptoIs DEF n
<1> QED
  BY <1>4, <1>10, <1>11 DEF call, n

LEMMA CopiesHold ==
    ASSUME NEW A, NEW K, NEW m, NEW S, Plan(A, K, m, S), NEW N \in Nat, NEW h, Clones(h, K, m, S, N)
    PROVE  \A d \in 0 .. N : CopiesWell(h[d], d, K, m, S)
<1>1. K \in [A -> Seq(A)] /\ NoCircle(K) /\ S \subseteq A /\ IsFiniteSet(A)
  BY DEF Plan, Lists
<1> DEFINE T == {d \in 0 .. N : CopiesWell(h[d], d, K, m, S)}
<1>2. 0 \in T
  <2> SUFFICES ASSUME NEW x \in S, NEW u, NEW L, NEW g, Ready(u, L, g, x, K, m),
                      Cardinality(Under(K, x)) <= 0 + 1
               PROVE  \E J : Holds(h[0][<<u, g, x>>], J)
                             /\ Grown(J, K, m, L, g, x, Under(K, x) \ {x}, Len(K[x]))
    BY DEF CopiesWell
  <2>1. Holds(u, L) /\ u \in Trees /\ g \in u.alive /\ g \in Node /\ L \in [u.alive -> Seq(u.alive)]
    BY DEF Ready, Holds, Lists, Trees
  <2>2. h[0][<<u, g, x>>] = u
    <3> DEFINE call == <<u, g, x>>
    <3>1. call \in Trees \X Node \X S /\ call[1] = u
      BY <2>1
    <3> HIDE DEF call
    <3>2. h[0][call] = call[1]
      BY <3>1 DEF Clones
    <3> QED
      BY <3>1, <3>2 DEF call
  <2>3. Len(K[x]) = 0
    <3> SUFFICES ASSUME Len(K[x]) # 0 PROVE FALSE
      OBVIOUS
    <3>1. 1 \in 1 .. Len(K[x]) /\ K[x][1] \in A
      BY <1>1
    <3>2. /\ Cardinality(Under(K, x)) \in Nat /\ Cardinality(Under(K, K[x][1])) < Cardinality(Under(K, x))
      BY <3>1, <1>1, UnderCounts, SMTT(45)
    <3>3. Cardinality(Under(K, K[x][1])) \in Nat /\ Cardinality(Under(K, K[x][1])) # 0
      BY <3>1, <1>1, UnderCounts
    <3> QED
      BY <3>2, <3>3
  <2>4. Under(K, x) \ {x} = {}
    <3>1. K[x] = <<>>
      BY <2>3, <1>1
    <3>2. x \in A
      BY <1>1
    <3> QED
      BY <3>1, <3>2, <1>1, UnderLeaf
  <2>5. Grown(L, K, m, L, g, x, {}, 0)
    <3>1. Len(L[g]) \in Nat
      BY <2>1
    <3> QED
      BY <3>1, GrownNone
  <2> QED
    BY <2>1, <2>2, <2>3, <2>4, <2>5
<1>3. ASSUME NEW d \in 1 .. N, d - 1 \in T PROVE d \in T
  <2>1. CopiesWell(h[d - 1], d - 1, K, m, S) /\ d \in 0 .. N
    BY <1>3
  <2>2. CopiesWell(h[d], d, K, m, S)
    <3> SUFFICES ASSUME NEW x \in S, NEW u, NEW L, NEW g, Ready(u, L, g, x, K, m),
                        Cardinality(Under(K, x)) <= d + 1
                 PROVE  \E J : Holds(h[d][<<u, g, x>>], J)
                               /\ Grown(J, K, m, L, g, x, Under(K, x) \ {x}, Len(K[x]))
      BY Zenon DEF CopiesWell
    <3> QED
      BY <2>1, CopyDeeper
  <2> QED
    BY <2>1, <2>2
<1> HIDE DEF T
<1>4. \A d \in 0 .. N : d \in T
  BY <1>2, <1>3, NatSteps, Zenon
<1> QED
  BY <1>4 DEF T

LEMMA ClonedIntoHolds ==
    ASSUME NEW t, NEW K, Holds(t, K), NEW m, NEW source, NEW S, S = DOMAIN m \cup {source},
           Plan(t.alive, K, m, S), NEW target, Ready(t, K, target, source, K, m)
    PROVE  \E J : Holds(ClonedInto(t, target, source, m), J)
                  /\ Grown(J, K, m, K, target, source, Under(K, source) \ {source}, Len(K[source]))
<1> DEFINE N == Cardinality(Node)
<1>1. PICK h : Clones(h, K, m, S, N) /\ ClonedInto(t, target, source, m) = h[N][<<t, target, source>>]
  <2>1. PICK h : IsClonedBy(h, t, K, target, source, m, S)
    BY ClonedBy
  <2> QED
    BY <2>1 DEF IsClonedBy
<1>2. N \in Nat /\ N \in 0 .. N
  BY NodesAre
<1>3. Cardinality(Under(K, source)) <= N + 1
  <2>1. t.alive \subseteq Node /\ IsFiniteSet(t.alive) /\ K \in [t.alive -> Seq(t.alive)] /\ NoCircle(K)
        /\ source \in t.alive
    BY DEF Plan, Lists
  <2>2. Cardinality(Under(K, source)) \in 1 .. Cardinality(t.alive)
    BY <2>1, UnderCounts
  <2>3. Cardinality(t.alive) <= N /\ Cardinality(t.alive) \in Nat
    BY <2>1, NodesAre, FS_Subset, FS_CardinalityType
  <2> QED
    BY <2>2, <2>3, <1>2
<1> HIDE DEF N
<1>4. CopiesWell(h[N], N, K, m, S)
  BY <1>1, <1>2, CopiesHold
<1>5. source \in S
  OBVIOUS
<1> QED
  BY <1>1, <1>3, <1>4, <1>5 DEF CopiesWell

\* What is below a node depends on the lists there.
Alike(J, B, K, n) == \A x \in Under(K, n) : x \in B /\ J[x] = K[x]

LEMMA UnderAlike ==
    ASSUME NEW A, NEW K, NEW B, NEW J, NEW n \in A,
           K \in [A -> Seq(A)] /\ J \in [B -> Seq(B)] /\ Alike(J, B, K, n)
    PROVE  Under(J, n) = Under(K, n)
<1> DEFINE U == Under(K, n)  V == Under(J, n)
<1>1. U \subseteq A /\ n \in U /\ Closed(K, U) /\ U \subseteq B /\ n \in B
  BY UnderIs DEF Alike
<1>2. \A x \in U : J[x] = K[x]
  BY DEF Alike
<1>3. V \subseteq B /\ n \in V /\ Closed(J, V)
  BY <1>1, UnderIs
<1> HIDE DEF U, V
<1>4. V \subseteq U
  <2>1. Closed(J, U)
    BY <1>1, <1>2 DEF Closed
  <2> QED
    BY <2>1, <1>1, UnderIs DEF V
<1>5. U \subseteq V
  <2>1. Closed(K, V)
    BY <1>2, <1>3, <1>4 DEF Closed
  <2>2. V \in SUBSET A
    BY <1>1, <1>4
  <2> QED
    BY <2>1, <2>2, <1>3, UnderIs DEF U
<1> QED
  BY <1>4, <1>5 DEF U, V

\* The list has copies of the children of x, and nothing else.
LEMMA GrownFromNone ==
    ASSUME NEW B, NEW s \in Seq(B), NEW r, Len(s) = Len(r), Len(r) \in Nat, NEW m,
           \A k \in 1 .. Len(r) : s[k] = m[r[k]]
    PROVE  s = [k \in 1 .. Len(r) |-> m[r[k]]]
<1>1. s = [k \in 1 .. Len(r) |-> s[k]]
  OBVIOUS
<1> QED
  BY <1>1

\* The copies m[x] of the nodes of S are in J, all else is as in K.
Copied(J, K, m, S) ==
    /\ DOMAIN J = DOMAIN K \cup {m[y] : y \in S}
    /\ \A z \in DOMAIN K : J[z] = K[z]
    /\ \A y \in S : J[m[y]] = [k \in 1 .. Len(K[y]) |-> m[K[y][k]]]

LEMMA ClonedHolds ==
    ASSUME NEW t, NEW K, Holds(t, K), NEW n \in t.alive, NEW m \in Copies(t, Below(t, n))
    PROVE  \E J : /\ Holds(ClonedInto(Constructed(t, m[n]), m[n], n, m), J)
                  /\ Copied(J, K, m, Under(K, n))
<1> DEFINE A == t.alive  S == Under(K, n)  b == m[n]  u == Constructed(t, b)  H == NewIn(K, b)
<1>1. /\ A \subseteq Node /\ IsFiniteSet(A) /\ K \in [A -> Seq(A)] /\ DOMAIN K = A /\ NoCircle(K) /\ t \in Trees
      /\ \A x \in A \ Element : K[x] = <<>>
  <2>1. A \subseteq Node /\ K \in [A -> Seq(A)] /\ NoCircle(K) /\ t \in Trees /\ \A x \in A \ Element : K[x] = <<>>
    BY DEF Holds, Lists, Trees
  <2> QED
    BY <2>1, NodesAre, FS_Subset
<1>2. S \subseteq A /\ n \in S /\ Closed(K, S)
  BY <1>1, UnderIs
<1>3. /\ m \in [S -> Node \ A] /\ DOMAIN m = S
      /\ \A x, y \in S : m[x] = m[y] => x = y
      /\ \A x \in S : Kind[m[x]] = Kind[x] /\ m[x] \in Node /\ m[x] \notin A
  <2>1. Below(t, n) = S
    BY BelowIs
  <2> HIDE DEF S
  <2> QED
    BY <2>1 DEF Copies
<1>4. Holds(u, H) /\ u.alive = A \cup {b} /\ b \in Node /\ b \notin A
  <2>1. b \in Node \ A
    BY <1>2, <1>3
  <2>2. Holds(u, H)
    BY <2>1, ConstructedHolds
  <2> QED
    BY <2>1, <2>2, <1>1 DEF Constructed, Trees
<1> HIDE DEF u, S
<1>5. H[b] = <<>> /\ (\A z \in A : H[z] = K[z]) /\ DOMAIN H = A \cup {b}
  BY <1>1, <1>4 DEF NewIn
<1> HIDE DEF H
<1>6. H \in [u.alive -> Seq(u.alive)] /\ Lists(u.alive, H) /\ Once(H) /\ NoCircle(H) /\ u.alive \subseteq Node
      /\ IsFiniteSet(u.alive)
  <2>1. H \in [u.alive -> Seq(u.alive)] /\ Lists(u.alive, H) /\ Once(H) /\ NoCircle(H) /\ u.alive \subseteq Node
    BY <1>4 DEF Holds, Lists, Trees
  <2> QED
    BY <2>1, NodesAre, FS_Subset
<1>7. Under(H, n) = S
  <2>1. \A x \in Under(K, n) : x \in u.alive /\ H[x] = K[x]
    BY <1>2, <1>4, <1>5 DEF S
  <2> DEFINE C == u.alive
  <2>2. H \in [C -> Seq(C)] /\ Alike(H, C, K, n)
    BY <1>6, <2>1 DEF Alike
  <2>a. K \in [A -> Seq(A)] /\ n \in A
    BY <1>1
  <2> HIDE DEF C, A
  <2>3. Under(H, n) = Under(K, n)
    BY <2>a, <2>2, UnderAlike
  <2> QED
    BY <2>3 DEF S
<1>8. Plan(u.alive, H, m, S)
  BY <1>2, <1>3, <1>4, <1>5, <1>6 DEF Plan, Closed
<1>9. Ready(u, H, b, n, H, m)
  <2>1. H[n] # <<>> => b \in Element
    BY <1>1, <1>2, <1>3, <1>5 DEF Element
  <2>2. \A y \in S \ {n} : m[y] \notin u.alive
    BY <1>2, <1>3, <1>4
  <2> QED
    BY <2>1, <2>2, <1>4, <1>7 DEF Ready
<1>10. S = DOMAIN m \cup {n}
  BY <1>2, <1>3
<1>11. PICK J : /\ Holds(ClonedInto(u, b, n, m), J)
                /\ Grown(J, H, m, H, b, n, Under(H, n) \ {n}, Len(H[n]))
  <2> HIDE DEF b
  <2> QED
    BY <1>4, <1>8, <1>9, <1>10, ClonedIntoHolds
<1>12. /\ DOMAIN J = DOMAIN H \cup {m[y] : y \in S \ {n}}
       /\ \A z \in DOMAIN H \ {b} : J[z] = H[z]
       /\ Len(J[b]) = Len(H[b]) + Len(H[n])
       /\ \A k \in 1 .. Len(H[n]) : J[b][Len(H[b]) + k] = m[H[n][k]]
       /\ \A y \in S \ {n} : J[m[y]] = [k \in 1 .. Len(H[y]) |-> m[H[y][k]]]
  BY <1>7, <1>11 DEF Grown
<1>13. DOMAIN J = A \cup {m[y] : y \in S}
  BY <1>2, <1>5, <1>12
<1>14. \A z \in A : J[z] = K[z]
  BY <1>4, <1>5, <1>12
<1>15. J[b] = [k \in 1 .. Len(K[n]) |-> m[K[n][k]]]
  <2> DEFINE s == J[b]  r == K[n]
  <2>1. J \in [DOMAIN J -> Seq(DOMAIN J)]
    BY <1>11 DEF Holds, Lists
  <2>2. s \in Seq(DOMAIN J)
    BY <2>1, <1>5, <1>12
  <2>3. Len(r) \in Nat /\ H[n] = r /\ Len(H[b]) = 0
    BY <1>1, <1>5
  <2>4. Len(s) = Len(r)
    BY <2>3, <1>12
  <2>5. \A k \in 1 .. Len(r) : s[k] = m[r[k]]
    <3>1. \A k \in 1 .. Len(r) : 0 + k = k
      BY <2>3
    <3> QED
      BY <3>1, <2>3, <1>12
  <2> HIDE DEF s, r
  <2>6. s = [k \in 1 .. Len(r) |-> m[r[k]]]
    BY <2>2, <2>3, <2>4, <2>5, GrownFromNone
  <2> QED
    BY <2>6 DEF s, r
<1>16. \A y \in S : J[m[y]] = [k \in 1 .. Len(K[y]) |-> m[K[y][k]]]
  BY <1>2, <1>5, <1>12, <1>15
<1>17. Copied(J, K, m, S)
  BY <1>1, <1>13, <1>14, <1>16 DEF Copied
<1> QED
  BY <1>11, <1>17 DEF u, S

\* The target owns copies of what the source owns, and no more what it owned.
Assigned(J, K, m, e, source) ==
    /\ DOMAIN J = (DOMAIN K \ (Under(K, e) \ {e})) \cup {m[y] : y \in Under(K, source) \ {source}}
    /\ \A z \in DOMAIN K \ Under(K, e) : J[z] = K[z]
    /\ J[e] = [k \in 1 .. Len(K[source]) |-> m[K[source][k]]]
    /\ \A y \in Under(K, source) \ {source} : J[m[y]] = [k \in 1 .. Len(K[y]) |-> m[K[y][k]]]

\* m is to name copies of what is below the source.
AssignedWith(t, K, m, e, source) ==
    /\ m \in [Under(K, source) \ {source} -> Node \ (t.alive \ (Under(K, e) \ {e}))]
    /\ \A x, y \in Under(K, source) \ {source} : m[x] = m[y] => x = y

LEMMA AssignedHolds ==
    ASSUME NEW t, NEW K, Holds(t, K), NEW e \in t.alive, e \in Element, NEW source \in t.alive,
           source \notin Below(t, e), e \notin Below(t, source),
           NEW m \in Copies(Cleared(t, e), Below(Cleared(t, e), source) \ {source})
    PROVE  /\ AssignedWith(t, K, m, e, source)
           /\ \E J : /\ Holds(ClonedInto(Cleared(t, e), e, source, m), J)
                     /\ Assigned(J, K, m, e, source)
<1> DEFINE A == t.alive  S == Under(K, source)  V == Under(K, e)
           u == Cleared(t, e)  H == GoneFrom(K, V \ {e})
<1>1. A \subseteq Node /\ K \in [A -> Seq(A)] /\ DOMAIN K = A /\ NoCircle(K) /\ Once(K)
  BY DEF Holds, Lists, Trees
<1>2. S \subseteq A /\ source \in S /\ Closed(K, S) /\ e \in V /\ V \subseteq A
  BY <1>1, UnderIs
<1>3. source \notin V /\ e \notin S
  BY BelowIs
<1>4. S \cap V = {}
  BY <1>1, <1>3, UnderMeets
<1>5. Holds(u, H) /\ H = [x \in A \ (V \ {e}) |-> IF x = e THEN <<>> ELSE K[x]]
  <2>1. /\ Holds(Cleared(t, e), GoneFrom(K, Under(K, e) \ {e}))
        /\ GoneFrom(K, Under(K, e) \ {e}) = Emptied(t.alive, K, e)
    BY ClearedIs
  <2> QED
    BY <2>1 DEF Emptied
<1> HIDE DEF S, V, u
<1>6. /\ DOMAIN H = A \ (V \ {e}) /\ H[e] = <<>> /\ \A x \in A \ V : H[x] = K[x]
  BY <1>2, <1>5
<1> HIDE DEF H
<1>7. /\ H \in [u.alive -> Seq(u.alive)] /\ u.alive = A \ (V \ {e}) /\ Lists(u.alive, H) /\ Once(H) /\ NoCircle(H)
      /\ u.alive \subseteq Node /\ IsFiniteSet(u.alive)
  <2>1. H \in [u.alive -> Seq(u.alive)] /\ Lists(u.alive, H) /\ Once(H) /\ NoCircle(H) /\ u.alive \subseteq Node
    BY <1>5 DEF Holds, Lists, Trees
  <2>2. u.alive = A \ (V \ {e})
    BY <2>1, <1>6
  <2> QED
    BY <2>1, <2>2, NodesAre, FS_Subset
<1>8. S \subseteq u.alive /\ (\A x \in S : x # e /\ H[x] = K[x]) /\ e \in u.alive
  BY <1>2, <1>3, <1>4, <1>6, <1>7
<1>9. Under(H, source) = S
  <2> DEFINE C == u.alive
  <2>1. H \in [C -> Seq(C)] /\ Alike(H, C, K, source)
    BY <1>7, <1>8 DEF S, Alike
  <2>a. K \in [A -> Seq(A)] /\ source \in A
    BY <1>1
  <2> HIDE DEF C, A
  <2>2. Under(H, source) = Under(K, source)
    BY <2>a, <2>1, UnderAlike
  <2> QED
    BY <2>2 DEF S
<1>10. /\ m \in [S \ {source} -> Node \ u.alive] /\ DOMAIN m = S \ {source}
       /\ \A x, y \in S \ {source} : m[x] = m[y] => x = y
       /\ \A x \in S \ {source} : Kind[m[x]] = Kind[x] /\ m[x] \in Node /\ m[x] \notin u.alive
  <2>1. Below(u, source) = S
    BY <1>2, <1>5, <1>8, <1>9, BelowIs
  <2>2. m \in Copies(u, S \ {source})
    BY <2>1 DEF u
  <2> QED
    BY <2>2 DEF Copies
<1>11. \A x \in S : \A k \in 1 .. Len(K[x]) : K[x][k] \in S \ {source}
  <2> SUFFICES ASSUME NEW x \in S, NEW k \in 1 .. Len(K[x]) PROVE K[x][k] \in S \ {source}
    OBVIOUS
  <2>1. K[x][k] \in S /\ x \in A
    BY <1>2 DEF Closed
  <2>2. x \notin Under(K, K[x][k])
    BY <2>1, <1>1, UnderShrinks
  <2> QED
    BY <2>1, <2>2 DEF S
<1>12. S = DOMAIN m \cup {source}
  BY <1>2, <1>10
<1>13. Plan(u.alive, H, m, S)
  BY <1>7, <1>8, <1>10, <1>11 DEF Plan
<1>14. Ready(u, H, e, source, H, m)
  BY <1>5, <1>8, <1>9, <1>10 DEF Ready
<1>15. PICK J : /\ Holds(ClonedInto(u, e, source, m), J)
                /\ Grown(J, H, m, H, e, source, Under(H, source) \ {source}, Len(H[source]))
  BY <1>5, <1>12, <1>13, <1>14, ClonedIntoHolds
<1>16. /\ DOMAIN J = DOMAIN H \cup {m[y] : y \in S \ {source}}
       /\ \A z \in DOMAIN H \ {e} : J[z] = H[z]
       /\ Len(J[e]) = Len(H[e]) + Len(H[source])
       /\ \A k \in 1 .. Len(H[source]) : J[e][Len(H[e]) + k] = m[H[source][k]]
       /\ \A y \in S \ {source} : J[m[y]] = [k \in 1 .. Len(H[y]) |-> m[H[y][k]]]
  BY <1>9, <1>15 DEF Grown
<1>17. \A z \in A \ V : J[z] = K[z]
  BY <1>2, <1>6, <1>16
<1>18. J[e] = [k \in 1 .. Len(K[source]) |-> m[K[source][k]]]
  <2> DEFINE s == J[e]  r == K[source]
  <2>1. J \in [DOMAIN J -> Seq(DOMAIN J)]
    BY <1>15 DEF Holds, Lists
  <2>2. s \in Seq(DOMAIN J)
    BY <2>1, <1>2, <1>6, <1>16
  <2>3. Len(r) \in Nat /\ H[source] = r /\ Len(H[e]) = 0
    BY <1>1, <1>2, <1>6, <1>8
  <2>4. Len(s) = Len(r)
    BY <2>3, <1>16
  <2>5. \A k \in 1 .. Len(r) : s[k] = m[r[k]]
    <3>1. \A k \in 1 .. Len(r) : 0 + k = k
      BY <2>3
    <3> QED
      BY <3>1, <2>3, <1>16
  <2> HIDE DEF s, r
  <2>6. s = [k \in 1 .. Len(r) |-> m[r[k]]]
    BY <2>2, <2>3, <2>4, <2>5, GrownFromNone
  <2> QED
    BY <2>6 DEF s, r
<1>19. \A y \in S \ {source} : J[m[y]] = [k \in 1 .. Len(K[y]) |-> m[K[y][k]]]
  BY <1>8, <1>16
<1>20. Assigned(J, K, m, e, source)
  BY <1>1, <1>6, <1>16, <1>17, <1>18, <1>19 DEF Assigned, S, V
<1>21. AssignedWith(t, K, m, e, source)
  BY <1>7, <1>10 DEF AssignedWith, S, V
<1> QED
  BY <1>15, <1>20, <1>21 DEF u

-----------------------------------------------------------------------------
(* What the lists say of the pointers.                                     *)

\* The pointers are those of a forest of lists.
Listed == \E K : Holds(tree, K)

LEMMA HoldsType ==
    ASSUME NEW K, Holds(tree, K)
    PROVE  TreeTypeOK
<1>1. /\ tree.alive \in SUBSET Node /\ tree.parent \in [Node -> Pointer] /\ tree.next \in [Node -> Pointer]
      /\ tree.prev \in [Node -> Pointer] /\ tree.first \in [Node -> Pointer] /\ tree.last \in [Node -> Pointer]
  BY DEF Holds, Trees
<1>2. ASSUME NEW n \in Node \ Elements PROVE tree.first[n] = None /\ tree.last[n] = None
  <2>1. n \in tree.alive => K[n] = <<>>
    BY <1>2 DEF Holds, Lists, Elements, Sound
  <2> QED
    BY <2>1 DEF Holds, Ends
<1> QED
  BY <1>1, <1>2 DEF TreeTypeOK

\* Where a node is that has a parent, and what its pointers are there.
LEMMA PlaceIs ==
    ASSUME NEW K, Holds(tree, K), NEW n \in tree.alive, NEW e, tree.parent[n] = e, e # None
    PROVE  /\ e \in tree.alive
           /\ \E i \in 1 .. Len(K[e]) :
                /\ K[e][i] = n
                /\ tree.prev[n] = IF i = 1 THEN None ELSE K[e][i - 1]
                /\ tree.next[n] = IF i = Len(K[e]) THEN None ELSE K[e][i + 1]
<1>1. n \in Node
  BY ListIs
<1>2. e \in tree.alive /\ \E p \in 1 .. Len(K[e]) : K[e][p] = n
  BY <1>1, ParentIs
<1>3. PICK p \in 1 .. Len(K[e]) : K[e][p] = n
  BY <1>2
<1>4. Links(tree, K)
  BY DEF Holds
<1>5. /\ tree.prev[K[e][p]] = IF p = 1 THEN None ELSE K[e][p - 1]
      /\ tree.next[K[e][p]] = IF p = Len(K[e]) THEN None ELSE K[e][p + 1]
  BY <1>2, <1>4 DEF Links
<1> QED
  BY <1>2, <1>3, <1>5

LEMMA HoldsLinked ==
    ASSUME NEW K, Holds(tree, K)
    PROVE  Linked
<1> DEFINE A == tree.alive
<1>1. \A n \in A : n \in Node /\ ChildrenOf(tree, n) = K[n] /\ K[n] \in Seq(A) /\ Len(K[n]) \in Nat
  <2> SUFFICES ASSUME NEW n \in A PROVE n \in Node /\ ChildrenOf(tree, n) = K[n] /\ K[n] \in Seq(A) /\ Len(K[n]) \in Nat
    OBVIOUS
  <2>1. n \in Node /\ K[n] \in Seq(A)
    BY ListIs
  <2> QED
    BY <2>1, ChildrenAre
<1>2. \A e \in A : \A i \in 1 .. Len(K[e]) :
        /\ K[e][i] \in A /\ K[e][i] # None /\ tree.parent[K[e][i]] = e
        /\ tree.prev[K[e][i]] = IF i = 1 THEN None ELSE K[e][i - 1]
        /\ tree.next[K[e][i]] = IF i = Len(K[e]) THEN None ELSE K[e][i + 1]
  <2>1. \A e \in A : \A i \in 1 .. Len(K[e]) : K[e][i] \in A /\ K[e][i] # None
    BY ListIs
  <2>2. Links(tree, K)
    BY DEF Holds
  <2> QED
    BY <2>1, <2>2 DEF Links
<1>3. ASSUME NEW n \in A
      PROVE  tree.parent[n] = None => tree.next[n] = None /\ tree.prev[n] = None
  <2>1. n \in Node
    BY <1>1
  <2>2. tree.parent[n] = None => \A e \in A : ~In(K[e], n)
    BY <2>1, ParentIs
  <2> QED
    BY <2>1, <2>2 DEF Holds, Unlinked
<1>4. ASSUME NEW n \in A, tree.parent[n] # None
      PROVE  \E e \in A : \E i \in 1 .. Len(K[e]) :
                /\ K[e][i] = n /\ e = tree.parent[n]
                /\ tree.prev[n] = IF i = 1 THEN None ELSE K[e][i - 1]
                /\ tree.next[n] = IF i = Len(K[e]) THEN None ELSE K[e][i + 1]
  BY <1>4, PlaceIs
<1>5. ASSUME NEW n \in A
      PROVE  /\ tree.next[n] # None => tree.prev[tree.next[n]] = n
             /\ tree.prev[n] # None => tree.next[tree.prev[n]] = n
             /\ tree.parent[n] = None => tree.next[n] = None /\ tree.prev[n] = None
             /\ tree.parent[n] # None => n \in ToSet(ChildrenOf(tree, tree.parent[n]))
  <2>1. CASE tree.parent[n] = None
    BY <2>1, <1>3
  <2>2. CASE tree.parent[n] # None
    <3>a. PICK e \in A : \E i \in 1 .. Len(K[e]) :
                /\ K[e][i] = n /\ e = tree.parent[n]
                /\ tree.prev[n] = IF i = 1 THEN None ELSE K[e][i - 1]
                /\ tree.next[n] = IF i = Len(K[e]) THEN None ELSE K[e][i + 1]
      BY <2>2, <1>4
    <3>1. PICK i \in 1 .. Len(K[e]) :
                /\ K[e][i] = n /\ e = tree.parent[n]
                /\ tree.prev[n] = IF i = 1 THEN None ELSE K[e][i - 1]
                /\ tree.next[n] = IF i = Len(K[e]) THEN None ELSE K[e][i + 1]
      BY <3>a
    <3> DEFINE L == Len(K[e])
    <3>2. L \in Nat /\ i \in 1 .. L
      BY <1>1
    <3>3. i # L => tree.next[n] = K[e][i + 1] /\ i + 1 \in 1 .. L /\ i + 1 # 1 /\ (i + 1) - 1 = i
      BY <3>1, <3>2
    <3>4. i # L => tree.prev[tree.next[n]] = n
      BY <3>1, <3>3, <1>2
    <3>5. i # 1 => tree.prev[n] = K[e][i - 1] /\ i - 1 \in 1 .. L /\ i - 1 # L /\ (i - 1) + 1 = i
      BY <3>1, <3>2
    <3>6. i # 1 => tree.next[tree.prev[n]] = n
      BY <3>1, <3>5, <1>2
    <3>7. n \in ToSet(K[e])
      <4>1. K[e] \in Seq(A)
        BY <1>1
      <4> QED
        BY <4>1, <3>1 DEF ToSet
    <3>8. ChildrenOf(tree, tree.parent[n]) = K[e]
      BY <3>1, <1>1
    <3> QED
      BY <2>2, <3>1, <3>4, <3>6, <3>7, <3>8
  <2> QED
    BY <2>1, <2>2
<1>6. ASSUME NEW e \in A
      PROVE  /\ \A n \in ToSet(ChildrenOf(tree, e)) : tree.parent[n] = e
             /\ (tree.first[e] = None) = (tree.last[e] = None)
             /\ tree.first[e] # None => /\ tree.prev[tree.first[e]] = None
                                       /\ tree.next[tree.last[e]] = None
                                       /\ tree.last[e] = Last(ChildrenOf(tree, e))
  <2> DEFINE s == K[e]  L == Len(K[e])
  <2>1. /\ ChildrenOf(tree, e) = s /\ s \in Seq(A) /\ L \in Nat /\ (s = <<>> <=> L = 0)
        /\ tree.first[e] = (IF s # <<>> THEN s[1] ELSE None)
        /\ tree.last[e] = (IF s # <<>> THEN s[L] ELSE None)
    <3>1. e \in Node /\ s \in Seq(A) /\ ChildrenOf(tree, e) = s
      BY <1>1
    <3> QED
      BY <3>1 DEF Holds, Ends
  <2>2. \A n \in ToSet(s) : tree.parent[n] = e
    BY <2>1, <1>2 DEF ToSet
  <2>3. CASE s = <<>>
    BY <2>1, <2>2, <2>3
  <2>4. CASE s # <<>>
    <3>1. 1 \in 1 .. L /\ L \in 1 .. L
      BY <2>1, <2>4
    <3>2. s[1] # None /\ s[L] # None /\ tree.prev[s[1]] = None /\ tree.next[s[L]] = None
      BY <3>1, <1>2
    <3>3. Last(s) = s[L]
      BY DEF Last
    <3> QED
      BY <2>1, <2>2, <2>4, <3>2, <3>3
  <2> QED
    BY <2>3, <2>4
<1> QED
  BY <1>5, <1>6 DEF Linked, Sound, Elements

LEMMA HoldsRest ==
    ASSUME NEW K, Holds(tree, K)
    PROVE  NothingDangles /\ OwnedOnce
<1> DEFINE A == tree.alive
<1>1. A \subseteq Node /\ K \in [A -> Seq(A)] /\ NoCircle(K) /\ Once(K)
  BY DEF Holds, Lists, Trees
<1>2. \A e \in A : K[e] \in Seq(A) /\ Len(K[e]) \in Nat /\ \A i \in 1 .. Len(K[e]) : K[e][i] \in A
  BY <1>1
<1>3. NothingDangles
  <2> SUFFICES ASSUME NEW n \in A
               PROVE  /\ tree.parent[n] \in A \cup {None} /\ tree.next[n] \in A \cup {None}
                      /\ tree.prev[n] \in A \cup {None} /\ tree.first[n] \in A \cup {None}
                      /\ tree.last[n] \in A \cup {None}
    BY DEF NothingDangles, Sound
  <2>1. tree.first[n] \in A \cup {None} /\ tree.last[n] \in A \cup {None}
    <3>1. K[n] # <<>> => 1 \in 1 .. Len(K[n]) /\ Len(K[n]) \in 1 .. Len(K[n])
      BY <1>2
    <3> QED
      BY <3>1, <1>1, <1>2 DEF Holds, Ends
  <2>2. CASE tree.parent[n] = None
    <3>1. n \in Node /\ \A e \in A : ~In(K[e], n)
      BY <2>2, <1>1, ParentIs
    <3> QED
      BY <2>1, <2>2, <3>1 DEF Holds, Unlinked
  <2>3. CASE tree.parent[n] # None
    <3> DEFINE e == tree.parent[n]
    <3>1. /\ e \in A
          /\ \E i \in 1 .. Len(K[e]) :
                /\ K[e][i] = n
                /\ tree.prev[n] = IF i = 1 THEN None ELSE K[e][i - 1]
                /\ tree.next[n] = IF i = Len(K[e]) THEN None ELSE K[e][i + 1]
      BY <2>3, PlaceIs
    <3> HIDE DEF e
    <3>2. PICK i \in 1 .. Len(K[e]) :
                /\ tree.prev[n] = IF i = 1 THEN None ELSE K[e][i - 1]
                /\ tree.next[n] = IF i = Len(K[e]) THEN None ELSE K[e][i + 1]
      BY <3>1
    <3>3. (i # 1 => i - 1 \in 1 .. Len(K[e])) /\ (i # Len(K[e]) => i + 1 \in 1 .. Len(K[e]))
      BY <3>1, <1>2
    <3>4. tree.prev[n] \in A \cup {None} /\ tree.next[n] \in A \cup {None}
      BY <3>1, <3>2, <3>3, <1>2
    <3> QED
      BY <2>1, <3>1, <3>4 DEF e
  <2> QED
    BY <2>2, <2>3
<1>4. OwnedOnce
  <2> SUFFICES ASSUME NEW n \in A, NEW m \in A, n # m, tree.parent[n] = None, tree.parent[m] = None
               PROVE  Below(tree, n) \cap Below(tree, m) = {}
    BY DEF OwnedOnce, Sound
  <2>1. ASSUME NEW x \in A, NEW y \in A, tree.parent[x] = None, x # y
        PROVE  x \notin Under(K, y)
    <3>1. \A e \in A : ~In(K[e], x)
      BY <2>1, <1>1, ParentIs
    <3>2. Under(K, y) \subseteq A
      BY <1>1, UnderIs
    <3> QED
      BY <2>1, <3>1, <3>2, <1>1, UnderOwned
  <2>2. n \notin Under(K, m) /\ m \notin Under(K, n)
    BY <2>1
  <2>3. Under(K, n) \cap Under(K, m) = {}
    BY <2>2, <1>1, UnderMeets
  <2>4. Below(tree, n) = Under(K, n) /\ Below(tree, m) = Under(K, m)
    BY BelowIs
  <2> QED
    BY <2>3, <2>4
<1> QED
  BY <1>3, <1>4

LEMMA ListedInv ==
    ASSUME Listed
    PROVE  TreeInv
  BY HoldsType, HoldsLinked, HoldsRest DEF Listed, TreeInv

-----------------------------------------------------------------------------
(* What the operations do to the lists.                                    *)

LEMMA HasLists ==
    ASSUME NEW t, NEW K, Holds(t, K)
    PROVE  /\ DOMAIN K = t.alive /\ K \in [t.alive -> Seq(t.alive)] /\ t.alive \subseteq Node
           /\ \A e \in t.alive \ Element : K[e] = <<>>
           /\ Once(K) /\ NoCircle(K)
           /\ IsFiniteSet(t.alive)
<1>1. DOMAIN K = t.alive /\ K \in [t.alive -> Seq(t.alive)] /\ t.alive \subseteq Node
      /\ (\A e \in t.alive \ Element : K[e] = <<>>) /\ Once(K) /\ NoCircle(K)
  BY DEF Holds, Lists, Trees
<1>2. IsFiniteSet(Node)
  BY NodesAre
<1> QED
  BY <1>1, <1>2, FS_Subset

\* J are the lists K after one of the operations.
Unowned(K, n) == \A f \in DOMAIN K : ~In(K[f], n)
AddsNode(K, J) == \E n \in Node \ DOMAIN K : J = NewIn(K, n)
AddsPair(K, J) ==
    \E e \in Element \ DOMAIN K : \E text \in Text \ DOMAIN K :
        e # text /\ J = WithChild(NewIn(K, e), e, text)
AddsChild(K, J) == \E e \in DOMAIN K \cap Element : \E n \in Node \ DOMAIN K : J = WithChild(K, e, n)
GivesPlace(K, J) ==
    \E e \in DOMAIN K \cap Element : \E n \in DOMAIN K : \E p \in 1 .. Len(K[e]) + 1 :
        n # e /\ Unowned(K, n) /\ J = PlacedIn(K, e, n, p)
Takes(K, J) == \E e \in DOMAIN K : \E p \in 1 .. Len(K[e]) : J = TakenFrom(K, e, p)
Destroys(K, J) == \E n \in DOMAIN K : J = GoneFrom(K, Under(K, n))
Empties(K, J) == \E e \in DOMAIN K \cap Element : J = GoneFrom(K, Under(K, e) \ {e})
\* Of the texts of e, the one that is kept.
TextsGo(K, J) ==
    \E e \in DOMAIN K \cap Element : \E kept \in SUBSET (ToSet(K[e]) \cap Text) :
        /\ kept = {} \/ \E x : kept = {x}
        /\ J = GoneFrom(K, (ToSet(K[e]) \cap Text) \ kept)
CopiesTree(K, J) ==
    \E n \in DOMAIN K : \E m \in [Under(K, n) -> Node \ DOMAIN K] :
        /\ \A x, y \in Under(K, n) : m[x] = m[y] => x = y
        /\ Copied(J, K, m, Under(K, n))
AssignsWith(K, m, e, source) ==
    /\ m \in [Under(K, source) \ {source} -> Node \ (DOMAIN K \ (Under(K, e) \ {e}))]
    /\ \A x, y \in Under(K, source) \ {source} : m[x] = m[y] => x = y
Assigns(K, J) ==
    \E e, source \in DOMAIN K \cap Element :
        /\ source \notin Under(K, e) /\ e \notin Under(K, source)
        /\ \E m : AssignsWith(K, m, e, source) /\ Assigned(J, K, m, e, source)
Follows(K, J) ==
    \/ AddsNode(K, J) \/ AddsPair(K, J) \/ AddsChild(K, J) \/ GivesPlace(K, J)
    \/ J = K \/ Takes(K, J)
    \/ Destroys(K, J) \/ Empties(K, J) \/ TextsGo(K, J)
    \/ CopiesTree(K, J) \/ Assigns(K, J)

LEMMA NewNodeFollows ==
    ASSUME NEW K, Holds(tree, K), NEW n, NewNode(n)
    PROVE  \E J : Holds(tree', J) /\ AddsNode(K, J)
<1>1. n \in Node \ tree.alive /\ tree' = Constructed(tree, n)
  BY DEF NewNode, Sound
<1>2. Holds(tree', NewIn(K, n))
  BY <1>1, ConstructedHolds
<1>3. DOMAIN K = tree.alive
  BY HasLists
<1>4. AddsNode(K, NewIn(K, n))
  BY <1>1, <1>3 DEF AddsNode
<1> QED
  BY <1>2, <1>4

LEMMA NewPairFollows ==
    ASSUME NEW K, Holds(tree, K), NEW e, NEW text, NewElementWithText(e, text)
    PROVE  \E J : Holds(tree', J) /\ AddsPair(K, J)
<1> DEFINE t == Constructed(tree, e)
<1>1. /\ e \in Element \ tree.alive /\ text \in Text \ tree.alive
      /\ tree' = Appended(Constructed(Constructed(tree, e), text), e, text)
  BY DEF NewElementWithText, Sound
<1>2. e \in Node /\ text \in Node /\ e # text
  BY <1>1 DEF Element, Text
<1>3. Holds(t, NewIn(K, e))
  BY <1>1, <1>2, ConstructedHolds
<1>4. t.alive = tree.alive \cup {e}
  <2>1. tree \in Trees
    BY DEF Holds
  <2> QED
    BY <2>1 DEF Constructed, Trees
<1>5. e \in t.alive /\ text \in Node \ t.alive
  BY <1>1, <1>2, <1>4
<1> HIDE DEF t
<1>6. Holds(Appended(Constructed(t, text), e, text), WithChild(NewIn(K, e), e, text))
  BY <1>1, <1>3, <1>5, NewChildHolds
<1>7. Holds(tree', WithChild(NewIn(K, e), e, text))
  BY <1>1, <1>6 DEF t
<1>8. DOMAIN K = tree.alive
  BY HasLists
<1>9. AddsPair(K, WithChild(NewIn(K, e), e, text))
  BY <1>1, <1>2, <1>8 DEF AddsPair
<1> QED
  BY <1>7, <1>9

LEMMA ChildFollows ==
    ASSUME NEW K, Holds(tree, K), NEW e \in tree.alive, e \in Element, NEW n \in Node \ tree.alive,
           tree' = Appended(Constructed(tree, n), e, n)
    PROVE  \E J : Holds(tree', J) /\ AddsChild(K, J)
<1>1. Holds(tree', WithChild(K, e, n))
  BY NewChildHolds
<1>2. DOMAIN K = tree.alive
  BY HasLists
<1>3. AddsChild(K, WithChild(K, e, n))
  BY <1>2 DEF AddsChild
<1> QED
  BY <1>1, <1>3

LEMMA TakesPlace ==
    ASSUME AnyOrder = FALSE, NEW K, Holds(tree, K), NEW e, NEW n, MayTake(e, n)
    PROVE  /\ e \in tree.alive /\ e \in Element /\ n \in tree.alive /\ n # e
           /\ Len(K[e]) \in Nat
           /\ \A p \in 1 .. Len(K[e]) + 1 :
                MayPlace(tree, K, e, n, p) /\ GivesPlace(K, PlacedIn(K, e, n, p))
<1>1. /\ e \in tree.alive /\ e \in Element /\ n \in tree.alive /\ n # e
      /\ tree.parent[n] = None /\ e \notin Below(tree, n)
  BY DEF MayTake, Elements, Sound, Loose
<1>2. n \in Node /\ Len(K[e]) \in Nat
  BY <1>1, ListIs
<1>3. \A f \in tree.alive : ~In(K[f], n)
  BY <1>1, <1>2, ParentIs
<1>4. e \notin Under(K, n)
  BY <1>1, BelowIs
<1>5. DOMAIN K = tree.alive
  BY HasLists
<1>6. Unowned(K, n)
  BY <1>3, <1>5 DEF Unowned
<1> QED
  BY <1>1, <1>2, <1>3, <1>4, <1>5, <1>6 DEF MayPlace, GivesPlace

LEMMA PlaceFollows ==
    ASSUME AnyOrder = FALSE, NEW K, Holds(tree, K), NEW e, NEW n, NEW at,
           AppendChild(e, n) \/ InsertChildBefore(e, n, at) \/ InsertChildAfter(e, n, at)
    PROVE  \E J : Holds(tree', J) /\ GivesPlace(K, J)
<1>1. MayTake(e, n)
  BY DEF AppendChild, InsertChildBefore, InsertChildAfter
<1>2. /\ e \in tree.alive /\ e \in Element /\ n \in tree.alive /\ Len(K[e]) \in Nat
      /\ \A p \in 1 .. Len(K[e]) + 1 :
            MayPlace(tree, K, e, n, p) /\ GivesPlace(K, PlacedIn(K, e, n, p))
  BY <1>1, TakesPlace
<1>3. CASE AppendChild(e, n)
  <2> DEFINE p == Len(K[e]) + 1
  <2>1. p \in 1 .. Len(K[e]) + 1
    BY <1>2
  <2>2. Holds(Appended(tree, e, n), PlacedIn(K, e, n, p))
    BY <1>2, <2>1, InsertsHold
  <2> QED
    BY <1>2, <1>3, <2>1, <2>2 DEF AppendChild
<1>4. ASSUME at \in tree.alive, tree.parent[at] = e
      PROVE  \E p \in 1 .. Len(K[e]) : K[e][p] = at
  <2>1. at \in Node
    BY <1>4, ListIs
  <2>2. In(K[e], at)
    BY <1>2, <1>4, <2>1, ParentIs
  <2> QED
    BY <2>2 DEF In
<1>5. CASE InsertChildBefore(e, n, at)
  <2>1. at \in tree.alive /\ tree.parent[at] = e /\ tree' = InsertedBefore(tree, e, n, at)
    BY <1>5 DEF InsertChildBefore, Sound
  <2>2. PICK p \in 1 .. Len(K[e]) : K[e][p] = at
    BY <1>4, <2>1
  <2>3. p \in 1 .. Len(K[e]) + 1 /\ p # Len(K[e]) + 1
    BY <1>2
  <2>4. Holds(InsertedBefore(tree, e, n, K[e][p]), PlacedIn(K, e, n, p))
    BY <1>2, <2>3, InsertsHold
  <2> QED
    BY <1>2, <2>1, <2>2, <2>3, <2>4
<1>6. CASE InsertChildAfter(e, n, at)
  <2>1. at \in tree.alive /\ tree.parent[at] = e /\ tree' = InsertedAfter(tree, e, n, at)
    BY <1>6 DEF InsertChildAfter, Sound
  <2>2. PICK q \in 1 .. Len(K[e]) : K[e][q] = at
    BY <1>4, <2>1
  <2> DEFINE p == q + 1
  <2>3. p \in 1 .. Len(K[e]) + 1 /\ p # 1 /\ p - 1 = q
    BY <1>2
  <2> HIDE DEF p
  <2>4. Holds(InsertedAfter(tree, e, n, K[e][p - 1]), PlacedIn(K, e, n, p))
    BY <1>2, <2>3, InsertsHold
  <2> QED
    BY <1>2, <2>1, <2>2, <2>3, <2>4
<1> QED
  BY <1>3, <1>5, <1>6

LEMMA DetachFollows ==
    ASSUME NEW K, Holds(tree, K), NEW n, DetachNode(n)
    PROVE  \E J : Holds(tree', J) /\ (J = K \/ Takes(K, J))
<1>1. n \in tree.alive /\ tree' = Detached(tree, n)
  BY DEF DetachNode, Sound
<1>2. n \in Node /\ tree \in Trees /\ None \notin Node
  BY <1>1, ListIs, NodesAre DEF Holds
<1>3. CASE tree.parent[n] = None
  <2>1. \A e \in tree.alive : ~In(K[e], n)
    BY <1>2, <1>3, ParentIs
  <2>2. tree.prev[n] = None /\ tree.next[n] = None
    BY <1>2, <2>1 DEF Holds, Unlinked
  <2>3. Detached(tree, n) \in Trees
    BY <1>2, OperationsTyped
  <2>4. /\ Detached(tree, n).alive = tree.alive
        /\ \A x \in Node :
            /\ Detached(tree, n).first[x] = tree.first[x] /\ Detached(tree, n).last[x] = tree.last[x]
            /\ Detached(tree, n).parent[x] = tree.parent[x] /\ Detached(tree, n).prev[x] = tree.prev[x]
            /\ Detached(tree, n).next[x] = tree.next[x]
    BY <1>2, <1>3, <2>2 DEF Detached, Trees
  <2>5. tree' = tree
    BY <1>1, <1>2, <2>3, <2>4, TreesAlike
  <2> QED
    BY <2>5
<1>4. CASE tree.parent[n] # None
  <2> DEFINE e == tree.parent[n]
  <2>1. e \in tree.alive /\ \E p \in 1 .. Len(K[e]) : K[e][p] = n
    BY <1>2, <1>4, ParentIs
  <2> HIDE DEF e
  <2>2. PICK p \in 1 .. Len(K[e]) : K[e][p] = n
    BY <2>1
  <2>3. Holds(Detached(tree, K[e][p]), TakenFrom(K, e, p))
    BY <2>1, DetachedHolds
  <2>4. DOMAIN K = tree.alive
    BY HasLists
  <2>5. Takes(K, TakenFrom(K, e, p))
    BY <2>1, <2>4 DEF Takes
  <2> QED
    BY <1>1, <2>2, <2>3, <2>5
<1> QED
  BY <1>3, <1>4

LEMMA DeleteFollows ==
    ASSUME NEW K, Holds(tree, K), NEW n, DeleteNode(n)
    PROVE  \E J : Holds(tree', J) /\ Destroys(K, J)
<1>1. n \in tree.alive /\ tree' = Deleted(tree, n)
  BY DEF DeleteNode, Sound
<1>2. Holds(tree', GoneFrom(K, Under(K, n)))
  BY <1>1, DeletedIs
<1>3. Destroys(K, GoneFrom(K, Under(K, n)))
  BY <1>1, HasLists DEF Destroys
<1> QED
  BY <1>2, <1>3

LEMMA ClearFollows ==
    ASSUME NEW K, Holds(tree, K), NEW e, ClearElement(e)
    PROVE  \E J : Holds(tree', J) /\ Empties(K, J)
<1>1. e \in tree.alive /\ e \in Element /\ tree' = Cleared(tree, e)
  BY DEF ClearElement, Elements, Sound
<1>2. Holds(tree', GoneFrom(K, Under(K, e) \ {e}))
  BY <1>1, ClearedIs
<1>3. Empties(K, GoneFrom(K, Under(K, e) \ {e}))
  BY <1>1, HasLists DEF Empties
<1> QED
  BY <1>2, <1>3

\* The texts among the children, and what is there without the first.
LEMMA TextsAre ==
    ASSUME NEW K, Holds(tree, K), NEW e \in tree.alive, NEW texts, texts = TextsOf(tree, e)
    PROVE  /\ texts = Those(K[e], Text) /\ Leaves(K, e, texts)
           /\ ToSet(texts) = ToSet(K[e]) \cap Text
           /\ texts # <<>> =>
                /\ Head(texts) \in ToSet(K[e]) \cap Text
                /\ Leaves(K, e, Tail(texts))
                /\ ToSet(Tail(texts)) = (ToSet(K[e]) \cap Text) \ {Head(texts)}
<1> DEFINE A == tree.alive  s == K[e]
<1>1. /\ DOMAIN K = A /\ A \subseteq Node /\ s \in Seq(A) /\ Once(K)
      /\ \A x \in A \ Element : K[x] = <<>>
  BY HasLists
<1>2. texts = Those(s, Text)
  <2>1. e \in Node /\ ChildrenOf(tree, e) = s
    BY <1>1, ChildrenAre
  <2> QED
    BY <2>1 DEF TextsOf
<1>3. \A i, j \in 1 .. Len(s) : s[i] = s[j] => i = j
  BY <1>1 DEF Once
<1> HIDE DEF A, s
<1>4. /\ texts \in Seq(A) /\ (\A x : In(texts, x) <=> In(s, x) /\ x \in Text)
      /\ \A i, j \in 1 .. Len(texts) : texts[i] = texts[j] => i = j
  BY <1>1, <1>2, <1>3, ThoseIs
<1>5. \A x \in A \cap Text : K[x] = <<>>
  BY <1>1 DEF Element, Text
<1>6. \A i \in 1 .. Len(texts) : In(s, texts[i]) /\ K[texts[i]] = <<>> /\ texts[i] \in A
  <2>1. \A i \in 1 .. Len(texts) : In(texts, texts[i]) /\ texts[i] \in A
    BY <1>4 DEF In
  <2> QED
    BY <2>1, <1>4, <1>5
<1>7. ToSet(texts) = ToSet(s) \cap Text
  <2>1. \A r : r \in Seq(A) => \A x : x \in ToSet(r) <=> In(r, x)
    BY DEF ToSet, In
  <2> QED
    BY <1>1, <1>4, <2>1
<1>8. Leaves(K, e, texts)
  BY <1>1, <1>4, <1>6 DEF Leaves, s
<1>9. ASSUME texts # <<>>
      PROVE  /\ Head(texts) \in ToSet(s) \cap Text
             /\ Leaves(K, e, Tail(texts))
             /\ ToSet(Tail(texts)) = (ToSet(s) \cap Text) \ {Head(texts)}
  <2> DEFINE r == Tail(texts)
  <2>1. /\ Len(texts) \in Nat /\ Len(texts) >= 1 /\ Head(texts) = texts[1]
        /\ r \in Seq(A) /\ Len(r) = Len(texts) - 1 /\ \A i \in 1 .. Len(r) : r[i] = texts[i + 1]
    BY <1>4, <1>9
  <2> HIDE DEF r
  <2>2. \A i \in 1 .. Len(r) : i + 1 \in 1 .. Len(texts) /\ r[i] = texts[i + 1] /\ i + 1 # 1
    BY <2>1
  <2>3. \A i, j \in 1 .. Len(r) : r[i] = r[j] => i = j
    <3> SUFFICES ASSUME NEW i \in 1 .. Len(r), NEW j \in 1 .. Len(r), r[i] = r[j] PROVE i = j
      OBVIOUS
    <3>1. i + 1 = j + 1
      BY <2>2, <1>4
    <3> QED
      BY <3>1
  <2>4. Leaves(K, e, r)
    BY <1>1, <1>6, <2>1, <2>2, <2>3, SMTT(45) DEF Leaves, s
  <2>5. ToSet(texts) = {texts[i] : i \in 1 .. Len(texts)} /\ ToSet(r) = {r[i] : i \in 1 .. Len(r)}
    <3>1. DOMAIN texts = 1 .. Len(texts) /\ DOMAIN r = 1 .. Len(r)
      BY <1>4, <2>1
    <3> QED
      BY <3>1 DEF ToSet
  <2>6. 1 \in 1 .. Len(texts)
    BY <2>1
  <2>7. Head(texts) \in ToSet(texts)
    BY <2>1, <2>5, <2>6
  <2>8. ToSet(r) \subseteq ToSet(texts) \ {Head(texts)}
    <3>1. \A i \in 1 .. Len(r) : r[i] \in ToSet(texts) /\ r[i] # texts[1]
      BY <1>4, <2>2, <2>5, <2>6
    <3> QED
      BY <2>1, <2>5, <3>1
  <2>9. ToSet(texts) \ {Head(texts)} \subseteq ToSet(r)
    <3> SUFFICES ASSUME NEW i \in 1 .. Len(texts), texts[i] # texts[1] PROVE texts[i] \in ToSet(r)
      BY <2>1, <2>5
    <3>1. i # 1 /\ i - 1 \in 1 .. Len(r) /\ (i - 1) + 1 = i
      BY <2>1
    <3>2. r[i - 1] = texts[i]
      BY <2>2, <3>1
    <3> QED
      BY <2>5, <3>1, <3>2
  <2> QED
    BY <1>7, <2>4, <2>7, <2>8, <2>9 DEF r
<1> QED
  BY <1>2, <1>7, <1>8, <1>9 DEF s

\* What setValue makes of the children of the element.
LEMMA ValueSet ==
    ASSUME NEW K, Holds(tree, K), NEW e \in tree.alive, SetValue(e)
    PROVE  LET texts == TextsOf(tree, e) IN
           \/ texts = <<>> /\ \E n \in Text \ tree.alive : Holds(tree', WithChild(K, e, n))
           \/ /\ texts # <<>>
              /\ Holds(tree', GoneFrom(K, (ToSet(K[e]) \cap Text) \ {Head(texts)}))
<1> DEFINE texts == TextsOf(tree, e)
<1>1. e \in Element
  BY DEF SetValue, Elements
<1>2. \/ texts # <<>> /\ tree' = DeletedEach(tree, Tail(texts))
      \/ texts = <<>> /\ \E n \in Text \ Sound : tree' = Appended(Constructed(tree, n), e, n)
  BY DEF SetValue
<1>3. texts # <<>> => /\ Leaves(K, e, Tail(texts))
                     /\ ToSet(Tail(texts)) = (ToSet(K[e]) \cap Text) \ {Head(texts)}
  BY TextsAre
<1> HIDE DEF texts
<1>4. CASE texts # <<>>
  <2>1. Holds(DeletedEach(tree, Tail(texts)), GoneFrom(K, (ToSet(K[e]) \cap Text) \ {Head(texts)}))
    BY <1>3, <1>4, DeletedEachHolds
  <2> QED
    BY <1>2, <1>4, <2>1 DEF texts
<1>5. CASE texts = <<>>
  <2>1. PICK n \in Text \ Sound : tree' = Appended(Constructed(tree, n), e, n)
    BY <1>2, <1>5
  <2>2. n \in Text \ tree.alive /\ n \in Node \ tree.alive
    BY <2>1 DEF Text, Sound
  <2>3. Holds(tree', WithChild(K, e, n))
    BY <1>1, <2>1, <2>2, NewChildHolds
  <2> QED
    BY <1>5, <2>2, <2>3 DEF texts
<1> QED
  BY <1>4, <1>5

LEMMA TextsFollow ==
    ASSUME NEW K, Holds(tree, K), NEW e, SetValue(e) \/ SetTextIsNull(e)
    PROVE  \E J : Holds(tree', J) /\ (TextsGo(K, J) \/ AddsChild(K, J))
<1> DEFINE texts == TextsOf(tree, e)
<1>1. e \in tree.alive /\ e \in Element
  BY DEF SetValue, SetTextIsNull, Elements, Sound
<1>2. DOMAIN K = tree.alive
  BY HasLists
<1>3. ASSUME SetTextIsNull(e)
      PROVE  \E J : Holds(tree', J) /\ TextsGo(K, J)
  <2>1. tree' = DeletedEach(tree, texts)
    BY <1>3 DEF SetTextIsNull
  <2>2. Leaves(K, e, texts) /\ ToSet(texts) = ToSet(K[e]) \cap Text
    BY <1>1, TextsAre
  <2> HIDE DEF texts
  <2>3. Holds(tree', GoneFrom(K, (ToSet(K[e]) \cap Text) \ {}))
    BY <1>1, <2>1, <2>2, DeletedEachHolds
  <2>4. TextsGo(K, GoneFrom(K, (ToSet(K[e]) \cap Text) \ {}))
    BY <1>1, <1>2 DEF TextsGo
  <2> QED
    BY <2>3, <2>4
<1>4. ASSUME SetValue(e)
      PROVE  \E J : Holds(tree', J) /\ (TextsGo(K, J) \/ AddsChild(K, J))
  <2> DEFINE x == Head(texts)
  <2>1. \/ texts = <<>> /\ \E n \in Text \ tree.alive : Holds(tree', WithChild(K, e, n))
        \/ texts # <<>> /\ Holds(tree', GoneFrom(K, (ToSet(K[e]) \cap Text) \ {x}))
    BY <1>1, <1>4, ValueSet
  <2>2. texts # <<>> => x \in ToSet(K[e]) \cap Text
    BY <1>1, TextsAre
  <2> HIDE DEF texts, x
  <2>3. ASSUME NEW n \in Text \ tree.alive PROVE AddsChild(K, WithChild(K, e, n))
    BY <1>1, <1>2 DEF AddsChild, Text
  <2>4. texts # <<>> => TextsGo(K, GoneFrom(K, (ToSet(K[e]) \cap Text) \ {x}))
    BY <1>1, <1>2, <2>2 DEF TextsGo
  <2> QED
    BY <2>1, <2>3, <2>4
<1> HIDE DEF texts
<1> QED
  BY <1>3, <1>4

LEMMA CloneFollows ==
    ASSUME NEW K, Holds(tree, K), NEW n, CloneNode(n)
    PROVE  \E J : Holds(tree', J) /\ CopiesTree(K, J)
<1>1. n \in tree.alive
  BY DEF CloneNode, Sound
<1>2. PICK m \in Copies(tree, Below(tree, n)) : tree' = ClonedInto(Constructed(tree, m[n]), m[n], n, m)
  BY DEF CloneNode
<1>3. PICK J : Holds(tree', J) /\ Copied(J, K, m, Under(K, n))
  BY <1>1, <1>2, ClonedHolds
<1>4. DOMAIN K = tree.alive /\ Below(tree, n) = Under(K, n)
  BY <1>1, HasLists, BelowIs
<1>5. /\ m \in [Under(K, n) -> Node \ DOMAIN K]
      /\ \A x, y \in Under(K, n) : m[x] = m[y] => x = y
  BY <1>4 DEF Copies
<1>6. CopiesTree(K, J)
  BY <1>1, <1>3, <1>4, <1>5 DEF CopiesTree
<1> QED
  BY <1>3, <1>6

LEMMA AssignFollows ==
    ASSUME NEW K, Holds(tree, K), NEW e, NEW source, AssignElement(e, source)
    PROVE  \E J : Holds(tree', J) /\ Assigns(K, J)
<1>1. /\ e \in tree.alive /\ e \in Element /\ source \in tree.alive /\ source \in Element
      /\ source \notin Below(tree, e) /\ e \notin Below(tree, source)
  BY DEF AssignElement, Elements, Sound
<1>2. PICK m \in Copies(Cleared(tree, e), Below(Cleared(tree, e), source) \ {source}) :
        tree' = ClonedInto(Cleared(tree, e), e, source, m)
  BY DEF AssignElement
<1>3. /\ AssignedWith(tree, K, m, e, source)
      /\ \E J : Holds(ClonedInto(Cleared(tree, e), e, source, m), J) /\ Assigned(J, K, m, e, source)
  BY <1>1, AssignedHolds
<1>4. PICK J : Holds(tree', J) /\ Assigned(J, K, m, e, source)
  BY <1>2, <1>3
<1>5. DOMAIN K = tree.alive /\ Below(tree, e) = Under(K, e) /\ Below(tree, source) = Under(K, source)
  BY <1>1, HasLists, BelowIs
<1>6. AssignsWith(K, m, e, source)
  BY <1>3, <1>5 DEF AssignedWith, AssignsWith
<1>7. Assigns(K, J)
  BY <1>1, <1>4, <1>5, <1>6 DEF Assigns
<1> QED
  BY <1>4, <1>7

\* Every operation does one of these to the lists.
LEMMA NextFollows ==
    ASSUME AnyOrder = FALSE, NEW K, Holds(tree, K), TreeNext
    PROVE  \E J : Holds(tree', J) /\ Follows(K, J)
<1>1. CASE \E n \in Node : NewNode(n) \/ DetachNode(n) \/ DeleteNode(n) \/ CloneNode(n)
  BY <1>1, NewNodeFollows, DetachFollows, DeleteFollows, CloneFollows DEF Follows
<1>2. CASE \E e \in Element : ClearElement(e) \/ SetValue(e) \/ SetTextIsNull(e)
  BY <1>2, ClearFollows, TextsFollow DEF Follows
<1>3. CASE \E e \in Element : \E text \in Text : NewElementWithText(e, text)
  BY <1>3, NewPairFollows DEF Follows
<1>4. CASE \E e, source \in Element : AssignElement(e, source)
  BY <1>4, AssignFollows DEF Follows
<1>5. CASE \E e \in Element : \E n \in Node : CreateChild(e, n) \/ CreateElementOnce(e, n)
  <2>1. PICK e \in Element, n \in Node : CreateChild(e, n) \/ CreateElementOnce(e, n)
    BY <1>5
  <2>2. /\ e \in tree.alive /\ n \in Node \ tree.alive
        /\ tree' = Appended(Constructed(tree, n), e, n)
    BY <2>1 DEF CreateChild, CreateElementOnce, Elements, Sound
  <2> QED
    BY <2>2, ChildFollows DEF Follows
<1>6. CASE \E e \in Element : \E n, at \in Node :
            AppendChild(e, n) \/ InsertChildBefore(e, n, at) \/ InsertChildAfter(e, n, at)
  BY <1>6, PlaceFollows DEF Follows
<1>7. (\E e \in Element : \E n \in Node : AppendChild(e, n)) => (\E e \in Element : \E n, at \in Node : AppendChild(e, n))
  OBVIOUS
<1> QED
  BY <1>1, <1>2, <1>3, <1>4, <1>5, <1>6, <1>7 DEF TreeNext

-----------------------------------------------------------------------------
(* Theorems.                                                               *)

LEMMA ListedAlways ==
    ASSUME AnyOrder = FALSE
    PROVE  TreeSpec => []Listed
<1>1. TreeInit => Listed
  BY EmptyHolds DEF Listed
<1>2. Listed /\ [TreeNext]_tree => Listed'
  <2>1. CASE UNCHANGED tree
    BY <2>1 DEF Listed, Holds, Ends, Links, Unlinked
  <2>2. CASE TreeNext
    BY <2>2, NextFollows DEF Listed
  <2> QED
    BY <2>1, <2>2
<1> QED
  BY <1>1, <1>2, PTL DEF TreeSpec

\* When no caller puts a tree below itself, the pointers of the nodes are linked in both
\* directions, lead to no node that is gone, and give every node one owner, after any
\* calls (Element.cpp lines 28-501, Node.cpp lines 28-221).
THEOREM TreeInvariant ==
    ASSUME AnyOrder = FALSE
    PROVE  TreeSpec => []TreeInv
<1>1. Listed => TreeInv
  BY ListedInv
<1> QED
  BY <1>1, ListedAlways, PTL

-----------------------------------------------------------------------------
(* The lists are the forest of XmlForest.                                  *)

LEMMA ListsAre ==
    ASSUME NEW K, Holds(tree, K)
    PROVE  ChildLists = K
<1>1. DOMAIN K = tree.alive /\ K \in [tree.alive -> Seq(tree.alive)] /\ tree.alive \subseteq Node
  BY HasLists
<1>2. \A n \in tree.alive : ChildrenOf(tree, n) = K[n]
  BY <1>1, ChildrenAre
<1> QED
  BY <1>1, <1>2 DEF ChildLists, Sound

LEMMA ListsAreNext ==
    ASSUME NEW J, Holds(tree', J)
    PROVE  ChildLists' = J
<1>1. DOMAIN J = tree'.alive /\ J \in [tree'.alive -> Seq(tree'.alive)] /\ tree'.alive \subseteq Node
  BY HasLists
<1>2. \A n \in tree'.alive : ChildrenOf(tree', n) = J[n]
  BY <1>1, ChildrenAre
<1> QED
  BY <1>1, <1>2 DEF ChildLists, Sound

\* What the walk of the forest finds.
OwnedBy(K, n) ==
    LET owned[steps \in 0 .. Cardinality(Node)] ==
            [x \in DOMAIN K |-> {x} \cup IF steps = 0 THEN {}
                                         ELSE UNION {owned[steps - 1][y] : y \in ToSet(K[x])}]
    IN  owned[Cardinality(Node)][n]

LEMMA OwnedIs ==
    ASSUME NEW t, NEW K, Holds(t, K), NEW n \in t.alive
    PROVE  OwnedBy(K, n) = Under(K, n)
<1> DEFINE A == t.alive
           N == Cardinality(Node)
           D == [A -> SUBSET A]
           Step(h) == [x \in A |-> {x} \cup UNION {h[y] : y \in ToSet(K[x])}]
           d == [x \in A |-> {x}]
           G == [x \in (1 .. N) \X D |-> Step(x[2])]
           Solved(f) == [steps \in 0 .. N |->
                            [x \in A |-> {x} \cup IF steps = 0 THEN {}
                                                  ELSE UNION {f[steps - 1][y] : y \in ToSet(K[x])}]]
           owned == CHOOSE f : f = Solved(f)
<1>1. N \in Nat /\ d \in D
  BY NodesAre
<1>a. A \subseteq Node /\ IsFiniteSet(A) /\ K \in [A -> Seq(A)] /\ NoCircle(K) /\ DOMAIN K = A
      /\ Cardinality(A) <= N
  <2>1. A \subseteq Node /\ IsFiniteSet(A) /\ K \in [A -> Seq(A)] /\ NoCircle(K) /\ DOMAIN K = A
    BY HasLists
  <2> QED
    BY <2>1, NodesAre, FS_Subset
<1>2. OwnedBy(K, n) = owned[N][n]
  BY <1>a DEF OwnedBy
<1> HIDE DEF N, A
<1>b. ASSUME NEW x \in A PROVE \A y \in ToSet(K[x]) : y \in A
  <2>1. K[x] \in Seq(A)
    BY <1>a
  <2> QED
    BY <2>1 DEF ToSet
<1>3. ASSUME NEW h \in D PROVE Step(h) \in D
  <2> SUFFICES ASSUME NEW x \in A
               PROVE  {x} \cup UNION {h[y] : y \in ToSet(K[x])} \in SUBSET A
    BY Zenon
  <2>1. \A y \in ToSet(K[x]) : h[y] \subseteq A
    BY <1>b
  <2> QED
    BY <2>1
<1>4. ASSUME NEW i \in 1 .. N, NEW h \in D
      PROVE  G[<<i, h>>] = Step(h)
  OBVIOUS
<1>5. G \in [(1 .. N) \X D -> D]
  <2> HIDE DEF D
  <2> SUFFICES ASSUME NEW x \in (1 .. N) \X D PROVE Step(x[2]) \in D
    BY Zenon
  <2>1. x[2] \in D
    OBVIOUS
  <2> QED
    BY <2>1, <1>3, Zenon
<1> HIDE DEF G
<1>6. PICK h \in [0 .. N -> D] : h[0] = d /\ \A i \in 1 .. N : h[i] = G[<<i, h[i - 1]>>]
  <2> HIDE DEF D, d
  <2>1. Recursive(D, d, N, G)
    BY <1>1, <1>5, Recursion, Zenon
  <2> QED
    BY <2>1, Zenon DEF Recursive
<1>7. ASSUME NEW i \in 1 .. N
      PROVE  h[i] = Step(h[i - 1])
  <2> HIDE DEF D
  <2>1. h[i - 1] \in D
    BY <1>1
  <2> QED
    BY <2>1, <1>4, <1>6
<1>8. h = Solved(h)
  <2>1. ASSUME NEW i \in 0 .. N
        PROVE  h[i] = [x \in A |-> {x} \cup IF i = 0 THEN {}
                                            ELSE UNION {h[i - 1][y] : y \in ToSet(K[x])}]
    <3>1. CASE i = 0
      BY <3>1, <1>6
    <3>2. CASE i # 0
      <4>1. i \in 1 .. N
        BY <3>2, <1>1
      <4> QED
        BY <4>1, <3>2, <1>7
    <3> QED
      BY <3>1, <3>2
  <2>2. DOMAIN h = 0 .. N
    OBVIOUS
  <2>3. h = [i \in 0 .. N |-> h[i]]
    BY <2>2
  <2> QED
    BY <2>1, <2>3, Zenon
<1>9. owned = Solved(owned)
  BY <1>8
<1> HIDE DEF D, d, owned
<1>10. ASSUME NEW i \in 0 .. N, NEW x \in A
       PROVE  owned[i][x] = {x} \cup IF i = 0 THEN {} ELSE UNION {owned[i - 1][y] : y \in ToSet(K[x])}
  <2>1. owned[i] = Solved(owned)[i]
    BY <1>9, Zenon
  <2> QED
    BY <2>1
<1>11. Cardinality(Under(K, n)) \in Nat /\ Cardinality(Under(K, n)) <= N + 1 /\ N \in 0 .. N /\ n \in A
  <2>1. n \in A
    BY DEF A
  <2>2. Cardinality(Under(K, n)) \in 1 .. Cardinality(A)
    BY <1>a, <2>1, UnderCounts
  <2>3. Cardinality(A) \in Nat
    BY <1>a, FS_CardinalityType
  <2> QED
    BY <1>a, <1>1, <2>1, <2>2, <2>3
<1>12. FindsAll(owned, A, K, N)
  <2>1. Finds(owned, A, K, N)
    BY <1>10 DEF Finds
  <2> QED
    BY <1>1, <1>a, <2>1, ReachedIs, Zenon
<1>13. owned[N][n] = Under(K, n)
  BY <1>11, <1>12 DEF FindsAll
<1> QED
  BY <1>2, <1>13 DEF N

\* The operators of the forest, which are those of this module.
LEMMA ForestOperators ==
    /\ \A S : Forest!Cardinality(S) = Cardinality(S)
    /\ \A s : Forest!ToSet(s) = ToSet(s)
    /\ \A s, S : Forest!Those(s, S) = Those(s, S)
    /\ Forest!Live = DOMAIN ChildLists
    /\ Forest!Live' = DOMAIN ChildLists'
<1>1. \A S : Forest!Cardinality(S) = Cardinality(S)
  BY DEF Forest!Cardinality, Cardinality
<1>2. \A s : Forest!ToSet(s) = ToSet(s)
  BY DEF Forest!ToSet, ToSet
<1>3. \A s, S : Forest!Those(s, S) = Those(s, S)
  BY DEF Forest!Those, Those
<1>4. Forest!Live = DOMAIN ChildLists /\ Forest!Live' = DOMAIN ChildLists'
  BY DEF Forest!Live
<1> QED
  BY <1>1, <1>2, <1>3, <1>4

LEMMA ForestOwned ==
    ASSUME NEW K, Holds(tree, K), NEW n \in tree.alive
    PROVE  Forest!Owned(n) = Under(K, n)
<1>1. Forest!Owned(n) = OwnedBy(ChildLists, n)
  BY ForestOperators DEF Forest!Owned, OwnedBy, Forest!Live, Forest!ToSet, ToSet
<1>2. ChildLists = K
  BY ListsAre
<1> QED
  BY <1>1, <1>2, OwnedIs

LEMMA ForestFree ==
    ASSUME NEW K, Holds(tree, K), NEW n
    PROVE  Forest!Free(n) <=> n \in tree.alive /\ Unowned(K, n)
<1>1. ChildLists = K /\ DOMAIN K = tree.alive /\ K \in [tree.alive -> Seq(tree.alive)]
  BY ListsAre, HasLists
<1>2. ASSUME NEW e \in DOMAIN K PROVE n \in ToSet(K[e]) <=> In(K[e], n)
  <2>1. K[e] \in Seq(tree.alive)
    BY <1>1, <1>2
  <2> QED
    BY <2>1 DEF ToSet, In
<1>3. Forest!Free(n) <=> n \in DOMAIN K /\ \A e \in DOMAIN K : n \notin ToSet(K[e])
  BY <1>1, ForestOperators DEF Forest!Free
<1> QED
  BY <1>1, <1>2, <1>3 DEF Unowned

LEMMA InsertedAt ==
    ASSUME NEW A, NEW s \in Seq(A), NEW n \in A, NEW p \in 1 .. Len(s) + 1
    PROVE  Forest!InsertAt(s, p, n) = Placed(s, p, n)
<1> DEFINE a == SubSeq(s, 1, p - 1)  b == SubSeq(s, p, Len(s))
<1>1. Len(s) \in Nat /\ p \in Nat /\ p >= 1
  OBVIOUS
<1>2. a \in Seq(A) /\ Len(a) = p - 1 /\ \A i \in 1 .. p - 1 : a[i] = s[i]
  BY <1>1
<1>3. b \in Seq(A) /\ Len(b) = Len(s) - p + 1 /\ \A i \in 1 .. Len(s) - p + 1 : b[i] = s[p + i - 1]
  BY <1>1
<1> HIDE DEF a, b
<1> DEFINE w == a \o <<n>> \o b
<1>4. w \in Seq(A) /\ Len(w) = Len(s) + 1
  BY <1>1, <1>2, <1>3
<1>5. ASSUME NEW i \in 1 .. Len(s) + 1
      PROVE  w[i] = IF i < p THEN s[i] ELSE IF i = p THEN n ELSE s[i - 1]
  <2>1. CASE i < p
    <3>1. w[i] = a[i]
      BY <1>1, <1>2, <1>3, <2>1
    <3> QED
      BY <1>1, <1>2, <2>1, <3>1
  <2>2. CASE i = p
    BY <1>1, <1>2, <1>3, <2>2
  <2>3. CASE i > p
    <3>1. w[i] = b[i - p]
      BY <1>1, <1>2, <1>3, <2>3
    <3>2. i - p \in 1 .. Len(s) - p + 1 /\ p + (i - p) - 1 = i - 1
      BY <1>1, <2>3
    <3>3. b[i - p] = s[i - 1]
      BY <1>3, <3>2
    <3> HIDE DEF w
    <3> QED
      BY <2>3, <3>1, <3>3, <1>1
  <2> HIDE DEF w
  <2>4. i \in Int /\ p \in Int
    BY <1>1
  <2> QED
    BY <2>1, <2>2, <2>3, <2>4
<1>6. w = [i \in 1 .. Len(s) + 1 |-> w[i]]
  BY <1>4
<1>7. w = Placed(s, p, n)
  <2> HIDE DEF w
  <2> QED
    BY <1>5, <1>6 DEF Placed
<1> QED
  BY <1>7 DEF Forest!InsertAt, a, b

LEMMA StepLists ==
    ASSUME NEW K, Holds(tree, K), NEW J, Holds(tree', J)
    PROVE  /\ ChildLists = K /\ ChildLists' = J
           /\ Forest!Live = DOMAIN K /\ Forest!Live' = DOMAIN J
<1>1. ChildLists = K /\ ChildLists' = J
  BY ListsAre, ListsAreNext
<1> QED
  BY <1>1, ForestOperators

LEMMA NewIsForest ==
    ASSUME NEW K, Holds(tree, K), NEW J, Holds(tree', J), AddsNode(K, J) \/ AddsPair(K, J) \/ AddsChild(K, J)
    PROVE  Forest!New \/ Forest!Make
<1>1. ChildLists = K /\ ChildLists' = J /\ Forest!Live = DOMAIN K /\ Forest!Live' = DOMAIN J
  BY StepLists
<1>2. CASE AddsNode(K, J)
  <2>1. PICK n \in Node \ DOMAIN K : J = NewIn(K, n)
    BY <1>2 DEF AddsNode
  <2>2. n \in DOMAIN J \ DOMAIN K
    BY <2>1 DEF NewIn
  <2>3. Forest!New
    BY <1>1, <2>1, <2>2 DEF Forest!New, NewIn
  <2> QED
    BY <2>3
<1>3. CASE AddsPair(K, J)
  <2>1. PICK e \in Element \ DOMAIN K, text \in Text \ DOMAIN K :
            e # text /\ J = WithChild(NewIn(K, e), e, text)
    BY <1>3 DEF AddsPair
  <2>2. J = [x \in DOMAIN K \cup {e, text} |-> IF x = e THEN <<text>>
                                              ELSE IF x = text THEN <<>> ELSE K[x]]
    <3>1. DOMAIN NewIn(K, e) = DOMAIN K \cup {e} /\ NewIn(K, e)[e] = <<>>
          /\ \A x \in DOMAIN K \cup {e} : x # e => NewIn(K, e)[x] = K[x]
      BY DEF NewIn
    <3>2. J = [x \in (DOMAIN K \cup {e}) \cup {text} |->
                    IF x = text THEN <<>> ELSE IF x = e THEN Append(<<>>, text) ELSE NewIn(K, e)[x]]
      BY <2>1, <3>1 DEF WithChild
    <3>3. Append(<<>>, text) = <<text>> /\ (DOMAIN K \cup {e}) \cup {text} = DOMAIN K \cup {e, text}
      OBVIOUS
    <3>4. \A x \in DOMAIN K \cup {e, text} :
            (IF x = text THEN <<>> ELSE IF x = e THEN <<text>> ELSE NewIn(K, e)[x])
            = (IF x = e THEN <<text>> ELSE IF x = text THEN <<>> ELSE K[x])
      BY <2>1, <3>1
    <3> QED
      BY <3>2, <3>3, <3>4
  <2>3. e \in DOMAIN J \ DOMAIN K /\ text \in Text \cap (DOMAIN J \ DOMAIN K)
    BY <2>1, <2>2
  <2>4. Forest!Make
    BY <1>1, <2>2, <2>3 DEF Forest!Make
  <2> QED
    BY <2>4
<1>4. CASE AddsChild(K, J)
  <2>1. PICK e \in DOMAIN K \cap Element, n \in Node \ DOMAIN K : J = WithChild(K, e, n)
    BY <1>4 DEF AddsChild
  <2>2. n \in DOMAIN J \ DOMAIN K
    BY <2>1 DEF WithChild
  <2>3. Forest!Make
    BY <1>1, <2>1, <2>2 DEF Forest!Make, WithChild
  <2> QED
    BY <2>3
<1> QED
  BY <1>2, <1>3, <1>4

LEMMA PlaceIsForest ==
    ASSUME NEW K, Holds(tree, K), NEW J, Holds(tree', J), GivesPlace(K, J)
    PROVE  Forest!Place
<1>1. ChildLists = K /\ ChildLists' = J /\ Forest!Live = DOMAIN K
  BY StepLists
<1>2. DOMAIN K = tree.alive /\ K \in [tree.alive -> Seq(tree.alive)]
  BY HasLists
<1>a. PICK e \in DOMAIN K \cap Element, n \in DOMAIN K : \E p \in 1 .. Len(K[e]) + 1 :
        n # e /\ Unowned(K, n) /\ J = PlacedIn(K, e, n, p)
  BY DEF GivesPlace
<1>3. PICK p \in 1 .. Len(K[e]) + 1 : n # e /\ Unowned(K, n) /\ J = PlacedIn(K, e, n, p)
  BY <1>a
<1>4. Forest!Free(n)
  BY <1>2, <1>3, ForestFree
<1>5. Forest!InsertAt(K[e], p, n) = Placed(K[e], p, n)
  <2>1. K[e] \in Seq(tree.alive) /\ n \in tree.alive
    BY <1>2
  <2> QED
    BY <2>1, InsertedAt
<1>6. J = [K EXCEPT ![e] = Forest!InsertAt(K[e], p, n)]
  BY <1>3, <1>5 DEF PlacedIn
<1>7. \E i \in 1 .. Len(ChildLists[e]) + 1 :
        ChildLists' = [ChildLists EXCEPT ![e] = Forest!InsertAt(@, i, n)]
  BY <1>1, <1>6
<1>8. e \in Forest!Live \cap Element /\ n \in Forest!Live \ {e}
  BY <1>1, <1>3
<1> QED
  BY <1>4, <1>7, <1>8 DEF Forest!Place

LEMMA TakeIsForest ==
    ASSUME NEW K, Holds(tree, K), NEW J, Holds(tree', J), Takes(K, J)
    PROVE  Forest!Take
<1> DEFINE A == tree.alive
<1>1. ChildLists = K /\ ChildLists' = J /\ Forest!Live = DOMAIN K
  BY StepLists
<1>2. DOMAIN K = A /\ K \in [A -> Seq(A)] /\ Once(K)
  BY HasLists
<1>a. PICK e \in DOMAIN K : \E p \in 1 .. Len(K[e]) : J = TakenFrom(K, e, p)
  BY DEF Takes
<1>3. PICK p \in 1 .. Len(K[e]) : J = TakenFrom(K, e, p)
  BY <1>a
<1> DEFINE n == K[e][p]
<1>4. n \in A /\ In(K[e], n)
  <2>1. K[e] \in Seq(A)
    BY <1>2
  <2> QED
    BY <2>1 DEF In
<1>5. ~Forest!Free(n)
  BY <1>2, <1>4, ForestFree DEF Unowned
<1> HIDE DEF A
<1>6. ASSUME NEW x \in A
      PROVE  J[x] = Those(K[x], A \ {n})
  <2> DEFINE s == K[x]
  <2>1. s \in Seq(A) /\ (\A i, j \in 1 .. Len(s) : s[i] = s[j] => i = j)
        /\ \A i \in 1 .. Len(s) : s[i] \in A
    <3>1. s \in Seq(A)
      BY <1>2
    <3>2. \A i, j \in 1 .. Len(s) : s[i] = s[j] => i = j
      BY <1>2 DEF Once
    <3> QED
      BY <3>1, <3>2
  <2>2. CASE x = e
    <3>1. J[x] = TakenOut(s, p) /\ n = s[p] /\ p \in 1 .. Len(s)
      BY <1>2, <1>3, <2>2 DEF TakenFrom
    <3> HIDE DEF s, n
    <3>2. Those(s, A) = s
      BY <2>1, ThoseAll
    <3>3. TakenOut(Those(s, A), p) = Those(s, A \ {Those(s, A)[p]})
      BY <2>1, <3>1, <3>2, ThoseTakenOut
    <3> QED
      BY <3>1, <3>2, <3>3 DEF s
  <2>3. CASE x # e
    <3>1. J[x] = s
      BY <1>2, <1>3, <2>3 DEF TakenFrom
    <3>2. \A i \in 1 .. Len(s) : s[i] # n
      BY <1>2, <2>3, OnceAt
    <3> HIDE DEF s, n
    <3>3. \A i \in 1 .. Len(s) : s[i] \in A \ {n}
      BY <2>1, <3>2
    <3>4. Those(s, A \ {n}) = s
      BY <2>1, <3>3, ThoseAll
    <3> QED
      BY <3>1, <3>4 DEF s
  <2> QED
    BY <2>2, <2>3
<1>7. J = [x \in A |-> Those(K[x], A \ {n})]
  <2>1. J = [x \in A |-> J[x]]
    BY <1>2, <1>3 DEF TakenFrom
  <2> HIDE DEF n
  <2> QED
    BY <2>1, <1>6
<1>8. J = [x \in A |-> Forest!Those(K[x], A \ {n})]
  BY <1>7, ForestOperators
<1> HIDE DEF n
<1> QED
  BY <1>1, <1>2, <1>4, <1>5, <1>8 DEF Forest!Take

LEMMA GoneIsForest ==
    ASSUME NEW K, Holds(tree, K), NEW S, Holds(tree', GoneFrom(K, S))
    PROVE  Forest!Gone(S)
<1>1. ChildLists = K /\ ChildLists' = GoneFrom(K, S) /\ Forest!Live = DOMAIN K
  BY StepLists
<1>2. GoneFrom(K, S) = [x \in DOMAIN K \ S |-> Forest!Those(K[x], DOMAIN K \ S)]
  BY ForestOperators DEF GoneFrom
<1> QED
  BY <1>1, <1>2 DEF Forest!Gone

LEMMA LossIsForest ==
    ASSUME NEW K, Holds(tree, K), NEW J, Holds(tree', J), Destroys(K, J) \/ Empties(K, J) \/ TextsGo(K, J)
    PROVE  Forest!Destroy \/ Forest!Empty \/ Forest!TextsGone
<1>1. ChildLists = K /\ ChildLists' = J /\ Forest!Live = DOMAIN K /\ DOMAIN K = tree.alive
  BY StepLists, HasLists
<1>2. CASE Destroys(K, J)
  <2>1. PICK n \in DOMAIN K : J = GoneFrom(K, Under(K, n))
    BY <1>2 DEF Destroys
  <2>2. Forest!Gone(Under(K, n)) /\ Forest!Owned(n) = Under(K, n)
    BY <1>1, <2>1, GoneIsForest, ForestOwned
  <2> QED
    BY <1>1, <2>1, <2>2 DEF Forest!Destroy
<1>3. CASE Empties(K, J)
  <2>1. PICK e \in DOMAIN K \cap Element : J = GoneFrom(K, Under(K, e) \ {e})
    BY <1>3 DEF Empties
  <2>2. Forest!Gone(Under(K, e) \ {e}) /\ Forest!Owned(e) = Under(K, e)
    BY <1>1, <2>1, GoneIsForest, ForestOwned
  <2> QED
    BY <1>1, <2>1, <2>2 DEF Forest!Empty
<1>4. CASE TextsGo(K, J)
  <2>1. PICK e \in DOMAIN K \cap Element : \E kept \in SUBSET (ToSet(K[e]) \cap Text) :
            /\ kept = {} \/ \E x : kept = {x}
            /\ J = GoneFrom(K, (ToSet(K[e]) \cap Text) \ kept)
    BY <1>4 DEF TextsGo
  <2>2. PICK kept \in SUBSET (ToSet(K[e]) \cap Text) :
            /\ kept = {} \/ \E x : kept = {x}
            /\ J = GoneFrom(K, (ToSet(K[e]) \cap Text) \ kept)
    BY <2>1
  <2>3. Cardinality(kept) <= 1
    <3>1. CASE kept = {}
      <4>1. Cardinality(kept) = 0
        BY <3>1, FS_EmptySet
      <4> QED
        BY <4>1
    <3>2. ASSUME NEW x, kept = {x} PROVE Cardinality(kept) <= 1
      <4>1. Cardinality(kept) = 1
        BY <3>2, FS_Singleton
      <4> QED
        BY <4>1
    <3> QED
      BY <2>2, <3>1, <3>2
  <2>4. Forest!Gone((ToSet(K[e]) \cap Text) \ kept)
    BY <2>2, GoneIsForest
  <2>5. e \in Forest!Live \cap Element /\ kept \in SUBSET Text /\ Forest!Cardinality(kept) <= 1
        /\ kept \subseteq Forest!ToSet(ChildLists[e])
        /\ Forest!Gone((Forest!ToSet(ChildLists[e]) \cap Text) \ kept)
    BY <1>1, <2>2, <2>3, <2>4, ForestOperators
  <2> QED
    BY <2>5 DEF Forest!TextsGone
<1> QED
  BY <1>2, <1>3, <1>4

LEMMA CopyIsForest ==
    ASSUME NEW K, Holds(tree, K), NEW J, Holds(tree', J), CopiesTree(K, J)
    PROVE  Forest!Copy
<1>1. ChildLists = K /\ ChildLists' = J /\ Forest!Live = DOMAIN K /\ Forest!Live' = DOMAIN J
      /\ DOMAIN K = tree.alive /\ K \in [tree.alive -> Seq(tree.alive)]
  BY StepLists, HasLists
<1>2. PICK n \in DOMAIN K : \E m \in [Under(K, n) -> Node \ DOMAIN K] :
        (\A x, y \in Under(K, n) : m[x] = m[y] => x = y) /\ Copied(J, K, m, Under(K, n))
  BY DEF CopiesTree
<1>3. PICK m \in [Under(K, n) -> Node \ DOMAIN K] :
        (\A x, y \in Under(K, n) : m[x] = m[y] => x = y) /\ Copied(J, K, m, Under(K, n))
  BY <1>2
<1>4. Forest!Owned(n) = Under(K, n) /\ n \in Under(K, n) /\ Under(K, n) \subseteq DOMAIN K
  BY <1>1, ForestOwned, UnderIs
<1> DEFINE S == Under(K, n)
<1> HIDE DEF S
<1>5. /\ DOMAIN J = DOMAIN K \cup {m[y] : y \in S} /\ (\A z \in DOMAIN K : J[z] = K[z])
      /\ \A y \in S : J[m[y]] = [k \in 1 .. Len(K[y]) |-> m[K[y][k]]]
  BY <1>3 DEF Copied, S
<1>6. m \in [S -> Node \ DOMAIN K] /\ \A x, y \in S : m[x] = m[y] => x = y
  BY <1>3 DEF S
<1>7. DOMAIN J \ DOMAIN K = {m[y] : y \in S} /\ m \in [S -> DOMAIN J \ DOMAIN K] /\ DOMAIN K \subseteq DOMAIN J
  BY <1>5, <1>6
<1>8. DOMAIN K # DOMAIN J
  <2>1. m[n] \in DOMAIN J \ DOMAIN K
    BY <1>4, <1>7 DEF S
  <2> QED
    BY <2>1
<1>9. Forest!Injective(m)
  BY <1>6 DEF Forest!Injective
<1>10. Forest!Mirrors(m)
  <2>1. \A x \in S : DOMAIN K[x] = 1 .. Len(K[x])
    BY <1>1, <1>4 DEF S
  <2>2. \A x \in S : J[m[x]] = [i \in DOMAIN K[x] |-> m[K[x][i]]]
    BY <1>5, <2>1
  <2>3. DOMAIN m = S
    BY <1>6
  <2> QED
    BY <1>1, <2>2, <2>3 DEF Forest!Mirrors
<1>11. \A x \in DOMAIN K : ChildLists'[x] = ChildLists[x]
  BY <1>1, <1>5
<1> QED
  BY <1>1, <1>4, <1>7, <1>8, <1>9, <1>10, <1>11 DEF Forest!Copy, S

LEMMA BecomeIsForest ==
    ASSUME NEW K, Holds(tree, K), NEW J, Holds(tree', J), Assigns(K, J)
    PROVE  Forest!Become
<1>1. ChildLists = K /\ ChildLists' = J /\ Forest!Live = DOMAIN K /\ Forest!Live' = DOMAIN J
      /\ DOMAIN K = tree.alive /\ K \in [tree.alive -> Seq(tree.alive)] /\ IsFiniteSet(tree.alive)
  BY StepLists, HasLists
<1>2. PICK e \in DOMAIN K \cap Element, s \in DOMAIN K \cap Element :
        /\ s \notin Under(K, e) /\ e \notin Under(K, s)
        /\ \E m : AssignsWith(K, m, e, s) /\ Assigned(J, K, m, e, s)
  BY DEF Assigns
<1>3. PICK m : AssignsWith(K, m, e, s) /\ Assigned(J, K, m, e, s)
  BY <1>2
<1>4. /\ Forest!Owned(e) = Under(K, e) /\ Forest!Owned(s) = Under(K, s)
      /\ e \in Under(K, e) /\ Under(K, s) \subseteq DOMAIN K
  BY <1>1, <1>2, ForestOwned, UnderIs
<1> DEFINE of == Under(K, s) \ {s}
           kept == DOMAIN K \ (Under(K, e) \ {e})
<1> HIDE DEF of, kept
<1>5. m \in [of -> Node \ kept] /\ \A x, y \in of : m[x] = m[y] => x = y
  BY <1>3 DEF AssignsWith, of, kept
<1>6. /\ DOMAIN J = kept \cup {m[y] : y \in of}
      /\ \A z \in DOMAIN K \ Under(K, e) : J[z] = K[z]
      /\ J[e] = [k \in 1 .. Len(K[s]) |-> m[K[s][k]]]
      /\ \A y \in of : J[m[y]] = [k \in 1 .. Len(K[y]) |-> m[K[y][k]]]
  BY <1>3 DEF Assigned, of, kept
<1>7. DOMAIN J \ kept = {m[y] : y \in of} /\ m \in [of -> DOMAIN J \ kept] /\ kept \subseteq DOMAIN J
  BY <1>5, <1>6
<1>8. \A x \in kept \ {e} : J[x] = K[x]
  BY <1>6 DEF kept
<1>9. \A x \in of \cup {s} : DOMAIN K[x] = 1 .. Len(K[x])
  BY <1>1, <1>2, <1>4 DEF of
<1>10. Cardinality(DOMAIN J \ kept) = Cardinality(of)
  <2>1. IsFiniteSet(of)
    <3>1. of \subseteq tree.alive
      BY <1>1, <1>4 DEF of
    <3> QED
      BY <1>1, <3>1, FS_Subset
  <2>2. m \in Bijection(of, DOMAIN J \ kept)
    BY <1>5, <1>7 DEF Bijection, Injection, Surjection, IsInjective
  <2>3. ExistsBijection(of, DOMAIN J \ kept)
    BY <2>2 DEF ExistsBijection
  <2> QED
    BY <2>1, <2>3, FS_Bijection
<1>11. Forest!Injective(m)
  BY <1>5 DEF Forest!Injective
<1>12. Forest!Mirrors(m)
  <2>1. \A x \in of : J[m[x]] = [i \in DOMAIN K[x] |-> m[K[x][i]]]
    BY <1>6, <1>9
  <2>2. DOMAIN m = of
    BY <1>5
  <2> QED
    BY <1>1, <2>1, <2>2 DEF Forest!Mirrors
<1>13. ChildLists'[e] = [i \in DOMAIN ChildLists[s] |-> m[ChildLists[s][i]]]
  BY <1>1, <1>6, <1>9
<1>14. \A x \in kept \ {e} : ChildLists'[x] = ChildLists[x]
  BY <1>1, <1>8
<1>15. Forest!Cardinality(DOMAIN J \ kept) = Forest!Cardinality(of)
  BY <1>10, ForestOperators
<1>16. e \in Forest!Live \cap Element /\ s \in (Forest!Live \cap Element) \ Forest!Owned(e)
       /\ of = Forest!Owned(s) \ {s} /\ kept = Forest!Live \ (Forest!Owned(e) \ {e})
  BY <1>1, <1>2, <1>4 DEF of, kept
<1>17. \E f \in [of -> Forest!Live' \ kept] :
            /\ Forest!Injective(f) /\ Forest!Mirrors(f)
            /\ ChildLists'[e] = [i \in DOMAIN ChildLists[s] |-> f[ChildLists[s][i]]]
  BY <1>1, <1>7, <1>11, <1>12, <1>13
<1>18. kept \subseteq Forest!Live' /\ Forest!Cardinality(Forest!Live' \ kept) = Forest!Cardinality(of)
  BY <1>1, <1>7, <1>15
<1> QED
  BY <1>14, <1>16, <1>17, <1>18, Zenon DEF Forest!Become

LEMMA FollowsForest ==
    ASSUME NEW K, Holds(tree, K), NEW J, Holds(tree', J), Follows(K, J)
    PROVE  [Forest!ForestNext]_ChildLists
<1>1. CASE AddsNode(K, J) \/ AddsPair(K, J) \/ AddsChild(K, J)
  BY <1>1, NewIsForest DEF Forest!ForestNext
<1>2. CASE GivesPlace(K, J)
  BY <1>2, PlaceIsForest DEF Forest!ForestNext
<1>3. CASE J = K
  BY <1>3, StepLists
<1>4. CASE Takes(K, J)
  BY <1>4, TakeIsForest DEF Forest!ForestNext
<1>5. CASE Destroys(K, J) \/ Empties(K, J) \/ TextsGo(K, J)
  BY <1>5, LossIsForest DEF Forest!ForestNext
<1>6. CASE CopiesTree(K, J)
  BY <1>6, CopyIsForest DEF Forest!ForestNext
<1>7. CASE Assigns(K, J)
  BY <1>7, BecomeIsForest DEF Forest!ForestNext
<1> QED
  BY <1>1, <1>2, <1>3, <1>4, <1>5, <1>6, <1>7 DEF Follows

\* The calls on the pointers do to the trees what the operations of XmlForest do to
\* ordered trees: a child comes where it was to come, what is deleted takes what it owns
\* along, and a copy shares nothing with its original (Element.cpp, Node.cpp).
THEOREM TreeImplementsForest ==
    ASSUME AnyOrder = FALSE
    PROVE  TreeSpec => ImplementsForest
<1>1. TreeInit => Forest!ForestInit
  <2> SUFFICES ASSUME TreeInit PROVE Forest!ForestInit
    OBVIOUS
  <2>1. ChildLists = [n \in {} |-> <<>>]
    BY EmptyHolds, ListsAre
  <2> QED
    BY <2>1 DEF Forest!ForestInit
<1>2. Listed /\ [TreeNext]_tree => [Forest!ForestNext]_ChildLists
  <2>1. CASE UNCHANGED tree
    BY <2>1 DEF ChildLists, Sound
  <2>2. ASSUME Listed, TreeNext PROVE [Forest!ForestNext]_ChildLists
    <3>1. PICK K : Holds(tree, K)
      BY <2>2 DEF Listed
    <3>2. PICK J : Holds(tree', J) /\ Follows(K, J)
      BY <2>2, <3>1, NextFollows
    <3> QED
      BY <3>1, <3>2, FollowsForest
  <2> QED
    BY <2>1, <2>2
<1> QED
  BY <1>1, <1>2, ListedAlways, PTL DEF TreeSpec, ImplementsForest, Forest!ForestSpec

-----------------------------------------------------------------------------
(* What is left of a list that is rebuilt.                                 *)

LEMMA ThoseNone ==
    ASSUME NEW S
    PROVE  Those(<<>>, S) = <<>>
<1>1. <<>> \in Seq({}) /\ Len(<<>>) = 0
  OBVIOUS
<1>2. PICK F : Filters(F, {}, <<>>, S) /\ Those(<<>>, S) = F[Len(<<>>)]
  BY <1>1, ThoseBy
<1> QED
  BY <1>1, <1>2 DEF Filters

LEMMA ThoseAppend ==
    ASSUME NEW A, NEW s \in Seq(A), NEW x \in A, NEW S
    PROVE  Those(Append(s, x), S) = IF x \in S THEN Append(Those(s, S), x) ELSE Those(s, S)
<1> DEFINE w == Append(s, x)  N == Len(s)
<1>1. /\ w \in Seq(A) /\ Len(w) = N + 1 /\ N \in Nat /\ w[N + 1] = x
      /\ \A i \in 1 .. N : w[i] = s[i] /\ i \in 1 .. N + 1
  OBVIOUS
<1> HIDE DEF w
<1>2. PICK F : Filters(F, A, s, S) /\ Those(s, S) = F[N]
  BY ThoseBy
<1>3. PICK G : Filters(G, A, w, S) /\ Those(w, S) = G[Len(w)]
  BY <1>1, ThoseBy
<1>4. /\ F[0] = <<>> /\ \A i \in 1 .. N : F[i] = IF s[i] \in S THEN Append(F[i - 1], s[i]) ELSE F[i - 1]
  BY <1>2 DEF Filters
<1>5. /\ G[0] = <<>>
      /\ \A i \in 1 .. N + 1 : G[i] = IF w[i] \in S THEN Append(G[i - 1], w[i]) ELSE G[i - 1]
  BY <1>1, <1>3 DEF Filters
<1> HIDE DEF N
<1> DEFINE T == {i \in 0 .. N : G[i] = F[i]}
<1>6. 0 \in T
  BY <1>1, <1>4, <1>5
<1>7. ASSUME NEW i \in 1 .. N, i - 1 \in T PROVE i \in T
  <2>1. w[i] = s[i] /\ i \in 1 .. N + 1 /\ i \in 0 .. N /\ G[i - 1] = F[i - 1]
    BY <1>1, <1>7
  <2> QED
    BY <2>1, <1>4, <1>5
<1>8. G[N] = F[N]
  <2>1. \A i \in 0 .. N : i \in T
    <3> HIDE DEF T
    <3> QED
      BY <1>1, <1>6, <1>7, NatSteps, Zenon
  <2>2. N \in 0 .. N
    BY <1>1
  <2> QED
    BY <2>1, <2>2
<1>9. N + 1 \in 1 .. N + 1 /\ (N + 1) - 1 = N
  BY <1>1
<1>10. G[N + 1] = IF x \in S THEN Append(G[N], x) ELSE G[N]
  BY <1>1, <1>5, <1>9
<1> QED
  BY <1>1, <1>2, <1>3, <1>8, <1>10 DEF w

LEMMA ThoseThose ==
    ASSUME NEW A, NEW s \in Seq(A), NEW S, NEW R
    PROVE  Those(Those(s, S), R) = Those(s, S \cap R)
<1> DEFINE N == Len(s)
<1>1. N \in Nat /\ \A i \in 1 .. N : s[i] \in A
  OBVIOUS
<1>2. PICK F : Filters(F, A, s, S) /\ Those(s, S) = F[N]
  BY ThoseBy
<1>3. PICK G : Filters(G, A, s, S \cap R) /\ Those(s, S \cap R) = G[N]
  BY ThoseBy
<1>4. /\ F[0] = <<>> /\ \A i \in 0 .. N : F[i] \in Seq(A)
      /\ \A i \in 1 .. N : F[i] = IF s[i] \in S THEN Append(F[i - 1], s[i]) ELSE F[i - 1]
  BY <1>2 DEF Filters
<1>5. /\ G[0] = <<>>
      /\ \A i \in 1 .. N : G[i] = IF s[i] \in S \cap R THEN Append(G[i - 1], s[i]) ELSE G[i - 1]
  BY <1>3 DEF Filters
<1> HIDE DEF N
<1> DEFINE T == {i \in 0 .. N : Those(F[i], R) = G[i]}
<1>6. 0 \in T
  BY <1>1, <1>4, <1>5, ThoseNone
<1>7. ASSUME NEW i \in 1 .. N, i - 1 \in T PROVE i \in T
  <2>1. s[i] \in A /\ i \in 0 .. N /\ i - 1 \in 0 .. N /\ F[i - 1] \in Seq(A) /\ Those(F[i - 1], R) = G[i - 1]
    BY <1>1, <1>4, <1>7
  <2>2. Those(Append(F[i - 1], s[i]), R)
        = IF s[i] \in R THEN Append(Those(F[i - 1], R), s[i]) ELSE Those(F[i - 1], R)
    BY <2>1, ThoseAppend, ZenonT(30)
  <2>3. Those(F[i], R) = G[i]
    BY <2>1, <2>2, <1>4, <1>5
  <2> QED
    BY <2>1, <2>3
<1>8. \A i \in 0 .. N : i \in T
  <2> HIDE DEF T
  <2> QED
    BY <1>1, <1>6, <1>7, NatSteps, Zenon
<1>9. N \in 0 .. N
  BY <1>1
<1> QED
  BY <1>2, <1>3, <1>8, <1>9

LEMMA ThoseOne ==
    ASSUME NEW A, NEW s \in Seq(A), \A i, j \in 1 .. Len(s) : s[i] = s[j] => i = j, NEW x, In(s, x)
    PROVE  Those(s, {x}) = <<x>>
<1> DEFINE r == Those(s, {x})
<1>1. /\ r \in Seq(A) /\ (\A y : In(r, y) <=> In(s, y) /\ y \in {x})
      /\ \A i, j \in 1 .. Len(r) : r[i] = r[j] => i = j
  BY ThoseIs
<1> HIDE DEF r
<1>2. Len(r) \in Nat /\ \A i \in 1 .. Len(r) : r[i] = x
  BY <1>1, SMTT(45) DEF In
<1>3. \E i \in 1 .. Len(r) : r[i] = x
  BY <1>1 DEF In
<1>4. 1 \in 1 .. Len(r) /\ Len(r) \in 1 .. Len(r)
  BY <1>2, <1>3
<1>5. Len(r) = 1
  BY <1>1, <1>2, <1>4
<1>6. r = <<x>>
  BY <1>1, <1>2, <1>4, <1>5
<1> QED
  BY <1>6 DEF r

\* One text stays of the list s, and all else does.
OneIsKept(s, r) ==
    /\ Len(Those(r, Text)) = 1
    /\ Those(s, Text) # <<>> => Those(r, Text) = <<Head(Those(s, Text))>>
    /\ Those(r, Node \ Text) = Those(s, Node \ Text)

LEMMA KeepsOne ==
    ASSUME NEW A, A \subseteq Node, NEW s \in Seq(A), \A i, j \in 1 .. Len(s) : s[i] = s[j] => i = j,
           Those(s, Text) # <<>>,
           NEW M, M = (ToSet(s) \cap Text) \ {Head(Those(s, Text))}
    PROVE  OneIsKept(s, Those(s, A \ M))
<1> DEFINE h == Head(Those(s, Text))  r == Those(s, A \ M)
<1>1. \A i \in 1 .. Len(s) : s[i] \in A /\ s[i] \in Node /\ s[i] \in ToSet(s)
  <2>1. DOMAIN s = 1 .. Len(s) /\ \A i \in 1 .. Len(s) : s[i] \in A
    OBVIOUS
  <2> QED
    BY <2>1 DEF ToSet
<1>2. Those(s, Text) \in Seq(A) /\ \A x : In(Those(s, Text), x) <=> In(s, x) /\ x \in Text
  BY ThoseIs
<1>3. In(Those(s, Text), h)
  <2>1. 1 \in 1 .. Len(Those(s, Text)) /\ h = Those(s, Text)[1]
    BY <1>2
  <2> QED
    BY <2>1 DEF In
<1>4. In(s, h) /\ h \in Text
  BY <1>2, <1>3
<1>5. Len(s) \in Nat
  OBVIOUS
<1>6. Those(r, Text) = <<h>>
  <2> HIDE DEF h
  <2>1. Those(r, Text) = Those(s, (A \ M) \cap Text)
    BY ThoseThose
  <2>2. \A i \in 1 .. Len(s) : s[i] \in (A \ M) \cap Text <=> s[i] \in {h}
    BY <1>1, <1>4 DEF h
  <2>3. Those(s, (A \ M) \cap Text) = Those(s, {h})
    BY <1>5, <2>2, ThoseAlike
  <2>4. Those(s, {h}) = <<h>>
    BY <1>4, ThoseOne
  <2> QED
    BY <2>1, <2>3, <2>4
<1>7. Those(r, Node \ Text) = Those(s, Node \ Text)
  <2>1. Those(r, Node \ Text) = Those(s, (A \ M) \cap (Node \ Text))
    BY ThoseThose
  <2>2. \A i \in 1 .. Len(s) : s[i] \in (A \ M) \cap (Node \ Text) <=> s[i] \in Node \ Text
    BY <1>1
  <2>3. Those(s, (A \ M) \cap (Node \ Text)) = Those(s, Node \ Text)
    BY <1>5, <2>2, ThoseAlike
  <2> QED
    BY <2>1, <2>3
<1>8. Len(<<h>>) = 1
  OBVIOUS
<1> QED
  BY <1>6, <1>7, <1>8 DEF OneIsKept

LEMMA ValueKeeps ==
    ASSUME NEW K, Holds(tree, K), NEW e \in tree.alive, SetValue(e)
    PROVE  OneIsKept(ChildrenOf(tree, e), ChildrenOf(tree', e))
<1> DEFINE A == tree.alive  s == K[e]  texts == Those(s, Text)
<1>1. DOMAIN K = A /\ A \subseteq Node /\ s \in Seq(A) /\ Once(K) /\ e \in Node
      /\ \A i, j \in 1 .. Len(s) : s[i] = s[j] => i = j
  <2>1. DOMAIN K = A /\ A \subseteq Node /\ s \in Seq(A) /\ Once(K)
    BY HasLists
  <2> QED
    BY <2>1 DEF Once
<1>2. ChildrenOf(tree, e) = s /\ TextsOf(tree, e) = texts
  <2>1. ChildrenOf(tree, e) = s
    BY <1>1, ChildrenAre
  <2> QED
    BY <2>1 DEF TextsOf
<1>a. e \in Element
  BY DEF SetValue, Elements
<1>3. \/ texts = <<>> /\ \E n \in Text \ A : Holds(tree', WithChild(K, e, n))
      \/ texts # <<>> /\ Holds(tree', GoneFrom(K, (ToSet(s) \cap Text) \ {Head(texts)}))
  BY <1>2, ValueSet
<1>4. CASE texts = <<>>
  <2>1. PICK n \in Text \ A : Holds(tree', WithChild(K, e, n))
    BY <1>3, <1>4
  <2>2. n \in Node /\ n # e
    BY <2>1 DEF Text
  <2>3. e \in DOMAIN WithChild(K, e, n) /\ WithChild(K, e, n)[e] = Append(s, n)
    BY <1>1, <2>1, <2>2 DEF WithChild
  <2>4. ChildrenOf(tree', e) = Append(s, n)
    BY <1>1, <2>1, <2>3, ChildrenAre, HasLists
  <2> HIDE DEF s, A
  <2>5. s \in Seq(Node) /\ n \in Node
    BY <1>1, <2>2
  <2>6. Those(Append(s, n), Text) = Append(texts, n)
    BY <2>1, <2>5, ThoseAppend
  <2>7. Those(Append(s, n), Node \ Text) = Those(s, Node \ Text)
    BY <2>1, <2>5, ThoseAppend
  <2>8. Len(Append(<<>>, n)) = 1
    OBVIOUS
  <2> HIDE DEF texts
  <2> QED
    BY <1>2, <1>4, <2>4, <2>6, <2>7, <2>8 DEF OneIsKept, texts
<1>5. CASE texts # <<>>
  <2> DEFINE M == (ToSet(s) \cap Text) \ {Head(texts)}
  <2>1. Holds(tree', GoneFrom(K, M))
    BY <1>3, <1>5
  <2>2. e \in A \ M
    BY <1>a DEF Element, Text
  <2>3. e \in DOMAIN GoneFrom(K, M) /\ GoneFrom(K, M)[e] = Those(s, A \ M)
    BY <1>1, <2>2 DEF GoneFrom
  <2>4. ChildrenOf(tree', e) = Those(s, A \ M)
    BY <1>1, <2>1, <2>3, ChildrenAre, HasLists
  <2> HIDE DEF s, A
  <2>5. OneIsKept(s, Those(s, A \ M))
    BY <1>1, <1>5, KeepsOne
  <2> QED
    BY <1>2, <2>4, <2>5
<1> QED
  BY <1>4, <1>5

LEMMA ValuesKeep ==
    ASSUME AnyOrder = FALSE
    PROVE  TreeSpec => OneTextIsKept
<1> DEFINE Keeps == \A e \in Element \cap tree.alive : SetValue(e) =>
                        OneIsKept(ChildrenOf(tree, e), ChildrenOf(tree', e))
<1>1. Listed => Keeps
  BY ValueKeeps DEF Listed
<1>2. Keeps => [\A e \in Element \cap tree.alive : SetValue(e) =>
                    LET before == ChildrenOf(tree, e)
                        after  == ChildrenOf(tree', e)
                        Others(list) == Those(list, Node \ Text)
                    IN  /\ Len(TextsOf(tree', e)) = 1
                        /\ TextsOf(tree, e) # <<>> => TextsOf(tree', e) = <<Head(TextsOf(tree, e))>>
                        /\ Others(after) = Others(before)]_tree
  BY DEF OneIsKept, TextsOf
<1>3. Listed /\ [TreeNext]_tree => [\A e \in Element \cap tree.alive : SetValue(e) =>
                    LET before == ChildrenOf(tree, e)
                        after  == ChildrenOf(tree', e)
                        Others(list) == Those(list, Node \ Text)
                    IN  /\ Len(TextsOf(tree', e)) = 1
                        /\ TextsOf(tree, e) # <<>> => TextsOf(tree', e) = <<Head(TextsOf(tree, e))>>
                        /\ Others(after) = Others(before)]_tree
  BY <1>1, <1>2
<1> QED
  BY <1>3, ListedAlways, PTL DEF TreeSpec, OneTextIsKept

-----------------------------------------------------------------------------
(* Copies look like their originals.                                       *)

\* looks[i][x] is what is seen of x, and of what is below it down to i levels.
Sees(looks, A, K, N) ==
    \A i \in 0 .. N : \A x \in A :
        looks[i][x] = <<Kind[x], Label[x], IF i = 0 THEN <<>>
                                           ELSE [k \in DOMAIN K[x] |-> looks[i - 1][K[x][k]]]>>

LEMMA LooksBy ==
    ASSUME NEW t, NEW K, Holds(t, K)
    PROVE  \E looks : /\ Sees(looks, t.alive, K, Cardinality(Node))
                      /\ \A n \in t.alive : Looks(t, n) = looks[Cardinality(Node)][n]
<1> DEFINE N == Cardinality(Node)
           Row(i, h) == [x \in Node |->
                            LET children == ChildrenOf(t, x) IN
                            <<Kind[x], Label[x], IF i = 0 THEN <<>>
                                                 ELSE [k \in DOMAIN children |-> h[children[k]]]>>]
           Solved(f, n) == f = [steps \in 0 .. n |-> Row(steps, f[steps - 1])]
           looks == CHOOSE f : Solved(f, N)
<1>1. N \in Nat
  BY NodesAre
<1>2. \A n : Looks(t, n) = looks[N][n]
  BY DEF Looks
<1>3. \A x \in t.alive : x \in Node /\ ChildrenOf(t, x) = K[x]
  BY HasLists, ChildrenAre
<1>4. \A h : Row(0, h) = Row(0, K)
  OBVIOUS
<1> HIDE DEF N
<1> DEFINE T == {n \in 0 .. N : \E f : Solved(f, n)}
<1>5. 0 \in T
  <2> DEFINE f == [steps \in 0 .. 0 |-> Row(0, K)]
  <2> HIDE DEF Row
  <2>1. \A steps \in 0 .. 0 : Row(steps, f[steps - 1]) = Row(0, K)
    BY <1>4
  <2>2. Solved(f, 0)
    BY <2>1
  <2> QED
    BY <1>1, <2>2
<1>6. ASSUME NEW n \in 1 .. N, n - 1 \in T PROVE n \in T
  <2> HIDE DEF Row
  <2>1. PICK f : Solved(f, n - 1)
    BY <1>6
  <2>2. n \in Nat /\ n - 1 \in Nat /\ n \in 0 .. N /\ ~(n \in 0 .. n - 1)
    BY <1>1
  <2> DEFINE g == [steps \in 0 .. n |-> IF steps = n THEN Row(n, f[n - 1]) ELSE f[steps]]
  <2>3. ASSUME NEW i \in 0 .. n
        PROVE  g[i] = Row(i, g[i - 1])
    <3>1. CASE i = n
      <4>1. n - 1 \in 0 .. n /\ n - 1 # n
        BY <2>2
      <4>2. g[n - 1] = f[n - 1]
        BY <4>1
      <4>3. g[n] = Row(n, f[n - 1])
        BY <2>2
      <4> QED
        BY <3>1, <4>2, <4>3
    <3>2. CASE i # n /\ i # 0
      <4>1. i \in 0 .. n - 1 /\ i - 1 \in 0 .. n /\ i - 1 # n
        BY <2>2, <3>2
      <4>2. g[i] = f[i] /\ g[i - 1] = f[i - 1]
        BY <3>2, <4>1
      <4>3. f[i] = Row(i, f[i - 1])
        BY <2>1, <4>1
      <4> QED
        BY <4>2, <4>3
    <3>3. CASE i # n /\ i = 0
      <4>1. 0 \in 0 .. n - 1
        BY <2>2, <3>3
      <4>2. f[0] = Row(0, f[0 - 1])
        BY <2>1, <4>1
      <4>3. g[0] = f[0]
        BY <3>3
      <4>4. \A h : Row(0, h) = Row(0, K)
        BY <1>4
      <4> HIDE DEF g
      <4>5. Row(0, f[0 - 1]) = Row(0, g[0 - 1])
        BY <4>4
      <4> QED
        BY <3>3, <4>2, <4>3, <4>5
    <3> QED
      BY <3>1, <3>2, <3>3
  <2>4. g = [i \in 0 .. n |-> g[i]]
    OBVIOUS
  <2>5. Solved(g, n)
    <3> HIDE DEF g
    <3> QED
      BY <2>3, <2>4
  <2> QED
    BY <2>2, <2>5
<1>7. \E f : Solved(f, N)
  <2>1. \A i \in 0 .. N : i \in T
    <3> HIDE DEF T
    <3> QED
      BY <1>1, <1>5, <1>6, NatSteps, Zenon
  <2>2. N \in 0 .. N
    BY <1>1
  <2> HIDE DEF Solved
  <2> QED
    BY <2>1, <2>2
<1>8. Solved(looks, N)
  <2> HIDE DEF Solved
  <2> QED
    BY <1>7
<1> HIDE DEF looks
<1>9. ASSUME NEW i \in 0 .. N, NEW x \in t.alive
      PROVE  looks[i][x] = <<Kind[x], Label[x], IF i = 0 THEN <<>>
                                                ELSE [k \in DOMAIN K[x] |-> looks[i - 1][K[x][k]]]>>
  <2>1. looks[i] = Row(i, looks[i - 1])
    <3> HIDE DEF Row
    <3> QED
      BY <1>8
  <2>2. x \in Node /\ ChildrenOf(t, x) = K[x]
    BY <1>3
  <2> QED
    BY <2>1, <2>2
<1>10. Sees(looks, t.alive, K, N)
  BY <1>9 DEF Sees
<1> QED
  BY <1>2, <1>10 DEF N

\* m names copies of the nodes of U, outside A.
Naming(m, U, A) ==
    /\ m \in [U -> Node \ A]
    /\ \A x, y \in U : m[x] = m[y] => x = y
    /\ \A y \in U : Kind[m[y]] = Kind[y] /\ Label[m[y]] = Label[y]
\* What is below the copy c is all that is new, and nothing is above it.
Apart(J, c, C, A) ==
    c \in C /\ c \notin A /\ Under(J, c) = C \ A /\ \A e \in C : ~In(J[e], c)

LEMMA CopyApart ==
    ASSUME NEW A, NEW K, K \in [A -> Seq(A)], Once(K), NoCircle(K), NEW n \in A,
           NEW m, Naming(m, Under(K, n), A),
           NEW J, Copied(J, K, m, Under(K, n)), NEW C, J \in [C -> Seq(C)]
    PROVE  Apart(J, m[n], C, A)
<1> DEFINE U == Under(K, n)
<1>1. n \in U /\ U \subseteq A /\ Closed(K, U) /\ \A V \in SUBSET A : n \in V /\ Closed(K, V) => U \subseteq V
  BY UnderIs
<1>2. m \in [U -> Node \ A] /\ (\A x, y \in U : m[x] = m[y] => x = y)
  BY DEF Naming
<1>3. /\ C = A \cup {m[y] : y \in U} /\ (\A z \in A : J[z] = K[z])
      /\ \A y \in U : J[m[y]] = [k \in 1 .. Len(K[y]) |-> m[K[y][k]]]
  BY DEF Copied
<1>5. ASSUME NEW y \in U, NEW i \in 1 .. Len(K[y]) PROVE K[y][i] \in U /\ K[y][i] # n
  <2>1. K[y][i] \in U
    BY <1>1 DEF Closed
  <2>2. K[y][i] # n
    BY <1>1, UnderShrinks
  <2> QED
    BY <2>1, <2>2
<1>6. ASSUME NEW y \in U PROVE K[y] \in Seq(A) /\ Len(K[y]) \in Nat
  BY <1>1
<1>7. ASSUME NEW y \in U
      PROVE  Len(J[m[y]]) = Len(K[y]) /\ \A i \in 1 .. Len(K[y]) : J[m[y]][i] = m[K[y][i]]
  <2> DEFINE q == J[m[y]]
  <2>1. q = [k \in 1 .. Len(K[y]) |-> m[K[y][k]]] /\ q \in Seq(C) /\ Len(K[y]) \in Nat
    BY <1>3, <1>6
  <2> HIDE DEF q
  <2>2. DOMAIN q = 1 .. Len(K[y]) /\ DOMAIN q = 1 .. Len(q) /\ Len(q) \in Nat
    BY <2>1
  <2>3. Len(q) = Len(K[y])
    BY <2>1, <2>2
  <2> QED
    BY <2>1, <2>3 DEF q
<1> HIDE DEF U
<1> DEFINE I == {m[y] : y \in U}
<1>8. m[n] \in I /\ I \subseteq C /\ m[n] \in C /\ m[n] \notin A /\ C \ A = I
  BY <1>1, <1>2, <1>3
<1>9. ASSUME NEW e \in C PROVE ~In(J[e], m[n])
  <2>1. CASE e \in A
    <3>1. J[e] = K[e] /\ K[e] \in Seq(A)
      BY <1>3, <2>1
    <3> QED
      BY <3>1, <1>8 DEF In
  <2>2. CASE e \notin A
    <3>1. PICK y \in U : e = m[y]
      BY <1>3, <2>2
    <3>2. \A i \in 1 .. Len(K[y]) : m[K[y][i]] # m[n]
      BY <1>1, <1>2, <1>5
    <3> QED
      BY <3>1, <3>2, <1>7 DEF In
  <2> QED
    BY <2>1, <2>2
<1>10. /\ m[n] \in Under(J, m[n]) /\ Closed(J, Under(J, m[n])) /\ Under(J, m[n]) \subseteq C
       /\ \A V \in SUBSET C : m[n] \in V /\ Closed(J, V) => Under(J, m[n]) \subseteq V
  <2> DEFINE c == m[n]
  <2>1. c \in C /\ J \in [C -> Seq(C)]
    BY <1>8
  <2> HIDE DEF c, I
  <2>2. /\ c \in Under(J, c) /\ Closed(J, Under(J, c)) /\ Under(J, c) \subseteq C
        /\ \A V \in SUBSET C : c \in V /\ Closed(J, V) => Under(J, c) \subseteq V
    BY <2>1, UnderIs
  <2> QED
    BY <2>2 DEF c
<1>11. Under(J, m[n]) \subseteq I
  <2>1. Closed(J, I)
    <3> SUFFICES ASSUME NEW x \in I, NEW i \in 1 .. Len(J[x]) PROVE J[x][i] \in I
      BY DEF Closed
    <3>1. PICK y \in U : x = m[y]
      OBVIOUS
    <3>2. i \in 1 .. Len(K[y]) /\ J[x][i] = m[K[y][i]] /\ K[y][i] \in U
      BY <1>5, <1>7, <3>1
    <3> QED
      BY <3>2
  <2> QED
    BY <2>1, <1>8, <1>10
<1>12. I \subseteq Under(J, m[n])
  <2> DEFINE V == {y \in U : m[y] \in Under(J, m[n])}
  <2>1. V \in SUBSET A /\ n \in V
    BY <1>1, <1>10 DEF U
  <2>2. Closed(K, V)
    <3> SUFFICES ASSUME NEW y \in V, NEW i \in 1 .. Len(K[y]) PROVE K[y][i] \in V
      BY DEF Closed
    <3>1. y \in U /\ m[y] \in Under(J, m[n]) /\ K[y][i] \in U
      BY <1>5
    <3>2. J[m[y]][i] = m[K[y][i]] /\ i \in 1 .. Len(J[m[y]])
      BY <1>7, <3>1
    <3>3. J[m[y]][i] \in Under(J, m[n])
      BY <1>10, <3>1, <3>2 DEF Closed
    <3> QED
      BY <3>1, <3>2, <3>3
  <2>3. U \subseteq V
    BY <2>1, <2>2, <1>1
  <2> QED
    BY <2>3
<1>13. Under(J, m[n]) = I
  BY <1>11, <1>12
<1> QED
  BY <1>8, <1>9, <1>13 DEF Apart

LEMMA CopiesLook ==
    ASSUME NEW A, NEW K, K \in [A -> Seq(A)], NEW n \in A, NEW m, Naming(m, Under(K, n), A),
           NEW J, Copied(J, K, m, Under(K, n)), NEW C, DOMAIN J = C, NEW N \in Nat,
           NEW f, Sees(f, A, K, N), NEW g, Sees(g, C, J, N)
    PROVE  g[N][m[n]] = f[N][n] /\ g[N][n] = f[N][n]
<1> DEFINE U == Under(K, n)
<1>1. n \in U /\ U \subseteq A /\ Closed(K, U)
  BY UnderIs
<1>2. /\ C = A \cup {m[y] : y \in U} /\ (\A z \in A : J[z] = K[z])
      /\ \A y \in U : J[m[y]] = [k \in 1 .. Len(K[y]) |-> m[K[y][k]]]
  BY DEF Copied
<1>3. ASSUME NEW y \in U
      PROVE  /\ y \in A /\ y \in C /\ m[y] \in C /\ J[y] = K[y]
             /\ DOMAIN K[y] = 1 .. Len(K[y]) /\ DOMAIN J[m[y]] = DOMAIN K[y]
             /\ \A k \in DOMAIN K[y] : K[y][k] \in U /\ J[m[y]][k] = m[K[y][k]]
             /\ Kind[m[y]] = Kind[y] /\ Label[m[y]] = Label[y]
  <2>1. y \in A /\ y \in C /\ m[y] \in C /\ J[y] = K[y] /\ Kind[m[y]] = Kind[y] /\ Label[m[y]] = Label[y]
    BY <1>1, <1>2 DEF Naming
  <2>2. DOMAIN K[y] = 1 .. Len(K[y])
    BY <2>1
  <2>3. \A k \in 1 .. Len(K[y]) : K[y][k] \in U
    BY <1>1 DEF Closed
  <2>4. J[m[y]] = [k \in 1 .. Len(K[y]) |-> m[K[y][k]]]
    BY <1>2
  <2> QED
    BY <2>1, <2>2, <2>3, <2>4
<1> HIDE DEF U
<1> DEFINE T == {i \in 0 .. N : \A y \in U : g[i][m[y]] = f[i][y] /\ g[i][y] = f[i][y]}
<1>4. 0 \in T
  <2>1. 0 \in 0 .. N
    OBVIOUS
  <2>2. ASSUME NEW y \in U PROVE g[0][m[y]] = f[0][y] /\ g[0][y] = f[0][y]
    <3>1. f[0][y] = <<Kind[y], Label[y], <<>>>>
      BY <1>3, <2>1 DEF Sees
    <3>2. g[0][y] = <<Kind[y], Label[y], <<>>>>
      BY <1>3, <2>1 DEF Sees
    <3>3. g[0][m[y]] = <<Kind[m[y]], Label[m[y]], <<>>>>
      BY <1>3, <2>1 DEF Sees
    <3> QED
      BY <1>3, <3>1, <3>2, <3>3
  <2> QED
    BY <2>1, <2>2
<1>5. ASSUME NEW i \in 1 .. N, i - 1 \in T PROVE i \in T
  <2>1. i \in 0 .. N /\ i # 0
    OBVIOUS
  <2>2. \A y \in U : g[i - 1][m[y]] = f[i - 1][y] /\ g[i - 1][y] = f[i - 1][y]
    BY <1>5
  <2>3. ASSUME NEW y \in U PROVE g[i][m[y]] = f[i][y] /\ g[i][y] = f[i][y]
    <3>1. f[i][y] = <<Kind[y], Label[y], [k \in DOMAIN K[y] |-> f[i - 1][K[y][k]]]>>
      BY <1>3, <2>1 DEF Sees
    <3>2. g[i][y] = <<Kind[y], Label[y], [k \in DOMAIN K[y] |-> g[i - 1][K[y][k]]]>>
      <4>1. g[i][y] = <<Kind[y], Label[y], [k \in DOMAIN J[y] |-> g[i - 1][J[y][k]]]>>
        BY <1>3, <2>1 DEF Sees
      <4> QED
        BY <4>1, <1>3
    <3>3. g[i][m[y]] = <<Kind[y], Label[y], [k \in DOMAIN K[y] |-> g[i - 1][m[K[y][k]]]]>>
      <4>1. g[i][m[y]] = <<Kind[m[y]], Label[m[y]], [k \in DOMAIN J[m[y]] |-> g[i - 1][J[m[y]][k]]]>>
        BY <1>3, <2>1 DEF Sees
      <4>2. [k \in DOMAIN J[m[y]] |-> g[i - 1][J[m[y]][k]]] = [k \in DOMAIN K[y] |-> g[i - 1][m[K[y][k]]]]
        BY <1>3
      <4> QED
        BY <4>1, <4>2, <1>3
    <3>4. \A k \in DOMAIN K[y] : g[i - 1][m[K[y][k]]] = f[i - 1][K[y][k]] /\ g[i - 1][K[y][k]] = f[i - 1][K[y][k]]
      BY <1>3, <2>2
    <3> QED
      BY <3>1, <3>2, <3>3, <3>4
  <2> QED
    BY <2>1, <2>3
<1>6. \A i \in 0 .. N : i \in T
  <2> HIDE DEF T
  <2> QED
    BY <1>4, <1>5, NatSteps, Zenon
<1>7. N \in 0 .. N
  OBVIOUS
<1> QED
  BY <1>1, <1>6, <1>7

\* c is a copy of n that shares nothing with it.
IsCopy(c, n) ==
    /\ tree'.parent[c] = None
    /\ Looks(tree', c) = Looks(tree, n) /\ Looks(tree', n) = Looks(tree, n)
    /\ Below(tree', c) = tree'.alive \ tree.alive

LEMMA CloneLooks ==
    ASSUME NEW K, Holds(tree, K), NEW n \in tree.alive, CloneNode(n)
    PROVE  \E c \in tree'.alive \ tree.alive : IsCopy(c, n)
<1> DEFINE A == tree.alive  C == tree'.alive  U == Under(K, n)  N == Cardinality(Node)
<1>1. PICK m \in Copies(tree, Below(tree, n)) : tree' = ClonedInto(Constructed(tree, m[n]), m[n], n, m)
  BY DEF CloneNode
<1>2. PICK J : Holds(tree', J) /\ Copied(J, K, m, U)
  BY <1>1, ClonedHolds
<1>3. /\ DOMAIN K = A /\ K \in [A -> Seq(A)] /\ A \subseteq Node /\ Once(K) /\ NoCircle(K)
      /\ DOMAIN J = C /\ J \in [C -> Seq(C)] /\ C \subseteq Node
      /\ Below(tree, n) = U /\ n \in U /\ U \subseteq A /\ N \in Nat
  BY <1>2, HasLists, BelowIs, UnderIs, NodesAre
<1>4. Naming(m, U, A)
  BY <1>1, <1>3 DEF Copies, Naming
<1>5. n \in A
  OBVIOUS
<1>6. PICK f : Sees(f, A, K, N) /\ \A x \in A : Looks(tree, x) = f[N][x]
  BY LooksBy
<1>7. PICK g : Sees(g, C, J, N) /\ \A x \in C : Looks(tree', x) = g[N][x]
  BY <1>2, LooksBy
<1>8. g[N][m[n]] = f[N][n] /\ g[N][n] = f[N][n] /\ Apart(J, m[n], C, A)
  <2> HIDE DEF A, C, N
  <2>1. Copied(J, K, m, Under(K, n)) /\ Naming(m, Under(K, n), A)
    BY <1>2, <1>4
  <2> HIDE DEF U
  <2>2. Apart(J, m[n], C, A)
    BY <1>3, <1>5, <2>1, CopyApart
  <2>3. g[N][m[n]] = f[N][n] /\ g[N][n] = f[N][n]
    BY <1>3, <1>5, <1>6, <1>7, <2>1, CopiesLook
  <2> QED
    BY <2>2, <2>3
<1>9. n \in C
  BY <1>2, <1>3 DEF Copied
<1> DEFINE c == m[n]
<1> HIDE DEF c
<1>10. c \in C /\ c \notin A /\ c \in Node /\ Under(J, c) = C \ A /\ \A e \in C : ~In(J[e], c)
  BY <1>3, <1>8 DEF c, Apart
<1>11. tree'.parent[c] = None
  BY <1>2, <1>10, ParentIs
<1>12. Below(tree', c) = C \ A
  BY <1>2, <1>10, BelowIs
<1>13. Looks(tree', c) = Looks(tree, n) /\ Looks(tree', n) = Looks(tree, n)
  BY <1>6, <1>7, <1>8, <1>9, <1>10 DEF c
<1> QED
  BY <1>10, <1>11, <1>12, <1>13 DEF IsCopy

LEMMA ClonesLook ==
    ASSUME AnyOrder = FALSE
    PROVE  TreeSpec => ClonesAlike
<1>1. Listed /\ [TreeNext]_tree => [\A n \in tree.alive : CloneNode(n) =>
          \E c \in tree'.alive \ tree.alive :
              /\ tree'.parent[c] = None
              /\ Looks(tree', c) = Looks(tree, n) /\ Looks(tree', n) = Looks(tree, n)
              /\ Below(tree', c) = tree'.alive \ tree.alive]_tree
  BY CloneLooks DEF Listed, IsCopy
<1> QED
  BY <1>1, ListedAlways, PTL DEF TreeSpec, ClonesAlike

\* A clone is a tree of new nodes that looks like its original, which stays as it was; and
\* setValue leaves an element the first of its texts, or a new one, and all its other
\* children in their order (Element.cpp lines 81-141 and 201-230).
THEOREM TreeChildren ==
    ASSUME AnyOrder = FALSE
    PROVE  TreeSpec => ChildrenAsCalled
  BY ValuesKeep, ClonesLook DEF ChildrenAsCalled
=============================================================================
