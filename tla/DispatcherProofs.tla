---------------------------- MODULE DispatcherProofs ----------------------------
(***************************************************************************)
(* Proofs about modules ServiceDispatcher and Deployment, for any services,*)
(* locations and groups.                                                   *)
(***************************************************************************)
EXTENDS Deployment, SequenceTheorems, Numbers, TLAPS

LEMMA PrefixType ==
    ASSUME NEW p \in Seq(Part), NEW k \in 0 .. Len(p)
    PROVE  Prefix(p, k) \in Seq(Part) /\ Len(Prefix(p, k)) = k
<1>1. \A i \in 1 .. k : p[i] \in Part
  OBVIOUS
<1>2. k \in Int /\ 1 \in Int
  OBVIOUS
<1> QED
  BY <1>1, <1>2, SubSeqProperties DEF Prefix

LEMMA PrefixItems ==
    ASSUME NEW p \in Seq(Part), NEW k \in 0 .. Len(p), NEW i \in 1 .. k
    PROVE  Prefix(p, k)[i] = p[i]
<1>1. \A j \in 1 .. k : p[j] \in Part
  OBVIOUS
<1>2. k \in Int /\ 1 \in Int /\ i \in 1 .. k - 1 + 1 /\ 1 + i - 1 = i
  OBVIOUS
<1>3. \A j \in 1 .. k - 1 + 1 : SubSeq(p, 1, k)[j] = p[1 + j - 1]
  BY <1>1, <1>2, SubSeqProperties
<1> QED
  BY <1>2, <1>3 DEF Prefix

\* The prefix of a prefix is a prefix.
LEMMA PrefixOfPrefix ==
    ASSUME NEW p \in Seq(Part), NEW k \in 0 .. Len(p), NEW j \in 0 .. k
    PROVE  Prefix(Prefix(p, k), j) = Prefix(p, j)
<1> DEFINE q == Prefix(p, k)
<1>1. q \in Seq(Part) /\ Len(q) = k
  BY PrefixType
<1>2. j \in 0 .. Len(p) /\ j \in 0 .. Len(q)
  BY <1>1
<1>3. Prefix(q, j) \in Seq(Part) /\ Len(Prefix(q, j)) = j
  BY <1>1, <1>2, PrefixType
<1>4. Prefix(p, j) \in Seq(Part) /\ Len(Prefix(p, j)) = j
  BY <1>2, PrefixType
<1>5. ASSUME NEW i \in 1 .. j PROVE Prefix(q, j)[i] = Prefix(p, j)[i]
  <2>1. i \in 1 .. k
    OBVIOUS
  <2>2. q[i] = p[i]
    BY <2>1, PrefixItems
  <2>3. Prefix(q, j)[i] = q[i]
    BY <1>1, <1>2, PrefixItems
  <2>4. Prefix(p, j)[i] = p[i]
    BY <1>2, PrefixItems
  <2> QED
    BY <2>2, <2>3, <2>4
<1> QED
  BY <1>3, <1>4, <1>5, SeqEqual

LEMMA WholePrefix ==
    ASSUME NEW p \in Seq(Part)
    PROVE  Prefix(p, Len(p)) = p /\ Prefix(p, 0) = <<>>
<1>1. Prefix(p, Len(p)) = p
  BY SubSeqFull DEF Prefix
<1>2. 1 \in Int /\ 0 \in Int /\ 0 < 1
  OBVIOUS
<1>3. Prefix(p, 0) = <<>>
  BY <1>2, SubSeqEmpty DEF Prefix
<1> QED
  BY <1>1, <1>3

\* What TreeInv and the operators on trees need to know of NodesTo.
LEMMA NodesToFacts ==
    ASSUME NEW p \in Seq(Part)
    PROVE  /\ p \in NodesTo(p) /\ <<>> \in NodesTo(p)
           /\ NodesTo(p) \subseteq Seq(Part)
           /\ \A q \in NodesTo(p) : /\ q = Prefix(p, Len(q))
                                    /\ Len(q) \in 0 .. Len(p)
                                    /\ NodesTo(q) \subseteq NodesTo(p)
<1>0. Len(p) \in Nat
  OBVIOUS
<1>1. p \in NodesTo(p) /\ <<>> \in NodesTo(p)
  BY <1>0, WholePrefix DEF NodesTo
<1>2. ASSUME NEW q \in NodesTo(p)
      PROVE  /\ q \in Seq(Part) /\ q = Prefix(p, Len(q)) /\ Len(q) \in 0 .. Len(p)
             /\ NodesTo(q) \subseteq NodesTo(p)
  <2>1. PICK k \in 0 .. Len(p) : q = Prefix(p, k)
    BY DEF NodesTo
  <2>2. q \in Seq(Part) /\ Len(q) = k
    BY <2>1, PrefixType
  <2>3. ASSUME NEW j \in 0 .. k PROVE Prefix(q, j) \in NodesTo(p)
    <3>1. Prefix(q, j) = Prefix(p, j)
      BY <2>1, PrefixOfPrefix
    <3>2. j \in 0 .. Len(p)
      OBVIOUS
    <3> QED
      BY <3>1, <3>2 DEF NodesTo
  <2> QED
    BY <2>1, <2>2, <2>3 DEF NodesTo
<1> QED
  BY <1>1, <1>2

LEMMA DescrFacts ==
    ASSUME NEW w \in Wrapper
    PROVE  /\ Descr[w].name \in Name
           /\ Descr[w].location \in Seq(Part) /\ Descr[w].location # <<>>
           /\ Descr[w].name # None /\ Descr[w].name # Dangling
           /\ w # None
BY DispatcherAssumption DEF Description

------------------------------------------------------------------------------
LEMMA InitDispatcher == Init => DispatcherInv
<1> SUFFICES ASSUME Init PROVE DispatcherInv
  OBVIOUS
<1>1. DOMAIN deployedServices = {} /\ DOMAIN resourcePath = {<<>>} /\ resourcePath[<<>>] = None
  BY DEF Init
<1>2. <<>> \in Seq(Part)
  OBVIOUS
<1>3. NodesTo(<<>>) \subseteq {<<>>}
  <2>1. 0 .. Len(<<>>) = {0}
    OBVIOUS
  <2> QED
    BY <1>2, <2>1, WholePrefix DEF NodesTo
<1> QED
  BY <1>1, <1>2, <1>3 DEF DispatcherInv, TypeOK, TreeInv, PointerInv, EntryInv

\* Growing the tree keeps it one.
LEMMA GrownTree ==
    ASSUME TypeOK, TreeInv, NEW w \in Wrapper,
           DOMAIN resourcePath' = DOMAIN resourcePath \cup NodesTo(Descr[w].location),
           resourcePath'[<<>>] = None
    PROVE  TreeInv' /\ DOMAIN resourcePath' \subseteq Seq(Part)
<1> DEFINE location == Descr[w].location
<1>1. location \in Seq(Part)
  BY DescrFacts
<1>2. \A q \in NodesTo(location) : q \in Seq(Part) /\ NodesTo(q) \subseteq NodesTo(location)
  BY <1>1, NodesToFacts
<1>3. <<>> \in DOMAIN resourcePath /\ \A p \in DOMAIN resourcePath : NodesTo(p) \subseteq DOMAIN resourcePath
  BY DEF TreeInv
<1>4. DOMAIN resourcePath' \subseteq Seq(Part)
  BY <1>2 DEF TypeOK
<1>5. \A p \in DOMAIN resourcePath' : NodesTo(p) \subseteq DOMAIN resourcePath'
  BY <1>2, <1>3
<1> QED
  BY <1>3, <1>4, <1>5 DEF TreeInv, NodesTo, Prefix

\* The two ways to take the location: entry is what deployedServices gets.
LEMMA TakenLocation ==
    ASSUME DispatcherInv, NEW w \in Wrapper, NEW entry,
           Descr[w].valid, ~Taken(w), Occupant(w) = None,
           entry \in [wrapper : {w, None}, resources : SUBSET Resource],
           deployedServices' = WithEntry(Descr[w].name, entry),
           resourcePath' = [Grown(Descr[w].location) EXCEPT ![Descr[w].location] = Descr[w].name]
    PROVE  DispatcherInv'
<1> DEFINE name == Descr[w].name
           location == Descr[w].location
<1>1. name \in Name /\ location \in Seq(Part) /\ location # <<>> /\ name # None
  BY DescrFacts
<1>2. location \in NodesTo(location)
  BY <1>1, NodesToFacts
<1>3. /\ DOMAIN resourcePath' = DOMAIN resourcePath \cup NodesTo(location)
      /\ resourcePath'[location] = name
      /\ \A p \in DOMAIN resourcePath \ {location} : resourcePath'[p] = resourcePath[p]
      /\ \A p \in NodesTo(location) \ DOMAIN resourcePath :
           p # location => resourcePath'[p] = None
  BY <1>2 DEF Grown
<1>4. /\ DOMAIN deployedServices' = DOMAIN deployedServices \cup {name}
      /\ deployedServices'[name] = entry
      /\ \A n \in DOMAIN deployedServices \ {name} : deployedServices'[n] = deployedServices[n]
  BY DEF WithEntry
<1>5. location \in DOMAIN resourcePath => resourcePath[location] = None
  BY <1>2 DEF Occupant, Grown
<1>6. TreeInv' /\ DOMAIN resourcePath' \subseteq Seq(Part)
  <2>1. <<>> \in DOMAIN resourcePath /\ resourcePath[<<>>] = None
    BY DEF DispatcherInv, TreeInv
  <2>2. resourcePath'[<<>>] = None
    BY <1>1, <1>3, <2>1
  <2> QED
    BY <1>3, <2>2, GrownTree DEF DispatcherInv
<1>7. TypeOK'
  <2>1. \A p \in DOMAIN resourcePath' : resourcePath'[p] \in Name \cup {None, Dangling}
    BY <1>1, <1>3 DEF DispatcherInv, TypeOK
  <2>2. \A n \in DOMAIN deployedServices' :
          deployedServices'[n] \in [wrapper : Wrapper \cup {None}, resources : SUBSET Resource]
    BY <1>4 DEF DispatcherInv, TypeOK
  <2>3. DOMAIN deployedServices' \subseteq Name
    BY <1>1, <1>4 DEF DispatcherInv, TypeOK
  <2> QED
    BY <1>6, <2>1, <2>2, <2>3 DEF TypeOK, Resource
<1>8. PointerInv'
  BY <1>3, <1>4 DEF DispatcherInv, PointerInv
<1>9. EntryInv'
  <2> SUFFICES ASSUME NEW n \in DOMAIN deployedServices', deployedServices'[n].wrapper # None
               PROVE  LET v == deployedServices'[n].wrapper IN
                      /\ Descr[v].name = n /\ Descr[v].valid
                      /\ Descr[v].location \in DOMAIN resourcePath'
                      /\ resourcePath'[Descr[v].location] = n
    BY DEF EntryInv
  <2>1. CASE n = name
    <3>1. deployedServices'[n].wrapper = w
      BY <1>4, <2>1
    <3> QED
      BY <1>2, <1>3, <2>1, <3>1
  <2>2. CASE n # name
    <3> DEFINE v == deployedServices[n].wrapper
    <3>1. n \in DOMAIN deployedServices /\ deployedServices'[n] = deployedServices[n]
      BY <1>4, <2>2
    <3>2. /\ Descr[v].name = n /\ Descr[v].valid
          /\ Descr[v].location \in DOMAIN resourcePath
          /\ resourcePath[Descr[v].location] = n
      BY <3>1 DEF DispatcherInv, EntryInv
    <3>3. n # None
      BY <3>1, DispatcherAssumption DEF DispatcherInv, TypeOK
    <3>4. Descr[v].location # location
      BY <1>5, <3>2, <3>3
    <3> QED
      BY <1>3, <3>1, <3>2, <3>4
  <2> QED
    BY <2>1, <2>2
<1> QED
  BY <1>6, <1>7, <1>8, <1>9 DEF DispatcherInv

LEMMA InsertedType ==
    ASSUME DispatcherInv, NEW w \in Wrapper, NEW k \in Nat
    PROVE  Inserted(w, k) \subseteq Resource
BY DescrFacts DEF DispatcherInv, TypeOK, Inserted, Entry, Resource

LEMMA SucceedsKeeps ==
    ASSUME DispatcherInv, NEW w \in Wrapper, RegisterSucceeds(w)
    PROVE  DispatcherInv'
<1> DEFINE k == Len(Descr[w].operations)
           entry == [wrapper |-> w, resources |-> Inserted(w, k)]
<1>1. k \in Nat
  BY DispatcherAssumption DEF Description
<1>2. entry \in [wrapper : {w, None}, resources : SUBSET Resource]
  BY <1>1, InsertedType
<1> QED
  BY <1>2, TakenLocation DEF RegisterSucceeds

LEMMA HalfKeeps ==
    ASSUME DispatcherInv, NEW w \in Wrapper, RegisterHalf(w)
    PROVE  DispatcherInv'
<1>1. PICK k \in 0 .. Len(Descr[w].operations) :
        deployedServices' = WithEntry(Descr[w].name, [wrapper |-> None, resources |-> Inserted(w, k)])
  BY DEF RegisterHalf
<1> DEFINE entry == [wrapper |-> None, resources |-> Inserted(w, k)]
<1>2. entry \in [wrapper : {w, None}, resources : SUBSET Resource]
  BY InsertedType
<1> QED
  BY <1>1, <1>2, TakenLocation DEF RegisterHalf

LEMMA OccupiedKeeps ==
    ASSUME DispatcherInv, NEW w \in Wrapper, RegisterOccupied(w)
    PROVE  DispatcherInv'
<1> DEFINE name == Descr[w].name
           location == Descr[w].location
<1>1. name \in Name /\ location \in Seq(Part)
  BY DescrFacts
<1>2. /\ DOMAIN resourcePath' = DOMAIN resourcePath \cup NodesTo(location)
      /\ \A p \in DOMAIN resourcePath : resourcePath'[p] = resourcePath[p]
      /\ \A p \in NodesTo(location) \ DOMAIN resourcePath : resourcePath'[p] = None
  BY DEF RegisterOccupied, Grown
<1>3. /\ DOMAIN deployedServices' = DOMAIN deployedServices \cup {name}
      /\ deployedServices'[name] = Entry(name)
      /\ \A n \in DOMAIN deployedServices \ {name} : deployedServices'[n] = deployedServices[n]
      /\ Entry(name).wrapper = None
  BY DEF RegisterOccupied, WithEntry, Taken
<1>4. Entry(name) \in [wrapper : Wrapper \cup {None}, resources : SUBSET Resource]
  BY DEF DispatcherInv, TypeOK, Entry
<1>5. TreeInv' /\ DOMAIN resourcePath' \subseteq Seq(Part)
  BY <1>2, GrownTree DEF DispatcherInv, TreeInv
<1>6. TypeOK'
  BY <1>1, <1>2, <1>3, <1>4, <1>5 DEF DispatcherInv, TypeOK, Resource
<1>7. PointerInv'
  BY <1>2, <1>3 DEF DispatcherInv, PointerInv
<1>8. EntryInv'
  BY <1>2, <1>3 DEF DispatcherInv, EntryInv
<1> QED
  BY <1>5, <1>6, <1>7, <1>8 DEF DispatcherInv

------------------------------------------------------------------------------
\* Whatever is below a pruned node has been pruned with it: this is why the
\* loop of deleteResourcePath needs to look at one node at a time only.
LEMMA PrunedBelow ==
    ASSUME TypeOK, NEW path \in Seq(Part), NEW p \in DOMAIN resourcePath,
           NEW q \in Pruned(path), q \in NodesTo(p)
    PROVE  p \in Pruned(path)
<1>0. p \in Seq(Part) /\ DOMAIN resourcePath \subseteq Seq(Part)
  BY DEF TypeOK
<1>1. PICK k \in 1 .. Len(path) :
        /\ q = Prefix(path, k)
        /\ \A j \in k .. Len(path) : resourcePath[Prefix(path, j - 1)] = None
        /\ Below(Prefix(path, k)) \subseteq NodesTo(path)
  BY DEF Pruned
<1>2. q \in Seq(Part) /\ Len(q) = k
  BY <1>1, PrefixType
<1>3. q = Prefix(p, k) /\ k \in 0 .. Len(p)
  BY <1>0, <1>2, NodesToFacts
<1>4. p \in Below(q)
  BY <1>2, <1>3 DEF Below
<1> DEFINE m == Len(p)
<1>5. p = Prefix(path, m) /\ m \in k .. Len(path) /\ m \in 1 .. Len(path)
  BY <1>1, <1>3, <1>4, NodesToFacts
<1>6. Below(p) \subseteq Below(q)
  <2> SUFFICES ASSUME NEW r \in DOMAIN resourcePath, m <= Len(r), Prefix(r, m) = p
               PROVE  k <= Len(r) /\ Prefix(r, k) = q
    BY <1>2 DEF Below
  <2>1. r \in Seq(Part) /\ m \in 0 .. Len(r) /\ k \in 0 .. m
    BY <1>0, <1>3, <1>5
  <2>2. Prefix(Prefix(r, m), k) = Prefix(r, k)
    BY <2>1, PrefixOfPrefix
  <2> QED
    BY <1>3, <2>1, <2>2
<1> QED
  BY <1>1, <1>5, <1>6 DEF Pruned

\* No node that is pruned, but the one at path, has a service.
LEMMA PrunedIsFree ==
    ASSUME NEW path \in Seq(Part), NEW q \in Pruned(path), q # path
    PROVE  resourcePath[q] = None
<1>1. PICK k \in 1 .. Len(path) :
        /\ q = Prefix(path, k)
        /\ \A j \in k .. Len(path) : resourcePath[Prefix(path, j - 1)] = None
  BY DEF Pruned
<1>2. k # Len(path)
  BY <1>1, WholePrefix
<1>3. k + 1 \in k .. Len(path) /\ (k + 1) - 1 = k
  BY <1>2
<1> QED
  BY <1>1, <1>3

\* Pruning leaves a tree.
LEMMA CutTree ==
    ASSUME TypeOK, TreeInv, NEW w \in Wrapper,
           DOMAIN resourcePath' = DOMAIN resourcePath \ Pruned(Descr[w].location),
           <<>> \in DOMAIN resourcePath' => resourcePath'[<<>>] = None
    PROVE  TreeInv'
<1> DEFINE location == Descr[w].location
<1>0. location \in Seq(Part)
  BY DescrFacts
<1>1. <<>> \notin Pruned(location)
  <2>1. \A k \in 1 .. Len(location) : Len(Prefix(location, k)) = k /\ k # 0
    BY <1>0, PrefixType
  <2>2. Len(<<>>) = 0
    OBVIOUS
  <2> QED
    BY <2>1, <2>2 DEF Pruned
<1>2. <<>> \in DOMAIN resourcePath'
  BY <1>1 DEF TreeInv
<1>3. ASSUME NEW p \in DOMAIN resourcePath', NEW q \in NodesTo(p)
      PROVE  q \in DOMAIN resourcePath'
  <2>1. p \in DOMAIN resourcePath /\ p \notin Pruned(location)
    OBVIOUS
  <2>2. q \in DOMAIN resourcePath
    BY <2>1 DEF TreeInv
  <2>3. q \notin Pruned(location)
    BY <1>0, <2>1, PrunedBelow
  <2> QED
    BY <2>2, <2>3
<1> QED
  BY <1>2, <1>3 DEF TreeInv, NodesTo, Prefix

\* What a service that owns its path leaves behind when it goes.
LEMMA UnregisterKeeps ==
    ASSUME DistinctNames, DispatcherInv,
           NEW w \in Wrapper, OwnsPath(w), UnregisterSucceeds(w)
    PROVE  DispatcherInv'
<1> DEFINE name == Descr[w].name
           location == Descr[w].location
<1>1. name \in Name /\ location \in Seq(Part) /\ location # <<>> /\ name # None
  BY DescrFacts
<1>2. \A p \in DOMAIN resourcePath : resourcePath[p] = name => p = location
  BY <1>1 DEF DispatcherInv, PointerInv, DistinctNames
<1>3. /\ DOMAIN resourcePath' = DOMAIN resourcePath \ Pruned(location)
      /\ \A p \in DOMAIN resourcePath' :
           resourcePath'[p] = IF p = location THEN None ELSE resourcePath[p]
  BY <1>2 DEF UnregisterSucceeds, Cut
<1>4. /\ DOMAIN deployedServices' = DOMAIN deployedServices \ {name}
      /\ \A n \in DOMAIN deployedServices' : deployedServices'[n] = deployedServices[n]
  BY DEF UnregisterSucceeds
<1>5. TypeOK'
  BY <1>3, <1>4 DEF DispatcherInv, TypeOK, Resource
<1>6. TreeInv'
  <2>1. <<>> \in DOMAIN resourcePath' => resourcePath'[<<>>] = None
    BY <1>1, <1>3 DEF DispatcherInv, TreeInv
  <2> QED
    BY <1>3, <2>1, CutTree DEF DispatcherInv
<1>7. PointerInv'
  BY <1>2, <1>3, <1>4 DEF DispatcherInv, PointerInv
<1>8. EntryInv'
  <2> SUFFICES ASSUME NEW n \in DOMAIN deployedServices', deployedServices'[n].wrapper # None
               PROVE  LET v == deployedServices'[n].wrapper IN
                      /\ Descr[v].name = n /\ Descr[v].valid
                      /\ Descr[v].location \in DOMAIN resourcePath'
                      /\ resourcePath'[Descr[v].location] = n
    BY DEF EntryInv
  <2> DEFINE v == deployedServices[n].wrapper
  <2>1. n \in DOMAIN deployedServices /\ n # name /\ deployedServices'[n] = deployedServices[n]
    BY <1>4
  <2>2. /\ Descr[v].name = n /\ Descr[v].valid
        /\ Descr[v].location \in DOMAIN resourcePath
        /\ resourcePath[Descr[v].location] = n
    BY <2>1 DEF DispatcherInv, EntryInv
  <2>3. n # None
    BY <2>1, DispatcherAssumption DEF DispatcherInv, TypeOK
  <2>4. Descr[v].location # location
    BY <2>1, <2>2 DEF OwnsPath
  <2>5. Descr[v].location \notin Pruned(location)
    BY <1>1, <2>2, <2>3, <2>4, PrunedIsFree
  <2> QED
    BY <1>3, <2>1, <2>2, <2>4, <2>5
<1> QED
  BY <1>5, <1>6, <1>7, <1>8 DEF DispatcherInv

LEMMA NextDispatcher ==
    ASSUME DistinctNames, DispatcherInv, [Next]_vars
    PROVE  DispatcherInv'
<1>1. ASSUME NEW w \in Wrapper, RegisterSucceeds(w) PROVE DispatcherInv'
  BY <1>1, SucceedsKeeps
<1>2. ASSUME NEW w \in Wrapper, RegisterOccupied(w) PROVE DispatcherInv'
  BY <1>2, OccupiedKeeps
<1>3. ASSUME NEW w \in Wrapper, RegisterHalf(w) PROVE DispatcherInv'
  BY <1>3, HalfKeeps
<1>4. ASSUME NEW w \in Wrapper, OwnsPath(w), UnregisterSucceeds(w) PROVE DispatcherInv'
  BY <1>4, UnregisterKeeps
<1>5. ASSUME UNCHANGED vars PROVE DispatcherInv'
  <2>1. TypeOK' /\ TreeInv'
    BY <1>5 DEF vars, DispatcherInv, TypeOK, TreeInv, Resource, NodesTo, Prefix
  <2> QED
    BY <1>5, <2>1 DEF vars, DispatcherInv, PointerInv, EntryInv
<1> QED
  BY <1>1, <1>2, <1>3, <1>4, <1>5 DEF Next, RegisterRefused

(***************************************************************************)
(* The tree and the map stay consistent, whatever services are registered, *)
(* fail to be, and are unregistered (registerService, unregisterService).  *)
(***************************************************************************)
THEOREM DispatcherInvariant ==
    ASSUME DistinctNames
    PROVE  Spec => []DispatcherInv
<1>1. DispatcherInv /\ [Next]_vars => DispatcherInv'
  BY NextDispatcher
<1> QED
  BY InitDispatcher, <1>1, PTL DEF Spec

(***************************************************************************)
(* Pruning never cuts off a registered service and leaves no pointer to an *)
(* erased one (deleteResourcePath).                                        *)
(***************************************************************************)
THEOREM ReachableAlways ==
    ASSUME DistinctNames
    PROVE  Spec => []RegisteredIsReachable
<1>1. DispatcherInv => RegisteredIsReachable
  <2> SUFFICES ASSUME DispatcherInv PROVE RegisteredIsReachable
    OBVIOUS
  <2>1. ASSUME NEW w \in Wrapper, Registered(w)
        PROVE  /\ Descr[w].location \in DOMAIN resourcePath
               /\ resourcePath[Descr[w].location] = Descr[w].name
    BY <2>1, DescrFacts DEF Registered, DispatcherInv, EntryInv
  <2>2. \A p \in DOMAIN resourcePath : resourcePath[p] # Dangling
    BY DispatcherAssumption DEF DispatcherInv, PointerInv, TypeOK
  <2> QED
    BY <2>1, <2>2 DEF RegisteredIsReachable, DispatcherInv, TreeInv
<1> QED
  BY DispatcherInvariant, <1>1, PTL

------------------------------------------------------------------------------
(* The search for the service of a path.                                   *)

\* The lengths at which findServiceByPath finds a service.
Hits(path) ==
    {k \in 1 .. Len(path) : /\ NodesTo(Prefix(path, k)) \subseteq DOMAIN resourcePath
                            /\ resourcePath[Prefix(path, k)] # None}

LEMMA MatchedHit ==
    ASSUME NEW path \in Seq(Part)
    PROVE  IF Hits(path) = {} THEN Matched(path) = 0 /\ FindService(path) = None
           ELSE /\ Matched(path) \in Hits(path) /\ Matched(path) \in 1 .. Len(path)
                /\ \A k \in Hits(path) : k <= Matched(path)
                /\ FindService(path) = resourcePath[Prefix(path, Matched(path))]
<1>1. Len(path) \in Nat /\ Hits(path) \subseteq 1 .. Len(path)
  BY DEF Hits
<1>2. Matched(path) = IF Hits(path) = {} THEN 0 ELSE Max(Hits(path))
  BY DEF Matched, Hits
<1>3. CASE Hits(path) = {}
  BY <1>2, <1>3 DEF FindService
<1>4. CASE Hits(path) # {}
  <2>1. Max(Hits(path)) \in Hits(path) /\ \A k \in Hits(path) : k <= Max(Hits(path))
    BY <1>1, <1>4, MaxOf
  <2>2. Matched(path) \in Hits(path) /\ \A k \in Hits(path) : k <= Matched(path)
    BY <1>2, <1>4, <2>1
  <2>3. Matched(path) # 0
    BY <1>1, <2>2
  <2> QED
    BY <1>1, <1>4, <2>2, <2>3 DEF FindService
<1> QED
  BY <1>3, <1>4

\* A registered service whose location leads to the path is among the hits.
LEMMA LeadsHit ==
    ASSUME DispatcherInv, NEW w \in Wrapper, Registered(w), NEW path \in Seq(Part),
           RouterOf!Leads(w, path)
    PROVE  /\ Len(Descr[w].location) \in Hits(path)
           /\ Descr[w].location = Prefix(path, Len(Descr[w].location))
           /\ resourcePath[Descr[w].location] = Descr[w].name
<1> DEFINE location == Descr[w].location
<1>1. location \in Seq(Part) /\ location # <<>> /\ Descr[w].name # None
  BY DescrFacts
<1>2. Len(location) \in 1 .. Len(path) /\ location = Prefix(path, Len(location))
  BY <1>1 DEF RouterOf!Leads, Prefix
<1>3. location \in DOMAIN resourcePath /\ resourcePath[location] = Descr[w].name
  BY <1>1, DescrFacts DEF Registered, DispatcherInv, EntryInv
<1>4. NodesTo(location) \subseteq DOMAIN resourcePath
  BY <1>3 DEF DispatcherInv, TreeInv
<1> QED
  BY <1>1, <1>2, <1>3, <1>4 DEF Hits

(***************************************************************************)
(* Whatever has been registered, has failed to be and has been             *)
(* unregistered, findServiceByPath finds the registered service with the   *)
(* longest location that leads to the path, or one of a failed             *)
(* registration.                                                           *)
(***************************************************************************)
THEOREM MostSpecific ==
    ASSUME DistinctNames
    PROVE  Spec => []ServesMostSpecific
<1>1. DispatcherInv => ServesMostSpecific
  <2> SUFFICES ASSUME DispatcherInv, NEW path \in Requests
               PROVE  LET found == FindService(path)
                          served == RouterOf!Serving(path)
                      IN  \/ \E w \in served : found = Descr[w].name
                          \/ served = {} /\ found = None
                          \/ /\ found \in DOMAIN deployedServices
                             /\ deployedServices[found].wrapper = None
    BY DEF ServesMostSpecific
  <2> DEFINE found == FindService(path)
             served == RouterOf!Serving(path)
             m == Matched(path)
  <2>1. path \in Seq(Part)
    BY RequestsAssumption
  <2>2. CASE Hits(path) = {}
    <3>1. found = None
      BY <2>1, <2>2, MatchedHit
    <3>2. served = {}
      BY <2>1, <2>2, LeadsHit DEF RouterOf!Serving
    <3> QED
      BY <3>1, <3>2
  <2>3. CASE Hits(path) # {}
    <3>1. /\ m \in Hits(path) /\ m \in 1 .. Len(path) /\ \A k \in Hits(path) : k <= m
          /\ found = resourcePath[Prefix(path, m)]
      BY <2>1, <2>3, MatchedHit
    <3> DEFINE p == Prefix(path, m)
    <3>2. p \in Seq(Part) /\ Len(p) = m
      BY <2>1, <3>1, PrefixType
    <3>3. p \in DOMAIN resourcePath /\ resourcePath[p] # None
      BY <3>1, <3>2, NodesToFacts DEF Hits
    <3>4. PICK v \in Wrapper : Descr[v].name = found /\ Descr[v].location = p
      BY <3>1, <3>3 DEF DispatcherInv, PointerInv
    <3>5. found \in DOMAIN deployedServices
      BY <3>1, <3>3 DEF DispatcherInv, PointerInv
    <3>6. ASSUME deployedServices[found].wrapper # None
          PROVE  \E w \in served : found = Descr[w].name
      <4>1. Registered(v)
        <5>1. deployedServices[found].wrapper \in Wrapper
          BY <3>5, <3>6 DEF DispatcherInv, TypeOK
        <5>2. Descr[deployedServices[found].wrapper].name = found
          BY <3>5, <3>6 DEF DispatcherInv, EntryInv
        <5>3. deployedServices[found].wrapper = v
          BY <3>4, <5>1, <5>2 DEF DistinctNames
        <5> QED
          BY <3>4, <3>5, <5>3 DEF Registered
      <4>2. RouterOf!Leads(v, path)
        BY <2>1, <3>1, <3>2, <3>4 DEF RouterOf!Leads, Prefix
      <4>3. ASSUME NEW w \in Wrapper, Registered(w), RouterOf!Leads(w, path)
            PROVE  Len(Descr[w].location) <= Len(Descr[v].location)
        BY <2>1, <3>1, <3>2, <3>4, <4>3, LeadsHit
      <4> QED
        BY <3>4, <4>1, <4>2, <4>3 DEF RouterOf!Serving
    <3> QED
      BY <3>5, <3>6
  <2> QED
    BY <2>2, <2>3
<1> QED
  BY DispatcherInvariant, <1>1, PTL

------------------------------------------------------------------------------
(* The table of services.                                                  *)

LEMMA AddsToTable ==
    ASSUME DispatcherInv, NEW w \in Wrapper, RegisterSucceeds(w)
    PROVE  RouterOf!Add(w)
<1> DEFINE name == Descr[w].name
           routes == {v \in Wrapper : Registered(v)}
<1>1. /\ name \in DOMAIN deployedServices' /\ deployedServices'[name].wrapper = w
      /\ \A n \in DOMAIN deployedServices \ {name} :
           n \in DOMAIN deployedServices' /\ deployedServices'[n] = deployedServices[n]
      /\ DOMAIN deployedServices' = DOMAIN deployedServices \cup {name}
  BY DEF RegisterSucceeds, WithEntry
<1>2. name \in DOMAIN deployedServices => deployedServices[name].wrapper = None
  BY DEF RegisterSucceeds, Taken, Entry
<1>3. ASSUME NEW v \in routes
      PROVE  Descr[v].name # name /\ Descr[v].location # Descr[w].location
  <2>1. Descr[v].name # name
    BY <1>2, DescrFacts DEF Registered
  <2>2. /\ Descr[v].location \in DOMAIN resourcePath
        /\ resourcePath[Descr[v].location] = Descr[v].name /\ Descr[v].name # None
    BY DescrFacts DEF Registered, DispatcherInv, EntryInv
  <2>3. Descr[w].location \in NodesTo(Descr[w].location)
    BY DescrFacts, NodesToFacts
  <2>4. Descr[w].location \in DOMAIN resourcePath => resourcePath[Descr[w].location] = None
    BY <2>3 DEF RegisterSucceeds, Occupant, Grown
  <2> QED
    BY <2>1, <2>2, <2>4
<1>4. {v \in Wrapper : Registered(v)'} = routes \cup {w}
  <2>1. ASSUME NEW v \in Wrapper PROVE Registered(v)' <=> (Registered(v) \/ v = w)
    <3>1. CASE Descr[v].name = name
      <4>1. ~Registered(v)
        BY <1>2, <3>1, DescrFacts DEF Registered
      <4>2. Registered(v)' <=> v = w
        BY <1>1, <3>1 DEF Registered
      <4> QED
        BY <4>1, <4>2
    <3>2. CASE Descr[v].name # name
      BY <1>1, <3>2 DEF Registered
    <3> QED
      BY <3>1, <3>2
  <2> QED
    BY <2>1
<1> QED
  BY <1>3, <1>4 DEF RouterOf!Add

\* A registration that fails changes no wrapper.
LEMMA KeptTable ==
    ASSUME NEW w \in Wrapper, RegisterThrows(w)
    PROVE  \A v \in Wrapper : Registered(v)' <=> Registered(v)
<1> DEFINE name == Descr[w].name
<1>1. CASE UNCHANGED vars
  BY <1>1 DEF vars, Registered
<1>2. CASE RegisterOccupied(w) \/ RegisterHalf(w)
  <2>1. name \in DOMAIN deployedServices => deployedServices[name].wrapper = None
    BY <1>2 DEF RegisterOccupied, RegisterHalf, Taken, Entry
  <2>2. PICK entry : deployedServices' = WithEntry(name, entry) /\ entry.wrapper = None
    <3>1. CASE RegisterOccupied(w)
      BY <3>1 DEF RegisterOccupied, Taken
    <3>2. CASE RegisterHalf(w)
      <4>1. PICK k \in 0 .. Len(Descr[w].operations) :
              deployedServices' = WithEntry(name, [wrapper |-> None, resources |-> Inserted(w, k)])
        BY <3>2 DEF RegisterHalf
      <4> QED
        BY <4>1
    <3> QED
      BY <1>2, <3>1, <3>2
  <2>3. /\ DOMAIN deployedServices' = DOMAIN deployedServices \cup {name}
        /\ deployedServices'[name].wrapper = None
        /\ \A n \in DOMAIN deployedServices \ {name} : deployedServices'[n] = deployedServices[n]
    BY <2>2 DEF WithEntry
  <2> QED
    BY <2>1, <2>3, DescrFacts DEF Registered
<1> QED
  BY <1>1, <1>2 DEF RegisterThrows, RegisterRefused

LEMMA RemovesFromTable ==
    ASSUME DistinctNames, NEW w \in Wrapper, UnregisterSucceeds(w)
    PROVE  \A v \in Wrapper : Registered(v)' <=> (Registered(v) /\ v # w)
BY DEF UnregisterSucceeds, Registered, DistinctNames

(***************************************************************************)
(* The dispatcher implements the table of module Router: registerService   *)
(* adds one service that shares no name and no location with another, or   *)
(* changes nothing in the table; unregisterService removes its service.    *)
(***************************************************************************)
THEOREM ImplementsRouter ==
    ASSUME DistinctNames
    PROVE  Spec => KeepsTable
<1> DEFINE routes == {w \in Wrapper : Registered(w)}
<1>1. Init => RouterOf!Init
  BY DEF Init, RouterOf!Init, Registered
<1>2. DispatcherInv /\ [Next]_vars => [RouterOf!Next]_routes
  <2> SUFFICES ASSUME DispatcherInv, [Next]_vars PROVE RouterOf!Next \/ routes' = routes
    OBVIOUS
  <2>1. ASSUME NEW w \in Wrapper, RegisterSucceeds(w) PROVE RouterOf!Next
    BY <2>1, AddsToTable DEF RouterOf!Next
  <2>2. ASSUME NEW w \in Wrapper, RegisterThrows(w) PROVE routes' = routes
    BY <2>2, KeptTable
  <2>3. ASSUME NEW w \in Wrapper, UnregisterSucceeds(w)
        PROVE  RouterOf!Next \/ routes' = routes
    <3>1. routes' = routes \ {w}
      BY <2>3, RemovesFromTable
    <3>2. w \in routes => RouterOf!Remove(w)
      BY <3>1 DEF RouterOf!Remove
    <3> QED
      BY <3>1, <3>2 DEF RouterOf!Next
  <2>4. ASSUME UNCHANGED vars PROVE routes' = routes
    BY <2>4 DEF vars, Registered
  <2> QED
    BY <2>1, <2>2, <2>3, <2>4 DEF Next, RegisterThrows
<1> QED
  BY DispatcherInvariant, <1>1, <1>2, PTL DEF Spec, KeepsTable, RouterOf!Spec

------------------------------------------------------------------------------
(* The deployment: groups of services that share nothing.                  *)

Registers(w) == RegisterSucceeds(w) \/ RegisterThrows(w)
Unregisters(w) == UnregisterSucceeds(w) \/ UnregisterThrows(w)

\* What a registration may do, whatever comes of it.
LEMMA RegisterDoes ==
    ASSUME TypeOK, NEW w \in Wrapper, Registers(w)
    PROVE  \/ UNCHANGED vars
           \/ LET name == Descr[w].name
                  location == Descr[w].location
              IN  /\ DOMAIN deployedServices' = DOMAIN deployedServices \cup {name}
                  /\ deployedServices'[name] \in [wrapper : {w, None}, resources : SUBSET Resource]
                  /\ \A n \in DOMAIN deployedServices \ {name} :
                       deployedServices'[n] = deployedServices[n]
                  /\ DOMAIN resourcePath' = DOMAIN resourcePath \cup NodesTo(location)
                  /\ \A p \in DOMAIN resourcePath' \ {location} :
                       resourcePath'[p] = IF p \in DOMAIN resourcePath THEN resourcePath[p] ELSE None
                  /\ resourcePath'[location] \in Name \cup {None, Dangling}
<1> DEFINE name == Descr[w].name
           location == Descr[w].location
<1>1. name \in Name /\ location \in Seq(Part) /\ location # <<>> /\ location \in NodesTo(location)
  BY DescrFacts, NodesToFacts
<1>2. Entry(name).resources \subseteq Resource
  BY DEF TypeOK, Entry
<1>3. ASSUME NEW k \in Nat PROVE Inserted(w, k) \subseteq Resource
  BY <1>2 DEF Inserted, Resource
<1>4. Len(Descr[w].operations) \in Nat
  BY DispatcherAssumption DEF Description
<1>5. CASE RegisterSucceeds(w)
  BY <1>1, <1>3, <1>4, <1>5 DEF RegisterSucceeds, WithEntry, Grown
<1>6. CASE RegisterHalf(w)
  <2>1. PICK k \in 0 .. Len(Descr[w].operations) :
          deployedServices' = WithEntry(name, [wrapper |-> None, resources |-> Inserted(w, k)])
    BY <1>6 DEF RegisterHalf
  <2>2. [wrapper |-> None, resources |-> Inserted(w, k)]
          \in [wrapper : {w, None}, resources : SUBSET Resource]
    BY <1>3
  <2> QED
    BY <1>1, <1>6, <2>1, <2>2 DEF RegisterHalf, WithEntry, Grown
<1>7. CASE RegisterOccupied(w)
  <2>1. Entry(name) \in [wrapper : {w, None}, resources : SUBSET Resource]
    BY <1>7, <1>2 DEF RegisterOccupied, Taken, Entry, TypeOK
  <2>2. Grown(location)[location] \in Name \cup {None, Dangling}
    BY <1>1 DEF Grown, TypeOK
  <2> QED
    BY <1>1, <1>7, <2>1, <2>2 DEF RegisterOccupied, WithEntry, Grown
<1> QED
  BY <1>5, <1>6, <1>7 DEF Registers, RegisterThrows, RegisterRefused

\* And what an attempt to unregister may do.
LEMMA UnregisterDoes ==
    ASSUME NEW w \in Wrapper, Unregisters(w)
    PROVE  \/ UNCHANGED vars
           \/ LET name == Descr[w].name
                  location == Descr[w].location
              IN  /\ DOMAIN deployedServices' = DOMAIN deployedServices \ {name}
                  /\ \A n \in DOMAIN deployedServices' : deployedServices'[n] = deployedServices[n]
                  /\ location \in DOMAIN resourcePath
                  /\ DOMAIN resourcePath' = DOMAIN resourcePath \ Pruned(location)
                  /\ \A p \in DOMAIN resourcePath' :
                       resourcePath'[p] = IF p = location THEN None
                                          ELSE IF resourcePath[p] = name THEN Dangling
                                          ELSE resourcePath[p]
BY DEF Unregisters, UnregisterSucceeds, UnregisterThrows, Cut

LEMMA TreeKept ==
    ASSUME TypeOK, TreeInv, NEW w \in Wrapper, Registers(w) \/ Unregisters(w)
    PROVE  TypeOK' /\ TreeInv'
<1> DEFINE name == Descr[w].name
           location == Descr[w].location
<1>1. name \in Name /\ location \in Seq(Part) /\ location # <<>>
  BY DescrFacts
<1>2. CASE UNCHANGED vars
  BY <1>2 DEF vars, TypeOK, TreeInv, Resource, NodesTo, Prefix
<1>3. CASE Registers(w) /\ ~UNCHANGED vars
  <2>1. /\ DOMAIN deployedServices' = DOMAIN deployedServices \cup {name}
        /\ deployedServices'[name] \in [wrapper : {w, None}, resources : SUBSET Resource]
        /\ \A n \in DOMAIN deployedServices \ {name} : deployedServices'[n] = deployedServices[n]
        /\ DOMAIN resourcePath' = DOMAIN resourcePath \cup NodesTo(location)
        /\ \A p \in DOMAIN resourcePath' \ {location} :
             resourcePath'[p] = IF p \in DOMAIN resourcePath THEN resourcePath[p] ELSE None
        /\ resourcePath'[location] \in Name \cup {None, Dangling}
    BY <1>3, RegisterDoes
  <2>2. resourcePath'[<<>>] = None
    BY <1>1, <2>1 DEF TreeInv
  <2>3. TreeInv' /\ DOMAIN resourcePath' \subseteq Seq(Part)
    BY <2>1, <2>2, GrownTree
  <2>4. \A p \in DOMAIN resourcePath' : resourcePath'[p] \in Name \cup {None, Dangling}
    BY <2>1 DEF TypeOK
  <2>5. \A n \in DOMAIN deployedServices' :
          deployedServices'[n] \in [wrapper : Wrapper \cup {None}, resources : SUBSET Resource]
    BY <2>1 DEF TypeOK
  <2> QED
    BY <1>1, <2>1, <2>3, <2>4, <2>5 DEF TypeOK, Resource
<1>4. CASE Unregisters(w) /\ ~UNCHANGED vars
  <2>1. /\ DOMAIN deployedServices' = DOMAIN deployedServices \ {name}
        /\ \A n \in DOMAIN deployedServices' : deployedServices'[n] = deployedServices[n]
        /\ DOMAIN resourcePath' = DOMAIN resourcePath \ Pruned(location)
        /\ \A p \in DOMAIN resourcePath' :
             resourcePath'[p] = IF p = location THEN None
                                ELSE IF resourcePath[p] = name THEN Dangling ELSE resourcePath[p]
    BY <1>4, UnregisterDoes
  <2>2. <<>> \in DOMAIN resourcePath' => resourcePath'[<<>>] = None
    BY <1>1, <2>1, DescrFacts DEF TreeInv
  <2>3. TreeInv'
    BY <2>1, <2>2, CutTree
  <2>4. TypeOK'
    BY <2>1 DEF TypeOK, Resource
  <2> QED
    BY <2>3, <2>4
<1> QED
  BY <1>2, <1>3, <1>4

\* A call for one service leaves another alone that shares neither its name
\* nor its location, wherever in the tree the two are.
LEMMA OthersKept ==
    ASSUME TypeOK, NEW v \in Wrapper, NEW w \in Wrapper,
           Descr[v].name # Descr[w].name, Descr[v].location # Descr[w].location,
           ServiceInv(v), Registers(w) \/ Unregisters(w)
    PROVE  ServiceInv(v)' /\ (Registered(v)' <=> Registered(v))
<1> DEFINE name == Descr[w].name
           location == Descr[w].location
           mine == Descr[v].location
<1>1. location \in Seq(Part) /\ Descr[v].name # None /\ mine \in Seq(Part)
  BY DescrFacts
<1>2. CASE UNCHANGED vars
  BY <1>2 DEF vars, ServiceInv, Registered
<1>3. CASE Registers(w) /\ ~UNCHANGED vars
  <2>1. /\ DOMAIN deployedServices' = DOMAIN deployedServices \cup {name}
        /\ \A n \in DOMAIN deployedServices \ {name} : deployedServices'[n] = deployedServices[n]
        /\ DOMAIN resourcePath' = DOMAIN resourcePath \cup NodesTo(location)
        /\ \A p \in DOMAIN resourcePath' \ {location} :
             resourcePath'[p] = IF p \in DOMAIN resourcePath THEN resourcePath[p] ELSE None
    BY <1>3, RegisterDoes
  <2>2. Registered(v)' <=> Registered(v)
    BY <2>1 DEF Registered
  <2> QED
    BY <2>1, <2>2 DEF ServiceInv
<1>4. CASE Unregisters(w) /\ ~UNCHANGED vars
  <2>1. /\ DOMAIN deployedServices' = DOMAIN deployedServices \ {name}
        /\ \A n \in DOMAIN deployedServices' : deployedServices'[n] = deployedServices[n]
        /\ DOMAIN resourcePath' = DOMAIN resourcePath \ Pruned(location)
        /\ \A p \in DOMAIN resourcePath' :
             resourcePath'[p] = IF p = location THEN None
                                ELSE IF resourcePath[p] = name THEN Dangling ELSE resourcePath[p]
    BY <1>4, UnregisterDoes
  <2>2. Registered(v)' <=> Registered(v)
    BY <2>1 DEF Registered
  <2>3. CASE Registered(v)
    <3>1. mine \in DOMAIN resourcePath /\ resourcePath[mine] = Descr[v].name
      BY <2>3 DEF ServiceInv
    <3>2. mine \notin Pruned(location)
      BY <1>1, <3>1, PrunedIsFree
    <3> QED
      BY <2>1, <2>2, <2>3, <3>1, <3>2 DEF ServiceInv
  <2>4. CASE ~Registered(v)
    <3>1. mine \in DOMAIN resourcePath => resourcePath[mine] = None
      BY <2>4 DEF ServiceInv
    <3>2. name # None
      BY DescrFacts
    <3> QED
      BY <2>1, <2>2, <2>4, <3>1, <3>2 DEF ServiceInv
  <2> QED
    BY <2>3, <2>4
<1> QED
  BY <1>2, <1>3, <1>4

\* A service of a sound group that is not registered can be; one that is can
\* not, and then nothing changes.
LEMMA OwnRegistered ==
    ASSUME OperationsApart, TypeOK, NEW l \in Library, Sound(l), NEW i \in DOMAIN Services[l],
           ServiceInv(Services[l][i]), Registers(Services[l][i])
    PROVE  LET w == Services[l][i] IN
           /\ ServiceInv(w)'
           /\ IF Registered(w) THEN RegisterThrows(w) /\ UNCHANGED vars
              ELSE RegisterSucceeds(w) /\ Registered(w)'
<1> DEFINE w == Services[l][i]
           d == Descr[w]
<1>1. w \in Wrapper /\ w # None /\ d.valid /\ d.name # None
  BY DeploymentAssumption, DescrFacts DEF Sound
<1>2. d.location \in Seq(Part) /\ d.location \in NodesTo(d.location)
  BY <1>1, DescrFacts, NodesToFacts
<1>3. CASE Registered(w)
  <2>1. Taken(w)
    BY <1>1, <1>3 DEF Registered, Taken, Entry
  <2>2. RegisterThrows(w) /\ UNCHANGED vars
    BY <2>1 DEF Registers, RegisterSucceeds, RegisterThrows, RegisterOccupied, RegisterHalf,
                RegisterRefused
  <2> QED
    BY <1>3, <2>2 DEF vars, ServiceInv, Registered
<1>4. CASE ~Registered(w)
  <2>1. d.name \notin DOMAIN deployedServices /\ ~Taken(w) /\ Entry(d.name).resources = {}
    BY <1>4 DEF ServiceInv, Taken, Entry
  <2>2. Occupant(w) = None
    BY <1>2, <1>4 DEF ServiceInv, Occupant, Grown
  <2>3. ASSUME NEW k \in 0 .. Len(d.operations), FailsAfter(w, k)
        PROVE  FALSE
    <3>1. Len(d.operations) \in Nat /\ DOMAIN d.operations = 1 .. Len(d.operations)
      BY <1>1, DispatcherAssumption DEF Description
    <3>2. k \in 0 .. Len(d.operations) - 1 /\ k + 1 \in DOMAIN d.operations
      BY <2>3, <3>1 DEF FailsAfter
    <3>3. d.operations[k + 1].valid
      BY <3>2 DEF Sound
    <3>4. Inserted(w, k) = {<<w, j>> : j \in 1 .. k}
      BY <2>1 DEF Inserted
    <3>5. ~CollisionSeen(Inserted(w, k), d.operations[k + 1])
      BY <3>2, <3>4 DEF OperationsApart
    <3> QED
      BY <2>3, <3>3, <3>5 DEF FailsAfter
  <2>4. RegisterSucceeds(w)
    BY <1>1, <2>1, <2>2, <2>3 DEF Registers, RegisterThrows, RegisterRefused, RegisterOccupied,
                                  RegisterHalf
  <2>5. Registered(w)'
    BY <2>4 DEF RegisterSucceeds, WithEntry, Registered
  <2>6. d.location \in DOMAIN resourcePath' /\ resourcePath'[d.location] = d.name
    BY <1>2, <2>4 DEF RegisterSucceeds, Grown
  <2> QED
    BY <1>4, <2>4, <2>5, <2>6 DEF ServiceInv
<1> QED
  BY <1>3, <1>4

\* After an attempt to unregister it, it has nothing.
LEMMA OwnUnregistered ==
    ASSUME NEW l \in Library, Sound(l), NEW i \in DOMAIN Services[l],
           ServiceInv(Services[l][i]), Unregisters(Services[l][i])
    PROVE  LET w == Services[l][i] IN ServiceInv(w)' /\ ~Registered(w)'
<1> DEFINE w == Services[l][i]
           d == Descr[w]
<1>1. w \in Wrapper /\ d.valid
  BY DeploymentAssumption DEF Sound
<1>2. CASE UNCHANGED vars
  <2>1. ~Registered(w)
    <3>1. SUFFICES ASSUME Registered(w) PROVE FALSE
      OBVIOUS
    <3>2. d.location \in DOMAIN resourcePath /\ d.name \in DOMAIN deployedServices
      BY <3>1 DEF ServiceInv, Registered
    <3>3. UnregisterSucceeds(w)
      BY <1>1, <3>2 DEF Unregisters, UnregisterThrows
    <3>4. d.name \notin DOMAIN deployedServices'
      BY <3>3 DEF UnregisterSucceeds
    <3> QED
      BY <1>2, <3>2, <3>4 DEF vars
  <2> QED
    BY <1>2, <2>1 DEF vars, ServiceInv, Registered
<1>3. CASE ~UNCHANGED vars
  <2>1. /\ DOMAIN deployedServices' = DOMAIN deployedServices \ {d.name}
        /\ DOMAIN resourcePath' = DOMAIN resourcePath \ Pruned(d.location)
        /\ \A p \in DOMAIN resourcePath' : p = d.location => resourcePath'[p] = None
    BY <1>1, <1>3, UnregisterDoes
  <2> QED
    BY <2>1 DEF ServiceInv, Registered
<1> QED
  BY <1>2, <1>3

\* What a call for service number i of a group does to the services of sound
\* groups: only that one is touched.
LEMMA GroupStep ==
    ASSUME DistinctNames, GroupsApart, OperationsApart, DeployInv,
           NEW g \in Library, NEW i \in DOMAIN Services[g],
           Registers(Services[g][i]) \/ Unregisters(Services[g][i])
    PROVE  /\ TypeOK' /\ TreeInv'
           /\ \A l \in Library : Sound(l) => \A j \in DOMAIN Services[l] :
                /\ ServiceInv(Services[l][j])'
                /\ (l # g \/ j # i) =>
                     (Registered(Services[l][j])' <=> Registered(Services[l][j]))
<1> DEFINE w == Services[g][i]
<1>1. w \in Wrapper
  BY DeploymentAssumption
<1>2. TypeOK' /\ TreeInv'
  BY <1>1, TreeKept DEF DeployInv, DeployTypeOK
<1>3. ASSUME NEW l \in Library, Sound(l), NEW j \in DOMAIN Services[l], l # g \/ j # i
      PROVE  /\ ServiceInv(Services[l][j])'
             /\ Registered(Services[l][j])' <=> Registered(Services[l][j])
  <2>1. Services[l][j] \in Wrapper
    BY DeploymentAssumption
  <2>2. Services[l][j] # w /\ Descr[Services[l][j]].location # Descr[w].location
    BY <1>3 DEF GroupsApart
  <2>3. Descr[Services[l][j]].name # Descr[w].name
    BY <1>1, <2>1, <2>2 DEF DistinctNames
  <2>4. ServiceInv(Services[l][j]) /\ TypeOK
    BY <1>3 DEF DeployInv, DeployTypeOK
  <2> QED
    BY <1>1, <2>1, <2>2, <2>3, <2>4, OthersKept
<1>4. ASSUME Sound(g)
      PROVE  ServiceInv(w)'
  <2>1. ServiceInv(w) /\ TypeOK
    BY <1>4 DEF DeployInv, DeployTypeOK
  <2> QED
    BY <1>4, <2>1, OwnRegistered, OwnUnregistered
<1> QED
  BY <1>2, <1>3, <1>4

\* When a loop ends, or none runs, a group is whole or not there.
LEMMA Finished ==
    ASSUME at' = "idle", NEW l, WholeOrNot(l)'
    PROVE  LoopInv(l)'
BY DEF LoopInv

\* A loop is entered where nothing else is going on.
LEMMA EnterStep ==
    ASSUME DeployInv, at = "idle", UNCHANGED vars, todo' \subseteq todo,
           NEW g \in Library, NEW loop \in {"register", "unregister"},
           NEW then \in {"keep", "forget", "nothing"}, Enter(loop, g, then)
    PROVE  DeployInv'
<1>1. Services[g] \in Seq(Wrapper)
  BY DeploymentAssumption
<1>2. /\ serviceLibs' \subseteq Library
      /\ \/ UNCHANGED <<at, group, index, after>>
         \/ /\ at' = loop /\ group' = g /\ index' = 1 /\ after' = then
            /\ 1 \in DOMAIN Services[g]
  BY <1>1 DEF Enter, DeployInv, DeployTypeOK
<1>3. TypeOK' /\ TreeInv'
  BY DEF DeployInv, DeployTypeOK, vars, TypeOK, TreeInv, Resource, NodesTo, Prefix
<1>4. DeployTypeOK'
  BY <1>2, <1>3 DEF DeployInv, DeployTypeOK
<1>5. \A v : (Registered(v)' <=> Registered(v)) /\ (ServiceInv(v)' <=> ServiceInv(v))
  BY DEF vars, Registered, ServiceInv
<1>6. ASSUME NEW l \in Library, Sound(l)
      PROVE  LoopInv(l)'
  <2>1. WholeOrNot(l) /\ WholeOrNot(l)'
    BY <1>5, <1>6 DEF DeployInv, LoopInv, WholeOrNot
  <2>2. CASE at' = "idle"
    BY <2>1, <2>2, Finished
  <2>3. CASE at' = loop /\ group' = g /\ index' = 1
    <3>1. WholeFrom(l, 1)'
      BY <2>1 DEF WholeFrom, WholeOrNot
    <3>2. \A j \in DOMAIN Services[l] : ~(j < 1)
      BY <1>6, DeploymentAssumption
    <3> QED
      BY <2>1, <2>3, <3>1, <3>2 DEF LoopInv
  <2> QED
    BY <1>2, <2>2, <2>3
<1> QED
  BY <1>3, <1>4, <1>5, <1>6 DEF DeployInv, Sound

\* One turn of the loop of deployStatic.
LEMMA RegisterStep ==
    ASSUME DistinctNames, GroupsApart, OperationsApart, DeployInv, Register
    PROVE  DeployInv'
<1> DEFINE w == Services[group][index]
<1>0. PICK g \in Library : g = group /\ index \in DOMAIN Services[g]
  BY DEF Register, DeployInv, DeployTypeOK
<1>1. PICK i \in DOMAIN Services[g] : g = group /\ i = index
  BY <1>0
<1>2. Services[g] \in Seq(Wrapper) /\ Len(Services[g]) \in Nat
      /\ DOMAIN Services[g] = 1 .. Len(Services[g])
  BY DeploymentAssumption
<1>3. CASE at' = "down"
  <2>1. UNCHANGED <<vars, serviceLibs, group, index, todo, after>>
    BY <1>3 DEF Register, Leave
  <2>2. TypeOK' /\ TreeInv'
    BY <2>1 DEF DeployInv, DeployTypeOK, vars, TypeOK, TreeInv, Resource, NodesTo, Prefix
  <2>3. DeployTypeOK'
    BY <1>3, <2>1, <2>2 DEF DeployInv, DeployTypeOK
  <2>4. \A v : ServiceInv(v)' <=> ServiceInv(v)
    BY <2>1 DEF vars, Registered, ServiceInv
  <2> QED
    BY <1>3, <2>2, <2>3, <2>4 DEF DeployInv, Sound
<1>4. CASE at' # "down"
  <2>1. Registers(Services[g][i]) /\ at = "register"
    BY <1>1, <1>4 DEF Register, Registers
  <2>2. /\ TypeOK' /\ TreeInv'
        /\ \A l \in Library : Sound(l) => \A j \in DOMAIN Services[l] :
             /\ ServiceInv(Services[l][j])'
             /\ (l # g \/ j # i) => (Registered(Services[l][j])' <=> Registered(Services[l][j]))
    BY <2>1, GroupStep
  <2>3. \/ at' = "register" /\ group' = group /\ index' = index + 1 /\ index < Len(Services[group])
        \/ at' = "rollback" /\ group' = group /\ index' = index /\ index > 1
        \/ at' = "idle"
    BY <1>1, <1>4, <2>1 DEF Register, Leave
  <2>4. DeployTypeOK'
    <3>1. serviceLibs' \subseteq Library /\ todo' \subseteq Library
      BY <1>1 DEF Register, Leave, Kept, DeployInv, DeployTypeOK
    <3>2. after' \in {"keep", "forget", "nothing"}
      BY <1>4 DEF Register, Leave, DeployInv, DeployTypeOK
    <3>3. group' \in Library \cup {None} /\ index' \in Nat
      BY <1>1, <1>2, <1>4 DEF Register, Leave, DeployInv, DeployTypeOK
    <3>4. at' \in {"register", "rollback", "unregister"} =>
            group' \in Library /\ index' \in DOMAIN Services[group']
      BY <1>1, <1>2, <2>3
    <3> QED
      BY <2>2, <2>3, <3>1, <3>2, <3>3, <3>4 DEF DeployTypeOK
  <2>5. ASSUME NEW l \in Library, Sound(l), l # g
        PROVE  LoopInv(l)'
    <3>1. WholeOrNot(l)
      BY <1>1, <2>1, <2>5 DEF DeployInv, LoopInv
    <3>2. WholeOrNot(l)'
      BY <2>2, <2>5, <3>1 DEF WholeOrNot
    <3> QED
      BY <1>1, <2>3, <2>5, <3>2 DEF LoopInv
  <2>6. ASSUME Sound(g)
        PROVE  LoopInv(g)'
    <3>1. /\ i = 1 \/ \A j \in DOMAIN Services[g] : j >= i => ~Registered(Services[g][j])
          /\ \A j \in DOMAIN Services[g] : j < i => Registered(Services[g][j])
          /\ WholeFrom(g, i)
      BY <1>1, <2>1, <2>6 DEF DeployInv, LoopInv
    <3>2. \A j \in DOMAIN Services[g] \ {i} :
            Registered(Services[g][j])' <=> Registered(Services[g][j])
      BY <2>2, <2>6
    <3>3. IF Registered(Services[g][i])
          THEN RegisterThrows(Services[g][i]) /\ UNCHANGED vars
          ELSE RegisterSucceeds(Services[g][i]) /\ Registered(Services[g][i])'
      BY <2>1, <2>6, OwnRegistered DEF DeployInv, DeployTypeOK
    <3>4. CASE Registered(Services[g][i])
      <4>1. i = 1 /\ \A j \in DOMAIN Services[g] : Registered(Services[g][j])
        BY <1>2, <3>1, <3>4 DEF WholeFrom
      <4>2. Registered(Services[g][i])'
        BY <3>3, <3>4 DEF vars, Registered
      <4>3. ~RegisterSucceeds(Services[g][i])
        BY <2>1, <3>4, DeploymentAssumption, DescrFacts
           DEF RegisterSucceeds, Taken, Entry, Registered
      <4>4. at' = "idle"
        BY <1>1, <1>4, <2>1, <4>1, <4>3 DEF Register, Leave
      <4>5. WholeOrNot(g)'
        BY <3>2, <4>1, <4>2 DEF WholeOrNot
      <4> QED
        BY <4>4, <4>5, Finished
    <3>5. CASE ~Registered(Services[g][i])
      <4>1. Registered(Services[g][i])'
        BY <3>3, <3>5
      <4>2. \A j \in DOMAIN Services[g] : j >= i => ~Registered(Services[g][j])
        BY <3>1, <3>5 DEF WholeFrom
      <4>3. \A j \in DOMAIN Services[g] : j < i + 1 => Registered(Services[g][j])'
        BY <1>2, <3>1, <3>2, <4>1
      <4>4. \A j \in DOMAIN Services[g] : j >= i + 1 => ~Registered(Services[g][j])'
        BY <1>2, <3>2, <4>2
      <4>5. ~RegisterThrows(Services[g][i])
        BY <3>5, <4>1, KeptTable, DeploymentAssumption
      <4>6. CASE i < Len(Services[g])
        <5>1. at' = "register" /\ group' = g /\ index' = i + 1
          BY <1>1, <1>4, <2>1, <4>5, <4>6 DEF Register
        <5>2. WholeFrom(g, i + 1)'
          BY <4>4 DEF WholeFrom
        <5> QED
          BY <4>3, <4>4, <5>1, <5>2 DEF LoopInv, WholeFrom
      <4>7. CASE ~(i < Len(Services[g]))
        <5>1. at' = "idle"
          BY <1>1, <1>4, <2>1, <4>5, <4>7 DEF Register, Leave
        <5>2. WholeOrNot(g)'
          BY <1>2, <4>3, <4>7 DEF WholeOrNot
        <5> QED
          BY <5>1, <5>2, Finished
      <4> QED
        BY <4>6, <4>7
    <3> QED
      BY <3>4, <3>5
  <2> QED
    BY <2>2, <2>4, <2>5, <2>6 DEF DeployInv, Sound
<1> QED
  BY <1>3, <1>4

\* One turn of the rollback of deployStatic, which no sound group comes to.
LEMMA RollbackStep ==
    ASSUME DistinctNames, GroupsApart, OperationsApart, DeployInv, Rollback
    PROVE  DeployInv'
<1>0. PICK g \in Library : g = group /\ index \in DOMAIN Services[g]
  BY DEF Rollback, DeployInv, DeployTypeOK
<1>1. PICK i \in DOMAIN Services[g] : g = group /\ i = index
  BY <1>0
<1>2. DOMAIN Services[g] = 1 .. Len(Services[g]) /\ Len(Services[g]) \in Nat
  BY DeploymentAssumption
<1>3. Unregisters(Services[g][i]) /\ at = "rollback"
  BY <1>1 DEF Rollback, Unregisters
<1>4. /\ TypeOK' /\ TreeInv'
      /\ \A l \in Library : Sound(l) => \A j \in DOMAIN Services[l] :
           /\ ServiceInv(Services[l][j])'
           /\ (l # g \/ j # i) => (Registered(Services[l][j])' <=> Registered(Services[l][j]))
  BY <1>3, GroupStep
<1>5. \/ at' = "rollback" /\ group' = group /\ index' = index - 1 /\ index > 2
      \/ at' = "idle"
  BY <1>3 DEF Rollback, Leave
<1>6. DeployTypeOK'
  <2>1. UNCHANGED <<serviceLibs, todo>> /\ after' \in {after, "nothing"}
    BY DEF Rollback, Leave
  <2>2. \/ group' = group /\ index' = index - 1 /\ index > 2
        \/ group' = None /\ index' = 0
    BY DEF Rollback, Leave
  <2>3. group' \in Library \cup {None} /\ index' \in Nat
    BY <1>1, <1>2, <2>2
  <2>4. at' \in {"register", "rollback", "unregister"} =>
          group' \in Library /\ index' \in DOMAIN Services[group']
    BY <1>1, <1>2, <1>5
  <2> QED
    BY <1>4, <1>5, <2>1, <2>3, <2>4 DEF DeployTypeOK, DeployInv
<1>7. ~Sound(g)
  BY <1>1, <1>3 DEF DeployInv, LoopInv
<1>8. ASSUME NEW l \in Library, Sound(l)
      PROVE  LoopInv(l)'
  <2>1. WholeOrNot(l) /\ l # g
    BY <1>1, <1>3, <1>7, <1>8 DEF DeployInv, LoopInv
  <2>2. WholeOrNot(l)'
    BY <1>4, <1>8, <2>1 DEF WholeOrNot
  <2> QED
    BY <1>1, <1>5, <2>1, <2>2 DEF LoopInv
<1> QED
  BY <1>4, <1>6, <1>8 DEF DeployInv, Sound

\* One turn of the loop of undeployStatic.
LEMMA UnregisterStep ==
    ASSUME DistinctNames, GroupsApart, OperationsApart, DeployInv, Unregister
    PROVE  DeployInv'
<1>0. PICK g \in Library : g = group /\ index \in DOMAIN Services[g]
  BY DEF Unregister, DeployInv, DeployTypeOK
<1>1. PICK i \in DOMAIN Services[g] : g = group /\ i = index
  BY <1>0
<1>2. DOMAIN Services[g] = 1 .. Len(Services[g]) /\ Len(Services[g]) \in Nat
  BY DeploymentAssumption
<1>3. Unregisters(Services[g][i]) /\ at = "unregister"
  BY <1>1 DEF Unregister, Unregisters
<1>4. /\ TypeOK' /\ TreeInv'
      /\ \A l \in Library : Sound(l) => \A j \in DOMAIN Services[l] :
           /\ ServiceInv(Services[l][j])'
           /\ (l # g \/ j # i) => (Registered(Services[l][j])' <=> Registered(Services[l][j]))
  BY <1>3, GroupStep
<1>5. \/ /\ at' = "unregister" /\ group' = group /\ index' = index + 1
         /\ index < Len(Services[group])
      \/ at' = "idle" /\ ~(index < Len(Services[group]))
  BY <1>3 DEF Unregister, LastOf, Leave
<1>6. DeployTypeOK'
  <2>1. serviceLibs' \subseteq Library /\ todo' = todo /\ after' \in {after, "nothing"}
    BY <1>1 DEF Unregister, Leave, Kept, DeployInv, DeployTypeOK
  <2>2. group' \in Library \cup {None} /\ index' \in Nat
    BY <1>1, <1>2 DEF Unregister, Leave
  <2>3. at' \in {"register", "rollback", "unregister"} =>
          group' \in Library /\ index' \in DOMAIN Services[group']
    BY <1>1, <1>2, <1>5
  <2> QED
    BY <1>4, <1>5, <2>1, <2>2, <2>3 DEF DeployTypeOK, DeployInv
<1>7. ASSUME NEW l \in Library, Sound(l), l # g
      PROVE  LoopInv(l)'
  <2>1. WholeOrNot(l)
    BY <1>1, <1>3, <1>7 DEF DeployInv, LoopInv
  <2>2. WholeOrNot(l)'
    BY <1>4, <1>7, <2>1 DEF WholeOrNot
  <2> QED
    BY <1>1, <1>5, <1>7, <2>2 DEF LoopInv
<1>8. ASSUME Sound(g)
      PROVE  LoopInv(g)'
  <2>1. /\ \A j \in DOMAIN Services[g] : j < i => ~Registered(Services[g][j])
        /\ WholeFrom(g, i)
    BY <1>1, <1>3, <1>8 DEF DeployInv, LoopInv
  <2>2. ~Registered(Services[g][i])'
    BY <1>3, <1>8, OwnUnregistered DEF DeployInv
  <2>3. \A j \in DOMAIN Services[g] : j < i + 1 => ~Registered(Services[g][j])'
    BY <1>2, <1>4, <1>8, <2>1, <2>2
  <2>4. CASE at' = "unregister" /\ group' = group /\ index' = index + 1
    <3>1. WholeFrom(g, i + 1)'
      <4>1. \A j \in DOMAIN Services[g] : j >= i + 1 => j >= i /\ j # i
        BY <1>2
      <4> QED
        BY <1>4, <1>8, <2>1, <4>1 DEF WholeFrom
    <3> QED
      BY <1>1, <2>3, <2>4, <3>1 DEF LoopInv, WholeFrom
  <2>5. CASE at' = "idle" /\ ~(index < Len(Services[group]))
    <3>1. WholeOrNot(g)'
      BY <1>1, <1>2, <2>3, <2>5 DEF WholeOrNot
    <3> QED
      BY <2>5, <3>1, Finished
  <2> QED
    BY <1>5, <2>4, <2>5
<1> QED
  BY <1>4, <1>6, <1>7, <1>8 DEF DeployInv, Sound

LEMMA NextDeployment ==
    ASSUME DistinctNames, GroupsApart, OperationsApart, DeployInv, [DeployNext]_deployVars
    PROVE  DeployInv'
<1>1. ASSUME NEW l \in Library, Deploy(l) \/ Undeploy(l) \/ UndeployNext(l) PROVE DeployInv'
  BY <1>1, EnterStep DEF Deploy, Undeploy, UndeployNext
<1>2. CASE UndeployAll \/ UNCHANGED deployVars
  <2>1. /\ UNCHANGED <<vars, serviceLibs, at, group, index, after>>
        /\ todo' \in {todo, serviceLibs}
    BY <1>2 DEF UndeployAll, deployVars, loopVars
  <2>2. TypeOK' /\ TreeInv'
    BY <2>1 DEF DeployInv, DeployTypeOK, vars, TypeOK, TreeInv, Resource, NodesTo, Prefix
  <2>3. DeployTypeOK'
    BY <2>1, <2>2 DEF DeployInv, DeployTypeOK
  <2>4. \A v : (Registered(v)' <=> Registered(v)) /\ (ServiceInv(v)' <=> ServiceInv(v))
    BY <2>1 DEF vars, Registered, ServiceInv
  <2>5. \A l : LoopInv(l)' <=> LoopInv(l)
    BY <2>1, <2>4 DEF LoopInv, WholeFrom, WholeOrNot
  <2> QED
    BY <2>1, <2>2, <2>3, <2>4, <2>5 DEF DeployInv, Sound
<1> QED
  BY <1>1, <1>2, RegisterStep, RollbackStep, UnregisterStep DEF DeployNext

(***************************************************************************)
(* DeployInv is an invariant of the deployment, for any libraries: those   *)
(* of sound groups that share nothing are registered and unregistered as a *)
(* whole, whatever the others do to the tree and the map meanwhile.        *)
(***************************************************************************)
THEOREM DeploymentInvariant ==
    ASSUME DistinctNames, GroupsApart, OperationsApart
    PROVE  DeploySpec => []DeployInv
<1>1. DeployInit => DeployInv
  <2> SUFFICES ASSUME DeployInit PROVE DeployInv
    OBVIOUS
  <2>1. TypeOK /\ TreeInv
    BY InitDispatcher DEF DeployInit, DispatcherInv
  <2>2. DeployTypeOK
    BY <2>1 DEF DeployInit, NothingDeployed, DeployTypeOK
  <2>3. \A v : ~Registered(v)
    BY DEF DeployInit, Init, Registered
  <2>4. ASSUME NEW l \in Library, NEW i \in DOMAIN Services[l]
        PROVE  ServiceInv(Services[l][i])
    <3>1. Descr[Services[l][i]].location # <<>>
      BY DeploymentAssumption, DescrFacts
    <3> QED
      BY <2>3, <3>1 DEF DeployInit, Init, ServiceInv
  <2>5. \A l \in Library : LoopInv(l)
    BY <2>3 DEF DeployInit, LoopInv, WholeOrNot
  <2> QED
    BY <2>1, <2>2, <2>4, <2>5 DEF DeployInv
<1>2. DeployInv /\ [DeployNext]_deployVars => DeployInv'
  BY NextDeployment
<1> QED
  BY <1>1, <1>2, PTL DEF DeploySpec

(***************************************************************************)
(* Between two calls every sound group that shares nothing with another is *)
(* registered entirely or not at all, whatever was deployed, failed to be  *)
(* or was undone, in whatever order (deployStatic, undeployStatic).        *)
(***************************************************************************)
THEOREM GroupsAreWhole ==
    ASSUME DistinctNames, GroupsApart, OperationsApart
    PROVE  DeploySpec => []WholeGroups
<1>1. DeployInv => WholeGroups
  BY DEF DeployInv, LoopInv, WholeGroups
<1> QED
  BY <1>1, DeploymentInvariant, PTL
==============================================================================
