------------------------------ MODULE XmlForest -------------------------------
(***************************************************************************)
(* What the nodes of XML documents promise, without their pointers         *)
(* (src/core/xml/src/Element.h and Node.h): each element has an ordered    *)
(* list of children and owns them, a node is in one list at most, and what *)
(* is deleted takes what it owns with it.                                  *)
(***************************************************************************)
EXTENDS Naturals, Sequences, FiniteSets, SequencesExt

CONSTANTS Node, Element, Text

VARIABLES kids

Live == DOMAIN kids

\* A node with what it owns.
Owned(n) ==
    LET owned[steps \in 0 .. Cardinality(Node)] ==
            [x \in Live |-> {x} \cup IF steps = 0 THEN {}
                                     ELSE UNION {owned[steps - 1][y] : y \in ToSet(kids[x])}]
    IN  owned[Cardinality(Node)][n]

Free(n) == n \in Live /\ \A e \in Live : n \notin ToSet(kids[e])

ForestInit == kids = [n \in {} |-> <<>>]

New == \E n \in Live' \ Live : kids' = [m \in Live \cup {n} |-> IF m = n THEN <<>> ELSE kids[m]]

\* appendChild, insertChildBefore, insertChildAfter: a free node gets a place.
Place == \E e \in Live \cap Element : \E n \in Live \ {e} :
            /\ Free(n)
            /\ \E i \in 1 .. Len(kids[e]) + 1 : kids' = [kids EXCEPT ![e] = InsertAt(@, i, n)]

\* A new node gets a place, or, with a text, is a tree of its own.
Make == \E n \in Live' \ Live :
            \/ \E e \in Live \cap Element :
                    kids' = [m \in Live \cup {n} |-> IF m = n THEN <<>>
                                                     ELSE IF m = e THEN Append(kids[e], n)
                                                     ELSE kids[m]]
            \/ \E t \in Text \cap (Live' \ Live) :
                    kids' = [m \in Live \cup {n, t} |-> IF m = n THEN <<t>>
                                                        ELSE IF m = t THEN <<>> ELSE kids[m]]

\* The members of the list s that are in S, in their order.
Those(s, S) ==
    LET upTo[i \in 0 .. Len(s)] ==
            IF i = 0 THEN <<>>
            ELSE IF s[i] \in S THEN Append(upTo[i - 1], s[i])
            ELSE upTo[i - 1]
    IN  upTo[Len(s)]

\* Detach.
Take == \E n \in Live : ~Free(n) /\ kids' = [e \in Live |-> Those(kids[e], Live \ {n})]

\* The nodes of S are gone, from the lists they were in too.
Gone(S) == kids' = [e \in Live \ S |-> Those(kids[e], Live \ S)]

Destroy == \E n \in Live : Gone(Owned(n))

Empty == \E e \in Live \cap Element : Gone(Owned(e) \ {e})

\* setTextIsNull, and setValue when there is a text: one is kept.
TextsGone == \E e \in Live \cap Element : \E kept \in SUBSET Text :
                /\ Cardinality(kept) <= 1 /\ kept \subseteq ToSet(kids[e])
                /\ Gone((ToSet(kids[e]) \cap Text) \ kept)

Injective(m) == \A x, y \in DOMAIN m : m[x] = m[y] => x = y

\* The copies m[x] of the nodes in DOMAIN m own the copies of what those own.
Mirrors(m) ==
    \A x \in DOMAIN m : kids'[m[x]] = [i \in DOMAIN kids[x] |-> m[kids[x][i]]]

\* cloneElement: a tree of new nodes that looks the same; all else stays.
Copy == /\ Live # Live' /\ Live \subseteq Live'
        /\ \A x \in Live : kids'[x] = kids[x]
        /\ \E n \in Live : \E m \in [Owned(n) -> Live' \ Live] :
            /\ Injective(m) /\ Mirrors(m)
            /\ Live' \ Live = {m[x] : x \in Owned(n)}

\* operator=: what the target owned is gone, it owns copies of what the source owns.
Become == \E e \in Live \cap Element : \E s \in (Live \cap Element) \ Owned(e) :
            LET of   == Owned(s) \ {s}
                kept == Live \ (Owned(e) \ {e})
            IN  /\ kept \subseteq Live'
                /\ \A x \in kept \ {e} : kids'[x] = kids[x]
                /\ Cardinality(Live' \ kept) = Cardinality(of)
                /\ \E m \in [of -> Live' \ kept] :
                    /\ Injective(m) /\ Mirrors(m)
                    /\ kids'[e] = [i \in DOMAIN kids[s] |-> m[kids[s][i]]]

ForestNext ==
    New \/ Place \/ Make \/ Take \/ Destroy \/ Empty \/ TextsGone \/ Copy \/ Become

ForestSpec == ForestInit /\ [][ForestNext]_kids
==============================================================================
