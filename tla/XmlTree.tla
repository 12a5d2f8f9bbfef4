------------------------------- MODULE XmlTree --------------------------------
(***************************************************************************)
(* The nodes of an XML document in memory: the pointers between a parent,  *)
(* its children and their siblings, src/core/xml/src/Element.cpp lines     *)
(* 28-501 and Node.cpp.  The values of texts are left out; the attributes  *)
(* and namespaces of elements are in XmlNames.                             *)
(***************************************************************************)
EXTENDS Naturals, Sequences, FiniteSets, SequencesExt

CONSTANTS
    Node,
    None,
    Kind,          \* Kind[n]: "element", "text", "cdata" or "comment"
    Label,         \* Label[n]: the name of an element
    AnyOrder       \* bound: TRUE lets a caller put a tree below itself

Element == {n \in Node : Kind[n] = "element"}
Text == {n \in Node : Kind[n] = "text"}
Pointer == Node \cup {None}

ASSUME XmlTreeAssumption ==
    /\ None \notin Node /\ IsFiniteSet(Node)
    /\ Kind \in [Node -> {"element", "text", "cdata", "comment"}]
    /\ DOMAIN Label = Node
    /\ AnyOrder \in BOOLEAN

VARIABLE tree      \* the nodes in memory and their pointers

Trees == [alive : SUBSET Node, parent : [Node -> Pointer], next : [Node -> Pointer],
          prev : [Node -> Pointer], first : [Node -> Pointer], last : [Node -> Pointer]]
NoPointers == [n \in Node |-> None]

TreeInit ==
    tree = [alive |-> {}, parent |-> NoPointers, next |-> NoPointers, prev |-> NoPointers,
            first |-> NoPointers, last |-> NoPointers]

-----------------------------------------------------------------------------
\* The members of the list s that are in S, in their order.
Those(s, S) ==
    LET upTo[i \in 0 .. Len(s)] ==
            IF i = 0 THEN <<>>
            ELSE IF s[i] \in S THEN Append(upTo[i - 1], s[i])
            ELSE upTo[i - 1]
    IN  upTo[Len(s)]

-----------------------------------------------------------------------------
(* Walks.                                                                  *)

\* Along nextSibling from firstChild, no further than there are nodes.
ChildrenOf(t, e) ==
    LET along[steps \in 0 .. Cardinality(Node)] ==
            [n \in Pointer |-> IF n = None \/ steps = 0 THEN <<>>
                               ELSE <<n>> \o along[steps - 1][t.next[n]]]
    IN  along[Cardinality(Node)][t.first[e]]
TextsOf(t, e) == Those(ChildrenOf(t, e), Text)

\* What the destructor of n destroys: n and what is below it.
Below(t, n) ==
    LET reached[steps \in 0 .. Cardinality(Node)] ==
            [x \in Node |-> {x} \cup IF steps = 0 THEN {}
                                     ELSE UNION {reached[steps - 1][y] : y \in ToSet(ChildrenOf(t, x))}]
    IN  reached[Cardinality(Node)][n]

\* findChildElementByName, lines 549-593, from the first child element.
FindChild(t, e, label) ==
    LET found == Those(ChildrenOf(t, e), {n \in Element : Label[n] = label})
    IN  IF found = <<>> THEN None ELSE Head(found)

-----------------------------------------------------------------------------
(* Pointers.                                                               *)

Constructed(t, n) == [t EXCEPT !.alive = @ \cup {n}]

\* "Can't append node that is already in tree"
Loose(t, n) == t.parent[n] = None /\ t.next[n] = None /\ t.prev[n] = None

\* appendChild, lines 450-472.
Appended(t, e, n) ==
    LET was == t.last[e] IN
    [t EXCEPT !.first[e] = IF @ = None \/ was = None THEN n ELSE @,
              !.next = IF t.first[e] = None \/ was = None THEN @ ELSE [@ EXCEPT ![was] = n],
              !.prev[n] = IF t.first[e] = None \/ was = None THEN @ ELSE was,
              !.parent[n] = e,
              !.last[e] = n]

\* insertChildBefore, lines 360-383.
InsertedBefore(t, e, n, before) ==
    LET was == t.prev[before] IN
    [t EXCEPT !.first[e] = IF @ = before THEN n ELSE @,
              !.next = [x \in Node |-> IF x = n THEN before
                                       ELSE IF t.first[e] # before /\ x = was THEN n ELSE @[x]],
              !.prev = [@ EXCEPT ![before] = n, ![n] = IF t.first[e] = before THEN t.prev[n] ELSE was],
              !.parent[n] = e]

\* insertChildAfter, lines 405-428.
InsertedAfter(t, e, n, after) ==
    LET was == t.next[after] IN
    [t EXCEPT !.last[e] = IF @ = after THEN n ELSE @,
              !.prev = [x \in Node |-> IF x = n THEN after
                                       ELSE IF t.last[e] # after /\ x = was THEN n ELSE @[x]],
              !.next = [@ EXCEPT ![after] = n, ![n] = IF t.last[e] = after THEN t.next[n] ELSE was],
              !.parent[n] = e]

\* Mutation of Detached: the last child of the parent stays.
DetachedButLast(t, n) ==
    LET p == t.parent[n]  nx == t.next[n]  pv == t.prev[n] IN
    [t EXCEPT !.first = IF p # None /\ t.first[p] = n THEN [@ EXCEPT ![p] = nx] ELSE @,
              !.parent[n] = None,
              !.prev = [x \in Node |-> IF x = n THEN None ELSE IF x = nx THEN pv ELSE @[x]],
              !.next = [x \in Node |-> IF x = n THEN None ELSE IF x = pv THEN nx ELSE @[x]]]

\* Detach, Node.cpp lines 171-188.
Detached(t, n) ==
    LET p == t.parent[n]  nx == t.next[n]  pv == t.prev[n] IN
    [t EXCEPT !.first = IF p # None /\ t.first[p] = n THEN [@ EXCEPT ![p] = nx] ELSE @,
              !.last = IF p # None /\ t.last[p] = n THEN [@ EXCEPT ![p] = pv] ELSE @,
              !.parent[n] = None,
              !.prev = [x \in Node |-> IF x = n THEN None ELSE IF x = nx THEN pv ELSE @[x]],
              !.next = [x \in Node |-> IF x = n THEN None ELSE IF x = pv THEN nx ELSE @[x]]]

\* The memory of the nodes of S is gone, with the pointers in it.
Freed(t, S) ==
    LET cut(f) == [n \in Node |-> IF n \in S THEN None ELSE f[n]] IN
    [alive |-> t.alive \ S, parent |-> cut(t.parent), next |-> cut(t.next), prev |-> cut(t.prev),
     first |-> cut(t.first), last |-> cut(t.last)]

\* Mutation of Deleted: the children are left behind.
DeletedAlone(t, n) == Freed(IF t.parent[n] = None THEN t ELSE Detached(t, n), {n})

\* The destructors, Element.cpp lines 76-79 and Node.cpp lines 49-54.
Deleted(t, n) == Freed(IF t.parent[n] = None THEN t ELSE Detached(t, n), Below(t, n))

\* One after the other is deleted.
DeletedEach(t, nodes) ==
    LET after[i \in 0 .. Len(nodes)] ==
            IF i = 0 THEN t ELSE Deleted(after[i - 1], nodes[i])
    IN  after[Len(nodes)]

\* clear, lines 289-301, for the children.
Cleared(t, e) ==
    Freed([t EXCEPT !.first[e] = None, !.last[e] = None], Below(t, e) \ {e})

\* Nodes for the copies of those of S, each of the kind and name of its original.
Copies(t, S) ==
    {m \in [S -> Node \ t.alive] :
        /\ \A x, y \in S : m[x] = m[y] => x = y
        /\ \A x \in S : Kind[m[x]] = Kind[x] /\ Label[m[x]] = Label[x]}

\* Mutation of ClonedInto: only the children themselves are cloned.
ClonedFlat(t, target, source, m) ==
    FoldLeft(LAMBDA acc, n : Appended(Constructed(acc, m[n]), target, m[n]),
             t, ChildrenOf(t, source))

\* cloneElement, lines 102-141, and Node::clone, lines 87-108: copies of the
\* children of the source are appended to the target, with what is below them, no
\* deeper than there are nodes.
ClonedInto(t, target, source, m) ==
    LET cloned[depth \in 0 .. Cardinality(Node)] ==
            [call \in Trees \X Node \X (DOMAIN m \cup {source}) |->
                LET children == ChildrenOf(t, call[3])
                    after[i \in 0 .. Len(children)] ==
                        IF i = 0 \/ depth = 0 THEN call[1]
                        ELSE Appended(cloned[depth - 1][<<Constructed(after[i - 1], m[children[i]]),
                                                          m[children[i]], children[i]>>],
                                      call[2], m[children[i]])
                IN  after[Len(children)]]
    IN  cloned[Cardinality(Node)][<<t, target, source>>]

-----------------------------------------------------------------------------
(* Operations.                                                             *)

Sound == tree.alive
Elements == Sound \cap Element

\* new Element(name), new Text(value), ..., lines 30-47 and Node.cpp lines
\* 28-47 and 191-221.  With a parent they throw: the parent is set before
\* appendChild, which does not take a node that has one.
NewNode(n) ==
    /\ n \in Node \ Sound
    /\ tree' = Constructed(tree, n)

\* new Element(name, value), lines 49-58.
NewElementWithText(e, text) ==
    /\ e \in Element \ Sound /\ text \in Text \ Sound
    /\ tree' = Appended(Constructed(Constructed(tree, e), text), e, text)

\* createElement, createComment, createText, createCdata, lines 306-358.
CreateChild(e, n) ==
    /\ e \in Elements /\ n \in Node \ Sound
    /\ tree' = Appended(Constructed(tree, n), e, n)

\* createElementOnce, lines 321-328.
CreateElementOnce(e, n) ==
    /\ e \in Elements /\ n \in Element \ Sound
    /\ FindChild(tree, e, Label[n]) = None
    /\ tree' = Appended(Constructed(tree, n), e, n)

\* The asserts of the insertions, lines 362-365.  That the node is not above the
\* element is not among them: AnyOrder leaves it to the caller.
MayTake(e, n) ==
    /\ e \in Elements /\ n \in Sound
    /\ n # e /\ Loose(tree, n)
    /\ AnyOrder \/ e \notin Below(tree, n)

AppendChild(e, n) ==
    /\ MayTake(e, n)
    /\ tree' = Appended(tree, e, n)

InsertChildBefore(e, n, before) ==
    /\ MayTake(e, n) /\ before \in Sound /\ tree.parent[before] = e
    /\ tree' = InsertedBefore(tree, e, n, before)

InsertChildAfter(e, n, after) ==
    /\ MayTake(e, n) /\ after \in Sound /\ tree.parent[after] = e
    /\ tree' = InsertedAfter(tree, e, n, after)

DetachNode(n) ==
    /\ n \in Sound
    /\ tree' = Detached(tree, n)

\* delete node, and removeChild, lines 494-499.
DeleteNode(n) == n \in Sound /\ tree' = Deleted(tree, n)

\* clear, lines 266-302.
ClearElement(e) == e \in Elements /\ tree' = Cleared(tree, e)

\* setValue, lines 201-230: the first text is kept.
SetValue(e) ==
    /\ e \in Elements
    /\ LET texts == TextsOf(tree, e) IN
       \/ texts # <<>> /\ tree' = DeletedEach(tree, Tail(texts))
       \/ texts = <<>> /\ \E n \in Text \ Sound : tree' = Appended(Constructed(tree, n), e, n)

\* setTextIsNull, lines 239-251.
SetTextIsNull(e) ==
    /\ e \in Elements
    /\ tree' = DeletedEach(tree, TextsOf(tree, e))

\* Node::clone and cloneElement, lines 81-100.
CloneNode(n) ==
    /\ n \in Sound
    /\ \E m \in Copies(tree, Below(tree, n)) :
        tree' = ClonedInto(Constructed(tree, m[n]), m[n], n, m)

\* operator=, lines 70-74, for elements neither of which is below the other.
AssignElement(e, source) ==
    /\ e \in Elements /\ source \in Elements
    /\ source \notin Below(tree, e) /\ e \notin Below(tree, source)
    /\ LET t == Cleared(tree, e) IN
       \E m \in Copies(t, Below(t, source) \ {source}) : tree' = ClonedInto(t, e, source, m)

TreeNext ==
    \/ \E n \in Node : NewNode(n) \/ DetachNode(n) \/ DeleteNode(n) \/ CloneNode(n)
    \/ \E e \in Element :
        \/ ClearElement(e) \/ SetValue(e) \/ SetTextIsNull(e)
        \/ \E text \in Text : NewElementWithText(e, text)
        \/ \E source \in Element : AssignElement(e, source)
        \/ \E n \in Node :
            \/ CreateChild(e, n) \/ CreateElementOnce(e, n) \/ AppendChild(e, n)
            \/ \E at \in Node : InsertChildBefore(e, n, at) \/ InsertChildAfter(e, n, at)

TreeSpec == TreeInit /\ [][TreeNext]_tree

-----------------------------------------------------------------------------
\* Types; only elements in memory have children.
TreeTypeOK ==
    /\ tree.alive \subseteq Node
    /\ \A f \in {tree.parent, tree.next, tree.prev, tree.first, tree.last} : f \in [Node -> Pointer]
    /\ \A n \in Node \ Elements : tree.first[n] = None /\ tree.last[n] = None

\* The lists of children are linked the same way in both directions, from the
\* first to the last, and their nodes know their parent; a node that is in no
\* list has no siblings.  Every insertion relies on it (lines 373-382, 417-426,
\* 458-471).
Linked ==
    /\ \A n \in Sound :
        /\ tree.next[n] # None => tree.prev[tree.next[n]] = n
        /\ tree.prev[n] # None => tree.next[tree.prev[n]] = n
        /\ tree.parent[n] = None => tree.next[n] = None /\ tree.prev[n] = None
        /\ tree.parent[n] # None => n \in ToSet(ChildrenOf(tree, tree.parent[n]))
    /\ \A e \in Elements :
        /\ \A n \in ToSet(ChildrenOf(tree, e)) : tree.parent[n] = e
        /\ (tree.first[e] = None) = (tree.last[e] = None)
        /\ tree.first[e] # None => /\ tree.prev[tree.first[e]] = None
                                  /\ tree.next[tree.last[e]] = None
                                  /\ tree.last[e] = Last(ChildrenOf(tree, e))

\* No pointer of a node in memory leads to one that is not.
NothingDangles ==
    \A n \in Sound : \A f \in {tree.parent, tree.next, tree.prev, tree.first, tree.last} :
        f[n] \in Sound \cup {None}

\* Every node is freed once: the roots own all others, each through one parent.
OwnedOnce ==
    \A n, m \in Sound : n # m /\ tree.parent[n] = None /\ tree.parent[m] = None =>
        Below(tree, n) \cap Below(tree, m) = {}

\* What every call leaves of the pointers, and of the memory behind them.
TreeInv == TreeTypeOK /\ Linked /\ NothingDangles /\ OwnedOnce

\* What is cloned looks like its original, in the same order, and shares nothing
\* with it (lines 132-138).
Looks(t, n) ==
    LET looks[steps \in 0 .. Cardinality(Node)] ==
            [x \in Node |->
                LET children == ChildrenOf(t, x) IN
                <<Kind[x], Label[x], IF steps = 0 THEN <<>>
                                     ELSE [i \in DOMAIN children |-> looks[steps - 1][children[i]]]>>]
    IN  looks[Cardinality(Node)][n]
ClonesAlike ==
    [][\A n \in tree.alive : CloneNode(n) =>
          \E c \in tree'.alive \ tree.alive :
              /\ tree'.parent[c] = None
              /\ Looks(tree', c) = Looks(tree, n) /\ Looks(tree', n) = Looks(tree, n)
              /\ Below(tree', c) = tree'.alive \ tree.alive]_tree

\* setValue keeps "only one text child" (Element.h lines 139-145), the first, and
\* every child that is not a text, in their order.
OneTextIsKept ==
    [][\A e \in Element \cap tree.alive : SetValue(e) =>
          LET before == ChildrenOf(tree, e)
              after  == ChildrenOf(tree', e)
              Others(list) == Those(list, Node \ Text)
          IN  /\ Len(TextsOf(tree', e)) = 1
              /\ TextsOf(tree, e) # <<>> => TextsOf(tree', e) = <<Head(TextsOf(tree, e))>>
              /\ Others(after) = Others(before)]_tree

\* Both: what a call that rebuilds an element's children leaves of them.
ChildrenAsCalled == ClonesAlike /\ OneTextIsKept

\* The pointers implement the forest of XmlForest.
ChildLists == [n \in Sound |-> ChildrenOf(tree, n)]
Forest == INSTANCE XmlForest WITH kids <- ChildLists
ImplementsForest == Forest!ForestSpec

\* What is put into a document is below one of its roots.
NoCycle == \A n \in Sound : \E r \in Sound : tree.parent[r] = None /\ n \in Below(tree, r)
==============================================================================
