------------------------------- MODULE XmlNames -------------------------------
(***************************************************************************)
(* The prefixes, attributes and namespaces of the elements of an XML       *)
(* document, src/core/xml/src/Element.cpp lines 81-170, 266-288 and        *)
(* 615-1001.  The tree of elements stays as it is; XmlTree has its         *)
(* operations.                                                             *)
(***************************************************************************)
EXTENDS Naturals, Sequences, FiniteSets, SequencesExt

CONSTANTS
    Element,
    NoNode,
    Parent,        \* Parent[e]: the element above e, or None
    Prefix, Uri, Name,
    MaxEntries     \* bound: the attributes and namespaces of the document

\* A document is a tree: a parent is higher up than its children.
ASSUME NamesAssumption ==
    /\ NoNode \notin Element /\ IsFiniteSet(Element)
    /\ Parent \in [Element -> Element \cup {NoNode}]
    /\ \E depth \in [Element -> 0 .. Cardinality(Element)] :
        \A e \in Element : Parent[e] # NoNode => depth[Parent[e]] < depth[e]
    /\ MaxEntries \in Nat

VARIABLES
    prefix,     \* prefix[e]
    attrs,      \* attrs[e]: the names of the list at firstAttribute
    spaces,     \* spaces[e]: the list at firstNamespace
    stale,      \* elements whose firstAttribute or firstNamespace has been freed
    broken      \* freed or null memory has been used

namesVars == <<prefix, attrs, spaces, stale, broken>>

Space == [prefix : Prefix, uri : Uri]

NamesInit ==
    /\ prefix \in [Element -> Prefix]
    /\ attrs = [e \in Element |-> <<>>]
    /\ spaces = [e \in Element |-> <<>>]
    /\ stale = {} /\ broken = FALSE

RoomForOne ==
    FoldLeft(LAMBDA n, e : n + Len(attrs[e]) + Len(spaces[e]), 0, SetToSeq(Element)) < MaxEntries

\* A list of e is walked.
Uses(e) == broken' = (broken \/ e \in stale)

\* From an element up the hierarchy, and the elements below one, itself included.
Ancestry ==
    [e \in Element |->
        LET up[i \in 0..Cardinality(Element)] ==
                IF i = 0 THEN <<e>>
                ELSE IF Parent[Last(up[i - 1])] = NoNode THEN up[i - 1]
                ELSE Append(up[i - 1], Parent[Last(up[i - 1])])
        IN  up[Cardinality(Element)]]
Below == [e \in Element |-> {d \in Element : e \in ToSet(Ancestry[d])}]

-----------------------------------------------------------------------------
(* Attributes.                                                             *)

\* setName, lines 148-158, with a prefix before the last colon or without.
SetName(e, p) ==
    /\ prefix' = [prefix EXCEPT ![e] = p]
    /\ UNCHANGED <<attrs, spaces, stale, broken>>

\* createAttribute and appendAttribute, lines 614-645: names are not compared.
CreateAttribute(e, name) ==
    /\ RoomForOne
    /\ Uses(e)
    /\ attrs' = [attrs EXCEPT ![e] = Append(@, name)]
    /\ UNCHANGED <<prefix, spaces, stale>>

\* removeAttribute, lines 685-703, of an attribute that is in the list.
RemoveAttribute(e, i) ==
    /\ i \in DOMAIN attrs[e]
    /\ Uses(e)
    /\ attrs' = [attrs EXCEPT ![e] = RemoveAt(@, i)]
    /\ UNCHANGED <<prefix, spaces, stale>>

\* removeAttributeByName, lines 705-725: the first of that name.  Of a list in
\* which the name is not, and that is not empty, the element behind the last is
\* read (line 720).
RemoveAttributeByName(e, name) ==
    /\ attrs[e] # <<>>
    /\ IF \E i \in DOMAIN attrs[e] : attrs[e][i] = name
       THEN Uses(e) /\ attrs' = [attrs EXCEPT ![e] = RemoveFirst(@, name)]
       ELSE broken' = TRUE /\ UNCHANGED attrs
    /\ UNCHANGED <<prefix, spaces, stale>>

-----------------------------------------------------------------------------
(* Namespaces.                                                             *)

FindByPrefix(e, p) == SelectInSeq(spaces[e], LAMBDA ns : ns.prefix = p)
FindByUri(e, uri) == SelectInSeq(spaces[e], LAMBDA ns : ns.uri = uri)

\* declareNamespace, lines 752-769: an entry of the prefix is changed.
Declared(list, uri, p) ==
    IF \E i \in DOMAIN list : list[i].prefix = p
    THEN [list EXCEPT ![SelectInSeq(list, LAMBDA ns : ns.prefix = p)].uri = uri]
    ELSE Append(list, [prefix |-> p, uri |-> uri])

DeclareNamespace(e, uri, p) ==
    /\ FindByPrefix(e, p) = 0 => RoomForOne
    /\ Uses(e)
    /\ spaces' = [spaces EXCEPT ![e] = Declared(@, uri, p)]
    /\ UNCHANGED <<prefix, attrs, stale>>

\* Mutation of Replaced: every element below.
ReplacedBelow(pfx, e, p) == [d \in Element |-> IF d \in Below[e] THEN p ELSE pfx[d]]

\* An element, its children that have its prefix, theirs that have it, and so on.
Followers(pfx, e) ==
    LET among[i \in 0..Cardinality(Element)] ==
            IF i = 0 THEN {e}
            ELSE LET above == among[i - 1]
                 IN  above \cup {c \in Element : Parent[c] \in above /\ pfx[c] = pfx[e]}
    IN  among[Cardinality(Element)]

\* replacePrefix, lines 988-1000.
Replaced(pfx, e, p) ==
    LET followers == Followers(pfx, e)
    IN  [d \in Element |-> IF d \in followers THEN p ELSE pfx[d]]

\* setNamespace, lines 776-788.
SetNamespace(e, uri, p, recursive) ==
    /\ FindByPrefix(e, p) = 0 => RoomForOne
    /\ Uses(e)
    /\ prefix' = IF recursive THEN Replaced(prefix, e, p) ELSE [prefix EXCEPT ![e] = p]
    /\ spaces' = [spaces EXCEPT ![e] = Declared(@, uri, p)]
    /\ UNCHANGED <<attrs, stale>>

\* Mutation of DeclarationByPrefix: the other three search the same element again.
DeclarationHere(e, p) == IF FindByPrefix(e, p) = 0 THEN NoNode ELSE e

\* The element with the declaration of a prefix:
\* findElementNamespaceDeclarationByPrefix, const, lines 891-908.
DeclarationByPrefix(e, p) ==
    LET i == SelectInSeq(Ancestry[e], LAMBDA d : FindByPrefix(d, p) # 0)
    IN  IF i = 0 THEN NoNode ELSE Ancestry[e][i]

\* The others, lines 852-888 and 910-927, go up, but search the element they
\* were called for each time.
DeclarationByUri(e, uri) == IF FindByUri(e, uri) = 0 THEN NoNode ELSE e

-----------------------------------------------------------------------------
(* Whole elements.                                                         *)

\* A bound of the model: one element has been cleared of something.
OneStale == Cardinality(stale') <= 1

\* clear, lines 266-288: the lists are freed, the pointers to them stay.
ClearLists(e) ==
    /\ Uses(e)
    /\ stale' = IF attrs[e] \o spaces[e] = <<>> THEN stale ELSE stale \cup {e}
    /\ OneStale
    /\ attrs' = [attrs EXCEPT ![e] = <<>>]
    /\ spaces' = [spaces EXCEPT ![e] = <<>>]
    /\ UNCHANGED prefix

\* operator= with cloneElement, lines 70-74 and 102-129: clear, and then only the
\* lists that the source has are set.
AssignLists(e, source) ==
    /\ e # source
    /\ broken' = (broken \/ {e, source} \cap stale # {})
    /\ prefix' = [prefix EXCEPT ![e] = prefix[source]]
    /\ attrs' = [attrs EXCEPT ![e] = attrs[source]]
    /\ spaces' = [spaces EXCEPT ![e] = spaces[source]]
    /\ stale' = IF \/ attrs[e] # <<>> /\ attrs[source] = <<>>
                   \/ spaces[e] # <<>> /\ spaces[source] = <<>>
                THEN stale \cup {e} ELSE stale
    /\ OneStale

\* What follows the use of freed or null memory is undefined.
NamesNext ==
    /\ ~broken
    /\ \E e \in Element :
        \/ ClearLists(e)
        \/ \E source \in Element : AssignLists(e, source)
        \/ \E i \in 1..MaxEntries : RemoveAttribute(e, i)
        \/ \E name \in Name : CreateAttribute(e, name) \/ RemoveAttributeByName(e, name)
        \/ \E p \in Prefix :
            \/ SetName(e, p)
            \/ \E uri \in Uri :
                \/ DeclareNamespace(e, uri, p)
                \/ \E recursive \in BOOLEAN : SetNamespace(e, uri, p, recursive)

NamesSpec == NamesInit /\ [][NamesNext]_namesVars

-----------------------------------------------------------------------------
\* Types, and an element declares a prefix once (lines 754-767); writing it twice
\* would not be well-formed.
NamesTypeOK ==
    /\ prefix \in [Element -> Prefix]
    /\ \A e \in Element :
        /\ ToSet(attrs[e]) \subseteq Name /\ ToSet(spaces[e]) \subseteq Space
        /\ \A i, j \in DOMAIN spaces[e] :
            spaces[e][i].prefix = spaces[e][j].prefix => i = j

\* What a declaration up the hierarchy says, the nearest first.
Resolved(e, p) ==
    LET on == {d \in ToSet(Ancestry[e]) : \E i \in DOMAIN spaces[d] : spaces[d][i].prefix = p}
    IN  IF on = {} THEN NoNode
        ELSE LET d == CHOOSE d \in on : on \subseteq ToSet(Ancestry[d])
             IN  spaces[d][SelectInSeq(spaces[d], LAMBDA ns : ns.prefix = p)].uri

\* findElementNamespaceDeclarationByPrefix finds the declaration that is nearest
\* up the hierarchy (Element.h lines 737-746).
FindsNearest ==
    \A e \in Element, p \in Prefix :
        LET d == DeclarationByPrefix(e, p) IN
        IF d = NoNode THEN Resolved(e, p) = NoNode
        ELSE Resolved(e, p) = spaces[d][FindByPrefix(d, p)].uri /\ e \in Below[d]

\* Prefixes are declared once, and found where they are declared.
NamesInv == NamesTypeOK /\ FindsNearest

\* setNamespace moves an element, and recursively those below that are connected
\* to it by the same prefix, to the namespace given, except where the new prefix
\* is declared again; the others keep their prefix (lines 776-788 and 988-1000).
NamespaceReaches ==
    [][<<prefix, spaces>>' # <<prefix, spaces>> => \A e \in Element, uri \in Uri, p \in Prefix :
          SetNamespace(e, uri, p, TRUE) =>
              LET connected == {d \in Below[e] : \A a \in Below[e] \cap ToSet(Ancestry[d]) :
                                                     prefix[a] = prefix[e]}
              IN  \A d \in Element :
                    IF d \in connected
                    THEN /\ prefix'[d] = p
                         /\ \/ \E a \in (Below[e] \cap ToSet(Ancestry[d])) \ {e} :
                                 \E i \in DOMAIN spaces[a] : spaces[a][i].prefix = p
                            \/ Resolved(d, p)' = uri
                    ELSE prefix'[d] = prefix[d]]_namesVars

\* "start to find from current element and go up the hierarchy", Element.h lines
\* 706-735.
FindsByUri ==
    \A e \in Element, uri \in Uri :
        (\E d \in ToSet(Ancestry[e]) : FindByUri(d, uri) # 0) => DeclarationByUri(e, uri) # NoNode

\* clear is to leave an element "for reuse", without attributes (Element.h lines
\* 171-175).
ReusableWhenCleared == \A e \in stale : ~broken

\* removeAttributeByName throws if there is no such attribute (line 723).
RemovesOrThrows == [][\A e \in Element, n \in Name :
                        RemoveAttributeByName(e, n) /\ e \notin stale => ~broken']_namesVars

\* The namespace of an element that setNamespace is not about stays.
OthersKeepNamespace ==
    [][\A e \in Element, uri \in Uri, p \in Prefix : SetNamespace(e, uri, p, FALSE) =>
          \A d \in Element \ {e} : Resolved(d, prefix[d])' = Resolved(d, prefix[d])]_namesVars
==============================================================================
