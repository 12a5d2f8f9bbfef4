----------------------------- MODULE IncludeProofs -----------------------------
(***************************************************************************)
(* HeaderIncludes: however the headers of a project include each other,    *)
(* each is parsed once, and a struct is known behind the include of what   *)
(* declares it.                                                            *)
(***************************************************************************)
EXTENDS HeaderIncludes, Integers, SequenceTheorems, TLAPS

-----------------------------------------------------------------------------
Declarations(c) == [k : {"include", "forward", "struct", "field"}, of : Mentioned(c)]
Structs(c) == Seq([name : Mentioned(c), extern : BOOLEAN, forward : BOOLEAN])
InterfaceTypes(c) == [file : DOMAIN c, structs : Structs(c), includes : Seq(DOMAIN c),
                  unknown : SUBSET Mentioned(c)]
ParserTypes(c) == [file : DOMAIN c, left : Seq(Declarations(c)), interface : InterfaceTypes(c)]

IncludeTypes ==
    /\ contents \in Projects
    /\ given \in Seq(DOMAIN contents)
    /\ interfaces \in Seq(InterfaceTypes(contents))
    /\ parsers \in Seq(ParserTypes(contents))
    /\ progress \in {"parsing", "parsed", "duplicate"}

\* How many declarations of its header a parser has read; what it has left is the rest.
Read(c, p) == Len(c[p.file]) - Len(p.left)
ReadInOrder(c, p) ==
    /\ p.interface.file = p.file
    /\ Read(c, p) \in Nat
    /\ \A j \in DOMAIN p.left : p.left[j] = c[p.file][Read(c, p) + j]

\* A header that is parsed is in the project, and read from its beginning.
InOrder == \A i \in DOMAIN parsers : Listed(parsers[i].file) /\ ReadInOrder(contents, parsers[i])

\* A header is parsed within the parsing of what includes it.
Nested ==
    \A i, j \in DOMAIN parsers : i < j => parsers[j].file \in Reached(contents, parsers[i].file)

\* The headers of the command line are parsed in their order.
GivenInOrder ==
    /\ Len(given) <= Len(Files)
    /\ \A i \in DOMAIN given : given[i] = Files[Len(Files) - Len(given) + i]
    /\ \A i \in 1 .. Len(Files) - Len(given) : Listed(Files[i])
    /\ progress = "parsed" => parsers = <<>> /\ given = <<>>

\* Behind the first n declarations of a header, the structs that it or what it includes
\* declares in full are in the list,
KnownBehind(c, f, n, structs) ==
    \A i \in 1 .. n :
        /\ c[f][i].k = "struct" => InList(structs, c[f][i].of)
        /\ c[f][i].k = "include" =>
            \A g \in Reached(c, c[f][i].of) \cup {c[f][i].of} :
                \A s \in Defined(c, g) : InList(structs, s)
\* and none of them has been taken for one that is not known.
NotUnknown(c, interface) ==
    \A g \in Reached(c, interface.file) : interface.unknown \cap Defined(c, g) = {}
KnowsSoFar(c, interface, n) ==
    ~Cyclic(c, interface.file) =>
        KnownBehind(c, interface.file, n, interface.structs) /\ NotUnknown(c, interface)

\* It is so for the parsers, and for the interfaces that no parser is at work on.
Knowing ==
    /\ \A i \in DOMAIN parsers :
        KnowsSoFar(contents, parsers[i].interface, Read(contents, parsers[i]))
    /\ \A i \in DOMAIN interfaces :
        \/ \E j \in DOMAIN parsers : parsers[j].file = interfaces[i].file
        \/ KnowsSoFar(contents, interfaces[i], Len(contents[interfaces[i].file]))

\* The inductive invariant.
IncludesIInv ==
    IncludeTypes /\ ParsedOnce /\ InOrder /\ Nested /\ GivenInOrder /\ Knowing

-----------------------------------------------------------------------------
(* What headers reach.                                                     *)

LEMMA Project ==
    ASSUME NEW c \in Projects, NEW f \in DOMAIN c
    PROVE  /\ c[f] \in Seq(Declarations(c))
           /\ IncludedIn(c, f) \subseteq DOMAIN c
           /\ Files \in Seq(DOMAIN c)
BY IncludesAssumption DEF Declarations, IncludedIn

LEMMA ReachesIncluded ==
    ASSUME NEW c \in Projects, NEW f \in DOMAIN c, NEW g \in IncludedIn(c, f)
    PROVE  g \in Reached(c, f)
BY Project DEF Reached

LEMMA ReachesFurther ==
    ASSUME NEW c \in Projects, NEW f \in DOMAIN c, NEW g \in Reached(c, f), NEW h \in IncludedIn(c, g)
    PROVE  h \in Reached(c, f)
<1>1. g \in DOMAIN c
  BY Zenon DEF Reached
<1>2. h \in DOMAIN c
  BY <1>1, Project
<1> QED
  BY <1>2, Zenon DEF Reached, ClosedUnderIncludes

LEMMA ReachesTransitively ==
    ASSUME NEW c \in Projects, NEW f \in DOMAIN c, NEW g \in Reached(c, f), NEW h \in Reached(c, g)
    PROVE  h \in Reached(c, f)
BY Zenon DEF Reached, ClosedUnderIncludes

\* What is reached is included, or reached from what is.
LEMMA ReachedFrom ==
    ASSUME NEW c \in Projects, NEW f \in DOMAIN c, NEW h \in Reached(c, f)
    PROVE  \E g \in IncludedIn(c, f) : h \in Reached(c, g) \cup {g}
<1> DEFINE from == {x \in DOMAIN c : \E g \in IncludedIn(c, f) : x \in Reached(c, g) \cup {g}}
<1>1. IncludedIn(c, f) \subseteq from
  BY Project
<1>2. ASSUME NEW x \in from, NEW y \in IncludedIn(c, x)
      PROVE  y \in from
  <2>1. PICK g \in IncludedIn(c, f) : x \in Reached(c, g) \cup {g}
    BY Zenon
  <2>2. g \in DOMAIN c /\ x \in DOMAIN c /\ y \in DOMAIN c
    BY Project
  <2>3. y \in Reached(c, g)
    <3>1. CASE x = g
      BY <3>1, <2>2, ReachesIncluded
    <3>2. CASE x \in Reached(c, g)
      BY <3>2, <2>2, ReachesFurther
    <3> QED
      BY <2>1, <3>1, <3>2
  <2> QED
    BY <2>2, <2>3
<1>3. from \in SUBSET DOMAIN c
  BY Zenon
<1> HIDE DEF from
<1>4. h \in from
  BY <1>1, <1>2, <1>3, Zenon DEF Reached, ClosedUnderIncludes
<1> QED
  BY <1>4, Zenon DEF from

LEMMA CyclicFurther ==
    ASSUME NEW c \in Projects, NEW f \in DOMAIN c, NEW g \in Reached(c, f), Cyclic(c, g)
    PROVE  Cyclic(c, f)
<1>1. PICK h \in Reached(c, g) \cup {g} : h \in Reached(c, h)
  BY Zenon DEF Cyclic
<1>2. h \in Reached(c, f)
  BY <1>1, ReachesTransitively
<1> QED
  BY <1>1, <1>2, Zenon DEF Cyclic

-----------------------------------------------------------------------------
(* Stacks of parsers.                                                      *)

LEMMA FrontIs ==
    ASSUME NEW S, NEW s \in Seq(S), s # <<>>
    PROVE  /\ Len(s) \in Nat \ {0} /\ Last(s) \in S
           /\ Front(s) \in Seq(S) /\ Len(Front(s)) = Len(s) - 1
           /\ \A i \in 1 .. Len(s) - 1 : Front(s)[i] = s[i]
<1>1. Len(s) \in Nat \ {0}
  BY EmptySeq
<1>2. Last(s) \in S
  BY <1>1, ElementOfSeq DEF Last
<1>3. Front(s) = SubSeq(s, 1, Len(s) - 1)
  BY DEF Front
<1> DEFINE n == Len(s) - 1
<1>4. n \in Nat /\ 1 \in 1 .. Len(s) + 1 /\ n \in 0 .. Len(s)
  BY <1>1
<1>5. /\ SubSeq(s, 1, n) \in Seq(S) /\ Len(SubSeq(s, 1, n)) = IF 1 <= n THEN n - 1 + 1 ELSE 0
      /\ \A i \in 1 .. n - 1 + 1 : SubSeq(s, 1, n)[i] = s[1 + i - 1]
  BY <1>4, SubSeqProperties
<1>6. \A i \in 1 .. n : Front(s)[i] = s[i]
  <2> HIDE DEF n
  <2> SUFFICES ASSUME NEW i \in 1 .. n PROVE SubSeq(s, 1, n)[i] = s[i]
    BY <1>3 DEF n
  <2>1. i \in 1 .. n - 1 + 1 /\ 1 + i - 1 = i
    BY <1>4
  <2> QED
    BY <1>5, <2>1, Zenon
<1>7. (IF 1 <= n THEN n - 1 + 1 ELSE 0) = n
  <2> HIDE DEF n
  <2> QED
    BY <1>4
<1> QED
  BY <1>1, <1>2, <1>3, <1>5, <1>6, <1>7

\* A stack whose top has been replaced.
TopIs(S, s, t, x) ==
    /\ t \in Seq(S) /\ Len(t) = Len(s)
    /\ t[Len(s)] = x
    /\ \A i \in 1 .. Len(s) - 1 : t[i] = s[i]

LEMMA TopReplaced ==
    ASSUME NEW S, NEW s \in Seq(S), s # <<>>, NEW x \in S
    PROVE  TopIs(S, s, Append(Front(s), x), x)
<1>1. /\ Len(s) \in Nat \ {0}
      /\ Front(s) \in Seq(S) /\ Len(Front(s)) = Len(s) - 1
      /\ \A i \in 1 .. Len(s) - 1 : Front(s)[i] = s[i]
  BY FrontIs
<1> QED
  BY <1>1 DEF TopIs

LEMMA Top ==
    ASSUME IncludeTypes, parsers # <<>>
    PROVE  /\ Len(parsers) \in Nat \ {0} /\ Len(parsers) \in DOMAIN parsers
           /\ Parser = parsers[Len(parsers)] /\ Parser \in ParserTypes(contents)
<1>1. parsers \in Seq(ParserTypes(contents))
  BY DEF IncludeTypes
<1>2. Len(parsers) \in Nat \ {0} /\ Last(parsers) \in ParserTypes(contents)
  BY <1>1, FrontIs
<1>3. DOMAIN parsers = 1 .. Len(parsers)
  BY <1>1
<1> QED
  BY <1>2, <1>3 DEF Parser, Last

LEMMA ToRead ==
    ASSUME IncludesIInv, parsers # <<>>, Parser.left # <<>>
    PROVE  LET n == Read(contents, Parser) + 1
           IN  /\ n \in DOMAIN contents[Parser.file]
               /\ Decl = contents[Parser.file][n]
               /\ Decl \in Declarations(contents)
<1>1. /\ Parser \in ParserTypes(contents) /\ ReadInOrder(contents, Parser)
      /\ contents \in Projects
  BY Top DEF IncludesIInv, InOrder, IncludeTypes
<1> DEFINE left == Parser.left
           f == Parser.file
<1>2. left \in Seq(Declarations(contents)) /\ f \in DOMAIN contents
  BY <1>1 DEF ParserTypes
<1>3. Len(left) \in Nat \ {0} /\ 1 \in DOMAIN left /\ Head(left) = left[1] /\ left[1] \in Declarations(contents)
  BY <1>2, EmptySeq, ElementOfSeq
<1>4. contents[f] \in Seq(Declarations(contents))
  BY <1>1, <1>2, Project
<1> DEFINE m == Len(contents[f])
<1>5. m \in Nat /\ DOMAIN contents[f] = 1 .. m
  BY <1>4
<1>6. Read(contents, Parser) = m - Len(left) /\ Read(contents, Parser) \in Nat
  BY <1>1 DEF Read, ReadInOrder
<1>7. left[1] = contents[f][Read(contents, Parser) + 1]
  BY <1>1, <1>3 DEF ReadInOrder
<1> HIDE DEF m
<1>8. Read(contents, Parser) + 1 \in 1 .. m
  BY <1>3, <1>5, <1>6
<1> QED
  BY <1>3, <1>5, <1>7, <1>8 DEF Decl

-----------------------------------------------------------------------------
(* What is known behind a declaration.                                     *)

LEMMA KnownMore ==
    ASSUME NEW c, NEW f, NEW n \in Nat, NEW structs, NEW more, KnownBehind(c, f, n, structs),
           \A s : InList(structs, s) => InList(more, s),
           c[f][n + 1].k = "struct" => InList(more, c[f][n + 1].of),
           c[f][n + 1].k = "include" =>
               \A g \in Reached(c, c[f][n + 1].of) \cup {c[f][n + 1].of} :
                   \A s \in Defined(c, g) : InList(more, s)
    PROVE  KnownBehind(c, f, n + 1, more)
<1> SUFFICES ASSUME NEW i \in 1 .. n + 1
             PROVE  /\ c[f][i].k = "struct" => InList(more, c[f][i].of)
                    /\ c[f][i].k = "include" =>
                        \A g \in Reached(c, c[f][i].of) \cup {c[f][i].of} :
                            \A s \in Defined(c, g) : InList(more, s)
  BY Zenon DEF KnownBehind
<1>1. CASE i = n + 1
  BY <1>1, Zenon
<1>2. CASE i # n + 1
  <2>1. i \in 1 .. n
    BY <1>2
  <2> QED
    BY <2>1, Zenon DEF KnownBehind
<1> QED
  BY <1>1, <1>2

\* Behind its last declaration, all that a header reaches is known.
LEMMA KnownAtTheEnd ==
    ASSUME NEW c \in Projects, NEW f \in DOMAIN c, NEW structs, KnownBehind(c, f, Len(c[f]), structs),
           NEW g \in Reached(c, f) \cup {f}, NEW s \in Defined(c, g)
    PROVE  InList(structs, s)
<1>1. DOMAIN c[f] = 1 .. Len(c[f])
  BY Project
<1>2. CASE g = f
  <2>1. PICK i \in DOMAIN c[f] : c[f][i].k = "struct" /\ s = c[f][i].of
    BY <1>2, Zenon DEF Defined
  <2> QED
    BY <1>1, <2>1, Zenon DEF KnownBehind
<1>3. CASE g \in Reached(c, f)
  <2>1. PICK h \in IncludedIn(c, f) : g \in Reached(c, h) \cup {h}
    BY <1>3, ReachedFrom, Zenon
  <2>2. PICK i \in DOMAIN c[f] : c[f][i].k = "include" /\ h = c[f][i].of
    BY <2>1, Zenon DEF IncludedIn
  <2> QED
    BY <1>1, <2>1, <2>2, Zenon DEF KnownBehind
<1> QED
  BY <1>2, <1>3

-----------------------------------------------------------------------------
(* What the steps keep.                                                    *)

\* A declaration has been read.
LEMMA ReadKeeps ==
    ASSUME IncludesIInv, parsers # <<>>, Parser.left # <<>>,
           NEW interface \in InterfaceTypes(contents), interface.file = Parser.file,
           KnowsSoFar(contents, interface, Read(contents, Parser) + 1),
           parsers' = WithInterface(interface),
           progress = "parsing", UNCHANGED <<contents, given, interfaces, progress>>
    PROVE  IncludesIInv'
<1>0. /\ IncludeTypes /\ ParsedOnce /\ InOrder /\ Nested /\ GivenInOrder /\ Knowing
      /\ contents' = contents /\ given' = given /\ interfaces' = interfaces /\ progress' = progress
  BY Zenon DEF IncludesIInv
<1> DEFINE n == Len(parsers)
           p == [Parser EXCEPT !.left = Tail(@), !.interface = interface]
<1>1. /\ n \in Nat \ {0} /\ n \in DOMAIN parsers
      /\ Parser = parsers[n] /\ Parser \in ParserTypes(contents)
  BY <1>0, Top, Zenon
<1>2. /\ p \in ParserTypes(contents)
      /\ p.file = Parser.file /\ p.left = Tail(Parser.left) /\ p.interface = interface
  <2>1. PICK q : q = Parser
    BY Zenon
  <2>2. q \in [file : DOMAIN contents, left : Seq(Declarations(contents)), interface : InterfaceTypes(contents)]
    BY <1>1, <2>1, Zenon DEF ParserTypes
  <2>3. Tail(q.left) \in Seq(Declarations(contents))
    BY <2>1, <2>2
  <2>4. p = [q EXCEPT !.left = Tail(@), !.interface = interface]
    BY <2>1, Zenon
  <2> HIDE DEF p
  <2> QED
    BY <2>1, <2>2, <2>3, <2>4 DEF ParserTypes
<1>3. /\ parsers \in Seq(ParserTypes(contents)) /\ DOMAIN parsers = 1 .. n
      /\ parsers' = Append(Front(parsers), p)
  BY <1>0 DEF IncludeTypes, WithInterface
<1> HIDE DEF p
<1>4. /\ parsers' \in Seq(ParserTypes(contents)) /\ Len(parsers') = n
      /\ parsers'[n] = p
      /\ \A i \in 1 .. n - 1 : parsers'[i] = parsers[i]
  <2>1. TopIs(ParserTypes(contents), parsers, Append(Front(parsers), p), p)
    BY <1>3, <1>2, TopReplaced, Zenon
  <2>2. TopIs(ParserTypes(contents), parsers, parsers', p)
    BY <2>1, <1>3, Zenon
  <2> QED
    BY <2>2, Zenon DEF TopIs
<1>5. DOMAIN parsers' = 1 .. n
  BY <1>4
<1> HIDE DEF n
<1>6. \A i \in 1 .. n : i = n \/ i \in 1 .. n - 1
  BY <1>1
<1>7. \A i \in 1 .. n : parsers'[i].file = parsers[i].file
  BY <1>1, <1>2, <1>4, <1>6, Zenon
<1>8. ReadInOrder(contents, p) /\ Read(contents, p) = Read(contents, Parser) + 1
  <2> DEFINE left == Parser.left
             m == Len(contents[Parser.file])
  <2>1. /\ left \in Seq(Declarations(contents)) /\ Parser.file \in DOMAIN contents
        /\ contents \in Projects
    BY <1>0, <1>1 DEF ParserTypes, IncludeTypes
  <2>2. m \in Nat
    BY <2>1, Project
  <2>3. /\ Len(left) \in Nat \ {0} /\ DOMAIN left = 1 .. Len(left)
        /\ Tail(left) \in Seq(Declarations(contents)) /\ Len(Tail(left)) = Len(left) - 1
        /\ DOMAIN Tail(left) = 1 .. Len(left) - 1
        /\ \A j \in 1 .. Len(left) - 1 : Tail(left)[j] = left[j + 1]
    BY <2>1, EmptySeq
  <2>4. ReadInOrder(contents, Parser)
    BY <1>0, <1>1, Zenon DEF InOrder
  <2> HIDE DEF m, left
  <2>5. Read(contents, p) = m - (Len(left) - 1) /\ Read(contents, Parser) = m - Len(left)
    BY <1>2, <2>3, Zenon DEF Read, m, left
  <2>6. Read(contents, Parser) \in Nat
    BY <2>4, Zenon DEF ReadInOrder
  <2>7. Read(contents, p) = Read(contents, Parser) + 1 /\ Read(contents, p) \in Nat
    BY <2>2, <2>3, <2>5, <2>6
  <2>8. ASSUME NEW j \in DOMAIN p.left
        PROVE  p.left[j] = contents[p.file][Read(contents, p) + j]
    <3>1. j \in 1 .. Len(left) - 1 /\ p.left[j] = left[j + 1]
      BY <1>2, <2>3, <2>8, Zenon DEF left
    <3>2. j + 1 \in DOMAIN left /\ Read(contents, Parser) + (j + 1) = Read(contents, p) + j
      BY <3>1, <2>3, <2>6, <2>7
    <3>3. left[j + 1] = contents[Parser.file][Read(contents, Parser) + (j + 1)]
      BY <3>2, <2>4, Zenon DEF ReadInOrder, left
    <3> QED
      BY <3>1, <3>2, <3>3, <1>2, Zenon
  <2> QED
    BY <1>2, <2>7, <2>8, Zenon DEF ReadInOrder
<1>9. \A file : Listed(file) => Listed(file)'
  BY <1>0, Zenon DEF Listed
<1>10. IncludeTypes'
  BY <1>0, <1>4, Zenon DEF IncludeTypes
<1>11. ParsedOnce'
  BY <1>0, <1>3, <1>5, <1>7, Zenon DEF ParsedOnce
<1>12. InOrder'
  <2> SUFFICES ASSUME NEW i \in 1 .. n
               PROVE  Listed(parsers[i].file)' /\ ReadInOrder(contents, parsers'[i])
    BY <1>0, <1>5, Zenon DEF InOrder
  <2>1. Listed(parsers[i].file) /\ ReadInOrder(contents, parsers[i])
    BY <1>0, <1>3, Zenon DEF InOrder
  <2> QED
    BY <2>1, <1>4, <1>6, <1>7, <1>8, <1>9, Zenon
<1>13. Nested'
  BY <1>0, <1>3, <1>5, <1>7, Zenon DEF Nested
<1>14. GivenInOrder'
  BY <1>0, <1>9, Zenon DEF GivenInOrder
<1>15. Knowing'
  <2>1. ASSUME NEW i \in 1 .. n
        PROVE  KnowsSoFar(contents, parsers'[i].interface, Read(contents, parsers'[i]))
    <3>1. KnowsSoFar(contents, parsers[i].interface, Read(contents, parsers[i]))
      BY <1>0, <1>3, Zenon DEF Knowing
    <3>2. KnowsSoFar(contents, p.interface, Read(contents, p))
      BY <1>2, <1>8, Zenon
    <3> QED
      BY <3>1, <3>2, <1>4, <1>6, Zenon
  <2>2. \A i \in DOMAIN interfaces :
          \/ \E j \in 1 .. n : parsers'[j].file = interfaces[i].file
          \/ KnowsSoFar(contents, interfaces[i], Len(contents[interfaces[i].file]))
    BY <1>0, <1>3, <1>7, Zenon DEF Knowing
  <2> QED
    BY <1>0, <1>5, <2>1, <2>2, Zenon DEF Knowing
<1> QED
  BY <1>10, <1>11, <1>12, <1>13, <1>14, <1>15, Zenon DEF IncludesIInv

\* Lists of structs.
LEMMA ImportedStructs ==
    ASSUME NEW c, NEW structs \in Structs(c), NEW others \in Structs(c)
    PROVE  /\ structs \o Imported(others) \in Structs(c)
           /\ \A s : InList(structs, s) \/ InList(others, s) => InList(structs \o Imported(others), s)
<1> DEFINE Struct == [name : Mentioned(c), extern : BOOLEAN, forward : BOOLEAN]
           imported == Imported(others)
           all == structs \o imported
<1>1. structs \in Seq(Struct) /\ others \in Seq(Struct)
  BY DEF Structs
<1>2. /\ imported \in Seq(Struct) /\ Len(imported) = Len(others)
      /\ \A i \in DOMAIN others : imported[i].name = others[i].name
  <2> DEFINE New(i) == [name |-> others[i].name, extern |-> TRUE, forward |-> TRUE]
  <2>1. DOMAIN others = 1 .. Len(others) /\ Len(others) \in Nat
    BY <1>1
  <2>2. ASSUME NEW i \in DOMAIN others
        PROVE  New(i) \in Struct /\ New(i).name = others[i].name
    <3>1. others[i] \in Struct
      <4> HIDE DEF Struct
      <4> QED
        BY <1>1, <2>1, ElementOfSeq, Zenon
    <3> QED
      BY <3>1
  <2> HIDE DEF Struct, New
  <2>3. imported = [i \in 1 .. Len(others) |-> New(i)]
    BY <2>1 DEF Imported, New
  <2> HIDE DEF imported
  <2>4. imported \in [1 .. Len(others) -> Struct]
    BY <2>1, <2>2, <2>3, Zenon
  <2>5. imported \in Seq(Struct) /\ Len(imported) = Len(others)
    BY <2>1, <2>4, SeqDef
  <2> QED
    BY <2>1, <2>2, <2>3, <2>5, Zenon
<1> HIDE DEF imported, Struct
<1>3. /\ all \in Seq(Struct) /\ Len(all) = Len(structs) + Len(others)
      /\ Len(structs) \in Nat /\ Len(others) \in Nat
      /\ DOMAIN structs = 1 .. Len(structs) /\ DOMAIN others = 1 .. Len(others)
      /\ DOMAIN all = 1 .. Len(structs) + Len(others)
      /\ \A i \in 1 .. Len(structs) : all[i] = structs[i]
      /\ \A i \in 1 .. Len(others) : all[Len(structs) + i] = imported[i]
  <2>1. /\ Len(structs) \in Nat /\ Len(others) \in Nat
        /\ DOMAIN structs = 1 .. Len(structs) /\ DOMAIN others = 1 .. Len(others)
    BY <1>1
  <2>2. /\ all \in Seq(Struct) /\ Len(all) = Len(structs) + Len(others)
        /\ \A i \in 1 .. Len(structs) + Len(others) :
            all[i] = IF i <= Len(structs) THEN structs[i] ELSE imported[i - Len(structs)]
    BY <1>1, <1>2
  <2>3. DOMAIN all = 1 .. Len(structs) + Len(others)
    BY <2>2
  <2> HIDE DEF all
  <2> DEFINE m == Len(structs)
             l == Len(others)
  <2>4. m \in Nat /\ l \in Nat /\ \A i \in 1 .. m + l : all[i] = IF i <= m THEN structs[i] ELSE imported[i - m]
    BY <2>1, <2>2
  <2> HIDE DEF m, l
  <2>5. \A i \in 1 .. m : all[i] = structs[i]
    BY <2>4
  <2>6. \A i \in 1 .. l : all[m + i] = imported[i]
    <3> SUFFICES ASSUME NEW i \in 1 .. l PROVE all[m + i] = imported[i]
      BY Zenon
    <3>1. m + i \in 1 .. m + l /\ ~(m + i <= m) /\ m + i - m = i
      BY <2>4
    <3>2. all[m + i] = IF m + i <= m THEN structs[m + i] ELSE imported[m + i - m]
      BY <2>4, <3>1
    <3> QED
      BY <3>1, <3>2
  <2> QED
    BY <2>1, <2>2, <2>3, <2>5, <2>6, Zenon DEF m, l
<1> HIDE DEF all
<1>4. ASSUME NEW s, InList(structs, s) PROVE InList(all, s)
  <2>1. PICK i \in DOMAIN structs : structs[i].name = s
    BY <1>4, Zenon DEF InList
  <2>2. i \in DOMAIN all
    BY <1>3
  <2> QED
    BY <1>3, <2>1, <2>2, Zenon DEF InList
<1>5. ASSUME NEW s, InList(others, s) PROVE InList(all, s)
  <2>1. PICK i \in DOMAIN others : others[i].name = s
    BY <1>5, Zenon DEF InList
  <2>2. Len(structs) + i \in DOMAIN all
    BY <1>3
  <2>3. all[Len(structs) + i].name = s
    BY <1>2, <1>3, <2>1, Zenon
  <2> QED
    BY <2>2, <2>3, Zenon DEF InList
<1> QED
  BY <1>3, <1>4, <1>5, Zenon DEF all, imported, Structs, Struct

LEMMA NamedStructs ==
    ASSUME NEW c, NEW structs \in Structs(c), NEW name \in Mentioned(c)
    PROVE  /\ NamedTypes(structs, name) \in Structs(c)
           /\ \A s : InList(structs, s) \/ s = name => InList(NamedTypes(structs, name), s)
<1>1. CASE InList(structs, name)
  BY <1>1, Zenon DEF NamedTypes
<1>2. CASE ~InList(structs, name)
  <2> DEFINE new == [name |-> name, extern |-> FALSE, forward |-> TRUE]
             all == Append(structs, new)
             Struct == [name : Mentioned(c), extern : BOOLEAN, forward : BOOLEAN]
  <2>1. NamedTypes(structs, name) = all
    BY <1>2, Zenon DEF NamedTypes
  <2>2. structs \in Seq(Struct) /\ new \in Struct /\ new.name = name
    BY DEF Structs
  <2> HIDE DEF new, Struct
  <2>3. /\ all \in Seq(Struct)
        /\ DOMAIN all = 1 .. Len(structs) + 1 /\ DOMAIN structs = 1 .. Len(structs)
        /\ Len(structs) \in Nat
        /\ \A i \in 1 .. Len(structs) : all[i] = structs[i]
        /\ all[Len(structs) + 1] = new
    BY <2>2
  <2> HIDE DEF all
  <2>4. InList(all, name)
    <3>1. Len(structs) + 1 \in DOMAIN all
      BY <2>3
    <3> QED
      BY <3>1, <2>2, <2>3, Zenon DEF InList
  <2>5. ASSUME NEW s, InList(structs, s) PROVE InList(all, s)
    <3>1. PICK i \in DOMAIN structs : structs[i].name = s
      BY <2>5, Zenon DEF InList
    <3>2. i \in DOMAIN all
      BY <2>3
    <3> QED
      BY <2>3, <3>1, <3>2, Zenon DEF InList
  <2> QED
    BY <2>1, <2>3, <2>4, <2>5, Zenon DEF Structs, Struct
<1> QED
  BY <1>1, <1>2

LEMMA DefinedStructs ==
    ASSUME NEW c, NEW structs \in Structs(c), NEW at
    PROVE  /\ [structs EXCEPT ![at].forward = FALSE] \in Structs(c)
           /\ \A s : InList(structs, s) => InList([structs EXCEPT ![at].forward = FALSE], s)
<1> DEFINE new == [structs EXCEPT ![at].forward = FALSE]
           Struct == [name : Mentioned(c), extern : BOOLEAN, forward : BOOLEAN]
<1>1. structs \in Seq(Struct)
  BY DEF Structs
<1>2. DOMAIN new = DOMAIN structs
  OBVIOUS
<1>3. ASSUME NEW i \in DOMAIN structs
      PROVE  new[i] \in Struct /\ new[i].name = structs[i].name
  <2>1. structs[i] \in Struct
    <3> HIDE DEF Struct
    <3>1. i \in 1 .. Len(structs)
      BY <1>1
    <3> QED
      BY <1>1, <3>1, ElementOfSeq, Zenon
  <2>2. [structs[i] EXCEPT !.forward = FALSE] \in Struct
        /\ [structs[i] EXCEPT !.forward = FALSE].name = structs[i].name
    BY <2>1
  <2>3. new[i] = IF i = at THEN [structs[i] EXCEPT !.forward = FALSE] ELSE structs[i]
    OBVIOUS
  <2> QED
    BY <2>1, <2>2, <2>3, Zenon
<1> HIDE DEF Struct
<1>4. new \in Seq(Struct)
  <2>1. DOMAIN structs = 1 .. Len(structs) /\ Len(structs) \in Nat
    BY <1>1
  <2>2. new = [i \in 1 .. Len(structs) |-> new[i]]
    BY <1>2, <2>1
  <2> HIDE DEF new
  <2>3. new \in [1 .. Len(structs) -> Struct]
    BY <1>3, <2>1, <2>2
  <2> QED
    BY <2>1, <2>3, SeqDef
<1> HIDE DEF new
<1>5. ASSUME NEW s, InList(structs, s) PROVE InList(new, s)
  BY <1>2, <1>3, <1>5, Zenon DEF InList
<1> QED
  BY <1>4, <1>5 DEF new, Structs, Struct

LEMMA AtWork ==
    ASSUME IncludesIInv, parsers # <<>>
    PROVE  /\ contents \in Projects /\ Parser.file \in DOMAIN contents
           /\ Parser.interface \in InterfaceTypes(contents)
           /\ Parser.interface.file = Parser.file
           /\ Read(contents, Parser) \in Nat
           /\ KnowsSoFar(contents, Parser.interface, Read(contents, Parser))
<1>1. /\ Len(parsers) \in DOMAIN parsers
      /\ Parser = parsers[Len(parsers)] /\ Parser \in ParserTypes(contents)
  BY Top DEF IncludesIInv
<1>2. Parser.file \in DOMAIN contents /\ Parser.interface \in InterfaceTypes(contents)
  BY <1>1 DEF ParserTypes
<1>3. ReadInOrder(contents, Parser) /\ KnowsSoFar(contents, Parser.interface, Read(contents, Parser))
  BY <1>1, Zenon DEF IncludesIInv, InOrder, Knowing
<1> QED
  BY <1>2, <1>3, Zenon DEF ReadInOrder, IncludesIInv, IncludeTypes

LEMMA KnowsMore ==
    ASSUME NEW c, NEW n \in Nat, NEW old, NEW new, new.file = old.file, KnowsSoFar(c, old, n),
           ~Cyclic(c, old.file) =>
               /\ \A s : InList(old.structs, s) => InList(new.structs, s)
               /\ c[old.file][n + 1].k = "struct" => InList(new.structs, c[old.file][n + 1].of)
               /\ c[old.file][n + 1].k = "include" =>
                    \A g \in Reached(c, c[old.file][n + 1].of) \cup {c[old.file][n + 1].of} :
                        \A s \in Defined(c, g) : InList(new.structs, s)
               /\ NotUnknown(c, new)
    PROVE  KnowsSoFar(c, new, n + 1)
<1> SUFFICES ASSUME ~Cyclic(c, old.file)
             PROVE  KnownBehind(c, old.file, n + 1, new.structs) /\ NotUnknown(c, new)
  BY Zenon DEF KnowsSoFar
<1>1. KnownBehind(c, old.file, n, old.structs)
  BY Zenon DEF KnowsSoFar
<1>2. KnownBehind(c, old.file, n + 1, new.structs)
  BY <1>1, KnownMore
<1> QED
  BY <1>2, Zenon

\* An interface gets other structs, and no more that are not known.
WithStructs(interface, structs) == [interface EXCEPT !.structs = structs]

LEMMA StructsReplaced ==
    ASSUME NEW c, NEW interface \in InterfaceTypes(c), NEW structs \in Structs(c)
    PROVE  /\ WithStructs(interface, structs) \in InterfaceTypes(c)
           /\ WithStructs(interface, structs).file = interface.file
           /\ WithStructs(interface, structs).structs = structs
           /\ NotUnknown(c, interface) => NotUnknown(c, WithStructs(interface, structs))
<1>1. interface \in [file : DOMAIN c, structs : Structs(c), includes : Seq(DOMAIN c),
                     unknown : SUBSET Mentioned(c)]
  BY Zenon DEF InterfaceTypes
<1>2. /\ WithStructs(interface, structs) \in InterfaceTypes(c)
      /\ WithStructs(interface, structs).file = interface.file
      /\ WithStructs(interface, structs).structs = structs
      /\ WithStructs(interface, structs).unknown = interface.unknown
  BY <1>1 DEF WithStructs, InterfaceTypes
<1> QED
  BY <1>2, Zenon DEF NotUnknown

LEMMA DeclareForwardKeeps ==
    ASSUME IncludesIInv, DeclareForward
    PROVE  IncludesIInv'
<1> DEFINE old == Parser.interface
           structs == NamedTypes(old.structs, Decl.of)
           new == WithStructs(old, structs)
           n == Read(contents, Parser)
<1>1. /\ parsers # <<>> /\ Parser.left # <<>> /\ Decl.k = "forward"
      /\ parsers' = WithInterface(new)
      /\ progress = "parsing" /\ UNCHANGED <<contents, given, interfaces, progress>>
  BY Zenon DEF DeclareForward, WithStructs
<1>2. /\ old \in InterfaceTypes(contents) /\ old.file = Parser.file
      /\ n \in Nat /\ KnowsSoFar(contents, old, n)
  BY <1>1, AtWork, Zenon
<1>3. Decl = contents[Parser.file][n + 1] /\ Decl \in Declarations(contents)
  BY <1>1, ToRead
<1>4. old.structs \in Structs(contents) /\ Decl.of \in Mentioned(contents)
  BY <1>2, <1>3 DEF InterfaceTypes, Declarations
<1>5. /\ structs \in Structs(contents)
      /\ \A s : InList(old.structs, s) => InList(structs, s)
  BY <1>4, NamedStructs, Zenon
<1> HIDE DEF old, structs, n
<1>6. /\ new \in InterfaceTypes(contents) /\ new.file = old.file /\ new.structs = structs
      /\ NotUnknown(contents, old) => NotUnknown(contents, new)
  BY <1>2, <1>5, StructsReplaced, Zenon
<1> HIDE DEF new
<1>7. KnowsSoFar(contents, new, n + 1)
  <2>1. ~Cyclic(contents, old.file) => NotUnknown(contents, new)
    BY <1>2, <1>6, Zenon DEF KnowsSoFar
  <2>2. contents[old.file][n + 1].k = "forward"
    BY <1>1, <1>2, <1>3, Zenon
  <2>3. contents[old.file][n + 1].k # "struct" /\ contents[old.file][n + 1].k # "include"
    BY <2>2
  <2> QED
    BY <1>2, <1>5, <1>6, <2>1, <2>3, KnowsMore, Zenon
<1> QED
  BY <1>1, <1>2, <1>6, <1>7, ReadKeeps, Zenon DEF n

LEMMA DefineStructKeeps ==
    ASSUME IncludesIInv, DefineStruct, progress' = progress
    PROVE  IncludesIInv'
<1> DEFINE old == Parser.interface
           named == NamedTypes(old.structs, Decl.of)
           at == FirstOf(named, Decl.of)
           structs == [named EXCEPT ![at].forward = FALSE]
           new == WithStructs(old, structs)
           n == Read(contents, Parser)
<1>1. /\ parsers # <<>> /\ Parser.left # <<>> /\ Decl.k = "struct"
      /\ progress = "parsing" /\ UNCHANGED <<contents, given, interfaces>>
  BY Zenon DEF DefineStruct
<1>2. parsers' = WithInterface(new)
  <2>1. progress' # "duplicate"
    BY <1>1
  <2> QED
    BY <2>1, Zenon DEF DefineStruct, WithStructs
<1>3. /\ old \in InterfaceTypes(contents) /\ old.file = Parser.file
      /\ n \in Nat /\ KnowsSoFar(contents, old, n)
  BY <1>1, AtWork, Zenon
<1>4. Decl = contents[Parser.file][n + 1] /\ Decl \in Declarations(contents)
  BY <1>1, ToRead
<1>5. old.structs \in Structs(contents) /\ Decl.of \in Mentioned(contents)
  BY <1>3, <1>4 DEF InterfaceTypes, Declarations
<1>6. /\ named \in Structs(contents)
      /\ \A s : InList(old.structs, s) \/ s = Decl.of => InList(named, s)
  BY <1>5, NamedStructs, Zenon
<1> HIDE DEF old, named, at, n
<1>7. structs \in Structs(contents) /\ \A s : InList(named, s) => InList(structs, s)
  BY <1>6, DefinedStructs, Zenon
<1> HIDE DEF structs
<1>8. /\ new \in InterfaceTypes(contents) /\ new.file = old.file /\ new.structs = structs
      /\ NotUnknown(contents, old) => NotUnknown(contents, new)
  BY <1>3, <1>7, StructsReplaced, Zenon
<1> HIDE DEF new
<1>9. KnowsSoFar(contents, new, n + 1)
  <2>1. ~Cyclic(contents, old.file) => NotUnknown(contents, new)
    BY <1>3, <1>8, Zenon DEF KnowsSoFar
  <2>2. contents[old.file][n + 1] = Decl /\ Decl.k # "include"
    <3>1. Decl.k # "include"
      BY <1>1
    <3> QED
      BY <1>3, <1>4, <3>1, Zenon
  <2>3. InList(structs, Decl.of)
    BY <1>6, <1>7, Zenon
  <2> QED
    BY <1>3, <1>6, <1>7, <1>8, <2>1, <2>2, <2>3, KnowsMore, Zenon
<1> QED
  BY <1>1, <1>2, <1>3, <1>8, <1>9, ReadKeeps, Zenon DEF n

LEMMA UseTypeKeeps ==
    ASSUME IncludesIInv, DeclaredBeforeUse(contents), UseType
    PROVE  IncludesIInv'
<1> DEFINE old == Parser.interface
           unknown == IF InList(old.structs, Decl.of) THEN old.unknown ELSE old.unknown \cup {Decl.of}
           new == [old EXCEPT !.unknown = unknown]
           n == Read(contents, Parser)
<1>1. /\ parsers # <<>> /\ Parser.left # <<>> /\ Decl.k = "field"
      /\ parsers' = WithInterface(new)
      /\ progress = "parsing" /\ UNCHANGED <<contents, given, interfaces, progress>>
  BY Zenon DEF UseType
<1>2. /\ old \in InterfaceTypes(contents) /\ old.file = Parser.file
      /\ n \in Nat /\ KnowsSoFar(contents, old, n)
      /\ contents \in Projects /\ Parser.file \in DOMAIN contents
  BY <1>1, AtWork, Zenon
<1>3. /\ Decl = contents[Parser.file][n + 1] /\ Decl \in Declarations(contents)
      /\ n + 1 \in DOMAIN contents[Parser.file]
  BY <1>1, ToRead
<1>4. unknown \in SUBSET Mentioned(contents)
  BY <1>2, <1>3 DEF InterfaceTypes, Declarations
<1> HIDE DEF old, n
<1>5. /\ new \in InterfaceTypes(contents) /\ new.file = old.file /\ new.structs = old.structs
      /\ new.unknown = unknown
  <2>1. old \in [file : DOMAIN contents, structs : Structs(contents), includes : Seq(DOMAIN contents),
                 unknown : SUBSET Mentioned(contents)]
    BY <1>2, Zenon DEF InterfaceTypes
  <2> HIDE DEF unknown
  <2> QED
    BY <1>4, <2>1 DEF InterfaceTypes
<1> HIDE DEF new
<1>6. ASSUME ~Cyclic(contents, old.file)
      PROVE  NotUnknown(contents, new)
  <2> SUFFICES ASSUME NEW g \in Reached(contents, old.file), NEW s \in new.unknown, s \in Defined(contents, g)
               PROVE  FALSE
    BY <1>5, Zenon DEF NotUnknown
  <2>1. KnownBehind(contents, old.file, n, old.structs) /\ NotUnknown(contents, old)
    BY <1>2, <1>6, Zenon DEF KnowsSoFar
  <2>2. s \notin old.unknown
    BY <2>1, Zenon DEF NotUnknown
  <2>3. s = Decl.of /\ ~InList(old.structs, s)
    BY <2>2, <1>5
  <2>4. PICK i \in 1 .. (n + 1) - 1 : /\ contents[old.file][i].k = "include"
                                      /\ g \in Reached(contents, contents[old.file][i].of) \cup {contents[old.file][i].of}
    BY <1>1, <1>2, <1>3, <2>3, Zenon DEF DeclaredBeforeUse
  <2>5. i \in 1 .. n
    BY <1>2
  <2> QED
    BY <2>1, <2>3, <2>4, <2>5, Zenon DEF KnownBehind
<1>7. KnowsSoFar(contents, new, n + 1)
  <2>1. Decl.k # "struct" /\ Decl.k # "include"
    BY <1>1
  <2>2. contents[old.file][n + 1] = Decl
    BY <1>2, <1>3, Zenon
  <2> QED
    BY <1>2, <1>5, <1>6, <2>1, <2>2, KnowsMore, Zenon
<1> QED
  BY <1>1, <1>2, <1>5, <1>7, ReadKeeps, Zenon DEF n

\* A header that is included has been read, or is being read: then headers include each
\* other in a circle.
LEMMA IncludedIsRead ==
    ASSUME IncludesIInv, parsers # <<>>, NEW i \in DOMAIN interfaces,
           interfaces[i].file \in IncludedIn(contents, Parser.file),
           ~Cyclic(contents, Parser.file)
    PROVE  KnowsSoFar(contents, interfaces[i], Len(contents[interfaces[i].file]))
<1> DEFINE g == interfaces[i].file
           f == Parser.file
           n == Len(parsers)
<1>1. /\ IncludeTypes /\ Nested /\ Knowing
      /\ contents \in Projects /\ f \in DOMAIN contents
  BY AtWork, Zenon DEF IncludesIInv
<1>2. /\ n \in Nat \ {0} /\ n \in DOMAIN parsers /\ Parser = parsers[n]
      /\ DOMAIN parsers = 1 .. n
  BY <1>1, Top DEF IncludeTypes
<1>3. ASSUME NEW j \in DOMAIN parsers, parsers[j].file = g
      PROVE  FALSE
  <2>1. g \in Reached(contents, f) /\ g \in DOMAIN contents
    BY <1>1, Project, ReachesIncluded
  <2>2. CASE j = n
    BY <1>2, <1>3, <2>1, <2>2, Zenon DEF Cyclic
  <2>3. CASE j # n
    <3>1. j < n
      BY <1>2, <2>3
    <3>2. f \in Reached(contents, g)
      BY <1>1, <1>2, <1>3, <3>1, Zenon DEF Nested
    <3>3. g \in Reached(contents, g)
      BY <1>1, <2>1, <3>2, ReachesTransitively, Zenon
    <3> QED
      BY <2>1, <3>3, Zenon DEF Cyclic
  <2> QED
    BY <2>2, <2>3
<1> QED
  BY <1>1, <1>3, Zenon DEF Knowing

LEMMA ImportKeeps ==
    ASSUME IncludesIInv, Import
    PROVE  IncludesIInv'
<1> DEFINE old == Parser.interface
           g == Decl.of
           i == IndexOf(g)
           structs == old.structs \o Imported(interfaces[i].structs)
           new == [old EXCEPT !.structs = structs, !.includes = Append(@, g)]
           n == Read(contents, Parser)
<1>1. /\ parsers # <<>> /\ Parser.left # <<>> /\ Decl.k = "include" /\ Listed(g)
      /\ progress = "parsing" /\ UNCHANGED <<contents, given, interfaces, progress>>
  BY Zenon DEF Import
<1>2. parsers' = WithInterface(new)
  BY Zenon DEF Import
<1>3. /\ old \in InterfaceTypes(contents) /\ old.file = Parser.file
      /\ n \in Nat /\ KnowsSoFar(contents, old, n)
      /\ contents \in Projects /\ Parser.file \in DOMAIN contents
  BY <1>1, AtWork, Zenon
<1>4. Decl = contents[Parser.file][n + 1] /\ n + 1 \in DOMAIN contents[Parser.file]
  BY <1>1, ToRead
<1>5. g \in IncludedIn(contents, Parser.file) /\ g \in DOMAIN contents
  <2>1. g \in IncludedIn(contents, Parser.file)
    BY <1>1, <1>4, Zenon DEF IncludedIn
  <2> QED
    BY <1>3, <2>1, Project
<1>6. i \in DOMAIN interfaces /\ interfaces[i].file = g
  BY <1>1, Zenon DEF Listed, IndexOf
<1>7. interfaces[i] \in InterfaceTypes(contents)
  <2>1. interfaces \in Seq(InterfaceTypes(contents))
    BY Zenon DEF IncludesIInv, IncludeTypes
  <2> HIDE DEF i
  <2>2. i \in 1 .. Len(interfaces)
    BY <1>6, <2>1
  <2> QED
    BY <2>1, <2>2, ElementOfSeq, Zenon
<1>8. interfaces[i].structs \in Structs(contents) /\ old.structs \in Structs(contents)
      /\ old.includes \in Seq(DOMAIN contents)
  <2> HIDE DEF i, old
  <2> QED
    BY <1>3, <1>7 DEF InterfaceTypes
<1>9. /\ structs \in Structs(contents)
      /\ \A s : InList(old.structs, s) \/ InList(interfaces[i].structs, s) => InList(structs, s)
  BY <1>8, ImportedStructs, Zenon
<1> HIDE DEF old, i, structs, n, g
<1>10. /\ new \in InterfaceTypes(contents) /\ new.file = old.file /\ new.structs = structs
       /\ new.unknown = old.unknown
  <2>1. old \in [file : DOMAIN contents, structs : Structs(contents), includes : Seq(DOMAIN contents),
                 unknown : SUBSET Mentioned(contents)]
    BY <1>3, Zenon DEF InterfaceTypes
  <2>2. Append(old.includes, g) \in Seq(DOMAIN contents)
    BY <1>5, <1>8
  <2> QED
    BY <1>9, <2>1, <2>2 DEF InterfaceTypes
<1> HIDE DEF new
<1>11. ASSUME ~Cyclic(contents, old.file), NEW h \in Reached(contents, g) \cup {g},
              NEW s \in Defined(contents, h)
       PROVE  InList(structs, s)
  <2>1. g \in Reached(contents, Parser.file)
    BY <1>3, <1>5, ReachesIncluded, Zenon
  <2>2. ~Cyclic(contents, g)
    BY <1>3, <1>11, <2>1, CyclicFurther, Zenon
  <2>3. KnowsSoFar(contents, interfaces[i], Len(contents[interfaces[i].file]))
    BY <1>1, <1>3, <1>5, <1>6, <1>11, IncludedIsRead, Zenon
  <2>4. KnownBehind(contents, g, Len(contents[g]), interfaces[i].structs)
    BY <1>6, <2>2, <2>3, Zenon DEF KnowsSoFar
  <2>5. InList(interfaces[i].structs, s)
    BY <1>3, <1>5, <1>11, <2>4, KnownAtTheEnd, Zenon
  <2> QED
    BY <1>9, <2>5, Zenon
<1>12. KnowsSoFar(contents, new, n + 1)
  <2>1. Decl.k # "struct"
    BY <1>1
  <2>2. contents[old.file][n + 1] = Decl /\ Decl.of = g
    BY <1>3, <1>4, Zenon DEF g
  <2>3. ~Cyclic(contents, old.file) => NotUnknown(contents, new)
    BY <1>3, <1>10, Zenon DEF KnowsSoFar, NotUnknown
  <2> QED
    BY <1>3, <1>9, <1>10, <1>11, <2>1, <2>2, <2>3, KnowsMore, Zenon
<1> QED
  BY <1>1, <1>2, <1>3, <1>10, <1>12, ReadKeeps, Zenon DEF n

-----------------------------------------------------------------------------
(* Headers that are begun and ended.                                       *)

\* A sequence with one more element.
Appended(S, s, t, x) ==
    /\ t \in Seq(S) /\ Len(s) \in Nat
    /\ DOMAIN s = 1 .. Len(s) /\ DOMAIN t = 1 .. Len(s) + 1
    /\ \A i \in 1 .. Len(s) + 1 : i = Len(s) + 1 \/ i \in 1 .. Len(s)
    /\ \A i \in 1 .. Len(s) : i \in 1 .. Len(s) + 1 /\ t[i] = s[i] /\ i < Len(s) + 1
    /\ Len(s) + 1 \in 1 .. Len(s) + 1
    /\ t[Len(s) + 1] = x

LEMMA AppendIs ==
    ASSUME NEW S, NEW s \in Seq(S), NEW x \in S
    PROVE  Appended(S, s, Append(s, x), x)
<1>1. /\ Append(s, x) \in Seq(S) /\ Len(s) \in Nat
      /\ DOMAIN s = 1 .. Len(s) /\ DOMAIN Append(s, x) = 1 .. Len(s) + 1
  OBVIOUS
<1>2. \A i \in 1 .. Len(s) : Append(s, x)[i] = s[i]
  BY <1>1
<1>3. Append(s, x)[Len(s) + 1] = x
  BY <1>1
<1> DEFINE n == Len(s)
<1>4. n \in Nat
  BY <1>1
<1> HIDE DEF n
<1>5. /\ \A i \in 1 .. n + 1 : i = n + 1 \/ i \in 1 .. n
      /\ \A i \in 1 .. n : i \in 1 .. n + 1 /\ i < n + 1
      /\ n + 1 \in 1 .. n + 1
  BY <1>4
<1> QED
  BY <1>1, <1>2, <1>3, <1>5, Zenon DEF n, Appended

\* A parser that has read nothing.
LEMMA StartingIs ==
    ASSUME NEW f \in DOMAIN contents, contents \in Projects
    PROVE  /\ Starting(f) \in ParserTypes(contents) /\ NewInterface(f) \in InterfaceTypes(contents)
           /\ Starting(f).file = f /\ NewInterface(f).file = f
           /\ ReadInOrder(contents, Starting(f))
           /\ KnowsSoFar(contents, Starting(f).interface, Read(contents, Starting(f)))
<1>1. contents[f] \in Seq(Declarations(contents))
  BY Project
<1>2. NewInterface(f) \in InterfaceTypes(contents) /\ NewInterface(f).file = f
      /\ NewInterface(f).unknown = {}
  BY DEF NewInterface, InterfaceTypes, Structs
<1>3. /\ Starting(f).file = f /\ Starting(f).left = contents[f]
      /\ Starting(f).interface = NewInterface(f)
  BY Zenon DEF Starting
<1>4. Starting(f) \in ParserTypes(contents)
  BY <1>1, <1>2 DEF Starting, ParserTypes
<1>5. Len(contents[f]) \in Nat /\ Read(contents, Starting(f)) = 0
      /\ DOMAIN contents[f] = 1 .. Len(contents[f])
  BY <1>1, <1>3 DEF Read
<1>6. \A j \in DOMAIN contents[f] : 0 + j = j
  BY <1>5
<1>7. ReadInOrder(contents, Starting(f))
  <2>1. 0 \in Nat
    OBVIOUS
  <2> QED
    BY <1>2, <1>3, <1>5, <1>6, <2>1, Zenon DEF ReadInOrder
<1>8. KnowsSoFar(contents, NewInterface(f), 0)
  <2>1. KnownBehind(contents, f, 0, NewInterface(f).structs)
    BY DEF KnownBehind
  <2>2. NotUnknown(contents, NewInterface(f))
    BY <1>2 DEF NotUnknown
  <2> QED
    BY <1>2, <2>1, <2>2, Zenon DEF KnowsSoFar
<1> QED
  BY <1>2, <1>3, <1>4, <1>5, <1>7, <1>8, Zenon

\* What is kept when a header is begun, but for the command line.
Begun(f) ==
    /\ (parsers \in Seq(ParserTypes(contents)) /\ interfaces \in Seq(InterfaceTypes(contents)))'
    /\ (ParsedOnce /\ InOrder /\ Nested /\ Knowing)'
    /\ \A file : Listed(file) \/ file = f => Listed(file)'

LEMMA Beginning ==
    ASSUME IncludesIInv, NEW f \in DOMAIN contents, ~Listed(f),
           \A i \in DOMAIN parsers : f \in Reached(contents, parsers[i].file),
           parsers' = Append(parsers, Starting(f)),
           interfaces' = Append(interfaces, NewInterface(f)),
           contents' = contents
    PROVE  Begun(f)
<1>0. IncludeTypes /\ ParsedOnce /\ InOrder /\ Nested /\ Knowing /\ contents \in Projects
  BY Zenon DEF IncludesIInv, IncludeTypes
<1> DEFINE p == Starting(f)
           interface == NewInterface(f)
           n == Len(parsers)
           m == Len(interfaces)
<1>1. /\ p \in ParserTypes(contents) /\ interface \in InterfaceTypes(contents)
      /\ p.file = f /\ interface.file = f /\ ReadInOrder(contents, p)
      /\ KnowsSoFar(contents, p.interface, Read(contents, p))
  BY <1>0, StartingIs, Zenon
<1> HIDE DEF p, interface
<1>2. parsers' = Append(parsers, p) /\ interfaces' = Append(interfaces, interface)
  BY Zenon DEF p, interface
<1>3. parsers \in Seq(ParserTypes(contents)) /\ interfaces \in Seq(InterfaceTypes(contents))
  BY <1>0, Zenon DEF IncludeTypes
<1>4. /\ parsers' \in Seq(ParserTypes(contents)) /\ n \in Nat
      /\ DOMAIN parsers = 1 .. n /\ DOMAIN parsers' = 1 .. n + 1
      /\ \A i \in 1 .. n + 1 : i = n + 1 \/ i \in 1 .. n
      /\ \A i \in 1 .. n : i \in 1 .. n + 1 /\ parsers'[i] = parsers[i] /\ i < n + 1
      /\ n + 1 \in 1 .. n + 1
      /\ parsers'[n + 1] = p
  <2>1. Appended(ParserTypes(contents), parsers, parsers', p)
    <3>1. Appended(ParserTypes(contents), parsers, Append(parsers, p), p)
      BY <1>1, <1>3, AppendIs, Zenon
    <3> QED
      BY <1>2, <3>1, Zenon
  <2> QED
    BY <2>1, Zenon DEF Appended
<1>5. /\ interfaces' \in Seq(InterfaceTypes(contents))
      /\ DOMAIN interfaces = 1 .. m /\ DOMAIN interfaces' = 1 .. m + 1
      /\ \A i \in 1 .. m + 1 : i = m + 1 \/ i \in 1 .. m
      /\ \A i \in 1 .. m : i \in 1 .. m + 1 /\ interfaces'[i] = interfaces[i]
      /\ m + 1 \in 1 .. m + 1
      /\ interfaces'[m + 1] = interface
  <2>1. Appended(InterfaceTypes(contents), interfaces, interfaces', interface)
    <3>1. Appended(InterfaceTypes(contents), interfaces, Append(interfaces, interface), interface)
      BY <1>1, <1>3, AppendIs, Zenon
    <3> QED
      BY <1>2, <3>1, Zenon
  <2> QED
    BY <2>1, Zenon DEF Appended
<1> HIDE DEF n, m
<1>6. \A file : Listed(file) \/ file = f => Listed(file)'
  <2>1. Listed(f)'
    BY <1>1, <1>5, Zenon DEF Listed
  <2>2. ASSUME NEW file, Listed(file) PROVE Listed(file)'
    BY <2>2, <1>5, Zenon DEF Listed
  <2> QED
    BY <2>1, <2>2, Zenon
<1>7. ParsedOnce'
  <2>1. \A i \in 1 .. m : interfaces[i].file # f
    BY <1>5, Zenon DEF Listed
  <2>2. \A i \in 1 .. n : parsers[i].file # f
    BY <1>0, <1>4, Zenon DEF InOrder
  <2>3. \A i, j \in 1 .. m + 1 : interfaces'[i].file = interfaces'[j].file => i = j
    BY <1>0, <1>1, <1>5, <2>1, Zenon DEF ParsedOnce
  <2>4. \A i, j \in 1 .. n + 1 : parsers'[i].file = parsers'[j].file => i = j
    BY <1>0, <1>1, <1>4, <2>2, Zenon DEF ParsedOnce
  <2> QED
    BY <1>4, <1>5, <2>3, <2>4, Zenon DEF ParsedOnce
<1>8. InOrder'
  <2>1. ASSUME NEW i \in 1 .. n + 1
        PROVE  (Listed(parsers[i].file))' /\ ReadInOrder(contents, parsers'[i])
    <3>1. CASE i = n + 1
      BY <3>1, <1>1, <1>4, <1>6, Zenon
    <3>2. CASE i \in 1 .. n
      BY <3>2, <1>0, <1>4, <1>6, Zenon DEF InOrder
    <3> QED
      BY <1>4, <3>1, <3>2, Zenon
  <2> QED
    BY <1>4, <2>1, Zenon DEF InOrder
<1>9. Nested'
  <2>1. ASSUME NEW i \in 1 .. n + 1, NEW j \in 1 .. n + 1, i < j
        PROVE  parsers'[j].file \in Reached(contents, parsers'[i].file)
    <3>1. i \in 1 .. n
      BY <1>4, <2>1
    <3>2. CASE j = n + 1
      BY <3>1, <3>2, <1>1, <1>4, Zenon
    <3>3. CASE j \in 1 .. n
      BY <3>1, <3>3, <1>0, <1>4, <2>1, Zenon DEF Nested
    <3> QED
      BY <1>4, <3>2, <3>3, Zenon
  <2> QED
    BY <1>4, <2>1, Zenon DEF Nested
<1>10. Knowing'
  <2>1. ASSUME NEW i \in 1 .. n + 1
        PROVE  KnowsSoFar(contents, parsers'[i].interface, Read(contents, parsers'[i]))
    BY <1>0, <1>1, <1>4, Zenon DEF Knowing
  <2>2. ASSUME NEW i \in 1 .. m + 1
        PROVE  \/ \E j \in 1 .. n + 1 : parsers'[j].file = interfaces'[i].file
               \/ KnowsSoFar(contents, interfaces'[i], Len(contents[interfaces'[i].file]))
    <3>1. CASE i = m + 1
      BY <3>1, <1>1, <1>4, <1>5, Zenon
    <3>2. CASE i \in 1 .. m
      BY <3>2, <1>0, <1>4, <1>5, Zenon DEF Knowing
    <3> QED
      BY <1>5, <3>1, <3>2, Zenon
  <2> QED
    BY <1>4, <1>5, <2>1, <2>2, Zenon DEF Knowing
<1> QED
  BY <1>4, <1>5, <1>6, <1>7, <1>8, <1>9, <1>10, Zenon DEF Begun

LEMMA IncludeNewKeeps ==
    ASSUME IncludesIInv, IncludeNew
    PROVE  IncludesIInv'
<1> DEFINE f == Decl.of
           n == Len(parsers)
<1>0. IncludeTypes /\ Nested /\ GivenInOrder
  BY Zenon DEF IncludesIInv
<1>1. /\ parsers # <<>> /\ Parser.left # <<>> /\ Decl.k = "include" /\ ~Listed(f)
      /\ parsers' = Append(parsers, Starting(f))
      /\ interfaces' = Append(interfaces, NewInterface(f))
      /\ progress = "parsing" /\ UNCHANGED <<contents, given, progress>>
  BY Zenon DEF IncludeNew
<1>2. f \in IncludedIn(contents, Parser.file) /\ contents \in Projects /\ Parser.file \in DOMAIN contents
  <2>1. LET k == Read(contents, Parser) + 1
        IN  k \in DOMAIN contents[Parser.file] /\ Decl = contents[Parser.file][k]
    BY <1>1, ToRead
  <2> QED
    BY <1>1, <2>1, AtWork, Zenon DEF IncludedIn
<1>3. f \in DOMAIN contents
  BY <1>2, Project
<1>4. /\ n \in Nat \ {0} /\ n \in DOMAIN parsers /\ Parser = parsers[n]
      /\ DOMAIN parsers = 1 .. n
  BY <1>0, <1>1, Top DEF IncludeTypes
<1>5. ASSUME NEW i \in DOMAIN parsers
      PROVE  f \in Reached(contents, parsers[i].file)
  <2>1. CASE i = n
    BY <2>1, <1>2, <1>4, ReachesIncluded, Zenon
  <2>2. CASE i # n
    <3>1. i < n
      BY <2>2, <1>4
    <3>2. Parser.file \in Reached(contents, parsers[i].file)
      BY <1>0, <1>4, <3>1, Zenon DEF Nested
    <3>3. parsers[i] \in ParserTypes(contents)
      <4>1. parsers \in Seq(ParserTypes(contents))
        BY <1>0, Zenon DEF IncludeTypes
      <4> QED
        BY <1>4, <4>1, ElementOfSeq, Zenon
    <3>4. parsers[i].file \in DOMAIN contents
      BY <3>3 DEF ParserTypes
    <3> QED
      BY <1>2, <3>2, <3>4, ReachesFurther, Zenon
  <2> QED
    BY <2>1, <2>2
<1> HIDE DEF f
<1>6. Begun(f)
  BY <1>1, <1>3, <1>5, Beginning, Zenon
<1>7. IncludeTypes'
  BY <1>0, <1>1, <1>6, Zenon DEF IncludeTypes, Begun
<1>8. GivenInOrder'
  <2>1. progress' # "parsed" /\ given' = given
    BY <1>1
  <2> QED
    BY <1>0, <1>6, <2>1, Zenon DEF GivenInOrder, Begun
<1> QED
  BY <1>6, <1>7, <1>8, Zenon DEF IncludesIInv, Begun

\* The first of what is left of a list that is taken from its front.
LEMMA GivenTaken ==
    ASSUME IncludesIInv, given # <<>>, given' = Tail(given),
           contents' = contents, progress' = progress, progress = "parsing",
           \A file : Listed(file) \/ file = Head(given) => Listed(file)'
    PROVE  given' \in Seq(DOMAIN contents) /\ GivenInOrder'
<1> DEFINE n == Len(given)
           k == Len(Files)
<1>0. IncludeTypes /\ GivenInOrder /\ contents \in Projects
  BY Zenon DEF IncludesIInv, IncludeTypes
<1>1. given \in Seq(DOMAIN contents)
  BY <1>0, Zenon DEF IncludeTypes
<1>2. /\ n \in Nat \ {0} /\ DOMAIN given = 1 .. n /\ Head(given) = given[1]
      /\ given' \in Seq(DOMAIN contents) /\ Len(given') = n - 1 /\ DOMAIN given' = 1 .. n - 1
      /\ \A i \in 1 .. n - 1 : given'[i] = given[i + 1]
  BY <1>1, EmptySeq
<1>3. k \in Nat
  <2>1. Files \in Seq(DOMAIN contents)
    BY <1>0, IncludesAssumption, Zenon
  <2> QED
    BY <2>1
<1>4. /\ n <= k
      /\ \A i \in 1 .. n : given[i] = Files[k - n + i]
      /\ \A i \in 1 .. k - n : Listed(Files[i])
  BY <1>0, <1>2, Zenon DEF GivenInOrder
<1> HIDE DEF n, k
<1>5. n - 1 <= k /\ 1 \in 1 .. n /\ k - (n - 1) = k - n + 1
  BY <1>2, <1>3, <1>4
<1>6. ASSUME NEW i \in 1 .. n - 1 PROVE given'[i] = Files[k - (n - 1) + i]
  <2>1. i + 1 \in 1 .. n /\ k - n + (i + 1) = k - (n - 1) + i
    BY <1>2, <1>3
  <2>2. given[i + 1] = Files[k - n + (i + 1)]
    BY <1>4, <2>1, Zenon
  <2> QED
    BY <1>2, <2>1, <2>2, Zenon
<1>7. ASSUME NEW i \in 1 .. k - (n - 1) PROVE Listed(Files[i])'
  <2>1. CASE i \in 1 .. k - n
    <3>1. Listed(Files[i])
      BY <1>4, <2>1, Zenon
    <3>2. PICK file : file = Files[i]
      BY Zenon
    <3>3. Listed(file)'
      BY <3>1, <3>2, Zenon
    <3> QED
      BY <3>2, <3>3, Zenon DEF Listed
  <2>2. CASE i \notin 1 .. k - n
    <3>1. i = k - n + 1
      BY <1>2, <1>3, <1>4, <2>2
    <3>2. Files[i] = Head(given)
      BY <1>2, <1>4, <1>5, <3>1, Zenon
    <3>3. PICK file : file = Files[i]
      BY Zenon
    <3>4. Listed(file)'
      BY <3>2, <3>3, Zenon
    <3> QED
      BY <3>3, <3>4, Zenon DEF Listed
  <2> QED
    BY <2>1, <2>2
<1>8. progress' # "parsed"
  OBVIOUS
<1> QED
  BY <1>2, <1>5, <1>6, <1>7, <1>8, Zenon DEF GivenInOrder, k

LEMMA ParseGivenKeeps ==
    ASSUME IncludesIInv, ParseGiven
    PROVE  IncludesIInv'
<1> DEFINE f == Head(given)
<1>0. IncludeTypes /\ ParsedOnce /\ InOrder /\ Nested /\ GivenInOrder /\ Knowing
  BY Zenon DEF IncludesIInv
<1>1. /\ progress = "parsing" /\ parsers = <<>> /\ given # <<>> /\ given' = Tail(given)
      /\ UNCHANGED <<contents, progress>>
  BY Zenon DEF ParseGiven
<1>2. f \in DOMAIN contents
  BY <1>0, <1>1 DEF IncludeTypes
<1>3. CASE Listed(f)
  <2>1. UNCHANGED <<interfaces, parsers>>
    BY <1>3, Zenon DEF ParseGiven
  <2>2. \A file : Listed(file) \/ file = f => Listed(file)'
    BY <1>3, <2>1, Zenon DEF Listed
  <2>3. given' \in Seq(DOMAIN contents) /\ GivenInOrder'
    BY <1>1, <2>2, GivenTaken, Zenon
  <2>4. IncludeTypes'
    BY <1>0, <1>1, <2>1, <2>3, Zenon DEF IncludeTypes
  <2>5. (ParsedOnce /\ InOrder /\ Nested /\ Knowing)'
    BY <1>0, <1>1, <2>1, Zenon DEF ParsedOnce, InOrder, Nested, Knowing, Listed
  <2> QED
    BY <2>3, <2>4, <2>5, Zenon DEF IncludesIInv
<1>4. CASE ~Listed(f)
  <2>1. parsers' = <<Starting(f)>> /\ interfaces' = Append(interfaces, NewInterface(f))
    BY <1>4, Zenon DEF ParseGiven
  <2>2. parsers' = Append(parsers, Starting(f)) /\ \A i \in DOMAIN parsers : FALSE
    BY <1>1, <2>1
  <2>3. Begun(f)
    BY <1>1, <1>2, <1>4, <2>1, <2>2, Beginning, Zenon
  <2>4. given' \in Seq(DOMAIN contents) /\ GivenInOrder'
    BY <1>1, <2>3, GivenTaken, Zenon DEF Begun
  <2>5. IncludeTypes'
    BY <1>0, <1>1, <2>3, <2>4, Zenon DEF IncludeTypes, Begun
  <2> QED
    BY <2>3, <2>4, <2>5, Zenon DEF IncludesIInv, Begun
<1> QED
  BY <1>3, <1>4

\* A parser that has read its header knows what is behind its last declaration.
LEMMA EndHeaderKeeps ==
    ASSUME IncludesIInv, EndHeader
    PROVE  IncludesIInv'
<1> DEFINE n == Len(parsers)
           f == Parser.file
           at == IndexOf(f)
           new == Parser.interface
<1>0. IncludeTypes /\ ParsedOnce /\ InOrder /\ Nested /\ GivenInOrder /\ Knowing
  BY Zenon DEF IncludesIInv
<1>1. /\ progress = "parsing" /\ parsers # <<>> /\ Parser.left = <<>>
      /\ interfaces' = [interfaces EXCEPT ![at] = new]
      /\ parsers' = Front(parsers)
      /\ UNCHANGED <<contents, given, progress>>
  BY Zenon DEF EndHeader
<1>2. /\ contents \in Projects /\ f \in DOMAIN contents
      /\ new \in InterfaceTypes(contents) /\ new.file = f
      /\ KnowsSoFar(contents, new, Read(contents, Parser))
  BY <1>1, AtWork, Zenon
<1>3. n \in DOMAIN parsers /\ Parser = parsers[n]
  BY <1>0, <1>1, Top DEF IncludeTypes
<1>4. Read(contents, Parser) = Len(contents[f])
  <2>1. Len(contents[f]) \in Nat
    BY <1>2, Project
  <2> QED
    BY <1>1, <2>1 DEF Read
<1>5. at \in DOMAIN interfaces /\ interfaces[at].file = f
  <2>1. Listed(f)
    BY <1>0, <1>3, Zenon DEF InOrder
  <2> QED
    BY <2>1, Zenon DEF Listed, IndexOf
<1>6. /\ parsers \in Seq(ParserTypes(contents)) /\ interfaces \in Seq(InterfaceTypes(contents))
  BY <1>0, Zenon DEF IncludeTypes
<1>7. /\ parsers' \in Seq(ParserTypes(contents)) /\ n \in Nat \ {0}
      /\ DOMAIN parsers' = 1 .. n - 1 /\ DOMAIN parsers = 1 .. n
      /\ \A i \in 1 .. n - 1 : parsers'[i] = parsers[i]
  <2>1. /\ n \in Nat \ {0}
        /\ Front(parsers) \in Seq(ParserTypes(contents)) /\ Len(Front(parsers)) = n - 1
        /\ \A i \in 1 .. n - 1 : Front(parsers)[i] = parsers[i]
    BY <1>1, <1>6, FrontIs
  <2> QED
    BY <1>1, <1>6, <2>1
<1> HIDE DEF n, f, at, new
<1>8. \A i \in 1 .. n - 1 : i \in 1 .. n /\ i # n
  BY <1>7
<1>9. /\ interfaces' \in Seq(InterfaceTypes(contents)) /\ DOMAIN interfaces' = DOMAIN interfaces
      /\ interfaces'[at] = new
      /\ \A i \in DOMAIN interfaces : i # at => interfaces'[i] = interfaces[i]
  <2>1. interfaces' \in Seq(InterfaceTypes(contents))
    <3>1. at \in 1 .. Len(interfaces)
      BY <1>5, <1>6
    <3>2. [interfaces EXCEPT ![at] = new] \in Seq(InterfaceTypes(contents))
      BY <1>2, <1>6, <3>1, ExceptSeq
    <3> QED
      BY <1>1, <3>2, Zenon
  <2> QED
    BY <1>1, <1>5, <2>1
<1>10. \A i \in DOMAIN interfaces : interfaces'[i].file = interfaces[i].file
  BY <1>2, <1>5, <1>9, Zenon
<1>11. \A file : Listed(file) => Listed(file)'
  BY <1>9, <1>10, Zenon DEF Listed
<1>12. IncludeTypes'
  BY <1>0, <1>1, <1>7, <1>9, Zenon DEF IncludeTypes
<1>13. ParsedOnce'
  BY <1>0, <1>7, <1>8, <1>9, <1>10, Zenon DEF ParsedOnce
<1>14. InOrder'
  <2> SUFFICES ASSUME NEW i \in 1 .. n - 1
               PROVE  (Listed(parsers[i].file))' /\ ReadInOrder(contents, parsers'[i])
    BY <1>1, <1>7, Zenon DEF InOrder
  <2>1. Listed(parsers[i].file) /\ ReadInOrder(contents, parsers[i])
    BY <1>0, <1>7, <1>8, Zenon DEF InOrder
  <2>2. PICK file : file = parsers[i].file
    BY Zenon
  <2>3. Listed(file)' /\ file = parsers'[i].file
    BY <1>7, <1>11, <2>1, <2>2, Zenon
  <2> QED
    BY <1>7, <2>1, <2>3, Zenon DEF Listed
<1>15. Nested'
  BY <1>0, <1>1, <1>7, <1>8, Zenon DEF Nested
<1>16. GivenInOrder'
  <2>1. progress' # "parsed"
    BY <1>1
  <2> QED
    BY <1>0, <1>1, <1>11, <2>1, Zenon DEF GivenInOrder
<1>17. Knowing'
  <2>1. \A i \in 1 .. n - 1 : KnowsSoFar(contents, parsers'[i].interface, Read(contents, parsers'[i]))
    BY <1>0, <1>7, <1>8, Zenon DEF Knowing
  <2>2. ASSUME NEW i \in DOMAIN interfaces
        PROVE  \/ \E j \in 1 .. n - 1 : parsers'[j].file = interfaces'[i].file
               \/ KnowsSoFar(contents, interfaces'[i], Len(contents[interfaces'[i].file]))
    <3>1. CASE i = at
      BY <3>1, <1>2, <1>4, <1>9, Zenon
    <3>2. CASE i # at
      <4>1. interfaces[i].file # f
        BY <1>0, <1>5, <3>2, Zenon DEF ParsedOnce
      <4>2. interfaces'[i] = interfaces[i]
        BY <1>9, <3>2, Zenon
      <4>3. CASE \E j \in DOMAIN parsers : parsers[j].file = interfaces[i].file
        <5>1. PICK j \in DOMAIN parsers : parsers[j].file = interfaces[i].file
          BY <4>3, Zenon
        <5>2. j # n
          BY <1>3, <4>1, <5>1, Zenon DEF f
        <5>3. j \in 1 .. n - 1
          BY <1>7, <5>2
        <5> QED
          BY <1>7, <4>2, <5>1, <5>3, Zenon
      <4> QED
        BY <1>0, <4>2, <4>3, Zenon DEF Knowing
    <3> QED
      BY <3>1, <3>2
  <2> QED
    BY <1>1, <1>7, <1>9, <2>1, <2>2, Zenon DEF Knowing
<1> QED
  BY <1>12, <1>13, <1>14, <1>15, <1>16, <1>17, Zenon DEF IncludesIInv

\* The headers stay as they are: the project is read, is in error or nothing happens.
LEMMA StayingKeeps ==
    ASSUME IncludesIInv, UNCHANGED <<contents, given, interfaces, parsers>>,
           \/ progress' = progress \/ progress' = "duplicate"
           \/ progress' = "parsed" /\ parsers = <<>> /\ given = <<>>
    PROVE  IncludesIInv'
<1>0. IncludeTypes /\ ParsedOnce /\ InOrder /\ Nested /\ GivenInOrder /\ Knowing
  BY Zenon DEF IncludesIInv
<1>1. IncludeTypes'
  BY <1>0 DEF IncludeTypes
<1>2. GivenInOrder'
  <2>1. progress' = "parsed" => parsers = <<>> /\ given = <<>>
    <3>1. "duplicate" # "parsed"
      OBVIOUS
    <3> QED
      BY <1>0, <3>1, Zenon DEF GivenInOrder
  <2> QED
    BY <1>0, <2>1, Zenon DEF GivenInOrder, Listed
<1>3. (ParsedOnce /\ InOrder /\ Nested /\ Knowing)'
  BY <1>0, Zenon DEF ParsedOnce, InOrder, Nested, Knowing, Listed
<1> QED
  BY <1>1, <1>2, <1>3, Zenon DEF IncludesIInv

-----------------------------------------------------------------------------
LEMMA IncludeInitIInv ==
    ASSUME IncludeInit
    PROVE  IncludesIInv
<1>1. /\ contents \in Projects /\ given = Files
      /\ interfaces = <<>> /\ parsers = <<>> /\ progress = "parsing"
  BY Zenon DEF IncludeInit, IncludeStart
<1>2. Files \in Seq(DOMAIN contents)
  BY <1>1, IncludesAssumption, Zenon
<1>3. IncludeTypes
  BY <1>1, <1>2 DEF IncludeTypes
<1>4. ParsedOnce /\ InOrder /\ Nested /\ Knowing
  BY <1>1 DEF ParsedOnce, InOrder, Nested, Knowing
<1>5. GivenInOrder
  <2> DEFINE k == Len(Files)
  <2>1. k \in Nat /\ DOMAIN Files = 1 .. k
    BY <1>2
  <2> HIDE DEF k
  <2>2. k <= k /\ (\A i \in 1 .. k : k - k + i = i) /\ (\A i \in 1 .. k - k : FALSE)
    BY <2>1
  <2>3. progress # "parsed"
    BY <1>1
  <2> QED
    BY <1>1, <2>1, <2>2, <2>3, Zenon DEF GivenInOrder, k
<1> QED
  BY <1>3, <1>4, <1>5, Zenon DEF IncludesIInv

LEMMA IncludeNextKeeps ==
    ASSUME IncludesIInv, \A c \in Projects : DeclaredBeforeUse(c), [IncludeNext]_includeVars
    PROVE  IncludesIInv'
<1>1. DeclaredBeforeUse(contents)
  BY Zenon DEF IncludesIInv, IncludeTypes
<1>2. CASE ParseGiven
  BY <1>2, ParseGivenKeeps, Zenon
<1>3. CASE IncludeNew
  BY <1>3, IncludeNewKeeps, Zenon
<1>4. CASE Import
  BY <1>4, ImportKeeps, Zenon
<1>5. CASE DeclareForward
  BY <1>5, DeclareForwardKeeps, Zenon
<1>6. CASE DefineStruct
  <2>1. CASE progress' = progress
    BY <1>6, <2>1, DefineStructKeeps, Zenon
  <2>2. CASE progress' # progress
    <3>1. progress' = "duplicate" /\ UNCHANGED <<contents, given, interfaces, parsers>>
      BY <1>6, <2>2, Zenon DEF DefineStruct
    <3> QED
      BY <3>1, StayingKeeps, Zenon
  <2> QED
    BY <2>1, <2>2
<1>7. CASE UseType
  BY <1>1, <1>7, UseTypeKeeps, Zenon
<1>8. CASE EndHeader
  BY <1>8, EndHeaderKeeps, Zenon
<1>9. CASE EndProject
  BY <1>9, StayingKeeps, Zenon DEF EndProject
<1>10. CASE ProjectRead \/ UNCHANGED includeVars
  BY <1>10, StayingKeeps, Zenon DEF ProjectRead, includeVars
<1> QED
  BY <1>2, <1>3, <1>4, <1>5, <1>6, <1>7, <1>8, <1>9, <1>10, Zenon DEF IncludeNext

LEMMA IncludesIInvImplies ==
    ASSUME IncludesIInv
    PROVE  IncludesInv
<1>0. IncludeTypes /\ ParsedOnce /\ InOrder /\ GivenInOrder /\ Knowing /\ contents \in Projects
  BY Zenon DEF IncludesIInv, IncludeTypes
<1>1. IncludeTypeOK
  <2>1. ASSUME progress = "parsed", NEW i \in DOMAIN Files PROVE Listed(Files[i])
    <3>1. Files \in Seq(DOMAIN contents) /\ Len(given) = 0
      BY <1>0, <2>1, IncludesAssumption DEF GivenInOrder
    <3>2. i \in 1 .. Len(Files) - Len(given)
      BY <3>1
    <3> QED
      BY <1>0, <3>2, Zenon DEF GivenInOrder
  <2> QED
    BY <1>0, <2>1, Zenon DEF IncludeTypeOK, IncludeTypes, InOrder, GivenInOrder
<1>2. KnowsWhatIsIncluded
  <2> SUFFICES ASSUME progress = "parsed", NEW i \in DOMAIN interfaces,
                      ~Cyclic(contents, interfaces[i].file),
                      NEW g \in Reached(contents, interfaces[i].file)
               PROVE  interfaces[i].unknown \cap Defined(contents, g) = {}
    BY Zenon DEF KnowsWhatIsIncluded
  <2>1. \A j \in DOMAIN parsers : FALSE
    BY <1>0 DEF GivenInOrder
  <2>2. KnowsSoFar(contents, interfaces[i], Len(contents[interfaces[i].file]))
    BY <1>0, <2>1, Zenon DEF Knowing
  <2> QED
    BY <2>2, Zenon DEF KnowsSoFar, NotUnknown
<1> QED
  BY <1>0, <1>1, <1>2, Zenon DEF IncludesInv

\* However the headers of a project include each other, none is parsed twice or by two
\* parsers at a time, all that are given are parsed, and a struct that a header or what it
\* includes declares in full is known behind the include, where no header includes itself
\* and the project declares types before it uses them, as C++ asks.
THEOREM IncludesInvariant ==
    ASSUME \A c \in Projects : DeclaredBeforeUse(c)
    PROVE  IncludeSpec => []IncludesInv
<1>1. IncludeInit => IncludesIInv
  BY IncludeInitIInv
<1>2. IncludesIInv /\ [IncludeNext]_includeVars => IncludesIInv'
  BY IncludeNextKeeps
<1>3. IncludesIInv => IncludesInv
  BY IncludesIInvImplies
<1> QED
  BY <1>1, <1>2, <1>3, PTL DEF IncludeSpec
================================================================================
