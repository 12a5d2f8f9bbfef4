------------------------------ MODULE DataTypes ------------------------------
(***************************************************************************)
(* Types in the code generator: how CppParser                              *)
(* (src/tools/parsers/cpp/src/CppParser.cpp) reads one, how it finds what a*)
(* name stands for (ngrestcgparser/src/tools.cpp), and how XmlGen          *)
(* (ngrestcg/src/XmlGen.cpp) writes one.  A text is a sequence of tokens:  *)
(* words, punctuation and blanks; a token is a sequence of symbols, a      *)
(* letter, a keyword or "::".                                              *)
(***************************************************************************)
EXTENDS Naturals, Sequences, SequencesExt, FiniteSetsExt

CONSTANTS
    Project1       \* what is declared: [ns, structs, enums, typedefs]

BlankToken == <<" ">>
Colons == "::"
Joined(tokens) == FlattenSeq(tokens)

\* stringTrim.
Stripped(text) ==
    LET kept == {i \in DOMAIN text : text[i] # BlankToken}
    IN  IF kept = {} THEN <<>> ELSE SubSeq(text, Min(kept), Max(kept))

NoType == [ok |-> TRUE, isConst |-> FALSE, isRef |-> FALSE, kind |-> "unknown", prefix |-> <<>>,
           used |-> <<>>, ns |-> <<>>, name |-> <<>>, params |-> <<>>]
RefusedType == [NoType EXCEPT !.ok = FALSE]

-----------------------------------------------------------------------------
(* Names, ngrestcgparser/src/tools.cpp.                                    *)

FullName(t) == t.ns \o (IF t.owner = <<>> THEN <<>> ELSE t.owner \o <<Colons>>) \o t.name
LastColons(name) == SelectLastInSeq(name, LAMBDA c : c = Colons)
BareName(name) == SubSeq(name, LastColons(name) + 1, Len(name))
Space(name) == SubSeq(name, 1, LastColons(name))

\* strIntersect, lines 29-50: the longest end of a that b begins with.  It takes two
\* letters at least, and the first letter of b is not compared.
Intersection(a, b) ==
    LET fits == {n \in 2..Len(b) : n <= Len(a) /\ \A i \in 2..n : b[i] = a[Len(a) - n + i]}
    IN  IF fits = {} THEN 0 ELSE Max(fits)

\* The condition of lines 99-103 and 166-170.
Meets(full, name) ==
    LET n == Intersection(full, name)
    IN  /\ n # 0
        /\ n = Len(full) \/ full[Len(full) - n] = Colons
        /\ n = Len(name) \/ name[n + 1] = Colons

Backward(types, Test(_)) == SelectLastInSeq(types, Test)

\* Lines 104-145: the rest of the name, part by part, in what the struct has.
NotFound == [found |-> FALSE]
FirstFound(one, other) == IF one.found THEN one ELSE other
Found(kind, t) == [found |-> TRUE, kind |-> kind, type |-> t]
RECURSIVE NameWithin(_, _)
NameWithin(struct, name) ==
    LET cut  == SelectInSeq(name, LAMBDA c : c = Colons)
        part == IF cut = 0 THEN name ELSE SubSeq(name, 1, cut - 1)
        enum == Backward(struct.enums, LAMBDA e : e.name = part)
        sub  == Backward(struct.structs, LAMBDA s : s.name = part)
    IN  IF name = <<>> THEN NotFound
        ELSE IF enum # 0 THEN Found("enum", struct.enums[enum])
        ELSE IF sub = 0 THEN NotFound
        ELSE IF cut = 0 THEN Found("struct", struct.structs[sub])
        ELSE NameWithin(struct.structs[sub], SubSeq(name, cut + 1, Len(name)))

\* Lines 82-151, for one struct.
NameInStruct(s, name) ==
    LET full == FullName(s)
    IN  IF full = name \/ IsSuffix(<<Colons>> \o name, full) THEN Found("struct", s)
        ELSE IF Meets(full, name) THEN NameWithin(s, SubSeq(name, Intersection(full, name) + 2, Len(name)))
        ELSE NotFound

\* Lines 71-190, in the structs and the enums of one scope, backwards.
InScope(scope, name) ==
    LET enum == FoldLeft(LAMBDA b, t : IF Meets(FullName(t), name) THEN Found("enum", t) ELSE b,
                         NotFound, scope.enums)
    IN  FoldLeft(LAMBDA b, t : FirstFound(NameInStruct(t, name), b), enum, scope.structs)

\* getBaseType, lines 52-199, for a type used in `parent`: typedefs are compared by their
\* full name; then the scope of that struct, of those around it, of the header.
RECURSIVE FromScope(_, _)
FromScope(parent, name) ==
    FirstFound(InScope(IF parent = <<>> THEN Project1 ELSE Head(parent), name),
               IF parent = <<>> THEN NotFound
               ELSE FromScope(IF Head(parent).owner = <<>> THEN <<>>
                              ELSE <<InScope(Project1, Head(parent).ns \o Head(parent).owner).type>>, name))

\* Mutation of BaseType: the struct that uses the name is not looked into.
BaseTypeOfHeader(parent, name) ==
    LET full == IF Head(name) = Colons THEN name ELSE <<Colons>> \o name
        td   == Backward(Project1.typedefs, LAMBDA t : FullName(t) = full)
    IN  IF td # 0 THEN Found("typedef", Project1.typedefs[td]) ELSE FromScope(<<>>, name)

\* Lines 61-69 and the scopes.
BaseType(parent, name) ==
    LET full == IF Head(name) = Colons THEN name ELSE <<Colons>> \o name
        td   == Backward(Project1.typedefs, LAMBDA t : FullName(t) = full)
    IN  IF td # 0 THEN Found("typedef", Project1.typedefs[td]) ELSE FromScope(parent, name)

-----------------------------------------------------------------------------
(* Types, CppParser.cpp.                                                   *)

Keywords == {<<"bool">>, <<"char">>, <<"int">>, <<"float">>, <<"double">>, <<"void">>}
StringType == <<"std", Colons, "string">>

\* The assertions of lines 340-371: what must not come before a word.
Excludes(word) ==
    CASE word = <<"long">> -> {<<"short">>, <<"char">>, <<"double">>, <<"float">>}
      [] word = <<"short">> -> {<<"long">>, <<"char">>, <<"double">>, <<"float">>}
      [] word = <<"signed">> -> {<<"unsigned">>}
      [] word = <<"unsigned">> -> {<<"signed">>}
      [] word = <<"char">> -> {<<"short">>, <<"long">>, <<"double">>, <<"float">>}
      [] word = <<"double">> -> {<<"short">>, <<"signed">>, <<"unsigned">>, <<"char">>, <<"int">>}
      [] word = <<"float">> -> {<<"short">>, <<"long">>, <<"signed">>, <<"unsigned">>, <<"char">>, <<"int">>}
      [] word = <<"int">> -> {<<"char">>, <<"double">>, <<"float">>}
      [] OTHER -> {}
LongWords == {<<"long">>, <<"short">>, <<"signed">>, <<"unsigned">>, <<"char">>, <<"double">>,
              <<"float">>, <<"int">>}
Clash(words) == \E i, j \in DOMAIN words : i < j /\ words[i] \in Excludes(words[j])

\* parseCompositeDataType, lines 259-288: a typedef of this namespace or one around it.
TypedefOf(ns, name) ==
    Project1.typedefs # <<>> /\
    \E i \in DOMAIN Project1.typedefs :
        LET td == Project1.typedefs[i]
        IN  /\ td.name = name
            /\ td.ns = ns \/ \E n \in DOMAIN Project1.ns :
                                 Project1.ns[n] = Colons /\ SubSeq(Project1.ns, 1, n) \o ns = td.ns

\* Lines 564-575: what was found for the name.
OfFound(t, name, base) ==
    IF base.found
    THEN [t EXCEPT !.kind = IF base.kind = "struct" THEN "struct" ELSE "enum",
                   !.ns = base.type.ns, !.used = name,
                   !.name = (IF base.type.owner = <<>> THEN <<>> ELSE base.type.owner \o <<Colons>>)
                               \o base.type.name]
    ELSE [t EXCEPT !.name = name, !.ns = Space(name)]

\* getDataType, lines 290-381, and lines 558-576: what a name, or the words of a name, is.
NamedType(t, words, parent) ==
    LET name  == Joined(words)
        plain == SelectSeq(words, LAMBDA w : w # BlankToken)
    IN  CASE words = <<>> -> t
          [] words # <<>> /\ name \in Keywords ->
               [t EXCEPT !.kind = "generic", !.name = name]
          [] words # <<>> /\ name = StringType ->
               [t EXCEPT !.kind = "string", !.name = BareName(name), !.ns = Space(name)]
          [] words # <<>> /\ name \notin Keywords \cup {StringType} /\ TypedefOf(Space(name), BareName(name)) ->
               [t EXCEPT !.kind = "typedef", !.name = BareName(name),
                         !.ns = (CHOOSE td \in ToSet(Project1.typedefs) : td.name = BareName(name)).ns]
          [] words # <<>> /\ ToSet(plain) \subseteq LongWords /\ name \notin Keywords ->
               IF Clash(plain) THEN RefusedType ELSE [t EXCEPT !.kind = "generic", !.name = name]
          [] OTHER ->
               IF Clash(plain) THEN RefusedType
               ELSE OfFound(t, name, FoldLeft(LAMBDA b, n : FirstFound(b, BaseType(parent, n)), NotFound,
                                              <<name, Project1.ns \o name>>))

From(text, i, set) ==
    LET hits == {j \in i..Len(text) : text[j] \in set} IN IF hits = {} THEN 0 ELSE Min(hits)
NotBlank(text, i) ==
    LET hits == {j \in i..Len(text) : text[j] # BlankToken} IN IF hits = {} THEN 0 ELSE Min(hits)

\* The end of the brackets that open before i, lines 434-446.
Closing(text, i) ==
    Min({j \in i..Len(text) :
           Cardinality({k \in i..j : text[k] = <<">">>}) = 1 + Cardinality({k \in i..j : text[k] = <<"<">>})})

\* parseTemplate, lines 422-468: one parameter, which begins there.  Behind a parameter
\* with brackets of its own one token is skipped.
TemplateParam(text, begin) ==
    LET mark == From(text, begin, {<<",">>, <<"<">>, <<">">>})
        stop == IF text[mark] = <<"<">> THEN Closing(text, mark + 1) + 1 ELSE mark
    IN  [token |-> Stripped(SubSeq(text, begin, stop - 1)), next |-> stop + 1, more |-> text[stop] # <<">">>]

\* parseDataType, lines 471-577: word by word; t is the type so far, words its name.
\* Lines 489-511: a word, and the character behind the blanks behind it.
ScannedWord(text, begin) ==
    LET stop  == From(text, begin, {BlankToken, <<"&">>, <<"<">>, <<"*">>})
        first == IF stop = 0 THEN SubSeq(text, begin, Len(text)) ELSE SubSeq(text, begin, stop - 1)
        isStruct == first = <<<<"struct">>>>
        end   == IF stop = 0 \/ isStruct THEN 0 ELSE NotBlank(text, stop)
    IN  [isStruct |-> isStruct, end |-> end,
         tmp |-> IF isStruct THEN Stripped(Tail(text)) ELSE first,      \* lines 510-514
         ch  |-> IF end = 0 THEN BlankToken ELSE text[end]]

RECURSIVE ReadWords(_, _, _, _, _), ReadWord(_, _, _, _, _), ReadTemplate(_, _, _, _)
ParseDataType(text, parent) == ReadWords(text, 1, NoType, <<>>, parent)
ReadTemplate(text, begin, parsed, parent) ==
    LET one == TemplateParam(text, begin)
        all == IF one.token = <<>> THEN parsed ELSE Append(parsed, ParseDataType(one.token, parent))
    IN  IF one.more THEN ReadTemplate(text, one.next, all, parent) ELSE [params |-> all, next |-> one.next]
\* Lines 515-532: behind the brackets of a template.
BehindTemplate(text, w, t, inner, words, parent) ==
    IF \E i \in DOMAIN inner.params : ~inner.params[i].ok THEN RefusedType
    ELSE ReadWords(text, inner.next, [t EXCEPT !.kind = "template", !.name = BareName(Joined(w.tmp)),
                                               !.ns = Space(Joined(w.tmp)), !.params = inner.params],
                   words, parent)
ReadWord(text, w, t, words, parent) ==
    LET isConst == w.tmp = <<<<"const">>>>
        u    == [t EXCEPT !.prefix = IF w.isStruct THEN <<"struct">> ELSE @, !.isRef = @ \/ w.ch = <<"&">>]
        next == IF w.ch = <<"&">> THEN w.end + 1 ELSE IF w.end = 0 THEN Len(text) + 1 ELSE w.end
    IN  IF w.ch = <<"<">>
        THEN BehindTemplate(text, w, u, ReadTemplate(text, w.end + 1, <<>>, parent), words, parent)
        ELSE IF \/ w.ch = <<"*">>
                \/ w.ch = <<"&">> /\ words # <<>>                       \* lines 528-530
                \/ isConst /\ words # <<>>
                \/ w.tmp # <<>> /\ ~isConst /\ t.isRef
        THEN RefusedType
        ELSE ReadWords(text, next, [u EXCEPT !.isConst = @ \/ isConst],
                       IF w.tmp = <<>> \/ isConst THEN words
                       ELSE IF words = <<>> THEN w.tmp ELSE Append(words, BlankToken) \o w.tmp, parent)
ReadWords(text, begin, t, words, parent) ==
    IF begin <= Len(text) THEN ReadWord(text, ScannedWord(text, begin), t, words, parent)
    ELSE IF t.kind = "template" THEN t ELSE NamedType(t, words, parent)

-----------------------------------------------------------------------------
(* dataTypeToString, XmlGen.cpp lines 72-123; blanks where C++ needs them. *)

\* The tokens of a name of several words.
RECURSIVE WordsOf(_), Written(_, _)
WordsOf(name) ==
    LET cut == SelectInSeq(name, LAMBDA c : c = " ")
    IN  IF cut = 0 THEN <<name>>
        ELSE <<SubSeq(name, 1, cut - 1), BlankToken>> \o WordsOf(SubSeq(name, cut + 1, Len(name)))

\* Lines 85-92.
TypeName(t, asUsed) ==
    IF asUsed /\ t.used # <<>> THEN <<t.used>> ELSE WordsOf(t.ns \o t.name)

Written(t, asUsed) ==
    (IF t.isConst THEN <<<<"const">>, BlankToken>> ELSE <<>>)
      \o (IF t.prefix = <<>> THEN <<>> ELSE <<t.prefix, BlankToken>>)
      \o TypeName(t, asUsed)
      \o (IF t.params = <<>> THEN <<>>
          ELSE <<<<"<">>>> \o FlattenSeq([i \in DOMAIN t.params |->
                                  (IF i = 1 THEN <<>> ELSE <<<<",">>, BlankToken>>) \o Written(t.params[i], asUsed)])
                 \o <<<<">">>>>)
      \o (IF t.isRef THEN <<<<"&">>>> ELSE <<>>)
-----------------------------------------------------------------------------
(* What a declaration means: a tree [words, kind, ns, name, used, args,    *)
(* isConst, isRef], how it is spelled, and the type it is.                 *)

RECURSIVE Spelled(_), Means(_)
Spelled(d) ==
    (IF d.isConst THEN <<<<"const">>, BlankToken>> ELSE <<>>)
      \o d.words
      \o (IF d.args = <<>> THEN <<>>
          ELSE <<<<"<">>>> \o FlattenSeq([i \in DOMAIN d.args |->
                                  (IF i = 1 THEN <<>> ELSE <<<<",">>, BlankToken>>) \o Spelled(d.args[i])])
                 \o <<<<">">>>>)
      \o (IF d.isRef THEN <<<<"&">>>> ELSE <<>>)
Means(d) ==
    [NoType EXCEPT !.isConst = d.isConst, !.isRef = d.isRef, !.kind = d.kind, !.ns = d.ns, !.name = d.name,
                   !.used = d.used, !.params = [i \in DOMAIN d.args |-> Means(d.args[i])]]
==============================================================================
