---------------------------- MODULE HeaderIncludes ----------------------------
(***************************************************************************)
(* The headers of a project that CppParser reads                           *)
(* (src/tools/parsers/cpp/src/CppParser.cpp): a parser for each, the       *)
(* parsers for included headers within those for the ones that include     *)
(* them, and the structs that are imported from one into the other.  What  *)
(* XmlGen (ngrestcg/src/XmlGen.cpp) needs of them is stated as properties. *)
(***************************************************************************)
EXTENDS Naturals, SequencesExt

CONSTANTS
    Projects,      \* what the headers have: functions from a header to its declarations
                   \* [k |-> "include" | "forward" | "struct" | "field", of]
    Files          \* the headers given on the command line, in this order

\* The names of headers and of structs in a project.
Mentioned(c) == UNION {{c[f][i].of : i \in DOMAIN c[f]} : f \in DOMAIN c}

\* What a header includes is there; the tool ends with an error when it is not
\* (line 1497).
ASSUME IncludesAssumption ==
    \A c \in Projects :
        /\ Files \in Seq(DOMAIN c)
        /\ \A f \in DOMAIN c :
            /\ c[f] \in Seq([k : {"include", "forward", "struct", "field"}, of : Mentioned(c)])
            /\ \A i \in DOMAIN c[f] : c[f][i].k = "include" => c[f][i].of \in DOMAIN c

VARIABLES
    contents,      \* the project that is read
    given,         \* what is left of the headers on the command line
    interfaces,    \* Project::interfaces: [file, structs, includes, unknown]
    parsers,       \* the parsers at work: [file, left, interface]
    progress

includeVars == <<contents, given, interfaces, parsers, progress>>

NewInterface(file) == [file |-> file, structs |-> <<>>, includes |-> <<>>, unknown |-> {}]

IncludeStart ==
    /\ given = Files
    /\ interfaces = <<>> /\ parsers = <<>>
    /\ progress = "parsing"
IncludeInit == contents \in Projects /\ IncludeStart

-----------------------------------------------------------------------------
Listed(file) == \E i \in DOMAIN interfaces : interfaces[i].file = file
IndexOf(file) == CHOOSE i \in DOMAIN interfaces : interfaces[i].file = file
Parser == Last(parsers)
Decl == Head(Parser.left)
WithInterface(interface) ==
    Append(Front(parsers), [Parser EXCEPT !.left = Tail(@), !.interface = interface])

\* Lines 1472-1498: the interface is in the project, with no more than its name,
\* before the header is read.
Starting(file) == [file |-> file, left |-> contents[file], interface |-> NewInterface(file)]

\* Mutation of Imported: what was imported there is not.
ImportedOwn(structs) ==
    LET own == SelectSeq(structs, LAMBDA s : ~s.extern)
    IN  [i \in DOMAIN own |-> [name |-> own[i].name, extern |-> TRUE, forward |-> TRUE]]

\* importStruct, lines 1151-1171: that it has been declared in full is not taken over.
Imported(structs) ==
    [i \in DOMAIN structs |-> [name |-> structs[i].name, extern |-> TRUE, forward |-> TRUE]]

\* Lines 1616-1621.
ParseGiven ==
    /\ progress = "parsing" /\ parsers = <<>> /\ given # <<>>
    /\ given' = Tail(given)
    /\ IF Listed(Head(given)) THEN UNCHANGED <<interfaces, parsers>>
       ELSE /\ parsers' = <<Starting(Head(given))>>
            /\ interfaces' = Append(interfaces, NewInterface(Head(given)))
    /\ UNCHANGED <<contents, progress>>

\* Lines 1178-1187: another parser reads the header that is included.
IncludeNew ==
    /\ progress = "parsing" /\ parsers # <<>> /\ Parser.left # <<>> /\ Decl.k = "include"
    /\ ~Listed(Decl.of)
    /\ parsers' = Append(parsers, Starting(Decl.of))
    /\ interfaces' = Append(interfaces, NewInterface(Decl.of))
    /\ UNCHANGED <<contents, given, progress>>

\* Lines 1189-1212 and 1484-1488: one that has been read, or is being read, is imported
\* as far as the project has it.
Import ==
    /\ progress = "parsing" /\ parsers # <<>> /\ Parser.left # <<>> /\ Decl.k = "include"
    /\ Listed(Decl.of)
    /\ parsers' = WithInterface([Parser.interface EXCEPT
                      !.structs = @ \o Imported(interfaces[IndexOf(Decl.of)].structs),
                      !.includes = Append(@, Decl.of)])
    /\ UNCHANGED <<contents, given, interfaces, progress>>

\* typeInList, tools.h lines 76-90: the first of that name, or a new one.
InList(structs, name) == \E i \in DOMAIN structs : structs[i].name = name
FirstOf(structs, name) == SelectInSeq(structs, LAMBDA s : s.name = name)
NamedTypes(structs, name) ==
    IF InList(structs, name) THEN structs
    ELSE Append(structs, [name |-> name, extern |-> FALSE, forward |-> TRUE])

\* Lines 1376-1380 and 842-847.
DeclareForward ==
    /\ progress = "parsing" /\ parsers # <<>> /\ Parser.left # <<>> /\ Decl.k = "forward"
    /\ parsers' = WithInterface([Parser.interface EXCEPT !.structs = NamedTypes(@, Decl.of)])
    /\ UNCHANGED <<contents, given, interfaces, progress>>

DefineStruct ==
    /\ progress = "parsing" /\ parsers # <<>> /\ Parser.left # <<>> /\ Decl.k = "struct"
    /\ LET structs == NamedTypes(Parser.interface.structs, Decl.of)
           at      == FirstOf(structs, Decl.of)
       IN  IF structs[at].forward
           THEN /\ parsers' = WithInterface([Parser.interface EXCEPT
                                  !.structs = [structs EXCEPT ![at].forward = FALSE]])
                /\ UNCHANGED progress
           ELSE progress' = "duplicate" /\ UNCHANGED parsers
    /\ UNCHANGED <<contents, given, interfaces>>

\* Lines 558-576: a field of a type that is not in the list is of an unknown one.
UseType ==
    /\ progress = "parsing" /\ parsers # <<>> /\ Parser.left # <<>> /\ Decl.k = "field"
    /\ parsers' = WithInterface([Parser.interface EXCEPT
                      !.unknown = IF InList(Parser.interface.structs, Decl.of) THEN @ ELSE @ \cup {Decl.of}])
    /\ UNCHANGED <<contents, given, interfaces, progress>>

\* Mutation of EndHeader: the end of the file does not end the loop.
EndHeaderStays ==
    /\ progress = "parsing" /\ parsers # <<>> /\ Parser.left = <<>>
    /\ interfaces' = [interfaces EXCEPT ![IndexOf(Parser.file)] = Parser.interface]
    /\ UNCHANGED <<contents, given, parsers, progress>>

\* Lines 1552-1553 and 1569.
EndHeader ==
    /\ progress = "parsing" /\ parsers # <<>> /\ Parser.left = <<>>
    /\ interfaces' = [interfaces EXCEPT ![IndexOf(Parser.file)] = Parser.interface]
    /\ parsers' = Front(parsers)
    /\ UNCHANGED <<contents, given, progress>>

EndProject ==
    /\ progress = "parsing" /\ parsers = <<>> /\ given = <<>>
    /\ progress' = "parsed"
    /\ UNCHANGED <<contents, given, interfaces, parsers>>

ProjectRead == progress # "parsing" /\ UNCHANGED includeVars

IncludeNext ==
    \/ ParseGiven \/ IncludeNew \/ Import \/ DeclareForward \/ DefineStruct \/ UseType
    \/ EndHeader \/ EndProject \/ ProjectRead

IncludeSpec == IncludeInit /\ [][IncludeNext]_includeVars

-----------------------------------------------------------------------------
\* What a header includes; the headers whose text is part of that of a header, by
\* includes: those in every set that has what it includes and what they include.
IncludedIn(c, f) == {c[f][i].of : i \in {j \in DOMAIN c[f] : c[f][j].k = "include"}}
ClosedUnderIncludes(c, headers) == \A f \in headers : IncludedIn(c, f) \subseteq headers
Reached(c, f) ==
    {g \in DOMAIN c : \A headers \in SUBSET DOMAIN c :
        IncludedIn(c, f) \subseteq headers /\ ClosedUnderIncludes(c, headers) => g \in headers}
Cyclic(c, f) == \E g \in Reached(c, f) \cup {f} : g \in Reached(c, g)

\* The structs that a header declares in full.
Defined(c, f) == {c[f][i].of : i \in {j \in DOMAIN c[f] : c[f][j].k = "struct"}}

\* What C++ asks of a header: what declares a type is included before it is used.
DeclaredBeforeUse(c) ==
    \A f \in DOMAIN c : \A g \in Reached(c, f) :
        \A j \in DOMAIN c[f] : c[f][j].k = "field" /\ c[f][j].of \in Defined(c, g) =>
            \E i \in 1 .. j - 1 : /\ c[f][i].k = "include"
                                  /\ g \in Reached(c, c[f][i].of) \cup {c[f][i].of}

\* Types; a header that is read is in the project.
IncludeTypeOK ==
    /\ progress \in {"parsing", "parsed", "duplicate"}
    /\ \A i \in DOMAIN parsers : Listed(parsers[i].file)
    /\ progress = "parsed" => parsers = <<>> /\ \A i \in DOMAIN Files : Listed(Files[i])

\* No header is parsed twice, however it is included, or by two parsers at a time.
ParsedOnce ==
    /\ \A i, j \in DOMAIN interfaces : interfaces[i].file = interfaces[j].file => i = j
    /\ \A i, j \in DOMAIN parsers : parsers[i].file = parsers[j].file => i = j

\* A struct that is declared in a header, or in one that it includes, at whatever
\* depth, is known behind the include.
KnowsWhatIsIncluded ==
    progress = "parsed" =>
        \A i \in DOMAIN interfaces :
            LET file == interfaces[i].file IN
            ~Cyclic(contents, file) =>
                \A g \in Reached(contents, file) :
                    interfaces[i].unknown \cap Defined(contents, g) = {}

\* A project is read whole and once, whatever its headers include.
IncludesInv == IncludeTypeOK /\ ParsedOnce /\ KnowsWhatIsIncluded

\* "imported from other interface" (Interface.h line 105): what a header declares in
\* full is not.  Nothing is generated for a struct that is.
OwnIsNotExtern ==
    progress = "parsed" =>
        \A i \in DOMAIN interfaces : \A d \in DOMAIN contents[interfaces[i].file] :
            LET decl == contents[interfaces[i].file][d] IN
            decl.k = "struct" =>
                ~interfaces[i].structs[FirstOf(interfaces[i].structs, decl.of)].extern

\* "find existing or add new type in list" (tools.h line 70).
ListedOnce ==
    progress = "parsed" =>
        \A i \in DOMAIN interfaces :
            \A s, t \in DOMAIN interfaces[i].structs :
                interfaces[i].structs[s].name = interfaces[i].structs[t].name => s = t

\* The assertion of XmlGen.cpp lines 319-320.
FullyDeclared ==
    progress = "parsed" =>
        \A i \in DOMAIN interfaces : \A s \in DOMAIN interfaces[i].structs :
            ~interfaces[i].structs[s].forward \/ interfaces[i].structs[s].extern
==============================================================================
