----------------------------- MODULE ProjectTree -----------------------------
(***************************************************************************)
(* The tree of elements that the templates are filled from: XmlGen         *)
(* (src/tools/ngrestcg/src/XmlGen.cpp) writes an interface that CppParser  *)
(* has read, a declaration at a time, an outer one before the ones in it.  *)
(* Options, descriptions and file names are left out.                      *)
(***************************************************************************)
EXTENDS DataTypes

CONSTANTS
    Interfaces     \* what may be declared: [ns, includes, enums, structs, typedefs, services]

VARIABLES
    interface,     \* what has been read
    unwritten,       \* what is still to be written: [kind, decl, in]
    elements,      \* what is written; [kind, in, ...], `in` being the element around it
    generation     \* "read", "writing", "written" or "refused"

projectVars == <<interface, unwritten, elements, generation>>

ProjectStart == unwritten = <<>> /\ elements = <<>> /\ generation = "read"
ProjectInit == interface \in Interfaces /\ ProjectStart

-----------------------------------------------------------------------------

\* CppParser.cpp lines 1572-1588: a parent that is known is named by its own name and its
\* namespace; its owner is left out.
FixedParent(struct, types) ==
    LET found == InScope([structs |-> types, enums |-> <<>>], struct.parentName)
    IN  IF struct.parentName = <<>> \/ ~found.found THEN struct
        ELSE [struct EXCEPT !.parentName = found.type.name, !.parentNs = found.type.ns]

Items(kind, decls, at) == [i \in DOMAIN decls |-> [kind |-> kind, decl |-> decls[i], in |-> at]]

\* The structs on the top level are fixed one after another, and the interface is written.
FixParents ==
    /\ generation = "read"
    /\ interface' = [interface EXCEPT !.structs =
                         FoldLeft(LAMBDA types, i : [types EXCEPT ![i] = FixedParent(@, types)],
                                  @, [i \in DOMAIN @ |-> i])]
    /\ unwritten' = Items("include", interface.includes, 0) \o Items("enum", interface.enums, 0)
                    \o Items("struct", interface'.structs, 0) \o Items("typedef", interface.typedefs, 0)
                    \o Items("service", interface.services, 0)
    /\ generation' = "writing"
    /\ UNCHANGED elements

-----------------------------------------------------------------------------

Unrooted(ns) == IF ns # <<>> /\ Head(ns) = Colons THEN Tail(ns) ELSE ns
Dotted(ns) == [i \in DOMAIN Unrooted(ns) |-> IF Unrooted(ns)[i] = Colons THEN "." ELSE Unrooted(ns)[i]]

\* writeCppNs, lines 237-254: the namespaces that are opened and closed around what is generated.
Opened(ns) ==
    LET bare == Unrooted(ns)
        ends == SetToSortSeq({i \in DOMAIN bare : bare[i] = Colons}, <)
    IN  [k \in DOMAIN ends |-> SubSeq(bare, IF k = 1 THEN 1 ELSE ends[k - 1] + 1, ends[k] - 1)]

\* Lines 179-197: what has no name, and void, is no parameter.
IsParam(param) == param.name # <<>> /\ param.type.name # <<"void">>

\* writeParam, lines 158-177: the value of the list grows by each parameter.
ParamsText(list) ==
    FoldLeft(LAMBDA text, param :
                 IF ~IsParam(param) THEN text
                 ELSE (IF text = <<>> THEN <<>> ELSE text \o <<<<",">>, BlankToken>>)
                        \o Written(param.type, TRUE) \o <<BlankToken, param.name>>,
             <<>>, list)

Next1 == Head(unwritten)
Here == Len(elements) + 1
Element(decl, more) == [kind |-> Next1.kind, in |-> Next1.in, name |-> decl.name, ns |-> decl.ns] @@ more
Write1(element, parts) ==
    /\ elements' = Append(elements, element)
    /\ unwritten' = parts \o Tail(unwritten)
    /\ UNCHANGED <<interface, generation>>
Writing(kind) == generation = "writing" /\ unwritten # <<>> /\ Next1.kind = kind
Refuse ==
    /\ generation' = "refused"
    /\ UNCHANGED <<interface, unwritten, elements>>

\* The assertions of lines 291 and 319.
MayBeWritten(type) == ~type.isForward \/ type.isExtern

\* Lines 256-287.
WriteService ==
    /\ Writing("service")
    /\ LET s == Next1.decl
       IN  Write1(Element(s, [nsName |-> s.ns \o s.name, opened |-> Opened(s.ns), dotted |-> Dotted(s.ns) \o s.name]),
                  Items("operation", s.operations, Here))

\* Lines 199-223.
WriteOperation ==
    /\ Writing("operation")
    /\ LET o == Next1.decl
       IN  Write1([kind |-> "operation", in |-> Next1.in, name |-> o.name, text |-> ParamsText(o.params),
                   returns |-> Written(o.returns, FALSE)],
                  <<>>)

\* Lines 289-315.
WriteEnum ==
    /\ Writing("enum")
    /\ LET e == Next1.decl
       IN  IF MayBeWritten(e)
           THEN Write1(Element(e, [nsName |-> FullName(e), owner |-> e.owner, opened |-> Opened(e.ns)]), <<>>)
           ELSE Refuse

\* Mutation of WithinStruct: what is in the struct goes where the struct goes.
BesideStruct(s) == Items("enum", s.enums, Next1.in) \o Items("struct", s.structs, Next1.in)
\* Lines 353-356.
WithinStruct(s) == Items("enum", s.enums, Here) \o Items("struct", s.structs, Here)

\* Lines 317-359; the parent's own name is what is behind its last colon.
WriteStruct ==
    /\ Writing("struct")
    /\ LET s == Next1.decl
       IN  IF MayBeWritten(s)
           THEN Write1(Element(s, [nsName |-> FullName(s), owner |-> s.owner, opened |-> Opened(s.ns),
                                   parentNsName |-> s.parentNs \o BareName(s.parentName),
                                   text |-> ParamsText(s.fields)]),
                       WithinStruct(s))
           ELSE Refuse

\* Lines 361-383.
WriteTypedef ==
    /\ Writing("typedef")
    /\ LET t == Next1.decl
       IN  Write1(Element(t, [nsName |-> t.ns \o t.name, opened |-> Opened(t.ns), means |-> Written(t.type, FALSE)]), <<>>)

\* Lines 402-415.
WriteInclude ==
    /\ Writing("include")
    /\ LET n == Next1.decl IN Write1(Element(n, [nsName |-> Dotted(n.ns) \o n.name]), <<>>)

\* The end of lines 425-436.
EndProjectTree ==
    /\ generation = "writing" /\ unwritten = <<>>
    /\ generation' = "written"
    /\ UNCHANGED <<interface, unwritten, elements>>

ProjectNext ==
    \/ FixParents \/ EndProjectTree
    \/ WriteInclude \/ WriteEnum \/ WriteStruct \/ WriteTypedef \/ WriteService \/ WriteOperation
ProjectSpec == ProjectInit /\ [][ProjectNext]_projectVars

-----------------------------------------------------------------------------
(* What is declared, and what it is called.                                *)

RECURSIVE WithInner(_)
WithInner(structs) ==
    IF structs = <<>> THEN {}
    ELSE {Head(structs)} \cup ToSet(Head(structs).enums) \cup WithInner(Head(structs).structs) \cup WithInner(Tail(structs))
DeclaredTypes == ToSet(interface.enums) \cup WithInner(interface.structs)
TypeElements == {n \in DOMAIN elements : elements[n].kind \in {"enum", "struct"}}

\* Types; an element is in one that was written before; at the end every type has one.
ProjectTypeOK ==
    /\ generation \in {"read", "writing", "written", "refused"}
    /\ \A n \in DOMAIN elements : elements[n].in < n
    /\ \A i \in DOMAIN unwritten : unwritten[i].in <= Len(elements)
    /\ generation = "written" => Cardinality(TypeElements) = Cardinality(DeclaredTypes)

\* A type is found under its name: an inner type is in the element of the struct that its
\* name says, and no two types have one name; the namespaces that are opened for a type or
\* a service spell its namespace.
Spells(opened) == FlattenSeq([k \in DOMAIN opened |-> Append(opened[k], Colons)])
FoundUnderItsName ==
    /\ \A n \in TypeElements :
           /\ elements[n].owner # <<>> =>
                  elements[n].in # 0 /\ elements[elements[n].in].nsName = elements[n].ns \o elements[n].owner
           /\ \A m \in TypeElements : elements[m].nsName = elements[n].nsName => m = n
    /\ \A n \in DOMAIN elements :
           elements[n].kind \in {"enum", "struct", "typedef", "service"} =>
               Spells(elements[n].opened) = Unrooted(elements[n].ns)

\* Nothing is generated for a type that was only declared, wherever it is declared, and
\* nothing else is refused.
OnlyWholeTypes ==
    /\ generation = "written" => \A t \in DeclaredTypes : ~t.isForward \/ t.isExtern
    /\ generation = "refused" => \E t \in DeclaredTypes : t.isForward /\ ~t.isExtern

\* The text of a list of parameters, taken apart at its commas and read as the parser reads
\* types, gives the parameters and fields again.
OutOfBrackets(text, i) == Cardinality({k \in 1..i : text[k] = <<"<">>}) = Cardinality({k \in 1..i : text[k] = <<">">>})
RECURSIVE ReadBack(_)
ReadBack(text) ==
    LET commas == {i \in DOMAIN text : text[i] = <<",">> /\ OutOfBrackets(text, i)}
        end    == IF commas = {} THEN Len(text) + 1 ELSE Min(commas)
        one    == Stripped(SubSeq(text, 1, end - 1))
    IN  IF text = <<>> THEN <<>>
        ELSE <<[type |-> ParseDataType(SubSeq(one, 1, Len(one) - 2), <<>>), name |-> one[Len(one)]]>>
               \o ReadBack(SubSeq(text, end + 1, Len(text)))
TextIsTheParameters ==
    \A n \in DOMAIN elements :
        elements[n].kind = "operation" =>
            LET service == CHOOSE s \in ToSet(interface.services) : s.ns \o s.name = elements[elements[n].in].nsName
                declared == CHOOSE o \in ToSet(service.operations) : o.name = elements[n].name
            IN  ReadBack(elements[n].text) = SelectSeq(declared.params, IsParam)

\* The parent of a struct, where the struct and its parent are not in others, is named as
\* its element is; `extends` is the parent the declaration means.
ParentName(n) == elements[n].parentNsName
NamesParents(which(_, _)) ==
    \A n \in TypeElements :
        elements[n].kind = "struct" =>
            LET struct == CHOOSE s \in DeclaredTypes : FullName(s) = elements[n].nsName
            IN  which(struct, struct.extends) => ParentName(n) = struct.extends
ParentsAreNamed ==
    NamesParents(LAMBDA struct, base : struct.owner = <<>> /\ \E s \in ToSet(interface.structs) : FullName(s) = base)

\* The tree says what was declared: each type in its place, under its name, with its
\* parent, and each operation with its parameters.
TreeSaysDeclared ==
    ProjectTypeOK /\ FoundUnderItsName /\ OnlyWholeTypes /\ TextIsTheParameters /\ ParentsAreNamed

\* The same of every struct; not so: the owner of a parent is lost.
ParentsAreNamedAlways == NamesParents(LAMBDA struct, base : TRUE)
==============================================================================
