----------------------------- MODULE HeaderParser -----------------------------
(***************************************************************************)
(* The declarations that CppParser reads from a header                     *)
(* (src/tools/parsers/cpp/src/CppParser.cpp): services, structs, enums and *)
(* typedefs, each with the comments in front of it and behind it, which    *)
(* the generated code depends on: an option such as the method or the      *)
(* location of an operation is given by a comment.                         *)
(*                                                                         *)
(* A header is a sequence of symbols: words, ends of lines and comments;   *)
(* what stands for a parameter or a type is one word.                      *)
(***************************************************************************)
EXTENDS Naturals, Sequences, SequencesExt

CONSTANTS
    Headers,       \* headers: [text, says], what is written and what it declares
    BeginsWith,    \* the pairs of names of which the second begins with the first
    OptionParam    \* the parameter an option is for (its name is "param-..."), or "none"

VARIABLES
    header,        \* the header that is read
    source,        \* what is left of it
    open,          \* the blocks and declarations the parser is in, with what it has of them
    pending,       \* [docs, options]: the comments in front of what follows
    found,         \* [services, structs, enums, typedefs]: Interface
    status

headerVars == <<header, source, open, pending, found, status>>

-----------------------------------------------------------------------------
(* Symbols.                                                                *)

Sym(t, v) == [t |-> t, v |-> v]
Word(v) == Sym("word", v)
Eol == Sym("eol", "")
LineComments == {"note", "doc", "descr", "option", "ignore", "ignoreEnd"}

\* What s is from the first symbol on that is not like that.
Skip(s, Like(_)) ==
    LET i == SelectInSeq(s, LAMBDA x : ~Like(x)) IN IF i = 0 THEN <<>> ELSE SubSeq(s, i, Len(s))
\* What s is behind the first symbol that is like that.
Behind(s, Like(_)) ==
    LET i == SelectInSeq(s, Like) IN IF i = 0 THEN <<>> ELSE SubSeq(s, i + 1, Len(s))
Upto(s, Like(_)) == SubSeq(s, 1, SelectInSeq(s, Like) - 1)
Is(s, v) == s # <<>> /\ Head(s) = Word(v)

\* skipWsOnly and skipWs, lines 46-98; both look at the end of the file, too.
SkipEols(s) == Skip(s, LAMBDA x : x = Eol)
SkipWs(s) == Skip(s, LAMBDA x : x = Eol \/ x.t \in LineComments)

\* skipSingleLineComment, lines 112-133, and the end of readDescrComment, lines 162-192.
SkipLineComment(s) ==
    IF s # <<>> /\ Head(s).t \in LineComments THEN Behind(s, LAMBDA x : x = Eol) ELSE s
Descr(s) == IF s # <<>> /\ Head(s).t = "descr" THEN <<Head(s).v>> ELSE <<>>

\* checkIgnoreMetacomment, lines 234-257.
BehindIgnored(s) == Behind(s, LAMBDA x : x.t = "ignoreEnd")

\* ignoreFunction, lines 383-420: up to a semicolon or over a block in brackets.
\* What reads a line that begins with a number sign (lines 406-408) does not see
\* its end, because the stream skips blanks.
RECURSIVE Ignored(_, _)
Ignored(s, depth) ==
    LET rest == SkipWs(s) IN
    IF rest = <<>> \/ Head(rest).t = "hash" THEN <<>>
    ELSE IF Is(rest, ";") /\ depth = 0 THEN SkipLineComment(Tail(rest))
    ELSE IF Is(rest, "}") /\ depth = 1 THEN Skip(Tail(rest), LAMBDA x : x = Word(";"))
    ELSE Ignored(Tail(rest), IF Is(rest, "{") THEN depth + 1
                             ELSE IF Is(rest, "}") THEN depth - 1 ELSE depth)

-----------------------------------------------------------------------------
(* Where the parser is.                                                    *)

NoComments == [docs |-> <<>>, options |-> <<>>]

HeaderStart ==
    /\ source = header.text
    /\ open = <<>>
    /\ pending = NoComments
    /\ found = [services |-> <<>>, structs |-> <<>>, enums |-> <<>>, typedefs |-> <<>>]
    /\ status = "reading"
HeaderInit == header \in Headers /\ HeaderStart

Reading == status = "reading" /\ UNCHANGED header
In == SkipEols(source)
Within == IF open = <<>> THEN "file" ELSE Last(open).k
Node == Last(open).node
InBlock == Within \in {"file", "namespace"}
CurrentNs == [i \in DOMAIN SelectSeq(open, LAMBDA f : f.k = "namespace") |->
                 SelectSeq(open, LAMBDA f : f.k = "namespace")[i].node]
OwnerName == [i \in DOMAIN SelectSeq(open, LAMBDA f : f.k = "struct") |->
                 SelectSeq(open, LAMBDA f : f.k = "struct")[i].node.name]

Goes(rest) == source' = rest /\ UNCHANGED status
Refused == status' = "refused" /\ UNCHANGED source
InNode(node) == open' = [open EXCEPT ![Len(open)].node = node]
Forgets == pending' = NoComments

\* Lines 1230-1266, 739-769, 876-899 and 1060-1079.  A struct keeps the last
\* description for a field, and an enum none for a member.
ReadComment ==
    /\ Reading /\ In # <<>> /\ Head(In).t \in LineComments
    /\ LET c == Head(In) IN
       /\ Goes(IF c.t = "ignore" THEN BehindIgnored(In) ELSE Tail(In))
       /\ pending' = CASE c.t = "option" /\ Within # "enum" -> [pending EXCEPT !.options = Append(@, c.v)]
                       [] c.t \in {"doc", "descr"} /\ Within = "struct" -> [pending EXCEPT !.docs = <<c.v>>]
                       [] c.t \in {"doc", "descr"} /\ Within # "struct" /\ Within # "enum" ->
                              [pending EXCEPT !.docs = Append(@, c.v)]
                       [] OTHER -> pending
    /\ UNCHANGED <<open, found>>

-----------------------------------------------------------------------------
(* Blocks: parseHeader, parseBracketedBlock and parseHeaderBlock.          *)

\* Lines 1268-1272 and 1411-1420.
Preprocessor ==
    /\ Reading /\ InBlock /\ In # <<>> /\ Head(In).t = "hash"
    /\ Goes(Behind(In, LAMBDA x : x = Eol)) /\ Forgets
    /\ UNCHANGED <<open, found>>

\* Lines 1403-1411, 1422-1428.
EnterNamespace ==
    /\ Reading /\ InBlock /\ Is(In, "namespace")
    /\ open' = Append(open, [k |-> "namespace", node |-> In[2].v])
    /\ Goes(SubSeq(In, 4, Len(In))) /\ Forgets
    /\ UNCHANGED found

\* Lines 1274-1275 and 1437-1440.
LeaveNamespace ==
    /\ Reading /\ Within = "namespace" /\ Is(In, "}")
    /\ open' = Front(open)
    /\ Goes(Tail(In)) /\ Forgets
    /\ UNCHANGED found

\* Lines 1413-1414: what a forward declaration has left, too.
Semicolon ==
    /\ Reading /\ InBlock /\ Is(In, ";")
    /\ Goes(SkipLineComment(Tail(In))) /\ Forgets
    /\ UNCHANGED <<open, found>>

\* Lines 1279-1280 and 1457; within a block, line 1450.
EndOfFile ==
    /\ Reading /\ In = <<>>
    /\ status' = IF Within = "file" THEN "done" ELSE "refused"
    /\ UNCHANGED <<source, open, pending, found>>

IsService == In[3] = Word(":") /\ In[4] = Word("public") /\ In[5] = Word("Service")

\* Lines 1304-1332: a class that is declared, or is no service.
ForwardClass ==
    /\ Reading /\ InBlock /\ Is(In, "class") /\ In[3] = Word(";")
    /\ Goes(SubSeq(In, 4, Len(In))) /\ Forgets
    /\ UNCHANGED <<open, found>>

OtherClass ==
    /\ Reading /\ InBlock /\ Is(In, "class") /\ In[3] # Word(";") /\ ~IsService
    /\ Goes(Ignored(Skip(In, LAMBDA x : x # Word("{")), 0)) /\ Forgets
    /\ UNCHANGED <<open, found>>

\* Lines 1388-1402: a typedef takes the description behind it, not the one in front.
ReadTypedef ==
    /\ Reading /\ InBlock /\ Is(In, "typedef")
    /\ LET words == Upto(In, LAMBDA x : x = Word(";"))
           rest  == Behind(In, LAMBDA x : x = Word(";"))
       IN  /\ found' = [found EXCEPT !.typedefs =
                  Append(@, [name |-> Last(words).v, ns |-> CurrentNs,
                             docs |-> Descr(rest), options |-> pending.options])]
           /\ Goes(SkipLineComment(rest))
    /\ Forgets /\ UNCHANGED open

-----------------------------------------------------------------------------
(* Services: parseService and parseOperation.                              *)

\* Lines 1282-1339.
EnterService ==
    /\ Reading /\ InBlock /\ Is(In, "class") /\ In[3] # Word(";") /\ IsService
    /\ open' = Append(open, [k |-> "service",
                   node |-> [name |-> In[2].v, ns |-> CurrentNs, docs |-> pending.docs,
                             options |-> pending.options, operations |-> <<>>]])
    /\ Goes(Behind(In, LAMBDA x : x = Word("{"))) /\ Forgets
    /\ UNCHANGED found

\* Lines 771-775 and 1340-1350.
LeaveService ==
    /\ Reading /\ Within = "service" /\ Is(In, "}")
    /\ found' = [found EXCEPT !.services = Append(@, Node)]
    /\ open' = Front(open)
    /\ Goes(SkipLineComment(Tail(SkipWs(Tail(In))))) /\ Forgets

\* Lines 779-781: what has been read in front of it is lost.
Access ==
    /\ Reading /\ Within = "service" /\ Is(In, "public:")
    /\ Goes(Tail(In)) /\ Forgets
    /\ UNCHANGED <<open, found>>

\* Lines 782-795: a constructor is what begins with the name of the service.
Construction ==
    /\ In # <<>>
    /\ \/ In[1].t = "word" /\ <<Node.name, In[1].v>> \in BeginsWith
       \/ In[1] = Sym("dtor", Node.name)
       \/ In[1] = Word("enum")

IgnoredMember ==
    /\ Reading /\ Within = "service" /\ Construction
    /\ Goes(Ignored(Tail(In), 0)) /\ Forgets
    /\ UNCHANGED <<open, found>>

\* Mutation of OperationOptions: an option for a parameter is for each of them.
OperationOptionsAll(name) ==
    SelectSeq(pending.options, LAMBDA o : OptionParam[o] # "none")

\* Lines 799-820.
OperationOptions(name) == SelectSeq(pending.options, LAMBDA o : OptionParam[o] = name)

\* Lines 627-720 and 796-822.  What follows const is read up to a semicolon
\* (lines 706-714), and a comment is skipped once more behind an operation (line 719).
Operation ==
    /\ Reading /\ Within = "service" /\ In # <<>> /\ In[1].t = "word"
    /\ ~Construction /\ ~Is(In, "}") /\ ~Is(In, "public:")
    /\ LET words  == Upto(In, LAMBDA x : x = Word("("))
           inside == Upto(Behind(In, LAMBDA x : x = Word("(")), LAMBDA x : x = Word(")"))
           params == SelectSeq(inside, LAMBDA x : x # Word(","))
           rest   == SkipWs(Behind(In, LAMBDA x : x = Word(")")))
       IN  /\ InNode([Node EXCEPT !.operations =
                  Append(@, [name |-> Last(words).v, docs |-> pending.docs, options |-> pending.options,
                             params |-> [i \in DOMAIN params |->
                                            [name |-> params[i].v, options |-> OperationOptions(params[i].v)]],
                             isConst |-> Is(rest, "const") /\ rest[2] = Word(";"),
                             isAsynch |-> \E i \in DOMAIN params : params[i].t = "callback"])])
           /\ Goes(SkipLineComment(IF Is(rest, "const") THEN Behind(rest, LAMBDA x : x = Word(";"))
                                   ELSE Ignored(rest, 0)))
    /\ Forgets /\ UNCHANGED found

-----------------------------------------------------------------------------
(* Structs and enums: they are in the list of the struct or file around.   *)

\* typeInList, tools.h lines 76-90.
TypeInList(list, fresh) ==
    IF \E i \in DOMAIN list : list[i].name = fresh.name /\ list[i].ns = fresh.ns
    THEN list[CHOOSE i \in DOMAIN list : list[i].name = fresh.name /\ list[i].ns = fresh.ns]
    ELSE fresh
WithType(list, node) ==
    IF \E i \in DOMAIN list : list[i].name = node.name /\ list[i].ns = node.ns
    THEN [i \in DOMAIN list |-> IF list[i].name = node.name /\ list[i].ns = node.ns THEN node ELSE list[i]]
    ELSE Append(list, node)

ListOf(kind) == IF Within = "struct" THEN Node[kind] ELSE found[kind]
InStruct(frames) == frames # <<>> /\ Last(frames).k = "struct"
FramesWith(frames, kind, node) ==
    IF InStruct(frames) THEN [frames EXCEPT ![Len(frames)].node[kind] = WithType(@, node)] ELSE frames
FoundWith(frames, kind, node) ==
    IF InStruct(frames) THEN found ELSE [found EXCEPT ![kind] = WithType(@, node)]

FreshStruct(name) ==
    [name |-> name, ns |-> CurrentNs, owner |-> OwnerName, forward |-> TRUE, parent |-> "", docs |-> <<>>,
     options |-> <<>>, fields |-> <<>>, structs |-> <<>>, enums |-> <<>>, virtualDtor |-> FALSE]
FreshEnum(name) ==
    [name |-> name, ns |-> CurrentNs, owner |-> OwnerName, forward |-> TRUE, docs |-> <<>>,
     options |-> <<>>, members |-> <<>>]

\* insert, lines 948 and 1378: an option that is there already stays.
Inserted(options, more) == options \o SelectSeq(more, LAMBDA o : o \notin ToSet(options))

\* The type that is named in front, whatever follows its name.
NamedStruct == LET known == TypeInList(ListOf("structs"), FreshStruct(In[2].v))
               IN  [known EXCEPT !.options = Inserted(@, pending.options)]
EnumName == IF In[2] = Word("class") THEN 3 ELSE 2
NamedEnum == TypeInList(ListOf("enums"), FreshEnum(In[EnumName].v))

\* Lines 842-845 and 1044-1047: the semicolon is put back.  Within a struct it is
\* read as a field that has no name then (line 987).
ForwardType ==
    /\ Reading /\ Within # "service" /\ Within # "enum"
    /\ \E kind \in {"structs", "enums"} :
          LET at   == IF kind = "enums" THEN EnumName ELSE 2
              node == IF kind = "enums" THEN NamedEnum ELSE NamedStruct
          IN  /\ Is(In, IF kind = "enums" THEN "enum" ELSE "struct") /\ In[at + 1] = Word(";")
              /\ found' = FoundWith(open, kind, node)
              /\ open' = FramesWith(open, kind, node)
              /\ IF Within = "struct" THEN Refused ELSE Goes(SubSeq(In, at + 1, Len(In)))
    /\ Forgets

\* Lines 927-955, 1371-1384 and 835-870.
EnterStruct ==
    /\ Reading /\ Within # "service" /\ Within # "enum"
    /\ Is(In, "struct") /\ In[3] \in {Word("{"), Word(":")}
    /\ LET node == [NamedStruct EXCEPT !.forward = FALSE, !.docs = pending.docs,
                        !.parent = IF In[3] = Word(":") THEN In[5].v ELSE @]
       IN  IF ~NamedStruct.forward THEN Refused /\ UNCHANGED <<open, found>>
           ELSE /\ found' = FoundWith(open, "structs", node)
                /\ open' = Append(FramesWith(open, "structs", node), [k |-> "struct", node |-> node])
                /\ Goes(Behind(In, LAMBDA x : x = Word("{")))
    /\ Forgets

\* What is read up to a semicolon, the end of the struct or an opening bracket.
Declarator == Upto(In, LAMBDA x : x \in {Word(";"), Word("}"), Word("(")})
NamesType == Is(In, "enum") \/ (Is(In, "struct") /\ In[3] \in {Word(";"), Word(":"), Word("{")})

\* Lines 957-1008.
ReadField ==
    /\ Reading /\ Within = "struct" /\ ~NamesType /\ Declarator # <<>>
    /\ In[1].t \notin LineComments
    /\ LET rest == SubSeq(In, Len(Declarator) + 2, Len(In)) IN
       /\ In[Len(Declarator) + 1] = Word(";")
       /\ InNode([Node EXCEPT !.fields =
              Append(@, [name |-> Last(Declarator).v, options |-> pending.options,
                         docs |-> IF Descr(rest) # <<>> THEN Descr(rest) ELSE pending.docs])])
       /\ Goes(SkipLineComment(rest))
    /\ Forgets /\ UNCHANGED found

\* Lines 976-982 and 1013-1014.
IgnoredMethod ==
    /\ Reading /\ Within = "struct" /\ ~NamesType /\ Declarator # <<>>
    /\ In[1].t \notin LineComments
    /\ In[Len(Declarator) + 1] = Word("(")
    /\ InNode([Node EXCEPT !.virtualDtor = @ \/ Declarator = <<Word("virtual"), Sym("dtor", Node.name)>>])
    /\ Goes(Ignored(SubSeq(In, Len(Declarator) + 1, Len(In)), 0))
    /\ Forgets /\ UNCHANGED found

\* Lines 966-971 and 1017-1029, and what has been declared is in the list.
LeaveStruct ==
    /\ Reading /\ Within = "struct" /\ Is(In, "}")
    /\ LET outer == Front(open) IN
       /\ found' = FoundWith(outer, "structs", Node)
       /\ open' = FramesWith(outer, "structs", Node)
    /\ IF "abstract" \in ToSet(Node.options) /\ ~Node.virtualDtor THEN Refused
       ELSE Goes(SkipLineComment(Tail(SkipEols(Tail(In)))))
    /\ Forgets

\* Lines 906-924, 1351-1367 and 1032-1054.
EnterEnum ==
    /\ Reading /\ Within # "service" /\ Within # "enum"
    /\ Is(In, "enum") /\ In[EnumName + 1] = Word("{")
    /\ LET node == [NamedEnum EXCEPT !.forward = FALSE, !.docs = pending.docs, !.options = pending.options]
       IN  IF ~NamedEnum.forward THEN Refused /\ UNCHANGED <<open, found>>
           ELSE /\ found' = FoundWith(open, "enums", node)
                /\ open' = Append(FramesWith(open, "enums", node), [k |-> "enum", node |-> node])
                /\ Goes(SubSeq(In, EnumName + 2, Len(In)))
    /\ Forgets

Described(members, descr) ==
    IF members = <<>> \/ descr = <<>> THEN members ELSE [members EXCEPT ![Len(members)].docs = descr]

\* Lines 1081-1111.  What is described behind a value goes to the member that is
\* the last then: the one before, if there is one (lines 1090-1092).
ReadMember ==
    /\ Reading /\ Within = "enum" /\ In # <<>> /\ In[1].t = "word" /\ ~Is(In, "}")
    /\ LET behind == SkipWs(Tail(In))
           valued == Is(behind, "=")
           value  == SkipWs(Tail(behind))
           ending == SkipEols(Tail(value))
           before == IF valued THEN Described(Node.members, Descr(ending)) ELSE Node.members
           after  == IF valued THEN SkipWs(ending) ELSE behind
           all    == Append(before, [name |-> In[1].v, docs |-> <<>>,
                                     value |-> IF valued THEN value[1].v ELSE ""])
       IN  IF Is(after, ",")
           THEN /\ InNode([Node EXCEPT !.members = Described(all, Descr(Tail(after)))])
                /\ Goes(SkipLineComment(Tail(after)))
           ELSE /\ Is(after, "}")
                /\ InNode([Node EXCEPT !.members = all]) /\ Goes(after)
    /\ Forgets /\ UNCHANGED found

\* Lines 1100-1103, 1113-1117.
LeaveEnum ==
    /\ Reading /\ Within = "enum" /\ Is(In, "}")
    /\ LET outer == Front(open) IN
       /\ found' = FoundWith(outer, "enums", Node)
       /\ open' = FramesWith(outer, "enums", Node)
    /\ Goes(SkipLineComment(Tail(SkipEols(Tail(In))))) /\ Forgets

\* The parser has returned, or thrown.
HeaderRead == status # "reading" /\ UNCHANGED headerVars

HeaderNext ==
    \/ ReadComment \/ Preprocessor \/ EnterNamespace \/ LeaveNamespace \/ Semicolon \/ EndOfFile
    \/ ForwardClass \/ OtherClass \/ ReadTypedef
    \/ EnterService \/ LeaveService \/ Access \/ IgnoredMember \/ Operation
    \/ ForwardType \/ EnterStruct \/ ReadField \/ IgnoredMethod \/ LeaveStruct
    \/ EnterEnum \/ ReadMember \/ LeaveEnum
    \/ HeaderRead

HeaderSpec == HeaderInit /\ [][HeaderNext]_headerVars

-----------------------------------------------------------------------------
\* Types; what is open when the header has been read.
HeaderTypeOK ==
    /\ status \in {"reading", "done", "refused"}
    /\ status = "done" => open = <<>>
    /\ \A i \in DOMAIN found.structs : found.structs[i].forward => found.structs[i].fields = <<>>

\* Each declaration is found with the comments that are its own: an option,
\* a description or a parameter's option neither gets lost nor goes to another.
SaysWhatIsWritten == status = "done" => found = header.says

\* The parser does not go back and is not kept in a place: each step takes
\* something from the header, so that it is read to its end, or refused.
HeaderAdvances == [][Len(source') < Len(source) \/ status' # status]_headerVars

\* What is declared twice is refused, and so is an abstract struct without a virtual
\* destructor or a namespace that is not closed (lines 847, 1025, 1048, 1450), but
\* nothing else.
RefusesWhatIsWrong == (status = "refused" => header.wrong) /\ (status = "done" => ~header.wrong)

\* What is found in a header is what it says.
HeaderInv == HeaderTypeOK /\ SaysWhatIsWritten /\ RefusesWhatIsWrong

\* "skip {} in preprocessor" (line 406), in what is ignored.
PreprocessorIsSkipped == status = "done" => Len(found.services) = Len(header.says.services)

\* "constructor-ignore it" (line 783): constructors only.
OperationsAreFound ==
    status = "done" => \A i \in DOMAIN found.services :
        Len(found.services[i].operations) = Len(header.says.services[i].operations)
==============================================================================
