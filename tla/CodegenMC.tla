------------------------------- MODULE CodegenMC -------------------------------
(* The steps of the code generator, side by side for TLC: reading a        *)
(* header, the headers it includes, the types of a parameter list, writing *)
(* what was read as a tree, and filling a template from one. In a behaviour*)
(* one of them is at work.                                                 *)
EXTENDS HeaderParser, HeaderIncludes, TypeNames, ProjectTree, TemplateTrees

(* Templates: trees of blocks, three levels deep.                         *)
MCElement(name, value, kids, parent) == [name |-> name, value |-> value, kids |-> kids, parent |-> parent]
MCTree == [root |-> MCElement("project", <<>>, <<"list", "type">>, NoElement),
           list |-> MCElement("list", <<>>, <<"i1", "i2">>, "root"),
           i1   |-> MCElement("item", <<>>, <<"n1">>, "list"),
           i2   |-> MCElement("item", <<>>, <<"n2">>, "list"),
           n1   |-> MCElement("n", <<"a">>, <<>>, "i1"),
           n2   |-> MCElement("n", <<"b">>, <<>>, "i2"),
           type |-> MCElement("type", <<"a", ".", "b">>, <<>>, "root")]

MCText(v) == [k |-> "text", v |-> v]
MCExpr(alts) == [k |-> "expr", alts |-> alts]
MCUp(name, opt, prop) == [k |-> "node", from |-> "up", name |-> name, opt |-> opt, path |-> <<>>, prop |-> prop, fs |-> <<>>]
MCVariable(name, fs) == [k |-> "variable", name |-> name, fs |-> fs]
MCFun(name, a) == [name |-> name, a |-> a, b |-> <<>>]
MCV == <<MCExpr(<<MCVariable("v", <<>>)>>)>>
MCTemplateItem == <<MCExpr(<<MCUp("n", TRUE, "")>>)>>
MCTemplateLine(p) == [k |-> "text", p |-> p, nl |-> TRUE]
MCVar(p) == [k |-> "var", n |-> "v", p |-> p]

MCLeaves == {MCTemplateLine(MCTemplateItem), MCTemplateLine(MCV), MCVar(MCTemplateItem), [k |-> "error", p |-> <<>>],
             [k |-> "text", p |-> <<>>, nl |-> TRUE]}
MCFew == {<<>>} \cup {Plain(<<l>>) : l \in MCLeaves}
MCFlat == MCFew \cup {Plain(<<l, m>>) : l, m \in MCLeaves}

MCIf(yes, no, neg) == [k |-> "if", l |-> MCV, r |-> <<MCText(<<"a">>)>>, neg |-> neg, yes |-> yes, no |-> no]
MCEach(body) == [k |-> "each", x |-> MCUp("list", FALSE, ""), body |-> body]
MCContext(body) == [k |-> "context", x |-> [MCUp("list", FALSE, "") EXCEPT !.path = <<[name |-> "item", opt |-> FALSE]>>],
                    body |-> body]
MCScope(body) == [k |-> "scope", body |-> body]
MCIndented(body) == [k |-> "indented", body |-> body]
MCFile(name, body) == [k |-> "file", p |-> <<MCText(name)>>, body |-> body]
MCSwitch(one, other) ==
    [k |-> "switch", p |-> MCV,
     cases |-> <<[ps |-> <<<<MCText(<<"a">>)>>, MCTemplateItem>>, body |-> one]>>, otherwise |-> other]
\* The loop of project/codegen.config over the names of the services.
MCTemplateServices(body) ==
    LET w(fs) == MCVariable("w", fs)
        blank == <<" ">>
    IN  [k |-> "while", l |-> <<MCExpr(<<w(<<>>)>>)>>, r |-> <<>>, inv |-> TRUE,
         body |-> Plain(<<MCTemplateLine(<<MCExpr(<<w(<<MCFun("lasttoken", blank)>>), w(<<>>)>>)>>)>>) \o body
                    \o Plain(<<[k |-> "var", n |-> "w", p |-> <<MCExpr(<<w(<<MCFun("cutlast", blank)>>)>>)>>]>>)]

MCNodes(bodies, short) ==
    {MCIf(yes, no, neg) : yes \in bodies, no \in short, neg \in BOOLEAN}
      \cup {MCSwitch(one, other) : one \in bodies, other \in short}
      \cup UNION {{MCEach(b), MCContext(b), MCScope(b), MCIndented(b), MCTemplateServices(b),
                   [k |-> "include", f |-> "inc"]} : b \in bodies}
MCInner == MCNodes(MCFew, MCFew)
MCBodies == {<<n>> : n \in MCInner} \cup {<<n>> \o Plain(<<MCTemplateLine(MCTemplateItem)>>) : n \in MCInner}
MCIncluded == [inc |-> <<[k |-> "comment"], [k |-> "say", p |-> MCV], MCTemplateLine(MCV), MCVar(MCTemplateItem)>>]
MCTrees == [inc |-> Plain(MCIncluded["inc"])]

MCStart == [w |-> <<"a", " ", "b">>]
MCNoJob == [lines |-> <<>>, vars |-> MCStart, expect |-> [ends |-> "done", files |-> <<>>]]
MCWrapped(n) == <<MCFile(<<"f">>, <<n>> \o Plain(<<MCTemplateLine(MCV)>>))>>
MCTemplateTrees ==
    {MCWrapped(n) : n \in MCNodes(MCBodies \cup MCFlat, {<<>>, Plain(<<MCVar(MCTemplateItem)>>)})}
      \cup {<<MCEach(<<MCFile(<<"f">>, b), MCFile(<<"g">>, Plain(<<MCTemplateLine(MCV)>>))>>)>> : b \in MCBodies}
      \cup {<<[k |-> "last", p |-> <<MCText(<<"f">>)>>, body |-> b]>> : b \in MCFlat}
MCJobs == {Job(t, MCStart) : t \in MCTemplateTrees}

\* Functions: what a chain makes of a text.
MCF(name, a, b) == [name |-> name, a |-> a, b |-> b]
MCChain(v, fs, text) ==
    [lines |-> <<[k |-> "fileopen", p |-> <<MCText(<<"f">>)>>],
                 [k |-> "text", p |-> <<MCExpr(<<MCVariable("v", fs)>>)>>, nl |-> FALSE]>>,
     vars  |-> [v |-> v],
     expect |-> [ends |-> "done", files |-> <<"f">> :> [text |-> text, state |-> "complete"]]]
MCStrings(chars) == UNION {[1..n -> chars] : n \in 0..3}
MCPut(v, f1, sep, f2, text) ==
    LET one == MCChain(v, <<f1>>, text)
    IN  [one EXCEPT !.lines[2].p = @ \o <<MCText(sep), MCExpr(<<MCVariable("v", <<f2>>)>>)>>]
MCDot == <<".">>
MCLaws ==
    {MCPut(v, MCF("token", MCDot, <<>>), MCDot, MCF("cut", MCDot, <<>>), v) :
        v \in {v \in MCStrings({"a", "b", "."}) : "." \in ToSet(v)}}
      \cup {MCPut(v, MCF("cutlast", MCDot, <<>>), MCDot, MCF("lasttoken", MCDot, <<>>), v) :
        v \in {v \in MCStrings({"a", "b", "."}) : "." \in ToSet(v)}}
      \cup UNION {{MCChain(v, <<MCF("prepend", x, <<>>), MCF("deprefix", x, <<>>)>>, v),
                   MCChain(v, <<MCF("append", x, <<>>), MCF("depostfix", x, <<>>)>>, v)} :
        v \in MCStrings({"a", ":"}) \ {<<>>}, x \in {<<"a">>, <<":", ":">>}}
      \cup {MCChain(v, <<MCF("replace", MCDot, <<"_">>), MCF("replace", <<"_">>, MCDot)>>, v) :
        v \in MCStrings({"a", "."})}
      \cup {MCChain(v, <<MCF("mangledot", <<>>, <<>>), MCF("equals", <<"a", "_", "b">>, <<>>), MCF("not", <<>>, <<>>)>>,
                    Truth(v # <<"a", ".", "b">>)) : v \in MCStrings({"a", ".", "b"})}
      \cup {MCChain(v, <<MCF(f, <<>>, <<>>)>>, <<"a", sep, "b">>) :
        v \in {<<"a", ":", ":", "b">>, <<":", ":", "a", ":", ":", "b">>}, f \in {"dot"}, sep \in {"."}}
      \cup {MCChain(<<":", ":", "a", ":", ":", "b">>, <<MCF("mangle", <<>>, <<>>), MCF("toupper", <<>>, <<>>)>>,
                    <<"A", "_", "B">>)}
      \cup {MCChain(v, <<MCF("toupper", <<>>, <<>>), MCF("tolower", <<>>, <<>>)>>, v) : v \in MCStrings({"a", "."})}
      \cup {MCChain(v, <<MCF("replacenotof", MCDot, <<"}">>), MCF("replace", MCDot, <<>>)>>,
                    [i \in 1..n |-> "}"]) :
        v \in {<<"a", "b">>}, n \in {1}}
      \cup {MCChain(<<"a", ".", "b", ".", "a">>, <<MCF("replacenotof", MCDot, <<"}">>), MCF("replace", MCDot, <<>>)>>,
                    <<"}", "}", "}">>)}
      \cup {MCChain(<<" ">> \o v \o <<" ", "nl">>, <<MCF("trim", <<>>, <<>>)>>, v) : v \in MCStrings({"a"})}
      \cup {MCChain(<<":", ":">> \o v, <<MCF("trimleft/", <<":">>, <<>>), MCF("trimright/", <<".">>, <<>>)>>,
                    <<"a">>) : v \in {<<"a">>, <<"a", ".">>}}
      \cup {MCChain(<<":", "a", ":">>, <<MCF("trim/", <<":">>, <<>>), MCF("match", <<":">>, <<>>)>>, <<"false">>)}
      \cup {MCChain(<<"a", "_", "b">>, <<MCF("tocamelcase", <<>>, <<>>), MCF("fixid", <<>>, <<>>)>>, <<"a", "B">>)}
      \cup {MCChain(v, <<MCF("fixid", <<>>, <<>>), MCF("fixid", <<>>, <<>>)>>, Identifier(v)) :
        v \in MCStrings({"i", "f", ",", "0"}) }
      \cup {MCChain(Text(n), <<MCF("inc", <<>>, <<>>), MCF("add", <<"2">>, <<>>), MCF("sub", <<"1">>, <<>>),
                              MCF("dec", <<>>, <<>>), MCF("dec", <<>>, <<>>)>>, Text(n)) : n \in {-2, -1, 0}}
MCAllJobs == MCJobs \cup MCLaws

\* A function behind another one.
MCComposed == {MCChain(<<"a", ".", "b">>, <<MCF("tolower", <<>>, <<>>), MCF("token", MCDot, <<>>)>>, <<"a">>)}
\* An underscore at the end.
MCCamels == {MCChain(<<"a", "_">>, <<MCF("tocamelcase", <<>>, <<>>)>>, <<"a">>)}
\* A comma in a value.
MCCommas == {Job(MCWrapped([MCIf(Plain(<<MCTemplateLine(MCV)>>), <<>>, FALSE) EXCEPT !.r = MCV]),
                 [v |-> <<"a", ",", "b">>])}
\* A switch without an end.
MCOpen == {[lines |-> <<[k |-> "switch", p |-> MCV], [k |-> "default"], MCTemplateLine(MCV)>>, vars |-> MCStart,
            expect |-> [ends |-> "failed", files |-> <<>>]]}

------------------------------------------------------------------------------
\* Headers: what is written, and what it declares.
MCW(vs) == [i \in DOMAIN vs |-> Word(vs[i])]
MCLine(s) == Append(s, Eol)
MCOption == MCLine(<<Sym("option", "o1")>>)
MCDocs == MCLine(<<Sym("doc", "d1")>>) \o MCLine(<<Sym("doc", "d2")>>)
MCIgnored == MCLine(<<Sym("ignore", "")>>) \o MCLine(MCW(<<"junk", "}">>)) \o MCLine(<<Sym("ignoreEnd", "")>>)

\* What may be in front of a declaration: the text, its docs and its options.
MCFronts == {[text |-> <<>>, docs |-> <<>>, options |-> <<>>],
             [text |-> MCOption \o MCDocs, docs |-> <<"d1", "d2">>, options |-> <<"o1">>],
             [text |-> MCIgnored \o MCLine(<<Sym("option", "o2")>>), docs |-> <<>>, options |-> <<"o2">>]}
MCNone == CHOOSE f \in MCFronts : f.text = <<>>

\* Operations: a body, a const one, parameters; a description behind the last.
MCOp(f, name, ps, tail, const) ==
    [text |-> f.text \o MCW(<<"int", name, "(">>)
                \o FlattenSeq([i \in DOMAIN ps |-> IF i = 1 THEN <<ps[i]>> ELSE <<Word(","), ps[i]>>])
                \o <<Word(")")>> \o tail \o <<Eol>>,
     node |-> [name |-> name, docs |-> f.docs, options |-> f.options,
               params |-> [i \in DOMAIN ps |->
                             [name |-> ps[i].v,
                              options |-> SelectSeq(f.options, LAMBDA o : OptionParam[o] = ps[i].v)]],
               isConst |-> const, isAsynch |-> \E i \in DOMAIN ps : ps[i].t = "callback"]]
MCTails == {[text |-> MCW(<<";">>), const |-> FALSE],
            [text |-> MCW(<<"const", ";">>), const |-> TRUE],
            [text |-> MCW(<<"{", "x", ";", "{", "}", "}">>), const |-> FALSE]}
MCParams == {<<>>, <<Word("p"), Sym("callback", "q")>>}
MCOps(name) == {MCOp(f, name, p, t.text, t.const) : f \in MCFronts, p \in MCParams, t \in MCTails}
MCCtor == MCW(<<"Calc", "(", ")", ";">>) \o <<Sym("dtor", "Calc")>> \o MCW(<<"(", ")", "{", "}", ";">>) \o <<Eol>>

MCItem(text, kind, node) == [text |-> text, kind |-> kind, node |-> node]
MCService(f, ns, ops) ==
    MCItem(f.text \o MCW(<<"class", "Calc", ":", "public", "Service", "{">>) \o <<Eol>>
             \o MCOption \o MCW(<<"public:">>) \o <<Eol>> \o MCCtor
             \o FlattenSeq([i \in DOMAIN ops |-> ops[i].text])
             \o MCW(<<"}", ";">>) \o MCLine(<<Sym("note", "")>>),
           "services",
           [name |-> "Calc", ns |-> ns, docs |-> f.docs, options |-> f.options,
            operations |-> [i \in DOMAIN ops |-> ops[i].node]])

MCEnumNode(f, ns, owner, name, members) ==
    [name |-> name, ns |-> ns, owner |-> owner, forward |-> FALSE, docs |-> f.docs, options |-> f.options,
     members |-> members]
MCMember(name, docs, value) == [name |-> name, docs |-> docs, value |-> value]
MCEnumText(f, name) ==
    f.text \o MCW(<<"enum", name, "{">>) \o <<Eol>> \o MCW(<<"A", ",">>) \o MCLine(<<Sym("descr", "dA")>>)
    \o MCW(<<"B", "=", "1", ",">>) \o MCLine(<<Sym("descr", "dB")>>) \o MCW(<<"C", "}", ";">>) \o <<Eol>>
MCEnumMembers == <<MCMember("A", <<"dA">>, ""), MCMember("B", <<"dB">>, "1"), MCMember("C", <<>>, "")>>
MCEnum(f, ns) == MCItem(MCEnumText(f, "E"), "enums", MCEnumNode(f, ns, <<>>, "E", MCEnumMembers))

MCStructNode(f, ns, owner, name, parent, fields, structs, enums, virtual) ==
    [name |-> name, ns |-> ns, owner |-> owner, forward |-> FALSE, parent |-> parent, docs |-> f.docs,
     options |-> f.options, fields |-> fields, structs |-> structs, enums |-> enums, virtualDtor |-> virtual]
MCField(name, docs, options) == [name |-> name, docs |-> docs, options |-> options]
MCPlain(f, ns, forward) ==
    MCItem((IF forward THEN MCW(<<"struct", "S", ";">>) \o MCLine(<<Sym("note", "")>>) ELSE <<>>) \o f.text
             \o MCW(<<"struct", "S", ":", "public", "Base", "{">>) \o <<Eol>>
             \o MCOption \o MCDocs \o MCW(<<"int", "a", ";">>) \o <<Eol>>
             \o MCDocs \o MCW(<<"struct", "T", "b", ";">>) \o MCLine(<<Sym("descr", "d3")>>)
             \o MCOption \o MCW(<<"void", "m", "(", ")", "{", "}">>) \o <<Eol, Word("int"), Word("c"), Word(";"), Eol>>
             \o MCW(<<"}", ";">>) \o <<Eol>>,
           "structs",
           MCStructNode(f, ns, <<>>, "S", "Base",
                        <<MCField("a", <<"d2">>, <<"o1">>), MCField("b", <<"d3">>, <<>>), MCField("c", <<>>, <<>>)>>,
                        <<>>, <<>>, FALSE))
MCNested(f, ns) ==
    LET last == [f EXCEPT !.docs = IF f.docs = <<>> THEN <<>> ELSE <<Last(f.docs)>>]
    IN  MCItem(MCW(<<"struct", "S", "{">>) \o f.text
                 \o MCW(<<"struct", "N", "{", "int", "a", ";", "}", ";">>) \o <<Eol>>
                 \o MCEnumText(f, "E") \o MCW(<<"N", "n", ";">>) \o <<Eol>> \o MCW(<<"}", ";">>) \o <<Eol>>,
               "structs",
               MCStructNode(MCNone, ns, <<>>, "S", "", <<MCField("n", <<>>, <<>>)>>,
                   <<MCStructNode(last, ns, <<"S">>, "N", "", <<MCField("a", <<>>, <<>>)>>, <<>>, <<>>, FALSE)>>,
                   <<MCEnumNode(last, ns, <<"S">>, "E", MCEnumMembers)>>, FALSE))
MCAbstract(ns, virtual) ==
    MCItem(MCLine(<<Sym("option", "abstract")>>) \o MCW(<<"struct", "S", "{">>)
             \o (IF virtual THEN <<Word("virtual"), Sym("dtor", "S")>> \o MCW(<<"(", ")", ";">>)
                 ELSE MCW(<<"S", "(", ")", ";">>))
             \o MCW(<<"}", ";">>) \o <<Eol>>,
           IF virtual THEN "structs" ELSE "wrong",
           MCStructNode([MCNone EXCEPT !.options = <<"abstract">>], ns, <<>>, "S", "", <<>>, <<>>, <<>>, virtual))
MCTypedef(f, ns) ==
    MCItem(f.text \o MCW(<<"typedef", "int", "Id", ";">>) \o MCLine(<<Sym("descr", "d3")>>), "typedefs",
           [name |-> "Id", ns |-> ns, docs |-> <<"d3">>, options |-> f.options])
MCEnumForward(f, ns) ==
    [MCEnum(f, ns) EXCEPT !.text = MCW(<<"enum", "class", "E", ";">>) \o <<Eol>> \o @]

\* What declares nothing.
MCQuiet == {MCItem(f.text \o t, "none", "") : f \in MCFronts, t \in
              {MCLine(<<Sym("hash", ""), Word("pragma")>>), MCW(<<"class", "F", ";">>),
               MCW(<<"class", "F", "{", "int", "a", ";", "{", "}", "}", ";">>),
               MCW(<<"class", "F", ":", "public", "G", "{", "x", "}", ";">>)}}
MCStructs(ns) == {MCPlain(f, ns, w) : f \in MCFronts, w \in BOOLEAN} \cup {MCNested(f, ns) : f \in MCFronts}
                    \cup {MCAbstract(ns, v) : v \in BOOLEAN}
MCOthers(ns) == MCQuiet \cup {MCEnum(f, ns) : f \in MCFronts} \cup {MCEnumForward(f, ns) : f \in MCFronts}
                  \cup {MCTypedef(f, ns) : f \in MCFronts}
MCServices(ns) == {MCService(f, ns, <<a, b>>) : f \in MCFronts, a \in MCOps("add"),
                      b \in {MCOp(g, "sub", <<Word("p")>>, MCW(<<";">>), FALSE) : g \in MCFronts}}

MCSays(items, kind) ==
    [i \in DOMAIN SelectSeq(items, LAMBDA x : x.kind = kind) |-> SelectSeq(items, LAMBDA x : x.kind = kind)[i].node]
MCHeader(items, ns) ==
    LET text == FlattenSeq([i \in DOMAIN items |-> items[i].text])
    IN  [text |-> IF ns = <<>> THEN text
                  ELSE MCOption \o MCW(<<"namespace", ns[1], "{">>) \o <<Eol>> \o text \o MCW(<<"}">>) \o <<Eol>>,
         says |-> [services |-> MCSays(items, "services"), structs |-> MCSays(items, "structs"),
                   enums |-> MCSays(items, "enums"), typedefs |-> MCSays(items, "typedefs")],
         wrong |-> \E i, j \in DOMAIN items :
                      \/ items[i].kind = "wrong"
                      \/ i # j /\ items[i].kind \in {"structs", "enums"} /\ items[i].kind = items[j].kind]

MCPairs(ns) == {<<a, b>> : a \in MCStructs(ns) \cup MCOthers(ns), b \in MCStructs(ns) \cup MCOthers(ns)}
                 \cup {<<a>> : a \in MCServices(ns)}
MCBroken(h) == [h EXCEPT !.text = SubSeq(@, 1, Len(@) - 2), !.wrong = TRUE]
MCHeaders == {MCHeader(p, <<>>) : p \in MCPairs(<<>>)} \cup {MCHeader(p, <<"app">>) : p \in MCPairs(<<"app">>)}
               \cup {MCBroken(MCHeader(<<a>>, <<"app">>)) : a \in MCOthers(<<"app">>)}
MCBegins == {<<"Calc", "Calc">>, <<"Calc", "CalcInfo">>}
MCOptionParam == [o \in {"o1", "o2", "abstract"} |-> IF o = "o2" THEN "p" ELSE "none"]

\* Headers that are legal, too.
MCHashes == {MCHeader(<<MCItem(MCW(<<"class", "F", "{">>) \o <<Eol, Sym("hash", ""), Word("ifdef"), Eol>>
                                 \o MCW(<<"}", ";">>), "none", ""),
                        MCService(MCNone, <<>>, <<>>)>>, <<>>)}
MCInfo == {MCHeader(<<MCService(MCNone, <<>>,
              <<[text |-> MCW(<<"CalcInfo", "info", "(", ")", ";">>),
                 node |-> MCOp(MCNone, "info", <<>>, <<>>, FALSE).node]>>)>>, <<>>)}
MCNotes == {MCHeader(<<MCService(MCNone, <<>>,
              <<MCOp(MCNone, "add", <<>>, MCW(<<";">>) \o <<Sym("note", "")>>, FALSE),
                MCOp([text |-> MCOption, docs |-> <<>>, options |-> <<"o1">>], "sub", <<>>, MCW(<<";">>), FALSE)>>)>>,
              <<>>)}

------------------------------------------------------------------------------
\* Projects: three headers, which define a struct each.
MCNames == {"a", "b", "c"}
MCDecl(k, of) == [k |-> k, of |-> of]
MCLists == {<<>>} \cup {<<f>> : f \in MCNames} \cup {<<f, g>> : f, g \in MCNames}
MCIncluding(names) == [i \in DOMAIN names |-> MCDecl("include", names[i])]
MCFields == {<<>>} \cup {<<MCDecl("field", f)>> : f \in MCNames \ {"a"}}
MCForwards == {<<>>} \cup {<<MCDecl("forward", f)>> : f \in MCNames}

MCProjects ==
    {[f \in MCNames |-> CASE f = "a" -> MCIncluding(la) \o fa \o <<MCDecl("struct", "a")>> \o ua
                          [] f = "b" -> MCIncluding(lb) \o <<MCDecl("struct", "b")>> \o ub
                          [] f = "c" -> MCIncluding(lc) \o <<MCDecl("struct", "c")>> \o uc] :
        la \in MCLists, fa \in MCForwards, ua \in MCFields,
        lb \in {l \in MCLists : Len(l) < 2}, ub \in {<<>>, <<MCDecl("field", "a")>>, <<MCDecl("field", "c")>>},
        lc \in {<<>>, <<"a">>, <<"b">>}, uc \in {<<>>, <<MCDecl("field", "b")>>}}
MCFiles == <<"a", "b">>
ASSUME DeclaredAssumption == \A c \in Projects : DeclaredBeforeUse(c)

\* A struct that is declared where it is included, and defined where it is not.
MCForwarded == {[f \in MCNames |-> CASE f = "a" -> <<MCDecl("include", "b"), MCDecl("struct", "a")>>
                                     [] f = "b" -> <<MCDecl("forward", "a"), MCDecl("field", "a")>>
                                     [] f = "c" -> <<>>]}
\* A header that is included on two ways.
MCDiamond == {[f \in MCNames |-> CASE f = "a" -> MCIncluding(<<"b", "c">>)
                                   [] f = "b" -> <<MCDecl("include", "c")>>
                                   [] f = "c" -> <<MCDecl("struct", "c")>>]}
\* A struct that is declared before the header that defines it is included.
MCBefore == {[f \in MCNames |-> CASE f = "a" -> <<MCDecl("forward", "b"), MCDecl("include", "b")>>
                                  [] f = "b" -> <<MCDecl("struct", "b")>>
                                  [] f = "c" -> <<>>]}

------------------------------------------------------------------------------
\* The types of a small header.
MCNs == <<Colons, "n", Colons>>
MCName(c) == <<c, [A |-> "a", B |-> "b", C |-> "c", D |-> "d", E |-> "e", F |-> "e", T |-> "t"][c]>>
MCNamesEnum(c, owner) == [name |-> MCName(c), ns |-> MCNs, owner |-> owner]
MCStruct(c, owner, structs, enums) ==
    [name |-> MCName(c), ns |-> MCNs, owner |-> owner, structs |-> structs, enums |-> enums]

\* namespace n { struct Ba; struct Aa { struct Ba { enum Ca }; enum Da }; enum Ea; typedef Ta }
MCOuter == MCStruct("A", <<>>, <<MCStruct("B", MCName("A"), <<>>, <<MCNamesEnum("C", MCName("A") \o <<Colons>> \o MCName("B"))>>)>>,
                    <<MCNamesEnum("D", MCName("A"))>>)
MCProject1 == [ns |-> MCNs, structs |-> <<MCStruct("B", <<>>, <<>>, <<>>), MCOuter>>,
              enums |-> <<MCNamesEnum("E", <<>>)>>,
              typedefs |-> <<[name |-> MCName("T"), ns |-> MCNs, owner |-> <<>>]>>]

MCBase(word, kind, ns, name, used) ==
    [words |-> <<word>>, kind |-> kind, ns |-> ns, name |-> name, used |-> used,
     args |-> <<>>, isConst |-> FALSE, isRef |-> FALSE]
MCA == MCName("A")
MCB == MCName("B")
MCAB == MCA \o <<Colons>> \o MCB
MCUse(word, kind, name) == MCBase(word, kind, MCNs, name, word)
MCInt == MCBase(<<"int">>, "generic", <<>>, <<"int">>, <<>>)
MCString == MCBase(StringType, "string", <<"std", Colons>>, <<"string">>, <<>>)
MCUnsigned == [MCBase(<<"unsigned">>, "generic", <<>>, <<"unsigned", " ", "int">>, <<>>)
                 EXCEPT !.words = <<<<"unsigned">>, BlankToken, <<"int">>>>]
MCCommon == {MCInt, MCString,
             MCUse(MCA, "struct", MCA), MCUse(MCNs \o MCB, "struct", MCB), MCUse(<<"n", Colons>> \o MCA, "struct", MCA),
             MCUse(MCAB, "struct", MCAB), MCUse(MCName("E"), "enum", MCName("E")),
             MCUse(MCA \o <<Colons>> \o MCName("D"), "enum", MCA \o <<Colons>> \o MCName("D")),
             MCUse(MCAB \o <<Colons>> \o MCName("C"), "enum", MCAB \o <<Colons>> \o MCName("C")),
             MCBase(MCName("T"), "typedef", MCNs, MCName("T"), <<>>),
             MCBase(<<"o", Colons, "Z", "z">>, "unknown", <<"o", Colons>>, <<"o", Colons, "Z", "z">>, <<>>)}
\* Outside of the struct and within it Ba is not the same.
MCTop == MCCommon \cup {MCUse(MCB, "struct", MCB)}
MCInside == MCCommon \cup {MCUse(MCB, "struct", MCAB),
                           MCUse(MCName("D"), "enum", MCA \o <<Colons>> \o MCName("D"))}

MCModified(types) == types \cup {[d EXCEPT !.isConst = TRUE] : d \in types} \cup {[d EXCEPT !.isRef = TRUE] : d \in types}
MCTemplate(name, args) == [MCBase(<<"std", Colons, name>>, "template", <<"std", Colons>>, <<name>>, <<>>) EXCEPT !.args = args]
MCLevel1(types) == {MCTemplate("list", <<d>>) : d \in types} \cup {MCTemplate("map", <<MCString, d>>) : d \in types}
MCLevel2(types) == {MCTemplate("list", <<d>>) : d \in MCLevel1(types)}
                      \cup {MCTemplate("map", <<d, MCInt>>) : d \in MCLevel1(types)}
MCTypes(types) == MCModified(types \cup {MCUnsigned} \cup MCLevel1(types) \cup MCLevel2(types))
                    \ {[MCUnsigned EXCEPT !.isRef = TRUE]}

------------------------------------------------------------------------------
\* Parameter lists.
MCParam(d, name) == Spelled(d) \o <<BlankToken, <<name>>>>
MCMeans(d, name) == [type |-> Means(d), name |-> <<name>>]
MCList1(d, e, parent) == [text |-> MCParam(d, "x") \o <<<<",">>, BlankToken>> \o MCParam(e, "y") \o <<<<")">>>>,
                         parent |-> parent, means |-> <<MCMeans(d, "x"), MCMeans(e, "y")>>]
MCBad(text) == [text |-> text \o <<BlankToken, <<"x">>, <<")">>>>, parent |-> <<>>, means |-> <<>>]
MCTypeLists == {MCList1(d, e, <<>>) : d \in MCTypes(MCTop), e \in MCModified({MCInt, MCString, MCUse(MCAB, "struct", MCAB)})}
             \cup {MCList1(d, MCInt, <<MCOuter>>) : d \in MCTypes(MCInside)}
             \cup {MCBad(<<<<"int">>, <<"*">>>>), MCBad(<<<<"int">>, BlankToken, <<"const">>>>),
                   MCBad(<<<<"short">>, BlankToken, <<"long">>>>), MCBad(<<<<"std", Colons, "list">>, <<"<">>, <<"int">>, <<"*">>, <<">">>>>),
                   MCBad(<<<<"int">>, <<"&">>, BlankToken, <<"int">>>>)}

\* A reference to a type of two words.
MCReference == {MCList1([MCUnsigned EXCEPT !.isRef = TRUE], MCInt, <<>>)}
\* A reference that is written at the name.
MCStyle == {[MCList1([MCInt EXCEPT !.isRef = TRUE], MCInt, <<>>)
               EXCEPT !.text = <<<<"int">>, BlankToken, <<"&">>, <<"x">>, <<",">>, <<"int">>, BlankToken, <<"y">>, <<")">>>>]}

------------------------------------------------------------------------------
\* Interfaces: these types, whole or only declared, with parents, and a service.
MCTreeDecl(type, forward, extern) == type @@ [isForward |-> forward, isExtern |-> extern]
MCWhole(type) == MCTreeDecl(type, FALSE, FALSE)
MCExtended(type, name, base) == type @@ [parentName |-> name, parentNs |-> <<>>, extends |-> base, fields |-> <<>>]
MCAlone(type) == MCExtended(type, <<>>, <<>>)

MCTreeField(d, name) == [type |-> Means(d), name |-> <<name>>]
MCVoid == [type |-> Means(MCBase(<<"void">>, "generic", <<>>, <<"void">>, <<>>)), name |-> <<"v">>]
MCTreeFields == {<<>>, <<MCTreeField(MCString, "x")>>, <<MCTreeField(MCTemplate("map", <<MCString, MCInt>>), "x"), MCTreeField(MCInt, "y")>>,
             <<MCVoid>>, <<MCTreeField(MCInt, "x"), MCVoid, MCTreeField(MCUse(MCAB, "struct", MCAB), "y")>>, <<MCVoid, MCTreeField(MCString, "y")>>,
             <<MCTreeField(MCTemplate("list", <<MCTemplate("list", <<MCInt>>)>>), "x"), MCTreeField([MCUse(MCA, "struct", MCA) EXCEPT !.isRef = TRUE], "y")>>}

\* The flags of a declaration: whole, only named, or of another header.
MCFlags == {<<FALSE, FALSE>>, <<TRUE, FALSE>>, <<TRUE, TRUE>>}
MCFlagged(type, f) == MCTreeDecl(type, f[1], f[2])

\* namespace n { struct Ba; struct Aa { struct Ba { enum Ca }; enum Da }; struct Ga : parent; enum Ea }
MCTreeStructs(f, g, parent, fields) ==
    <<MCAlone(MCWhole(MCStruct("B", <<>>, <<>>, <<>>))),
      MCAlone(MCWhole([MCOuter EXCEPT
          !.structs = <<MCAlone(MCFlagged([MCOuter.structs[1] EXCEPT
                            !.enums = <<MCFlagged(MCOuter.structs[1].enums[1], g)>>], f))>>,
          !.enums = <<MCWhole(MCOuter.enums[1])>>])),
      [MCExtended(MCWhole([MCStruct("B", <<>>, <<>>, <<>>) EXCEPT !.name = <<"G", "a">>]), parent[1], parent[2])
         EXCEPT !.fields = fields]>>
MCParents == {<<<<>>, <<>>>>, <<MCB, MCNs \o MCB>>, <<MCNs \o MCA, MCNs \o MCA>>, <<<<"n", Colons>> \o MCB, MCNs \o MCB>>}
MCNestedParent == {<<MCAB, MCNs \o MCAB>>}

MCService1(fields) == [name |-> <<"S", "s">>, ns |-> <<Colons, "n", Colons, "m", Colons>>,
                      operations |-> <<[name |-> <<"o">>, params |-> fields, returns |-> Means(MCInt)]>>]
MCInterface(f, g, h, parent, fields) ==
    [ns |-> MCNs, includes |-> <<[name |-> <<"h">>, ns |-> <<Colons, "n", Colons, "m", Colons>>]>>,
     enums |-> <<MCFlagged(MCNamesEnum("E", <<>>), h)>>,
     structs |-> MCTreeStructs(f, g, parent, fields),
     typedefs |-> <<[name |-> MCName("T"), ns |-> MCNs, type |-> Means(MCTemplate("list", <<MCInt>>))]>>,
     services |-> <<MCService1(fields)>>]

MCNoInterface == [ns |-> <<>>, includes |-> <<>>, enums |-> <<>>, structs |-> <<>>, typedefs |-> <<>>, services |-> <<>>]
MCInterfaces == {MCInterface(f, g, h, p, x) : f, g, h \in MCFlags, p \in MCParents, x \in MCTreeFields}
MCNestedInterfaces == {MCInterface(<<FALSE, FALSE>>, <<FALSE, FALSE>>, <<FALSE, FALSE>>, p, <<>>) : p \in MCNestedParent}

------------------------------------------------------------------------------
\* All of them.
VARIABLE tool

codegenVars == <<tool, headerVars, includeVars, typeVars, projectVars, templateVars>>

\* What rests is in one of its initial states.
CodegenInit ==
    /\ tool \in {"header", "includes", "types", "tree", "template"}
    /\ IF tool = "header" THEN header \in Headers ELSE header = MCHeader(<<>>, <<>>)
    /\ IF tool = "includes" THEN contents \in Projects ELSE contents = [f \in MCNames |-> <<>>]
    /\ IF tool = "types" THEN list \in Lists ELSE list = [text |-> <<>>, parent |-> <<>>, means |-> <<>>]
    /\ IF tool = "tree" THEN interface \in Interfaces ELSE interface = MCNoInterface
    /\ IF tool = "template" THEN job \in Jobs ELSE job = MCNoJob
    /\ HeaderStart /\ IncludeStart /\ TypeStart /\ ProjectStart /\ TemplateStart

CodegenNext ==
    /\ UNCHANGED tool
    /\ \/ tool = "header" /\ HeaderNext /\ UNCHANGED <<includeVars, typeVars, projectVars, templateVars>>
       \/ tool = "includes" /\ IncludeNext /\ UNCHANGED <<headerVars, typeVars, projectVars, templateVars>>
       \/ tool = "types" /\ TypeNext /\ UNCHANGED <<headerVars, includeVars, projectVars, templateVars>>
       \/ tool = "tree" /\ ProjectNext /\ UNCHANGED <<headerVars, includeVars, typeVars, templateVars>>
       \/ tool = "template" /\ TemplateNext /\ UNCHANGED <<headerVars, includeVars, typeVars, projectVars>>

CodegenSpec ==
    /\ CodegenInit /\ [][CodegenNext]_codegenVars
    /\ WF_includeVars(tool = "includes" /\ IncludeNext)

\* A project is read to its end, whatever includes what.
IncludesEnd == <>(tool = "includes" => progress # "parsing")

\* A project is read to its end: no header keeps the parser in a place.
ParsersEnd == IncludesEnd /\ HeaderAdvances
==============================================================================
