------------------------------ MODULE DocumentsMC ------------------------------
(* What is read and written, side by side for TLC: the names of elements,  *)
(* XML, JSON, the parameters of a request, the request itself, and the     *)
(* request and response of a web server's module. They share nothing: in a *)
(* behaviour one of them is at work.                                       *)
EXTENDS XmlNames, XmlText, Json, RequestParameters, RequestReaderMC, WebModule

------------------------------------------------------------------------------
\* Names of elements.
CONSTANTS top, middle, leaf, side

MCNamesElement == {top, middle, leaf}
MCParent == top :> NoNode @@ middle :> top @@ leaf :> middle @@ side :> top
MCParentOf == [e \in MCNamesElement |-> MCParent[e]]

------------------------------------------------------------------------------
\* Documents.
MCText(v) == [k |-> "text", value |-> v]
MCComment(v) == [k |-> "comment", value |-> v]
MCCdata(v) == [k |-> "cdata", value |-> v]
MCElement(name, as, kids) == [k |-> "element", name |-> name, attrs |-> as, kids |-> kids]
MCDecl(e, s) == [version |-> "1.0", encoding |-> e, standalone |-> s]
MCAttrs == <<[name |-> "n", value |-> <<"<", "x">>], [name |-> "xmlns", value |-> <<>>]>>

MCLeaves == {MCText(<<"x">>), MCText(<<" ">>), MCText(<<>>), MCText(<<"&", "lt;">>),
             MCComment(<<"x">>), MCCdata(<<"<", "x">>), MCCdata(<<>>)}
MCInner == {MCElement("b", <<>>, <<>>)} \cup {MCElement("b", MCAttrs, <<l>>) : l \in MCLeaves}
MCKids == MCLeaves \cup MCInner
MCRoots == {MCElement("a", MCAttrs, <<>>)} \cup {MCElement("a", <<>>, <<k>>) : k \in MCKids}
              \cup {MCElement("a", <<>>, <<k, l>>) : k, l \in MCKids}
MCDocuments == {[decl |-> MCDecl("", "yes"), root |-> r] : r \in MCRoots}
MCSecond == [decl |-> MCDecl("latin", ""), root |-> MCElement("a", <<>>, <<>>)]
MCEncodings == {""}

\* What does not survive.
MCBroken == {[decl |-> MCDecl("", ""), root |-> MCElement("a", <<>>, k)] :
                k \in {<<>>} \cup {<<n>> : n \in {MCComment(<<"x", "-", "x">>), MCComment(<<"&">>), MCCdata(<<"]">>),
                       MCCdata(<<"]", "]", ">">>)}}}

------------------------------------------------------------------------------
\* Values.
MCStrings == {<<>>, <<"a">>, <<"\"", "a">>, <<"a", "newline", "a", "\\">>, <<"ctl1", "a">>, <<"xc3">>}
MCScalars == {[k |-> "null"], [k |-> "nan"], [k |-> "number", text |-> <<"1">>],
              [k |-> "boolean", text |-> <<"true">>]}
                \cup {[k |-> "string", text |-> s] : s \in MCStrings}
MCArray(kids) == [k |-> "array", kids |-> kids]
MCObject(kids) == [k |-> "object", kids |-> kids]
MCMember(name, node) == [name |-> name, node |-> node]
MCInnerValues == MCScalars \cup {MCArray(<<>>), MCObject(<<>>)}
                   \cup {MCArray(<<s>>) : s \in MCScalars}
                   \cup {MCObject(<<MCMember(<<"a">>, s)>>) : s \in MCScalars}
MCValues == {MCArray(<<>>), MCObject(<<>>)}
              \cup {MCArray(<<a, b>>) : a, b \in MCInnerValues}
              \cup {MCObject(<<MCMember(n, a)>>) : n \in MCStrings, a \in MCInnerValues}
              \cup {MCObject(<<MCMember(<<"a">>, a), MCMember(<<"\\">>, b)>>) : a, b \in MCScalars}
MCTokens == {MCArray(<<[k |-> "null"], [k |-> "null"]>>)}
MCEndings == {MCArray(<<[k |-> "string", text |-> <<"\"">>]>>)}

------------------------------------------------------------------------------
\* Locations and parameters.
MCCode == "&" :> <<"2", "6">> @@ "=" :> <<"3", "D">> @@ "/" :> <<"2", "F">> @@ " " :> <<"2", "0">>
          @@ "+" :> <<"2", "B">> @@ "%" :> <<"2", "5">> @@ "quote" :> <<"2", "2">>
          @@ "[" :> <<"5", "B">> @@ "]" :> <<"5", "D">>

MCChars == {"x", "2", "5", "&", "/", " ", "+", "%", "quote"}
MCString(text) == [kind |-> "string", text |-> text]
MCParameterValues ==
    {MCString(t) : t \in UNION {[1..n -> MCChars] : n \in 0..2}}
      \cup {MCString(<<"[", "x">>), MCString(<<"n", "u", "l", "l">>), MCString(<<"%", "2", "5">>)}
      \cup {[kind |-> "null", text |-> <<"n", "u", "l", "l">>], [kind |-> "json", text |-> <<"[", "quote", "&", "quote", "]">>]}
MCFewValues == {v \in MCParameterValues : Len(v.text) # 2 \/ v.text[1] \in {"%", "quote", "2"}}

MCBodies == {<<>>, <<[name |-> <<"a">>, value |-> MCString(<<"x">>)]>>}

\* "x?a={a}&b={b}", "{a}/{b}", "g/{a}", "x" and "x{a".
MCQuery == <<"x", "?", "a", "=", "{", "a", "}", "&", "b", "=", "{", "b", "}">>
MCLocations == {MCQuery, <<"{", "a", "}", "/", "{", "b", "}">>, <<"g", "/", "{", "a", "}">>,
                <<"x">>, <<"x", "{", "a">>}
\* "g/{a}/i", and "{a}{b}".
MCSuffix == {<<"g", "/", "{", "a", "}", "/", "i">>}
MCTogether == {<<"{", "a", "}", "{", "b", "}">>}

------------------------------------------------------------------------------
\* Requests to a web server.
CONSTANTS plain, nothing, failing, own, strange, late, m1, m2

MCWebRequest == {plain, nothing, failing, own, strange, late}
MCPool == {m1, m2}
MCBody == plain :> "none" @@ nothing :> "json" @@ failing :> "json" @@ own :> "malformed"
              @@ strange :> "other" @@ late :> "none"
MCService == plain :> "node" @@ nothing :> "void" @@ failing :> "throws" @@ own :> "text"
              @@ strange :> "text" @@ late :> "late"
MCThrowing == {"Header", "PreInvoke", "PreSend"}
MCUnreadable == {nothing}
MCSlow == {plain}
MCTruncated == {own}

------------------------------------------------------------------------------
\* All of them.
VARIABLE reads

documentVars == <<reads, namesVars, xmlVars, jsonVars, parameterVars, readerVars, webVars>>

\* What rests is in one of its initial states.
DocumentsInit ==
    /\ reads \in {"names", "xml", "json", "parameters", "request", "web"}
    /\ reads # "names" => prefix = [e \in Element |-> ""]
    /\ reads # "xml" => doc = CHOOSE d \in Documents : d.root.kids = <<>>
    /\ reads # "xml" => options = [formatted |-> FALSE, strip |-> FALSE, preamble |-> FALSE,
                                   encoding |-> CHOOSE e \in Encodings : TRUE]
    /\ reads # "xml" => damaged = FALSE
    /\ reads # "xml" => input = Written(doc)
    /\ reads # "json" => value = MCArray(<<>>)
    /\ reads # "json" => lacking = "nothing"
    /\ reads # "json" => buffer = Append(WriteNode(MCArray(<<>>)), Zero)
    /\ reads # "parameters" => location = <<"x">>
    /\ reads # "request" => stream = <<MCPosted(0)>>
    /\ reads # "web" => host = "apache"
    /\ NamesInit /\ XmlInit /\ JsonInit /\ ParameterInit /\ ReaderInit /\ WebInit

DocumentsNext ==
    /\ UNCHANGED reads
    /\ \/ reads = "names" /\ NamesNext /\ UNCHANGED <<xmlVars, jsonVars, parameterVars, readerVars, webVars>>
       \/ reads = "xml" /\ XmlNext /\ UNCHANGED <<namesVars, jsonVars, parameterVars, readerVars, webVars>>
       \/ reads = "json" /\ JsonNext /\ UNCHANGED <<namesVars, xmlVars, parameterVars, readerVars, webVars>>
       \/ reads = "parameters" /\ ParameterNext /\ UNCHANGED <<namesVars, xmlVars, jsonVars, readerVars, webVars>>
       \/ reads = "request" /\ ReaderNext /\ UNCHANGED <<namesVars, xmlVars, jsonVars, parameterVars, webVars>>
       \/ reads = "web" /\ WebNext /\ UNCHANGED <<namesVars, xmlVars, jsonVars, parameterVars, readerVars>>

DocumentsSpec ==
    /\ DocumentsInit /\ [][DocumentsNext]_documentVars
    /\ WF_xmlVars(reads = "xml" /\ Reading)
    /\ WF_jsonVars(reads = "json" /\ JsonNext)
    /\ WF_webVars(reads = "web" /\ Dispatching)

\* A reader of XML or of JSON that has begun ends, with a result or an error.
ReadersEnd == <>((reads = "xml" => ReaderAtEnd) /\ (reads = "json" => JsonAtEnd))

\* Both: neither a document nor a request keeps its thread.
DocumentsEnd == ReadersEnd /\ DispatchReturns
==============================================================================
