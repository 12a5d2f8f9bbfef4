------------------------------- MODULE XmlText --------------------------------
(***************************************************************************)
(* Documents written by XmlWriter (src/core/xml/src/XmlWriter.cpp) and     *)
(* read by XmlReader (XmlReader.cpp).  A stream is a sequence of symbols:  *)
(* a piece of markup is one symbol, and so is a character of a value,      *)
(* because what is escaped, and where a comment or a CDATA section ends,   *)
(* depends on the characters.                                              *)
(***************************************************************************)
EXTENDS Naturals, Sequences, SequencesExt

CONSTANTS
    Documents,     \* the documents that are written: [decl, root]
    Second,        \* the document that is read next with the same reader
    Encodings,     \* what setEncoding may have been given
    DamageKids     \* bound: streams of documents whose root has this many children
                   \* or less may be damaged

VARIABLES
    doc,           \* the document that was written
    options,       \* [formatted, strip, encoding, preamble]: settings
    damaged,       \* the stream ends early or closes the wrong element
    input,         \* what is left of the stream
    phase, open,   \* where the reader is, and the elements that are open
    decl, root,    \* what it has read
    encoding,      \* the encoding it keeps
    nth            \* the first or the second document

xmlVars == <<doc, options, damaged, input, phase, open, decl, root, encoding, nth>>
given == <<doc, options, damaged, nth>>

-----------------------------------------------------------------------------
(* Symbols.                                                                *)

Mark(t, v) == [t |-> t, v |-> v]
Chr(c) == Mark("chr", c)
Chars(value) == [i \in DOMAIN value |-> Chr(value[i])]
Blank(c) == c \in {" ", "newline"}

Escapes == [c \in {"<", ">", "&"} |-> CASE c = "<" -> "&lt;" [] c = ">" -> "&gt;" [] c = "&" -> "&amp;"]

\* escapeString, XmlWriter.cpp lines 161-196; the quotes are like the others.
Escaped(value) ==
    [i \in DOMAIN value |-> IF value[i] \in DOMAIN Escapes THEN Escapes[value[i]] ELSE value[i]]

Plain(c) == IF \E d \in DOMAIN Escapes : Escapes[d] = c
            THEN CHOOSE d \in DOMAIN Escapes : Escapes[d] = c ELSE c

\* Mutation of Unescaped: the ampersand that has been put in starts an escape.
UnescapedTwice(value) ==
    ReplaceFirstSubSeq(<<"<">>, <<"&", "lt;">>, [i \in DOMAIN value |-> Plain(value[i])])

\* unescapeString, XmlReader.cpp lines 187-217: what has been replaced is passed.
Unescaped(value) == [i \in DOMAIN value |-> Plain(value[i])]

-----------------------------------------------------------------------------
(* The writer.                                                             *)

\* writeIndent, lines 198-205; the spaces after the line break do not matter more.
Indent == IF options.formatted THEN <<Chr("newline")>> ELSE <<>>

WrittenAttribute(name, value) ==
    <<Mark("attr", name)>> \o Chars(Escaped(value)) \o <<Mark("quote", "")>>

\* isEmpty and isLeaf, Element.cpp lines 253-264.
IsEmpty(e) == e.kids = <<>> \/ (Len(e.kids) = 1 /\ e.kids[1].k = "text" /\ e.kids[1].value = <<>>)
IsLeaf(e) == e.kids = <<>> \/ (Len(e.kids) = 1 /\ e.kids[1].k = "text")

\* writeCdata, lines 132-143: the end of a section is cut in two.
CdataText(value) ==
    LET split[i \in 0..Len(value)] ==
            IF i = 0 THEN <<>>
            ELSE IF i > 2 /\ SubSeq(value, i - 2, i) = <<"]", "]", ">">>
                 THEN split[i - 1] \o Chars(<<"]", "]", ">">>) \o <<Mark("cdata", ""), Chr(">")>>
                 ELSE Append(split[i - 1], Chr(value[i]))
    IN  split[Len(value)]

\* writeNode and writeElement, lines 62-130.
RECURSIVE WrittenNode(_)
WrittenNode(n) ==
    CASE n.k = "text" -> Chars(Escaped(n.value))
      [] n.k = "comment" ->
            Indent \o <<Mark("comment", "")>> \o Chars(Escaped(n.value)) \o Chars(<<"-", "-", ">">>)
      [] n.k = "cdata" ->
            Indent \o <<Mark("cdata", "")>> \o CdataText(n.value) \o Chars(<<"]", "]", ">">>)
      [] n.k = "element" ->
            Indent \o <<Mark("open", n.name)>>
            \o FlattenSeq([i \in DOMAIN n.attrs |-> WrittenAttribute(n.attrs[i].name, n.attrs[i].value)])
            \o IF IsEmpty(n) THEN <<Mark("slashgt", "")>>
               ELSE <<Mark("gt", "")>> \o FlattenSeq([i \in DOMAIN n.kids |-> WrittenNode(n.kids[i])])
                    \o (IF IsLeaf(n) THEN <<>> ELSE Indent) \o <<Mark("close", n.name)>>

\* A comment that was put before the root, by hand.
Preamble == <<Mark("comment", "")>> \o Chars(<<"x", "-", "-", ">", "newline">>)

\* writeDeclaration, lines 45-60, and writeDocument, lines 38-43.
Written(d) ==
    <<Mark("decl", "")>>
    \o WrittenAttribute("version", <<d.decl.version>>)
    \o (IF d.decl.encoding = "" THEN <<>> ELSE WrittenAttribute("encoding", <<d.decl.encoding>>))
    \o (IF d.decl.standalone = "" THEN <<>> ELSE WrittenAttribute("standalone", <<d.decl.standalone>>))
    \o <<Mark("declend", "")>>
    \o (IF options.preamble THEN Preamble ELSE <<>>)
    \o WrittenNode(d.root)

-----------------------------------------------------------------------------
(* The reader.                                                             *)

Default == [version |-> "1.0", encoding |-> "UTF-8", standalone |-> ""]
Nothing == [k |-> "nothing"]

Intact(stream) == input = stream /\ damaged = FALSE
Cut(stream) == \E length \in 0 .. Len(stream) - 1 : input = SubSeq(stream, 1, length) /\ damaged = TRUE
Misnamed(stream) ==
    \E i \in DOMAIN stream :
        stream[i].t = "close" /\ input = [stream EXCEPT ![i].v = "other"] /\ damaged = TRUE

XmlInit ==
    /\ doc \in Documents
    /\ options \in [formatted : BOOLEAN, strip : BOOLEAN, encoding : Encodings, preamble : BOOLEAN]
    /\ encoding = options.encoding
    /\ \/ Intact(Written(doc))
       \/ Len(doc.root.kids) <= DamageKids /\ (Cut(Written(doc)) \/ Misnamed(Written(doc)))
    /\ phase = "declaration" /\ open = <<>> /\ decl = Default /\ root = Nothing
    /\ nth = 1

Next1(t) == input # <<>> /\ Head(input).t = t

\* The characters up to the next piece of markup.
Run == LET i == SelectInSeq(input, LAMBDA s : s.t # "chr")
       IN  [j \in 1 .. (IF i = 0 THEN Len(input) ELSE i - 1) |-> input[j].v]
After(n) == SubSeq(input, n + 1, Len(input))

\* ReadStringWithStr, lines 290-322, over the characters given: how many are
\* read, 0 if the end is not found, and the value.  A character that breaks a
\* match off is neither taken into the value nor compared with the end again.
RECURSIVE Scan(_, _, _, _)
Scan(left, end, matched, read) ==
    IF left = <<>> THEN [found |-> FALSE, left |-> left, value |-> read]
    ELSE IF Head(left) = end[matched + 1]
         THEN IF matched + 1 = Len(end) THEN [found |-> TRUE, left |-> Tail(left), value |-> read]
              ELSE Scan(Tail(left), end, matched + 1, read)
    ELSE IF matched = 0 THEN Scan(Tail(left), end, 0, Append(read, Head(left)))
    ELSE Scan(Tail(left), end, 0, read \o SubSeq(end, 1, matched))

Found(value, end) ==
    LET scan == Scan(value, end, 0, <<>>)
    IN  [n |-> IF scan.found THEN Len(value) - Len(scan.left) ELSE 0, value |-> scan.value]

\* The characters behind the symbol in front.
RunBehind ==
    LET i == SelectInSeq(Tail(input), LAMBDA s : s.t # "chr")
    IN  [j \in 1 .. (IF i = 0 THEN Len(input) - 1 ELSE i - 1) |-> input[j + 1].v]

Fails == phase' = "failed" /\ UNCHANGED <<given, input, open, decl, root, encoding>>

\* readDeclaration, lines 49-96.
StartDeclaration ==
    /\ phase = "declaration" /\ Next1("decl")
    /\ phase' = "attributes" /\ input' = Tail(input) /\ decl' = Default
    /\ UNCHANGED <<given, open, root, encoding>>

\* An attribute in front: its value and what follows it.
AttributeRead ==
    LET rest == Tail(input)
        at   == SelectInSeq(rest, LAMBDA s : s.t # "chr")
    IN  [value |-> [i \in 1 .. at - 1 |-> rest[i].v], rest |-> SubSeq(rest, at + 1, Len(rest))]

\* The quote at the end of an attribute has been reached.
Quoted == \E i \in 2..Len(input) : input[i].t = "quote" /\ \A j \in 2 .. i - 1 : input[j].t = "chr"

DeclarationAttribute ==
    /\ phase = "attributes" /\ Next1("attr") /\ Quoted
    /\ decl' = [decl EXCEPT ![Head(input).v] = AttributeRead.value[1]]
    /\ input' = AttributeRead.rest
    /\ UNCHANGED <<given, phase, open, root, encoding>>

\* The rest, lines 407-411: an encoding that is set goes before the declared one.
EndDeclaration ==
    /\ phase = "attributes" /\ Next1("declend")
    /\ input' = Tail(input)
    /\ decl' = IF encoding # "" THEN [decl EXCEPT !.encoding = encoding] ELSE decl
    /\ encoding' = IF encoding # "" THEN encoding ELSE decl.encoding
    /\ phase' = "prolog"
    /\ UNCHANGED <<given, open, root>>

\* Lines 412-430: blanks and comments before the root.
SkipBlanks ==
    /\ phase = "prolog" /\ Next1("chr") /\ Blank(Head(input).v)
    /\ input' = Tail(input)
    /\ UNCHANGED <<given, phase, open, decl, root, encoding>>

SkipComment ==
    /\ phase = "prolog" /\ Next1("comment")
    /\ LET found == Found(RunBehind, <<"-", "-", ">">>) IN
       IF found.n = 0 THEN phase' = "failed" /\ UNCHANGED input
       ELSE input' = After(found.n + 1) /\ UNCHANGED phase
    /\ UNCHANGED <<given, open, decl, root, encoding>>

\* readElement, lines 98-145.
Open ==
    /\ phase \in {"prolog", "markup"} /\ Next1("open")
    /\ open' = Append(open, [k |-> "element", name |-> Head(input).v, attrs |-> <<>>, kids |-> <<>>])
    /\ input' = Tail(input)
    /\ phase' = "tag"
    /\ UNCHANGED <<given, decl, root, encoding>>

InTop(record) == [open EXCEPT ![Len(open)] = record]
Top == Last(open)
WithKid(e, node) == [e EXCEPT !.kids = Append(@, node)]

Attribute ==
    /\ phase = "tag" /\ Next1("attr") /\ Quoted
    /\ open' = InTop([Top EXCEPT !.attrs =
                        Append(@, [name |-> Head(input).v, value |-> Unescaped(AttributeRead.value)])])
    /\ input' = AttributeRead.rest
    /\ UNCHANGED <<given, phase, decl, root, encoding>>

EndTag ==
    /\ phase = "tag" /\ Next1("gt")
    /\ input' = Tail(input) /\ phase' = "content"
    /\ UNCHANGED <<given, open, decl, root, encoding>>

\* An element is complete: it is in the one around it already, or is the root.
Complete ==
    IF Len(open) = 1 THEN root' = Top /\ open' = <<>> /\ phase' = "done"
    ELSE /\ open' = Append(SubSeq(open, 1, Len(open) - 2), WithKid(open[Len(open) - 1], Top))
         /\ phase' = "content"
         /\ UNCHANGED root

EndEmptyTag ==
    /\ phase = "tag" /\ Next1("slashgt")
    /\ input' = Tail(input)
    /\ Complete
    /\ UNCHANGED <<given, decl, encoding>>

\* Lines 150-157: there is a text before each piece of markup, and it may be empty.
ReadText ==
    /\ phase = "content"
    /\ LET value == Unescaped(Run) IN
       /\ Len(Run) < Len(input)
       /\ open' = IF value # <<>> /\ (~options.strip \/ \E i \in DOMAIN value : ~Blank(value[i]))
                  THEN InTop(WithKid(Top, [k |-> "text", value |-> value])) ELSE open
       /\ input' = After(Len(Run))
    /\ phase' = "markup"
    /\ UNCHANGED <<given, decl, root, encoding>>

\* Lines 161-167.  A search that goes on behind the characters that follow has
\* missed the end of the node.
ReadUntil(kind, end) ==
    /\ phase = "markup" /\ Next1(kind)
    /\ LET found == Found(RunBehind, end)
       IN  IF found.n = 0
           THEN /\ phase' = IF Len(RunBehind) + 1 = Len(input) THEN "failed" ELSE "astray"
                /\ UNCHANGED <<input, open>>
           ELSE /\ open' = InTop(WithKid(Top, [k |-> kind, value |-> found.value]))
                /\ input' = After(found.n + 1) /\ phase' = "content"
    /\ UNCHANGED <<given, decl, root, encoding>>

ReadComment == ReadUntil("comment", <<"-", "-", ">">>)
ReadCdata == ReadUntil("cdata", <<"]", "]", ">">>)

\* Lines 168-177.
Close ==
    /\ phase = "markup" /\ Next1("close") /\ Head(input).v = Top.name
    /\ input' = Tail(input)
    /\ Complete
    /\ UNCHANGED <<given, decl, encoding>>

CloseOther == phase = "markup" /\ Next1("close") /\ Head(input).v # Top.name /\ Fails

\* Mutation of EndOfStream: no exceptions are set for the stream.
EndOfStreamForever == FALSE /\ Fails

\* The stream ends where something is expected: readDocument has set exceptions
\* for it (line 404).
EndOfStream ==
    /\ \/ phase \in {"declaration", "attributes", "prolog", "tag", "markup"} /\ input = <<>>
       \/ phase = "content" /\ Len(Run) = Len(input)
       \/ phase \in {"attributes", "tag"} /\ Next1("attr") /\ ~Quoted
    /\ Fails

\* Another document, read by the same reader.
ReadAnother ==
    /\ phase = "done" /\ nth = 1
    /\ nth' = 2 /\ doc' = Second /\ input' = Written(Second)
    /\ phase' = "declaration" /\ root' = Nothing
    /\ UNCHANGED <<options, damaged, open, decl, encoding>>

Reading ==
    \/ StartDeclaration \/ DeclarationAttribute \/ EndDeclaration
    \/ SkipBlanks \/ SkipComment \/ Open \/ Attribute \/ EndTag \/ EndEmptyTag
    \/ ReadText \/ ReadComment \/ ReadCdata \/ Close \/ CloseOther \/ EndOfStream

XmlNext == Reading \/ ReadAnother
XmlSpec == XmlInit /\ [][XmlNext]_xmlVars

-----------------------------------------------------------------------------
\* Types; an element is open while one is read.
XmlTypeOK ==
    /\ phase \in {"declaration", "attributes", "prolog", "tag", "content", "markup",
                  "done", "failed", "astray"}
    /\ phase \in {"tag", "content", "markup"} => open # <<>>
    /\ phase \in {"declaration", "attributes", "prolog", "done"} => open = <<>>
    /\ (phase = "done") = (root # Nothing)

\* What is to be read of the children of an element: texts that follow each other
\* are one, and one that is blank is none if blanks are stripped.
RECURSIVE Normal(_)
Normal(n) ==
    IF n.k # "element" THEN n
    ELSE LET joined == FoldLeft(
                 LAMBDA acc, kid :
                     IF kid.k = "text" /\ acc # <<>> /\ Last(acc).k = "text"
                     THEN Append(Front(acc), [Last(acc) EXCEPT !.value = @ \o kid.value])
                     ELSE Append(acc, Normal(kid)),
                 <<>>, n.kids)
         IN  [n EXCEPT !.kids = SelectSeq(joined, LAMBDA kid :
                 \/ kid.k # "text"
                 \/ /\ kid.value # <<>>
                    /\ options.strip => \E i \in DOMAIN kid.value : ~Blank(kid.value[i]))]

\* What formatting is harmless for, and what goes through comments and CDATA
\* sections: neither dashes, brackets nor what would be escaped.
RECURSIVE Harmless(_)
Harmless(n) ==
    CASE n.k = "text" -> TRUE
      [] n.k = "comment" -> ToSet(n.value) \cap (DOMAIN Escapes \cup {"-"}) = {}
      [] n.k = "cdata" -> "]" \notin ToSet(n.value)
      [] n.k = "element" ->
            /\ \A i \in DOMAIN n.kids : Harmless(n.kids[i])
            /\ (options.formatted /\ Len(n.kids) > 1) =>
                    (options.strip /\ \A i \in DOMAIN n.kids : n.kids[i].k # "text")
            /\ (options.formatted /\ Len(n.kids) = 1) => (options.strip \/ n.kids[1].k = "text")

ReadBack ==
    /\ root = Normal(doc.root)
    /\ decl.version = doc.decl.version /\ decl.standalone = doc.decl.standalone

\* What has been written is read back, with its elements, attributes, texts,
\* escapes and declaration, whatever the settings (within Harmless).
RoundTrip == (phase = "done" /\ ~damaged /\ Harmless(doc.root)) => ReadBack

\* A document that breaks off, or in which a wrong element is closed, is refused
\* (lines 171-174 and 404); what an intact one has is not.
DamageIsRefused ==
    /\ damaged => (phase # "done")
    /\ (~damaged /\ Harmless(doc.root)) => (phase # "failed")

\* The reader reads what the writer has written, and only that.
XmlInv == XmlTypeOK /\ RoundTrip /\ DamageIsRefused

\* The reader ends, with the document or an exception.
ReaderAtEnd == phase \in {"done", "failed", "astray"}

\* "if document encoding is set, encoding value from declaration will be overriden
\* else will be used value from declaration" (XmlReader.h lines 53-55).
EncodingIsDeclared ==
    phase = "done" => decl.encoding = IF options.encoding # "" THEN options.encoding
                                      ELSE IF doc.decl.encoding # "" THEN doc.decl.encoding
                                      ELSE "UTF-8"

\* Comments and CDATA sections are read back as they were written
\* (XmlWriter.cpp lines 121-143).
NodesSurvive ==
    ~damaged /\ ~options.formatted =>
        /\ phase \notin {"failed", "astray"}
        /\ (phase = "done" => ReadBack)
==============================================================================
