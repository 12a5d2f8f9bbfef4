---------------------------- MODULE TemplateValues ----------------------------
(***************************************************************************)
(* The expressions $(...) in the templates of the code generator, as       *)
(* TemplateParser (src/tools/ngrestcg/src/CodeGen.cpp) evaluates them: an  *)
(* element is looked up from the one the template is at, and functions are *)
(* applied to its text.  A text is a sequence of symbols.  An expression   *)
(* that is nested in another one is evaluated first and not modelled.      *)
(***************************************************************************)
EXTENDS Integers, Sequences, SequencesExt, TLC

CONSTANTS
    Tree           \* the document: [element -> [name, value, kids, parent]]

Thrown == <<"thrown">>           \* the exception in place of a value
Hangs == <<"hangs">>             \* an evaluation that does not end
NoElement == "none"              \* no parent; and emptyElement, line 77

-----------------------------------------------------------------------------
(* Functions.                                                              *)

Uppers == [a |-> "A", b |-> "B", f |-> "F", i |-> "I", t |-> "T"]
Upper(c) == IF c \in DOMAIN Uppers THEN Uppers[c] ELSE c
Lower(c) == IF \E l \in DOMAIN Uppers : Uppers[l] = c THEN CHOOSE l \in DOMAIN Uppers : Uppers[l] = c ELSE c
Mapped(Op(_), v) == [i \in DOMAIN v |-> Op(v[i])]
Truth(b) == IF b THEN <<"true">> ELSE <<"false">>

\* The first and the last of the symbols that are in `what`, 0 if there is none.
FirstIn(v, what) == SelectInSeq(v, LAMBDA c : c \in ToSet(what))
LastIn(v, what) == SelectLastInSeq(v, LAMBDA c : c \in ToSet(what))
Before(v, i) == SubSeq(v, 1, i - 1)
BehindText(v, i) == SubSeq(v, i + 1, Len(v))

StartsWith(v, what) == IsPrefix(what, v)
EndsWith(v, what) == IsSuffix(what, v)
HasWithin(v, what) == \E i \in 0..Len(v) : StartsWith(BehindText(v, i), what)

\* stringReplace with all, stringutils.h lines 36-50.  What starts in a piece that has
\* been replaced is not looked at again; nothing is found again and again.
ReplacedAll(v, what, with) ==
    LET Step(acc, i) ==
            IF acc.skip > 0 THEN [acc EXCEPT !.skip = @ - 1]
            ELSE IF StartsWith(BehindText(v, i - 1), what)
                 THEN [out |-> acc.out \o with, skip |-> Len(what) - 1]
                 ELSE [acc EXCEPT !.out = Append(@, v[i])]
    IN  IF what = <<>> THEN Hangs
        ELSE FoldLeftDomain(Step, [out |-> <<>>, skip |-> 0], v).out

\* stringTrimLeft and stringTrimRight, lines 57-78: a text that has nothing else is cleared
\* by the first and kept by the second.
Blank == <<" ", "nl">>
TrimmedLeft(v, what) ==
    LET at == SelectInSeq(v, LAMBDA c : c \notin ToSet(what))
    IN  IF at = 0 THEN <<>> ELSE BehindText(v, at - 1)
TrimmedRight(v, what) ==
    LET at == SelectLastInSeq(v, LAMBDA c : c \notin ToSet(what))
    IN  IF at = 0 THEN v ELSE SubSeq(v, 1, at)
Trimmed(v, what) == TrimmedRight(TrimmedLeft(v, what), what)

\* CodeGen.cpp lines 263-280: the :: around a name.
Bare(v) ==
    LET left == IF StartsWith(v, <<":", ":">>) THEN BehindText(v, 2) ELSE v
    IN  IF EndsWith(left, <<":", ":">>) THEN SubSeq(left, 1, Len(left) - 2) ELSE left

\* Lines 319-341, replacenotof: what is between two of the symbols.
ReplacedNotOf(v, what, with) ==
    LET kept == FoldLeft(LAMBDA acc, c : IF c \in ToSet(what) THEN acc \o Append(with, c) ELSE acc, <<>>, v)
    IN  IF v # <<>> /\ Last(v) \notin ToSet(what) THEN kept \o with ELSE kept

\* Lines 381-387, tocamelcase: an underscore at the end is found again and again.
CamelCased(v) ==
    LET Step(acc, c) ==
            IF acc.joins THEN [out |-> IF c = "_" THEN acc.out ELSE Append(acc.out, Upper(c)), joins |-> c = "_"]
            ELSE IF c = "_" THEN [acc EXCEPT !.joins = TRUE] ELSE [acc EXCEPT !.out = Append(@, c)]
        all == FoldLeft(Step, [out |-> <<>>, joins |-> FALSE], v)
    IN  IF all.joins THEN Hangs ELSE all.out

\* Lines 430-493: token, lasttoken, cut and cutlast are empty if there is no separator.
Token(v, what) == IF FirstIn(v, what) = 0 THEN <<>> ELSE Before(v, FirstIn(v, what))
LastToken(v, what) == IF LastIn(v, what) = 0 THEN <<>> ELSE BehindText(v, LastIn(v, what))
Cut(v, what) == IF FirstIn(v, what) = 0 THEN <<>> ELSE BehindText(v, FirstIn(v, what))
CutLast(v, what) == IF LastIn(v, what) = 0 THEN <<>> ELSE Before(v, LastIn(v, what))

\* Lines 407-429.
WithoutPrefix(v, what) == IF StartsWith(v, what) THEN BehindText(v, Len(what)) ELSE v
WithoutPostfix(v, what) ==
    IF Len(v) > Len(what) /\ EndsWith(v, what) THEN SubSeq(v, 1, Len(v) - Len(what)) ELSE v

\* fixid, ngrestcgparser/src/tools.cpp lines 224-330: a symbol that an identifier has not
\* becomes its name, and a word of the language is marked.
Mangles == ("." :> <<"_", "period", "_">>) @@ (":" :> <<"_", "colon", "_">>)
             @@ ("," :> <<"_", "comma", "_">>) @@ (" " :> <<"_", "0x20">>)
Reserved == {<<"i", "f">>}
Identifier(v) ==
    LET mangled == FlattenSeq([i \in DOMAIN v |-> IF v[i] \in DOMAIN Mangles THEN Mangles[v[i]] ELSE <<v[i]>>])
    IN  IF mangled # <<>> /\ Head(mangled) \in {"0", "1", "2"} THEN <<"_">> \o mangled
        ELSE IF mangled \in Reserved THEN Append(mangled, "_") ELSE mangled

\* inc, dec, add and sub, lines 497-530: a text that is no number is 0.
Numbers == -2..3
Number(v) == IF \E n \in Numbers : v = <<ToString(n)>> THEN CHOOSE n \in Numbers : v = <<ToString(n)>> ELSE 0
Text(n) == <<ToString(n)>>

\* executeFunction, lines 254-536, of a function [name, a, b].  resultElem is one object:
\* the second function of a chain has it as its element, and clears it before it reads its
\* value; only the ones that read the value first, on line 257, have the text of the first.
Applied(f, text, value) ==
    CASE f.name = "mangledot" -> ReplacedAll(text, <<".">>, <<"_">>)
      [] f.name = "mangle" -> ReplacedAll(Bare(text), <<":", ":">>, <<"_">>)
      [] f.name = "dot" -> ReplacedAll(Bare(text), <<":", ":">>, <<".">>)
      [] f.name = "not" -> Truth(text # <<"true">>)
      [] f.name = "equals" -> Truth(text = f.a)
      [] f.name = "match" -> Truth(HasWithin(text, f.a))
      [] f.name = "replace" -> ReplacedAll(text, f.a, f.b)
      [] f.name = "replacenotof" -> ReplacedNotOf(text, f.a, f.b)
      [] f.name = "trim/" -> Trimmed(text, f.a)
      [] f.name = "trimleft/" -> TrimmedLeft(text, f.a)
      [] f.name = "trimright/" -> TrimmedRight(text, f.a)
      [] f.name = "trim" -> Trimmed(text, Blank)
      [] f.name \in {"trimleft", "trimright"} -> Thrown        \* "trim" is found first
      [] f.name = "tolower" -> Mapped(Lower, text)
      [] f.name = "toupper" -> Mapped(Upper, text)
      [] f.name = "tocamelcase" -> CamelCased(text)
      [] f.name = "append" -> text \o f.a
      [] f.name = "prepend" -> f.a \o text
      [] f.name = "deprefix" -> WithoutPrefix(text, f.a)
      [] f.name = "depostfix" -> WithoutPostfix(text, f.a)
      [] f.name = "token" -> Token(value, f.a)
      [] f.name = "lasttoken" -> LastToken(value, f.a)
      [] f.name = "cut" -> Cut(value, f.a)
      [] f.name = "cutlast" -> CutLast(value, f.a)
      [] f.name = "fixid" -> Identifier(text)
      [] f.name = "inc" -> Text(Number(text) + 1)
      [] f.name = "dec" -> Text(Number(text) - 1)
      [] f.name = "add" -> Text(Number(text) + Number(f.a))
      [] f.name = "sub" -> Text(Number(text) - Number(f.a))
      [] OTHER -> Thrown

\* Lines 197-208: one function after another.
Chained(fs, text) ==
    LET Step(acc, i) == IF acc \in {Thrown, Hangs} THEN acc
                        ELSE Applied(fs[i], acc, IF i = 1 THEN text ELSE <<>>)
    IN  FoldLeftDomain(Step, text, fs)

-----------------------------------------------------------------------------
(* Elements.                                                               *)

Elements == DOMAIN Tree
Kids(e) == IF e = NoElement THEN <<>> ELSE Tree[e].kids

\* An element and those it is in.
Upwards[e \in Elements] ==
    IF Tree[e].parent = NoElement THEN <<e>> ELSE <<e>> \o Upwards[Tree[e].parent]

\* The first child of that name.
Child(e, name) ==
    LET at == SelectInSeq(Kids(e), LAMBDA k : Tree[k].name = name)
    IN  IF at = 0 THEN NoElement ELSE Kids(e)[at]

\* Lines 133-152, and 209-222 for the last name: a child that is optional may be missing.
Stepped(at, step) ==
    IF at.thrown \/ (Child(at.elem, step.name) = NoElement /\ ~step.opt)
    THEN [at EXCEPT !.thrown = TRUE]
    ELSE [elem |-> Child(at.elem, step.name), thrown |-> FALSE]

\* Where the path begins, lines 78-131 and 153-158: the element itself, a child of the
\* nearest one that has it, the nearest one of a name, or the element if it has the name.
Start(x, e) ==
    LET up    == IF e = NoElement THEN <<>> ELSE Upwards[e]
        has   == SelectInSeq(up, LAMBDA a : Child(a, x.name) # NoElement)
        named == SelectInSeq(up, LAMBDA a : Tree[a].name = x.name)
    IN  CASE x.from = "self" -> [elem |-> e, thrown |-> FALSE]
          [] x.from = "up" /\ has # 0 -> [elem |-> Child(up[has], x.name), thrown |-> FALSE]
          [] x.from = "up" /\ has = 0 -> [elem |-> NoElement, thrown |-> ~x.opt]
          [] x.from = "named" -> [elem |-> IF named = 0 THEN NoElement ELSE up[named], thrown |-> named = 0]

\* getElement, lines 75-223, of [from, name, opt, path, prop, fs].  An optional one that is
\* missing at the start ends it, lines 115-116.
Follow(start, path) ==
    IF start.elem = NoElement /\ ~start.thrown THEN start ELSE FoldLeft(Stepped, start, path)
GetElement(x, e) == Follow(Start(x, e), x.path)

\* Lines 160-195: $num and $count; the text of the element else.
Property(x, e) ==
    CASE x.prop = "count" -> Text(Len(Kids(e)))
      [] x.prop = "num" ->
            IF e = NoElement \/ Tree[e].parent = NoElement THEN Thrown
            ELSE Text(SelectInSeq(Kids(Tree[e].parent), LAMBDA k : k = e) - 1)
      [] OTHER -> IF e = NoElement THEN <<>> ELSE Tree[e].value

\* Lines 584-606: the name, the text or the path of the element.  Functions are looked for
\* behind the first point, so that a text that has one, or none at all, has no functions.
OfThis(x, e) ==
    LET v == CASE x.what = "name" -> <<Tree[e].name>>
               [] x.what = "value" -> Tree[e].value
               [] x.what = "path" -> Tail(FlattenSeq([i \in DOMAIN Upwards[e] |->
                                        <<".", Tree[Upwards[e][Len(Upwards[e]) + 1 - i]].name>>]))
    IN  IF x.fs # <<>> /\ (v = <<>> \/ "." \in ToSet(v)) THEN Thrown ELSE v

\* Lines 581-624, without the functions.  A variable that nobody has set is empty.
OfNode(x, at) == IF at.thrown THEN Thrown ELSE Property(x, at.elem)
Source(x, e, vars) ==
    CASE x.k = "variable" -> IF x.name \in DOMAIN vars THEN vars[x.name] ELSE <<>>
      [] x.k = "this" -> OfThis(x, e)
      [] x.k = "node" -> OfNode(x, GetElement(x, e))

\* processValue, lines 581-624, and the literals of lines 657-659.
ValueOf(x, e, vars) == IF x.k = "literal" THEN x.v ELSE Chained(x.fs, Source(x, e, vars))

\* Lines 644-669: the first of the alternatives that is not empty.
Alternative(alts, e, vars) ==
    FoldLeft(LAMBDA v, x : IF v # <<>> THEN v ELSE ValueOf(x, e, vars), <<>>, alts)

\* A value behind what there is; an exception stays one.
WithValue(acc, v) ==
    IF acc \in {Thrown, Hangs} THEN acc ELSE IF v \in {Thrown, Hangs} THEN v ELSE acc \o v

\* replaceToValue, lines 626-674, of the pieces of a line: symbols, or the alternatives of
\* an expression.  What has been put in is not looked at again.
Replaced(pieces, e, vars) ==
    LET Step(acc, p) == WithValue(acc, IF p.k = "text" THEN p.v ELSE Alternative(p.alts, e, vars))
    IN  FoldLeft(Step, <<>>, pieces)
==============================================================================
