------------------------------ MODULE Templates ------------------------------
(***************************************************************************)
(* TemplateParser (src/tools/ngrestcg/src/CodeGen.cpp): how the directives *)
(* of a template are followed.  A block is not parsed: the lines up to its *)
(* end are taken out of the stream and processed as a stream of their own, *)
(* by a call of process within the call that found them.  A file that is   *)
(* opened is written by a call of process that reads on in the same stream.*)
(* Lines are records; [k |-> "text"] has the pieces p and whether a new    *)
(* line ends it, and the directives have their operands.                   *)
(***************************************************************************)
EXTENDS TemplateValues

CONSTANTS
    Jobs,          \* [lines, vars, ...]: templates and the variables that are set
    Included       \* the lines of the templates that are included, by name

VARIABLES
    job,           \* the template that is processed
    frames,        \* the calls of process, the innermost last:
                   \* [left, element, opened: files open in this stream, again]
    outs,          \* the names of the files that are written, the current one last
    files,         \* [name -> [text, state |-> "open" | "complete" | "failed"]]
    variables,     \* the stack of the variables
    indent, isNeedIndent,
    phase

templateVars == <<job, frames, outs, files, variables, indent, isNeedIndent, phase>>

Root == CHOOSE e \in Elements : Tree[e].parent = NoElement
Nowhere == <<>>                    \* what is written outside of files, line 703
Once == [k |-> "once"]
Frame(left, element, again) == [left |-> left, element |-> element, opened |-> 0, again |-> again]

\* start, lines 695-713, and CodeGen::start, lines 1391-1402.
TemplateStart ==
    /\ frames = <<Frame(job.lines, Root, Once)>>
    /\ outs = <<Nowhere>> /\ files = <<>>
    /\ variables = <<job.vars>>
    /\ indent = 0 /\ isNeedIndent = FALSE
    /\ phase = "running"
TemplateInit == job \in Jobs /\ TemplateStart

-----------------------------------------------------------------------------
Top == Last(frames)
Line == Head(Top.left)
Rest == Tail(Top.left)
Vars == Last(variables)
Value(pieces) == Replaced(pieces, Top.element, Vars)
At(k) == phase = "running" /\ frames # <<>> /\ Top.left # <<>> /\ Line.k = k

\* An exception goes through all calls; each that has opened a file renames it, lines
\* 1248-1253.
Fail ==
    /\ phase' = "failed"
    /\ files' = [f \in DOMAIN files |-> [files[f] EXCEPT !.state = IF f \in ToSet(outs) THEN "failed" ELSE @]]
    /\ UNCHANGED <<job, frames, outs, variables, indent, isNeedIndent>>
Hang == phase' = "hangs" /\ UNCHANGED <<job, frames, outs, files, variables, indent, isNeedIndent>>
Evaluated(v, Then) == IF v = Thrown THEN Fail ELSE IF v = Hangs THEN Hang ELSE Then

\* What a directive evaluates before all else: the operands of a line, or those of the
\* loop that comes to its end.
Operands ==
    LET line == IF Top.left = <<>> THEN Top.again.line ELSE Line
    IN  IF frames = <<>> \/ (Top.left = <<>> /\ Top.again.k # "while") THEN <<>>
        ELSE IF line.k \in {"text", "say", "var", "switch", "fileopen"} THEN <<line.p>>
        ELSE IF line.k \in {"if", "while"} THEN <<line.l, line.r>> ELSE <<>>
Values == [i \in DOMAIN Operands |-> Value(Operands[i])]

\* The innermost call goes on behind n lines, and perhaps calls process for a block.
Onward(n) == Append(Front(frames), [Top EXCEPT !.left = SubSeq(@, n + 1, Len(@))])
Into(n, block) == Append(Onward(n), block)
OnlyFrames == UNCHANGED <<job, outs, files, variables, indent, isNeedIndent, phase>>

-----------------------------------------------------------------------------
(* Where a block ends: the same loop for every kind of block, lines        *)
(* 814-841, 866-922, 945-968, 1000-1023 and 1057-1080.                     *)

Count(lines, i, k) == Cardinality({j \in 1..i : lines[j].k = k})

\* Mutation of Level: blocks of the kind are not counted.
LevelFlat(lines, i, k, end) == IF Count(lines, i, end) = 0 THEN 1 ELSE 0

\* How many blocks of the kind are open behind line i.
Level(lines, i, k, end) == 1 + Count(lines, i, k) - Count(lines, i, end)
Ends(lines, k, end) == {i \in DOMAIN lines : Level(lines, i, k, end) = 0}
EndOf(lines, k, end) == Min(Ends(lines, k, end))

\* The block begins behind the directive; without an end an assertion fails.
Block(k, end) == SubSeq(Rest, 1, EndOf(Rest, k, end) - 1)
Behind1(k, end) == EndOf(Rest, k, end) + 1

-----------------------------------------------------------------------------
(* Lines.                                                                  *)

\* Lines 1288-1315: what follows a new line is indented, an empty line is not.
Write(vs) ==
    /\ At("text")
    /\ LET spaces == IF isNeedIndent /\ Line.p # <<>> THEN [i \in 1..indent |-> "    "] ELSE <<>>
           name == Last(outs)
       IN  Evaluated(vs[1],
             /\ files' = IF name = Nowhere THEN files
                         ELSE [files EXCEPT ![name].text = @ \o spaces \o vs[1] \o (IF Line.nl THEN <<"nl">> ELSE <<>>)]
             /\ isNeedIndent' = (Line.nl \/ (isNeedIndent /\ Line.p = <<>>))
             /\ frames' = Onward(1)
             /\ UNCHANGED <<job, outs, variables, indent, phase>>)

Comment == At("comment") /\ frames' = Onward(1) /\ OnlyFrames                  \* lines 1195-1196

\* Lines 1197-1200, 1259-1264 and 1269-1272: a message, a directory; no more than evaluated.
Say(vs) == At("say") /\ Evaluated(vs[1], frames' = Onward(1) /\ OnlyFrames)

\* Lines 1273-1275.
Error == At("error") /\ Fail

\* Lines 1201-1217.
SetVariable(vs) ==
    /\ At("var")
    /\ Evaluated(vs[1], /\ variables' = Append(Front(variables), (Line.n :> vs[1]) @@ Vars)
                        /\ frames' = Onward(1)
                        /\ UNCHANGED <<job, outs, files, indent, isNeedIndent, phase>>)

\* Lines 1278-1281.
PushVars ==
    /\ At("pushvars")
    /\ variables' = Append(variables, Vars)
    /\ frames' = Onward(1)
    /\ UNCHANGED <<job, outs, files, indent, isNeedIndent, phase>>

\* The stack may be left without an element; then it has no top.
PopVars ==
    /\ At("popvars")
    /\ IF Len(variables) = 1
       THEN phase' = "undefined" /\ UNCHANGED <<frames, variables>>
       ELSE variables' = Front(variables) /\ frames' = Onward(1) /\ UNCHANGED phase
    /\ UNCHANGED <<job, outs, files, indent, isNeedIndent>>

\* processIndent, lines 1140-1170.
SetIndent ==
    /\ At("indent")
    /\ LET new == IF Line.relative THEN indent + Line.by ELSE Line.by
       IN  IF new \in 0..1023
           THEN /\ indent' = new /\ frames' = Onward(1)
                /\ UNCHANGED <<job, outs, files, variables, isNeedIndent, phase>>
           ELSE Fail

-----------------------------------------------------------------------------
(* Blocks.                                                                 *)

\* What is between two ||, or before or behind them.
Between(v) ==
    LET bars == {0, Len(v) + 1} \cup {i \in DOMAIN v : v[i] = "||"}
    IN  {SubSeq(v, i + 1, Min({j \in bars : j > i}) - 1) : i \in bars \ {Len(v) + 1}}

\* Lines 769-808: the directive is evaluated as a whole before its operands are found, so a
\* comma or a bracket in a value takes part.
Matches(left, right, neg) ==
    LET all   == left \o <<",">> \o right \o <<")">>
        comma == FirstIn(all, <<",">>)
        rest  == BehindText(all, comma)
    IN  IF Thrown \in {left, right} THEN Thrown
        ELSE IF Hangs \in {left, right} THEN Hangs
        ELSE Truth((Between(Before(all, comma)) \cap Between(Before(rest, FirstIn(rest, <<")">>))) # {}) # neg)

Kept(lines, Test(_)) ==
    FoldLeftDomain(LAMBDA acc, i : IF Test(i) THEN Append(acc, lines[i]) ELSE acc, <<>>, lines)

\* Lines 824-841: each else of this block turns it.
Chosen(lines, holds) ==
    LET own(i) == lines[i].k = "else" /\ Level(lines, i, "if", "endif") = 1
        on(i)  == holds = (Cardinality({j \in 1..i : own(j)}) % 2 = 0)
    IN  Kept(lines, LAMBDA i : on(i) /\ ~own(i))

\* processIfeq, lines 760-850.
If(vs) ==
    /\ At("if")
    /\ \E holds \in {Matches(vs[1], vs[2], Line.neg)} :
           Evaluated(holds,
             IF Ends(Rest, "if", "endif") = {} THEN Fail
             ELSE /\ frames' = Into(Behind1("if", "endif"),
                                    Frame(Chosen(Block("if", "endif"), holds = <<"true">>), Top.element, Once))
                  /\ OnlyFrames)

\* Lines 881-912: the cases of this block, and the first that is met; a default is met if
\* none before it is.
Cases(lines) == {i \in DOMAIN lines : /\ lines[i].k \in {"case", "default"}
                                      /\ Level(lines, i, "switch", "endswitch") = 1}
Met(line, v) == line.k = "default" \/ \E i \in DOMAIN line.ps : Value(line.ps[i]) = v

\* From the first case that is met up to the next one.
CaseBlock(lines, met) ==
    LET from == Min(met)
        to   == Min({i \in Cases(lines) : i > from} \cup {Len(lines) + 1})
    IN  IF met = {} THEN <<>> ELSE SubSeq(lines, from + 1, to - 1)

\* processSwitch, lines 852-928: that there is no end is not noticed, line 866.
Switch(vs) ==
    /\ At("switch")
    /\ LET closed == Ends(Rest, "switch", "endswitch") # {}
           lines == IF closed THEN Block("switch", "endswitch") ELSE Rest
           cases == Cases(lines)
       IN  Evaluated(vs[1],
             /\ frames' = Into(IF closed THEN Behind1("switch", "endswitch") ELSE 1 + Len(Rest),
                               Frame(CaseBlock(lines, {i \in cases : Met(lines[i], vs[1])}), Top.element, Once))
             /\ OnlyFrames)

\* processForEach, lines 930-980.
ForEach ==
    /\ At("foreach")
    /\ \E at \in {GetElement(Line.x, Top.element)} :
       LET kids == Kids(at.elem)
           body == Block("foreach", "endfor")
       IN  IF Ends(Rest, "foreach", "endfor") = {} \/ at.thrown THEN Fail
           ELSE /\ frames' = IF kids = <<>> THEN Onward(Behind1("foreach", "endfor"))
                             ELSE Into(Behind1("foreach", "endfor"),
                                       Frame(body, Head(kids), [k |-> "each", body |-> body, rest |-> Tail(kids)]))
                /\ OnlyFrames

\* processContext, lines 1041-1096.
Context ==
    /\ At("context")
    /\ LET at == GetElement(Line.x, Top.element)
       IN  IF Ends(Rest, "context", "endcontext") = {} \/ at.thrown THEN Fail
           ELSE /\ frames' = Into(Behind1("context", "endcontext"),
                                  Frame(Block("context", "endcontext"), at.elem, Once))
                /\ OnlyFrames

\* processWhile, lines 982-1039: while and until.  The operands are found first here.
LoopGoes(vs, inv) == IF Thrown \in {vs[1], vs[2]} THEN Thrown ELSE Truth((vs[1] = vs[2]) # inv)
While(vs) ==
    /\ At("while")
    /\ \E goes \in {LoopGoes(vs, Line.inv)} :
       LET body == Block("while", "done")
       IN  IF Ends(Rest, "while", "done") = {} THEN Fail
           ELSE Evaluated(goes,
                  /\ frames' = IF goes = <<"false">> THEN Onward(Behind1("while", "done"))
                               ELSE Into(Behind1("while", "done"),
                                         Frame(body, Top.element, [k |-> "while", body |-> body, line |-> Line]))
                  /\ OnlyFrames)

\* processInclude, lines 1098-1138, from the directory of the template.
Include ==
    /\ At("include")
    /\ IF Line.f \in DOMAIN Included
       THEN frames' = Into(1, Frame(Included[Line.f], Top.element, [k |-> "include"])) /\ OnlyFrames
       ELSE Fail

-----------------------------------------------------------------------------
(* Files.                                                                  *)

\* Lines 1232-1247.
FileOpen(vs) ==
    /\ At("fileopen")
    /\ Evaluated(vs[1],
         IF vs[1] = <<>> THEN Fail
         ELSE /\ files' = (vs[1] :> [text |-> <<>>, state |-> "open"]) @@ files
              /\ outs' = Append(outs, vs[1])
              /\ indent' = 0
              /\ frames' = Append(Front(frames), [Top EXCEPT !.left = Tail(@), !.opened = @ + 1])
              /\ UNCHANGED <<job, variables, isNeedIndent, phase>>)

\* Lines 1254-1256.
Closed ==
    /\ files' = [files EXCEPT ![Last(outs)].state = "complete"]
    /\ outs' = Front(outs)

\* Lines 1257-1258: the innermost call of process returns, to the one that has opened a
\* file in this stream, to the loop over an included template (line 1129), or to the block.
FileClose ==
    /\ At("fileclose")
    /\ IF Top.opened > 0
       THEN /\ Closed
            /\ frames' = Append(Front(frames), [Top EXCEPT !.left = Tail(@), !.opened = @ - 1])
            /\ UNCHANGED <<job, variables, indent, isNeedIndent, phase>>
       ELSE /\ frames' = IF Top.again.k = "include" THEN Onward(1)
                         ELSE Append(Front(frames), [Top EXCEPT !.left = <<>>])
            /\ OnlyFrames

\* At the end of the stream a file that is open in it is closed.
EndFile ==
    /\ phase = "running" /\ frames # <<>> /\ Top.left = <<>> /\ Top.opened > 0
    /\ Closed
    /\ frames' = Append(Front(frames), [Top EXCEPT !.opened = @ - 1])
    /\ UNCHANGED <<job, variables, indent, isNeedIndent, phase>>

\* The stream ends, and process with it: lines 972-978 and 1026-1037 call it again.
AtEnd == phase = "running" /\ frames # <<>> /\ Top.left = <<>> /\ Top.opened = 0
EndBlock == AtEnd /\ Top.again.k \in {"once", "include"} /\ frames' = Front(frames) /\ OnlyFrames

EndEach ==
    /\ AtEnd /\ Top.again.k = "each"
    /\ frames' = IF Top.again.rest = <<>> THEN Front(frames)
                 ELSE Append(Front(frames), Frame(Top.again.body, Head(Top.again.rest),
                                                  [Top.again EXCEPT !.rest = Tail(@)]))
    /\ OnlyFrames
EndWhile(vs) ==
    /\ AtEnd /\ Top.again.k = "while"
    /\ \E goes \in {LoopGoes(vs, Top.again.line.inv)} :
           Evaluated(goes, /\ frames' = IF goes = <<"false">> THEN Front(frames)
                                        ELSE Append(Front(frames), [Top EXCEPT !.left = Top.again.body])
                           /\ OnlyFrames)

EndTemplate ==
    /\ phase = "running" /\ frames = <<>>
    /\ phase' = "done"
    /\ UNCHANGED <<job, frames, outs, files, variables, indent, isNeedIndent>>

TemplateNext ==
    \/ \E vs \in {Values} : \/ Write(vs) \/ Say(vs) \/ SetVariable(vs) \/ FileOpen(vs)
                           \/ If(vs) \/ Switch(vs) \/ While(vs) \/ EndWhile(vs)
    \/ Comment \/ Error \/ PushVars \/ PopVars \/ SetIndent
    \/ ForEach \/ Context \/ Include
    \/ FileClose \/ EndFile \/ EndBlock \/ EndEach \/ EndTemplate

TemplateSpec == TemplateInit /\ [][TemplateNext]_templateVars

-----------------------------------------------------------------------------
(* What the templates rely on.                                             *)

\* Types; the calls of process have as many files open as are written.
TemplatesTypeOK ==
    /\ phase \in {"running", "done", "failed", "hangs", "undefined"}
    /\ outs # <<>> /\ variables # <<>> /\ indent \in 0..1023 /\ isNeedIndent \in BOOLEAN
    /\ \A i \in 2..Len(outs) : outs[i] \in DOMAIN files /\ files[outs[i]].state # "complete"
    /\ phase = "running" =>
           Len(outs) = 1 + FoldLeft(LAMBDA n, f : n + f.opened, 0, frames)

\* A file that was not written to its end is not left under its own name.
PartialIsMarked == phase \in {"done", "failed"} => \A f \in DOMAIN files : files[f].state # "open"
==============================================================================
