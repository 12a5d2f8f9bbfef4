---------------------------- MODULE TemplateTrees ----------------------------
(***************************************************************************)
(* What the template language of ngrestcg means: a template as a tree of   *)
(* blocks, the lines it is written as, and what it expands to.  This is    *)
(* the reference that the interpreter of module Templates is compared to.  *)
(***************************************************************************)
EXTENDS Templates

Plain(lines) == [i \in DOMAIN lines |-> [k |-> "line", line |-> lines[i]]]

\* The lines of a tree.
RECURSIVE Flattened(_)
Flattened(tree) ==
    LET Block1(open, body, close) == <<open>> \o Flattened(body) \o <<close>>
        Lines(n) ==
          CASE n.k = "line" -> <<n.line>>
            [] n.k = "if" -> <<[k |-> "if", l |-> n.l, r |-> n.r, neg |-> n.neg]>> \o Flattened(n.yes)
                               \o (IF n.no = <<>> THEN <<>> ELSE <<[k |-> "else"]>> \o Flattened(n.no))
                               \o <<[k |-> "endif"]>>
            [] n.k = "switch" ->
                 <<[k |-> "switch", p |-> n.p]>>
                   \o FlattenSeq([i \in DOMAIN n.cases |-> <<[k |-> "case", ps |-> n.cases[i].ps]>>
                                                              \o Flattened(n.cases[i].body)])
                   \o <<[k |-> "default"]>> \o Flattened(n.otherwise) \o <<[k |-> "endswitch"]>>
            [] n.k = "each" -> Block1([k |-> "foreach", x |-> n.x], n.body, [k |-> "endfor"])
            [] n.k = "context" -> Block1([k |-> "context", x |-> n.x], n.body, [k |-> "endcontext"])
            [] n.k = "while" -> Block1([k |-> "while", l |-> n.l, r |-> n.r, inv |-> n.inv], n.body, [k |-> "done"])
            [] n.k = "scope" -> Block1([k |-> "pushvars"], n.body, [k |-> "popvars"])
            [] n.k = "indented" -> Block1([k |-> "indent", by |-> 1, relative |-> TRUE], n.body,
                                          [k |-> "indent", by |-> -1, relative |-> TRUE])
            [] n.k = "file" -> Block1([k |-> "fileopen", p |-> n.p], n.body, [k |-> "fileclose"])
            [] n.k = "last" -> <<[k |-> "fileopen", p |-> n.p]>> \o Flattened(n.body)
            [] n.k = "include" -> <<[k |-> "include", f |-> n.f]>>
    IN  FlattenSeq([i \in DOMAIN tree |-> Lines(tree[i])])

-----------------------------------------------------------------------------
(* What a tree expands to, from an environment.                            *)

Env(vars) == [vars |-> vars, element |-> Root, indent |-> 0, fresh |-> FALSE, ok |-> TRUE,
              name |-> Nowhere, text |-> <<>>, files |-> <<>>]
Failed(env) == [env EXCEPT !.ok = FALSE]
InTree(env, pieces) == Replaced(pieces, env.element, env.vars)

\* The operands of a node, and their values.
NodeOperands(n) ==
    CASE n.k = "line" /\ n.line.k \in {"text", "var", "say"} -> <<n.line.p>>
      [] n.k \in {"if", "while"} -> <<n.l, n.r>>
      [] n.k \in {"switch", "file", "last"} -> <<n.p>>
      [] OTHER -> <<>>
NodeValues(n, env) == [i \in DOMAIN NodeOperands(n) |-> InTree(env, NodeOperands(n)[i])]

RenderedText(line, v, env) ==
    CASE line.k = "say" -> env
      [] line.k = "var" -> [env EXCEPT !.vars = (line.n :> v) @@ @]
      [] line.k = "text" ->
           [env EXCEPT !.text = @ \o (IF env.fresh /\ line.p # <<>> THEN [i \in 1..env.indent |-> "    "] ELSE <<>>)
                                  \o v \o (IF line.nl THEN <<"nl">> ELSE <<>>),
                       !.fresh = line.nl \/ (env.fresh /\ line.p = <<>>)]

\* Templates are the trees of files that may be included.
CONSTANT Trees

RECURSIVE Rendered(_, _), Repeated(_, _, _), RenderedNode(_, _, _)
Repeated(body, elements, env) ==
    IF elements = <<>> \/ ~env.ok THEN env
    ELSE Repeated(body, Tail(elements), Rendered(body, [env EXCEPT !.element = Head(elements)]))

\* A node with its values; what it leaves is what follows starts from.
RenderedNode(n, vs, env) ==
    LET back(after) == [after EXCEPT !.element = env.element]
        at == GetElement(n.x, env.element)
        met == {i \in DOMAIN n.cases : \E j \in DOMAIN n.cases[i].ps : InTree(env, n.cases[i].ps[j]) = vs[1]}
        in == Rendered(n.body, [env EXCEPT !.name = vs[1], !.text = <<>>, !.indent = 0])
    IN  CASE \E i \in DOMAIN vs : vs[i] = Thrown -> Failed(env)
          [] n.k = "line" /\ n.line.k = "error" -> Failed(env)
          [] n.k = "line" /\ n.line.k = "comment" -> env
          [] n.k = "line" /\ vs # <<>> -> RenderedText(n.line, vs[1], env)
          [] n.k = "if" -> Rendered(IF (vs[1] = vs[2]) # n.neg THEN n.yes ELSE n.no, env)
          [] n.k = "switch" -> Rendered(IF met = {} THEN n.otherwise ELSE n.cases[Min(met)].body, env)
          [] n.k = "while" -> IF (vs[1] = vs[2]) = n.inv THEN env ELSE Rendered(<<n>>, Rendered(n.body, env))
          [] n.k \in {"each", "context"} /\ at.thrown -> Failed(env)
          [] n.k = "each" /\ ~at.thrown -> back(Repeated(n.body, Kids(at.elem), env))
          [] n.k = "context" /\ ~at.thrown -> back(Rendered(n.body, [env EXCEPT !.element = at.elem]))
          [] n.k = "scope" -> [Rendered(n.body, env) EXCEPT !.vars = env.vars]
          [] n.k = "indented" -> [Rendered(n.body, [env EXCEPT !.indent = @ + 1]) EXCEPT !.indent = env.indent]
          [] n.k = "include" -> Rendered(Trees[n.f], env)
          [] n.k \in {"file", "last"} ->
               IF vs[1] = <<>> THEN Failed(env)
               ELSE [in EXCEPT !.files = (vs[1] :> [text |-> in.text, state |-> IF in.ok THEN "complete" ELSE "failed"]) @@ @,
                               !.name = env.name, !.text = env.text]
Rendered(tree, env) ==
    IF tree = <<>> \/ ~env.ok THEN env
    ELSE Rendered(Tail(tree), RenderedNode(Head(tree), NodeValues(Head(tree), env), env))

Outcome(env) == [ends |-> IF env.ok THEN "done" ELSE "failed", files |-> env.files]
Meaning(tree, vars) == Outcome(Rendered(tree, Env(vars)))

\* A job has the tree it is written from, or what it shall come to.
Job(tree, vars) == [lines |-> Flattened(tree), vars |-> vars, tree |-> tree]
Expected(j) == IF "tree" \in DOMAIN j THEN Meaning(j.tree, j.vars) ELSE j.expect

-----------------------------------------------------------------------------
\* The blocks of a template, the files it opens and the variables it sets nest: what is
\* written is what the tree of its blocks says, and a template fails only where that does.
ExpandsAsNested ==
    /\ phase \in {"done", "failed"} => Expected(job) = [ends |-> phase, files |-> files]
    /\ phase \notin {"hangs", "undefined"}

\* What a template leaves, in its files and when it fails.
TemplatesInv == TemplatesTypeOK /\ ExpandsAsNested /\ PartialIsMarked
==============================================================================
