------------------------------ MODULE WebModule -------------------------------
(***************************************************************************)
(* A message on its way through ngrest inside another web server: the      *)
(* modules for Apache (src/modules/apache2/src/mod_ngrest.c) and nginx     *)
(* (src/modules/nginx/src/mod_ngrest_nginx.c), the part they share         *)
(* (src/modules/share/ngrest_server.cpp), the engine with its phases       *)
(* (Engine.cpp) and the HTTP transport (HttpTransport.cpp).  A process     *)
(* dispatches one request at a time; what nginx cannot send at once it     *)
(* sends later, from the memory it was given.                              *)
(***************************************************************************)
EXTENDS Naturals, Sequences, FiniteSets, SequencesExt

CONSTANTS
    WebRequest,
    Nobody,
    BodyPool,      \* the memory pools for bodies, of 64 KB chunks
    Body,          \* Body[r]: "none", "json", "malformed" or "other" content type
    Service,       \* Service[r]: "node" answers with a value, "void" with none,
                   \* "text" writes the body itself; it "throws"; or it answers
                   \* "late", when it has returned
    Throwing,      \* the phases some filter of which throws
    Truncated,     \* requests whose body ends before its length
    Unreadable,    \* requests whose body cannot be read
    Slow,          \* nginx: requests whose socket does not take the response at once
    MaxDispatches  \* bound: the dispatches of a run

Phases == {"Header", "PreDispatch", "PreInvoke", "PostDispatch", "PreSend"}

ASSUME WebAssumption ==
    /\ Nobody \notin WebRequest \cup BodyPool
    /\ Nobody \notin Seq([of : WebRequest, what : {"answer", "error"}])
    /\ Body \in [WebRequest -> {"none", "json", "malformed", "other"}]
    /\ Service \in [WebRequest -> {"node", "void", "text", "throws", "late"}]
    /\ Throwing \subseteq Phases
    /\ MaxDispatches \in Nat
    /\ Truncated \cup Unreadable \cup Slow \subseteq WebRequest

VARIABLES
    host,       \* the web server
    stage, cur,    \* where the process is, and the request it dispatches
    bodyPool,   \* response->poolBody
    spare,      \* the pools to be lent
    holds,      \* what is in each pool: Empty or [of, what]
    callback,   \* context->callback: "module" or "hook"
    answers,    \* history: calls of ModMessageCallback for the request
    status,     \* response->statusCode; 0 is HTTP_STATUS_UNDEFINED
    ctype,      \* the Content-Type header of the response, or ""
    out,        \* out[r]: what has been handed to the web server for r
    finals,     \* finals[r]: history: the statuses finalize_response was given
    seen,       \* seen[r]: what the client has got, Nobody before
    returned,   \* the requests whose dispatch has returned
    astray      \* a callback has been called that was gone

webVars == <<host, stage, cur, bodyPool, spare, holds, callback, answers, status, ctype,
             out, finals, seen, returned, astray>>
bodyVars == <<bodyPool, spare, holds>>
outVars == <<out, finals, seen>>
respVars == <<callback, answers, status, ctype>>
restVars == <<host, returned, astray>>

AnswerText(what) == [of |-> cur, what |-> what]
Empty == [of |-> Nobody, what |-> "nothing"]

WebInit ==
    /\ host \in {"apache", "nginx"}
    /\ stage = "idle" /\ cur = Nobody /\ bodyPool = Nobody
    /\ spare = BodyPool /\ holds = [p \in BodyPool |-> Empty]
    /\ callback = "module" /\ answers = 0 /\ status = 0 /\ ctype = ""
    /\ out = [r \in WebRequest |-> <<>>]
    /\ finals = [r \in WebRequest |-> <<>>]
    /\ seen = [r \in WebRequest |-> Nobody]
    /\ returned = {} /\ astray = FALSE

\* A block of output: Apache copies it, nginx keeps the address (lines 167-193).
Block(p) == IF host = "apache" THEN [pool |-> Nobody, text |-> holds[p]]
            ELSE [pool |-> p, text |-> Empty]
LiteralText(text) == [pool |-> Nobody, text |-> text]

\* What a block holds when it is sent.
Sent(block) == IF block.pool = Nobody THEN block.text ELSE holds[block.pool]

\* Mutation of GiveBack: the pool is not emptied.
GiveBackFull ==
    /\ spare' = spare \cup {bodyPool}
    /\ bodyPool' = Nobody
    /\ UNCHANGED holds

\* The recyclers give the pools back, emptied, ngrest_server.cpp lines 97-111.
GiveBack ==
    /\ spare' = spare \cup {bodyPool}
    /\ holds' = [holds EXCEPT ![bodyPool] = Empty]
    /\ bodyPool' = Nobody

-----------------------------------------------------------------------------
(* ngrest_server_dispatch up to the engine, lines 199-309.                 *)

Begin(r) ==
    /\ stage = "idle" /\ r \notin returned /\ Cardinality(returned) < MaxDispatches
    /\ \E p \in spare : bodyPool' = p /\ spare' = spare \ {p}
    /\ cur' = r /\ stage' = "Header"
    /\ callback' = "module" /\ answers' = 0 /\ status' = 0 /\ ctype' = ""
    /\ UNCHANGED <<holds, outVars, restVars>>

\* What comes after a phase whose filters have run.
AfterPhase(phase) ==
    CASE phase = "Header"       -> IF Body[cur] = "none" THEN "PreDispatch" ELSE "read"
      [] phase = "PreDispatch"  -> "parse"
      [] phase = "PreInvoke"    -> "invoke"
      [] phase = "PostDispatch" -> "write"
      [] phase = "PreSend"      -> "success"

\* runPhase, Engine.cpp lines 75-79.
FiltersRun ==
    /\ stage \in Phases
    /\ stage' = AfterPhase(stage)
    /\ UNCHANGED <<cur, bodyVars, respVars, outVars, restVars>>

\* What a filter throws before the hook is set leaves the dispatch; later the
\* catch of dispatchMessage calls the hook, if it is one of ngrest's own
\* exceptions (lines 88-102).
FilterThrows ==
    /\ stage \in Throwing
    /\ stage' \in IF stage \in {"Header", "PreDispatch"} THEN {"fail"} ELSE {"error", "fail"}
    /\ UNCHANGED <<cur, bodyVars, respVars, outVars, restVars>>

\* A body is read to its end, lines 240-309; when the client has left before,
\* read_block returns 0 and the loop of a body of known length goes on for ever.
ReadBody ==
    /\ stage = "read" /\ cur \notin Truncated
    /\ stage' = "PreDispatch"
    /\ UNCHANGED <<cur, bodyVars, respVars, outVars, restVars>>

\* A block that cannot be read: a text is written and the dispatch returns, the
\* response is not finalized (lines 260-268, 277-283).
ReadFails ==
    /\ stage = "read" /\ cur \in Unreadable
    /\ out' = [out EXCEPT ![cur] = Append(@, LiteralText(AnswerText("read error")))]
    /\ returned' = returned \cup {cur}
    /\ stage' = "idle" /\ cur' = Nobody
    /\ GiveBack
    /\ UNCHANGED <<respVars, finals, seen, host, astray>>

-----------------------------------------------------------------------------
(* Engine and transport.                                                   *)

\* The hook is set and the body parsed, Engine.cpp lines 89-95, with
\* HttpTransport::parseRequest, lines 62-97, which knows JSON only.
Parse ==
    /\ stage = "parse"
    /\ callback' = "hook"
    /\ stage' = IF Body[cur] \in {"malformed", "other"} THEN "error" ELSE "PreInvoke"
    /\ UNCHANGED <<cur, bodyVars, answers, status, ctype, outVars, restVars>>

\* serviceDispatcher.dispatchMessage, lines 97-98: there may be no such
\* resource; what is not one of ngrest's own exceptions is not caught; a service
\* that answers late returns without having called back.
Invoke ==
    /\ stage = "invoke"
    /\ \/ Service[cur] \in {"node", "void", "text"} /\ stage' = "PostDispatch"
       \/ Service[cur] = "throws" /\ stage' \in {"error", "fail"}
       \/ Service[cur] = "late" /\ stage' = "respond"
    /\ holds' = IF Service[cur] = "text" THEN [holds EXCEPT ![bodyPool] = AnswerText("answer")] ELSE holds
    /\ UNCHANGED <<cur, bodyPool, spare, respVars, outVars, restVars>>

\* EngineHookCallback::success, lines 42-51, between the phases: the response
\* is written unless there is one (HttpTransport::writeResponse, lines 99-120).
Write ==
    /\ stage = "write"
    /\ IF holds[bodyPool] = Empty
       THEN /\ holds' = IF Service[cur] = "void" THEN holds
                       ELSE [holds EXCEPT ![bodyPool] = AnswerText("answer")]
            /\ ctype' = "json"
       ELSE UNCHANGED <<holds, ctype>>
    /\ stage' = "PreSend"
    /\ UNCHANGED <<cur, bodyPool, spare, callback, answers, status, outVars, restVars>>

\* The end of EngineHookCallback::success and ModMessageCallback::success,
\* ngrest_server.cpp lines 72-76.
Success ==
    /\ stage = "success"
    /\ callback' = "module"
    /\ answers' = answers + 1
    /\ status' = IF status = 0 THEN 200 ELSE status
    /\ stage' = "respond"
    /\ UNCHANGED <<cur, bodyVars, ctype, outVars, restVars>>

\* EngineHookCallback::error and ModMessageCallback::error, lines 78-92.
Error ==
    /\ stage = "error"
    /\ callback' = "module"
    /\ answers' = answers + 1
    /\ status' \in IF status = 0 THEN {400, 500} ELSE {status}
    /\ holds' = [holds EXCEPT ![bodyPool] = AnswerText("error")]
    /\ stage' = "respond"
    /\ UNCHANGED <<cur, bodyPool, spare, ctype, outVars, restVars>>

-----------------------------------------------------------------------------
(* The response.                                                           *)

\* Headers and ngrest_server_write_response, ngrest_server.cpp lines 182-197
\* and 311-319.
Respond ==
    /\ stage = "respond"
    /\ out' = IF holds[bodyPool] = Empty THEN out ELSE [out EXCEPT ![cur] = Append(@, Block(bodyPool))]
    /\ stage' = "finalize"
    /\ UNCHANGED <<cur, bodyVars, respVars, finals, seen, restVars>>

\* A block that Apache does not take: the exception ends in the handlers below.
RespondFails ==
    /\ stage = "respond" /\ host = "apache" /\ holds[bodyPool] # Empty
    /\ stage' = "fail"
    /\ UNCHANGED <<cur, bodyVars, respVars, outVars, restVars>>

\* finalize_response: Apache sends what it has; nginx what the socket takes,
\* mod_ngrest_nginx.c lines 195-221.
Transmit(blocks) ==
    IF host = "nginx" /\ cur \in Slow THEN seen
    ELSE [seen EXCEPT ![cur] = [i \in DOMAIN blocks |-> Sent(blocks[i])]]

\* Lines 321-323.
Finalize ==
    /\ stage = "finalize"
    /\ finals' = [finals EXCEPT ![cur] = Append(@, status)]
    /\ seen' = Transmit(out[cur])
    /\ stage' = "return"
    /\ UNCHANGED <<cur, bodyVars, respVars, out, restVars>>

\* The handlers of exceptions, lines 324-340.  The pools are given back before
\* they are entered.
Fail ==
    /\ stage = "fail"
    /\ LET blocks == Append(out[cur], LiteralText(AnswerText("error"))) IN
       /\ out' = [out EXCEPT ![cur] = blocks]
       /\ seen' = Transmit(blocks)
    /\ \E st \in {400, 500} : finals' = [finals EXCEPT ![cur] = Append(@, st)]
    /\ stage' = "return"
    /\ UNCHANGED <<cur, bodyVars, respVars, restVars>>

Return ==
    /\ stage = "return"
    /\ returned' = returned \cup {cur}
    /\ stage' = "idle" /\ cur' = Nobody
    /\ GiveBack
    /\ UNCHANGED <<respVars, outVars, host, astray>>

\* nginx sends what the socket did not take, from the memory it was given.
SendLater(r) ==
    /\ stage = "idle" /\ host = "nginx" /\ finals[r] # <<>> /\ seen[r] = Nobody
    /\ seen' = [seen EXCEPT ![r] = [i \in DOMAIN out[r] |-> Sent(out[r][i])]]
    /\ UNCHANGED <<stage, cur, bodyVars, respVars, out, finals, restVars>>

\* A service that answers when the dispatch has returned calls a callback that
\* was a local variable of it (line 216).
AnswerLate(r) ==
    /\ Service[r] = "late" /\ r \in returned
    /\ astray' = TRUE
    /\ UNCHANGED <<stage, cur, bodyVars, respVars, outVars, host, returned>>

Dispatching ==
    \/ FiltersRun \/ FilterThrows \/ ReadBody \/ ReadFails
    \/ Parse \/ Invoke \/ Write \/ Success \/ Error
    \/ Respond \/ RespondFails \/ Finalize \/ Fail \/ Return

\* What follows the use of a callback that is gone is undefined.
WebNext ==
    /\ ~astray
    /\ \/ \E r \in WebRequest : Begin(r) \/ SendLater(r) \/ AnswerLate(r)
       \/ Dispatching

WebSpec == WebInit /\ [][WebNext]_webVars

\* The process does not stop between two steps.
FairWebSpec == WebSpec /\ WF_webVars(Dispatching)

-----------------------------------------------------------------------------
\* Types.
WebTypeOK ==
    /\ cur \in WebRequest \cup {Nobody}
    /\ bodyPool \in BodyPool \cup {Nobody}
    /\ spare \subseteq BodyPool
    /\ status \in {0, 200, 400, 500}
    /\ returned \subseteq WebRequest
    /\ (stage = "idle") = (cur = Nobody) /\ (cur = Nobody) = (bodyPool = Nobody)

\* What a client gets is its own: one text, the answer of its service or the
\* error that took its place, never a part of each and nothing of a request
\* that was dispatched before or after (Engine.cpp lines 42-57,
\* ngrest_server.cpp lines 78-92 and 204-212).
\* What nginx sends after the dispatch is left to SentAsWritten.
ClientGetsItsOwn ==
    \A r \in WebRequest : seen[r] # Nobody /\ ~(host = "nginx" /\ r \in Slow) =>
        \/ seen[r] = <<>>
        \/ \E what \in {"answer", "error"} : seen[r] = <<[of |-> r, what |-> what]>>

\* The status a response is finalized with says what its body is, through all
\* the places an exception may come from.
StatusTellsBody ==
    \A r \in WebRequest : seen[r] \notin {Nobody, <<>>} /\ ~(host = "nginx" /\ r \in Slow) =>
        ((finals[r] = <<200>>) = (seen[r][1].what = "answer"))

\* A dispatch finalizes its response once, whichever way it returns, unless the
\* body could not be read (lines 263-266 return without it).
FinalizedOnce ==
    \A r \in WebRequest :
        /\ Len(finals[r]) <= 1
        /\ r \in returned \ Unreadable => Len(finals[r]) = 1

\* The module's callback is called once when the engine returns, by the hook
\* that was put in front of it, and is in its place again.
AnsweredOnce ==
    stage \in {"respond", "finalize"} /\ Service[cur] # "late" => answers = 1 /\ callback = "module"

\* No service is invoked for a body that is not JSON (HttpTransport.cpp lines
\* 76-96).
OnlyJsonIsInvoked == stage = "invoke" => Body[cur] \in {"none", "json"}

\* What a module's dispatch keeps, wherever an exception comes from: each client has
\* one answer of its own, with its status, and each callback is called once.
WebInv == /\ WebTypeOK /\ ClientGetsItsOwn /\ StatusTellsBody
          /\ FinalizedOnce /\ AnsweredOnce /\ OnlyJsonIsInvoked

\* A dispatch returns, and the process can take the next request, unless the
\* body of the request ends before its length.
DispatchReturns == (cur \in WebRequest \ Truncated) ~> (cur = Nobody \/ astray)

\* What nginx sends later is what was written: the pool it is in has been given
\* back, and maybe used again (mod_ngrest_nginx.c lines 167-193).
SentAsWritten ==
    \A r \in WebRequest : seen[r] \notin {Nobody, <<>>} => \A i \in DOMAIN seen[r] : seen[r][i].of = r

\* No callback is called that is gone: what Engine and MessageCallback allow,
\* to answer later (src/core/common/src/Message.h), the modules do not.
NoLateCallback == ~astray

\* mod_ngrest_nginx.c line 195: a request is finalized when its dispatch returns.
AllFinalized == \A r \in returned : Len(finals[r]) = 1

\* The same for a body that is shorter than it should be.
TruncatedReturns == \A r \in Truncated : (cur = r) ~> (r \in returned)
==============================================================================
