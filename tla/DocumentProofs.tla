----------------------------- MODULE DocumentProofs ----------------------------
(***************************************************************************)
(* Two of the machines of DocumentsMC, which know nothing of each other.   *)
(* WebModule: what a dispatch inside another web server keeps, for any     *)
(* requests, services, filters that throw and memory pools.  XmlNames: in  *)
(* a document of any size, a prefix is found where it is declared nearest, *)
(* and setNamespace reaches the elements that are connected, and no others.*)
(***************************************************************************)
EXTENDS WebModule, XmlNames, Numbers, SequenceTheorems, FiniteSetTheorems, TLAPS

-----------------------------------------------------------------------------
(* A message inside another web server.                                    *)

Stages == Phases \cup {"idle", "read", "parse", "invoke", "write", "success", "error", "fail",
                       "respond", "finalize", "return"}
Statuses == {0, 200, 400, 500}
Texts == [of : WebRequest \cup {Nobody}, what : {"nothing", "answer", "error", "read error"}]
Blocks == [pool : BodyPool \cup {Nobody}, text : Texts]

WebTypes ==
    /\ host \in {"apache", "nginx"} /\ stage \in Stages
    /\ cur \in WebRequest \cup {Nobody} /\ bodyPool \in BodyPool \cup {Nobody}
    /\ spare \subseteq BodyPool /\ holds \in [BodyPool -> Texts]
    /\ status \in Statuses
    /\ out \in [WebRequest -> Seq(Blocks)]
    /\ finals \in [WebRequest -> Seq(Statuses)]
    /\ DOMAIN seen = WebRequest
    /\ returned \subseteq WebRequest
    /\ stage = "idle" <=> cur = Nobody
    /\ cur = Nobody <=> bodyPool = Nobody

\* The stages before a service has been invoked, and those from there to the callback.
Before == {"Header", "read", "PreDispatch", "parse", "PreInvoke", "invoke"}
Between == {"PostDispatch", "write", "PreSend", "success", "error"}

\* What the response is when the callback has been called: nothing, the answer or an error,
\* and a status that says so.
Answered ==
    \/ holds[bodyPool] = Empty
    \/ holds[bodyPool] = AnswerText("answer") /\ status = 200
    \/ holds[bodyPool] = AnswerText("error") /\ status \in {400, 500}

\* The pool of the request that is dispatched, its status and its callback, stage by stage;
\* the other pools are empty.
PoolByStage ==
    /\ \A p \in BodyPool \ {bodyPool} : holds[p] = Empty
    /\ stage \in Before => holds[bodyPool] = Empty /\ status = 0 /\ answers = 0
    /\ stage \in {"PreInvoke", "invoke"} => Body[cur] \in {"none", "json"}
    /\ stage \in Between =>
        holds[bodyPool] \in {Empty, AnswerText("answer")} /\ status = 0 /\ answers = 0
    /\ stage \in {"respond", "finalize"} =>
        Answered /\ (Service[cur] # "late" => answers = 1 /\ callback = "module")

\* What has been handed to the web server for the request that is dispatched.
OutputByStage ==
    stage # "idle" =>
        /\ cur \notin returned
        /\ stage \notin {"finalize", "return"} => out[cur] = <<>>
        /\ stage = "finalize" =>
            out[cur] = IF holds[bodyPool] = Empty THEN <<>> ELSE <<Block(bodyPool)>>
        /\ stage # "return" => finals[cur] = <<>>
        /\ stage = "return" => Len(finals[cur]) = 1

\* What nginx may send later.
Later(r) == host = "nginx" /\ r \in Slow

\* What the client has got when its response has been finalized.
OwnAnswer(r) ==
    IF finals[r] = <<>> THEN seen[r] = Nobody
    ELSE \/ seen[r] = <<>>
         \/ seen[r] = <<[of |-> r, what |-> "answer"]>> /\ finals[r] = <<200>>
         \/ seen[r] = <<[of |-> r, what |-> "error"]>> /\ finals[r] # <<200>>

\* What has been handed to the web server for the others, and what clients have got.
Outputs ==
    \A r \in WebRequest :
        /\ r \notin returned \cup {cur} => out[r] = <<>> /\ finals[r] = <<>>
        /\ Len(finals[r]) <= 1
        /\ r \in returned \ Unreadable => Len(finals[r]) = 1
        /\ ~Later(r) => OwnAnswer(r)

\* The inductive invariant.
WebIInv == WebTypes /\ PoolByStage /\ OutputByStage /\ Outputs

------------------------------------------------------------------------------
\* The texts of answers.
LEMMA TextsOfAnswers ==
    /\ Empty \in Texts
    /\ \A what \in {"answer", "error", "read error"} : cur \in WebRequest => AnswerText(what) \in Texts
BY DEF Empty, AnswerText, Texts

\* A request that is dispatched has a pool.
LEMMA Dispatched ==
    ASSUME WebTypes, stage # "idle"
    PROVE  cur \in WebRequest /\ bodyPool \in BodyPool /\ cur # Nobody /\ bodyPool # Nobody
BY WebAssumption DEF WebTypes

\* A request gets a pool that is empty.
LEMMA BeginKeeps ==
    ASSUME WebIInv, NEW r \in WebRequest, Begin(r)
    PROVE  WebIInv'
<1>0. WebTypes /\ PoolByStage /\ OutputByStage /\ Outputs
  BY DEF WebIInv
<1>1. WebTypes'
  <2>1. cur' \in WebRequest /\ cur' # Nobody /\ stage' = "Header"
    BY WebAssumption DEF Begin
  <2>2. bodyPool' \in BodyPool /\ bodyPool' # Nobody /\ spare' \subseteq BodyPool
    BY <1>0, WebAssumption DEF Begin, WebTypes
  <2>3. status' = 0 /\ UNCHANGED <<host, holds, out, finals, seen, returned>>
    BY DEF Begin, outVars, restVars
  <2> QED
    BY <1>0, <2>1, <2>2, <2>3 DEF WebTypes, Stages, Phases, Statuses
<1>2. PoolByStage'
  <2>1. stage' = "Header" /\ status' = 0 /\ answers' = 0 /\ holds' = holds /\ bodyPool' \in BodyPool
    BY <1>0 DEF Begin, WebTypes
  <2>2. \A p \in BodyPool : holds[p] = Empty
    BY <1>0, WebAssumption DEF Begin, WebTypes, PoolByStage
  <2>3. Empty' = Empty
    BY DEF Empty
  <2> QED
    BY <2>1, <2>2, <2>3 DEF PoolByStage, Before, Between
<1>3. OutputByStage'
  BY <1>0, WebAssumption DEF WebTypes, OutputByStage, Outputs, PoolByStage, Block, Empty,
    Begin, outVars, restVars
<1>4. Outputs'
  BY <1>0, WebAssumption, ZenonT(60) DEF WebTypes, Outputs, OutputByStage, PoolByStage,
    OwnAnswer, Later, Begin, outVars, restVars
<1> QED
  BY <1>1, <1>2, <1>3, <1>4 DEF WebIInv

\* Only a response that the socket has not taken is sent later.
LEMMA SendLaterKeeps ==
    ASSUME WebIInv, NEW r \in WebRequest, SendLater(r)
    PROVE  WebIInv'
<1>0. WebTypes /\ PoolByStage /\ OutputByStage /\ Outputs
  BY DEF WebIInv
<1>1. WebTypes'
  BY <1>0, WebAssumption DEF WebTypes, Stages, Phases, Statuses, SendLater, Sent, bodyVars,
    respVars, restVars
<1>2. PoolByStage'
  BY <1>0, WebAssumption DEF WebTypes, PoolByStage, Answered, Before, Between, Stages, Phases,
    Empty, AnswerText, SendLater, Sent, bodyVars, respVars, restVars
<1>3. OutputByStage'
  BY <1>0, WebAssumption DEF WebTypes, OutputByStage, Outputs, PoolByStage, Block, Empty,
    SendLater, Sent, bodyVars, respVars, restVars
<1>4. Outputs'
  <2> SUFFICES ASSUME NEW s \in WebRequest
               PROVE  /\ s \notin returned \cup {cur} => out[s] = <<>> /\ finals[s] = <<>>
                      /\ Len(finals[s]) <= 1
                      /\ s \in returned \ Unreadable => Len(finals[s]) = 1
                      /\ ~Later(s) => OwnAnswer(s)'
    BY DEF SendLater, bodyVars, respVars, restVars, Outputs, Later
  <2>1. CASE s = r
    <3>1. Later(r)
      <4> SUFFICES ASSUME ~Later(r) PROVE FALSE
        OBVIOUS
      <4>1. finals[r] # <<>> /\ seen[r] = Nobody
        BY DEF SendLater
      <4>2. \A what \in {"answer", "error"} : 
              <<[of |-> r, what |-> what]>> \in Seq([of : WebRequest, what : {"answer", "error"}])
        OBVIOUS
      <4>3. <<>> \in Seq([of : WebRequest, what : {"answer", "error"}])
        OBVIOUS
      <4> QED
        BY <1>0, <4>1, <4>2, <4>3, WebAssumption, ZenonT(60) DEF Outputs, OwnAnswer
    <3> QED
      BY <1>0, <2>1, <3>1 DEF Outputs
  <2>2. CASE s # r
    <3>1. seen'[s] = seen[s] /\ finals' = finals
      BY <1>0, <2>2 DEF SendLater, WebTypes
    <3> QED
      BY <1>0, <3>1 DEF Outputs, OwnAnswer
  <2> QED
    BY <2>1, <2>2
<1> QED
  BY <1>1, <1>2, <1>3, <1>4 DEF WebIInv

\* An answer that is late changes nothing of the other responses.
LEMMA AnswerLateKeeps ==
    ASSUME WebIInv, NEW r \in WebRequest, AnswerLate(r)
    PROVE  WebIInv'
<1>0. WebTypes /\ PoolByStage /\ OutputByStage /\ Outputs
  BY DEF WebIInv
<1>1. WebTypes'
  BY <1>0, WebAssumption DEF WebTypes, Stages, Phases, Statuses, AnswerLate, bodyVars,
    respVars, outVars
<1>2. PoolByStage'
  BY <1>0, WebAssumption DEF WebTypes, PoolByStage, Answered, Before, Between, Stages, Phases,
    Empty, AnswerText, AnswerLate, bodyVars, respVars, outVars
<1>3. OutputByStage'
  BY <1>0, WebAssumption DEF WebTypes, OutputByStage, Outputs, PoolByStage, Block, Empty,
    AnswerLate, bodyVars, respVars, outVars
<1>4. Outputs'
  BY <1>0, WebAssumption DEF WebTypes, Outputs, OutputByStage, PoolByStage, OwnAnswer, Later,
    AnswerLate, bodyVars, respVars, outVars
<1> QED
  BY <1>1, <1>2, <1>3, <1>4 DEF WebIInv

LEMMA FiltersRunKeeps ==
    ASSUME WebIInv, FiltersRun
    PROVE  WebIInv'
<1>0. WebTypes /\ PoolByStage /\ OutputByStage /\ Outputs
  BY DEF WebIInv
<1>d. cur \in WebRequest /\ bodyPool \in BodyPool /\ cur # Nobody /\ bodyPool # Nobody
  BY <1>0, Dispatched, WebAssumption DEF FiltersRun, Phases
<1>1. WebTypes'
  BY <1>0, <1>d, WebAssumption DEF WebTypes, Stages, Phases, Statuses, FiltersRun, AfterPhase,
    bodyVars, respVars, outVars, restVars
<1>2. PoolByStage'
  BY <1>0, <1>d, WebAssumption DEF WebTypes, PoolByStage, Answered, Before, Between, Stages,
    Phases, Empty, AnswerText, FiltersRun, AfterPhase, bodyVars, respVars, outVars, restVars
<1>3. OutputByStage'
  <2>1. UNCHANGED <<cur, bodyPool, holds, host, out, finals, returned>>
    BY DEF FiltersRun, bodyVars, outVars, restVars
  <2>2. /\ stage \notin {"idle", "finalize", "return"}
        /\ stage' \notin {"idle", "finalize", "return"}
    BY WebAssumption DEF FiltersRun, AfterPhase, Phases
  <2> QED
    BY <1>0, <2>1, <2>2 DEF OutputByStage
<1>4. Outputs'
  BY <1>0, <1>d, WebAssumption DEF WebTypes, Outputs, OutputByStage, PoolByStage, OwnAnswer,
    Later, FiltersRun, AfterPhase, bodyVars, respVars, outVars, restVars
<1> QED
  BY <1>1, <1>2, <1>3, <1>4 DEF WebIInv

LEMMA FilterThrowsKeeps ==
    ASSUME WebIInv, FilterThrows
    PROVE  WebIInv'
<1>0. WebTypes /\ PoolByStage /\ OutputByStage /\ Outputs
  BY DEF WebIInv
<1>d. cur \in WebRequest /\ bodyPool \in BodyPool /\ cur # Nobody /\ bodyPool # Nobody
  BY <1>0, Dispatched, WebAssumption DEF FilterThrows, Phases
<1>1. WebTypes'
  BY <1>0, <1>d, WebAssumption DEF WebTypes, Stages, Phases, Statuses, FilterThrows, bodyVars,
    respVars, outVars, restVars
<1>2. PoolByStage'
  BY <1>0, <1>d, WebAssumption DEF WebTypes, PoolByStage, Answered, Before, Between, Stages,
    Phases, Empty, AnswerText, FilterThrows, bodyVars, respVars, outVars, restVars
<1>3. OutputByStage'
  <2>1. UNCHANGED <<cur, bodyPool, holds, host, out, finals, returned>>
    BY DEF FilterThrows, bodyVars, outVars, restVars
  <2>2. /\ stage \notin {"idle", "finalize", "return"}
        /\ stage' \notin {"idle", "finalize", "return"}
    BY WebAssumption DEF FilterThrows, Phases
  <2> QED
    BY <1>0, <2>1, <2>2 DEF OutputByStage
<1>4. Outputs'
  BY <1>0, <1>d, WebAssumption DEF WebTypes, Outputs, OutputByStage, PoolByStage, OwnAnswer,
    Later, FilterThrows, bodyVars, respVars, outVars, restVars
<1> QED
  BY <1>1, <1>2, <1>3, <1>4 DEF WebIInv

LEMMA ReadBodyKeeps ==
    ASSUME WebIInv, ReadBody
    PROVE  WebIInv'
<1>0. WebTypes /\ PoolByStage /\ OutputByStage /\ Outputs
  BY DEF WebIInv
<1>d. cur \in WebRequest /\ bodyPool \in BodyPool /\ cur # Nobody /\ bodyPool # Nobody
  BY <1>0, Dispatched, WebAssumption DEF ReadBody, Phases
<1>1. WebTypes'
  BY <1>0, <1>d, WebAssumption DEF WebTypes, Stages, Phases, Statuses, ReadBody, bodyVars,
    respVars, outVars, restVars
<1>2. PoolByStage'
  BY <1>0, <1>d, WebAssumption DEF WebTypes, PoolByStage, Answered, Before, Between, Stages,
    Phases, Empty, AnswerText, ReadBody, bodyVars, respVars, outVars, restVars
<1>3. OutputByStage'
  BY <1>0, <1>d, WebAssumption DEF WebTypes, OutputByStage, Outputs, PoolByStage, Block, Empty,
    ReadBody, bodyVars, respVars, outVars, restVars
<1>4. Outputs'
  BY <1>0, <1>d, WebAssumption DEF WebTypes, Outputs, OutputByStage, PoolByStage, OwnAnswer,
    Later, ReadBody, bodyVars, respVars, outVars, restVars
<1> QED
  BY <1>1, <1>2, <1>3, <1>4 DEF WebIInv

\* What is written when a body cannot be read is not sent.
LEMMA ReadFailsKeeps ==
    ASSUME WebIInv, ReadFails
    PROVE  WebIInv'
<1>0. WebTypes /\ PoolByStage /\ OutputByStage /\ Outputs
  BY DEF WebIInv
<1>d. cur \in WebRequest /\ bodyPool \in BodyPool /\ cur # Nobody /\ bodyPool # Nobody
  BY <1>0, Dispatched, WebAssumption DEF ReadFails, Phases
<1>1. WebTypes'
  <2>1. spare' \subseteq BodyPool /\ bodyPool' = Nobody /\ holds' \in [BodyPool -> Texts]
    BY <1>0, <1>d, TextsOfAnswers DEF ReadFails, GiveBack, WebTypes
  <2>2. LiteralText(AnswerText("read error")) \in Blocks
    BY <1>d, TextsOfAnswers DEF LiteralText, Blocks
  <2>3. out' \in [WebRequest -> Seq(Blocks)]
    <3>1. out[cur] \in Seq(Blocks)
      BY <1>0, <1>d DEF WebTypes
    <3> DEFINE block == LiteralText(AnswerText("read error"))
    <3>b. block \in Blocks
      BY <2>2
    <3> HIDE DEF block
    <3>2. Append(out[cur], block) \in Seq(Blocks)
      BY <3>b, <3>1
    <3> QED
      BY <1>0, <1>d, <3>2 DEF ReadFails, WebTypes, block
  <2> QED
    BY <1>0, <1>d, <2>1, <2>3 DEF ReadFails, WebTypes, Stages, Phases, respVars
<1>2. PoolByStage'
  BY <1>0, <1>d, WebAssumption DEF WebTypes, PoolByStage, Answered, Before, Between, Stages,
    Phases, Empty, AnswerText, ReadFails, GiveBack, LiteralText, respVars
<1>3. OutputByStage'
  BY <1>0, <1>d, WebAssumption DEF WebTypes, OutputByStage, Outputs, PoolByStage, Block, Empty,
    ReadFails, GiveBack, LiteralText, respVars
<1>4. Outputs'
  BY <1>0, <1>d, WebAssumption, ZenonT(60) DEF WebTypes, Outputs, OutputByStage, PoolByStage,
    OwnAnswer, Later, ReadFails, GiveBack, LiteralText, respVars
<1> QED
  BY <1>1, <1>2, <1>3, <1>4 DEF WebIInv

\* Only JSON goes on to the service.
LEMMA ParseKeeps ==
    ASSUME WebIInv, Parse
    PROVE  WebIInv'
<1>0. WebTypes /\ PoolByStage /\ OutputByStage /\ Outputs
  BY DEF WebIInv
<1>d. cur \in WebRequest /\ bodyPool \in BodyPool /\ cur # Nobody /\ bodyPool # Nobody
  BY <1>0, Dispatched, WebAssumption DEF Parse, Phases
<1>1. WebTypes'
  BY <1>0, <1>d, WebAssumption DEF WebTypes, Stages, Phases, Statuses, Parse, bodyVars,
    outVars, restVars
<1>2. PoolByStage'
  BY <1>0, <1>d, WebAssumption DEF WebTypes, PoolByStage, Answered, Before, Between, Stages,
    Phases, Empty, AnswerText, Parse, bodyVars, outVars, restVars
<1>3. OutputByStage'
  BY <1>0, <1>d, WebAssumption DEF WebTypes, OutputByStage, Outputs, PoolByStage, Block, Empty,
    Parse, bodyVars, outVars, restVars
<1>4. Outputs'
  BY <1>0, <1>d, WebAssumption DEF WebTypes, Outputs, OutputByStage, PoolByStage, OwnAnswer,
    Later, Parse, bodyVars, outVars, restVars
<1> QED
  BY <1>1, <1>2, <1>3, <1>4 DEF WebIInv

\* A service writes into the pool of its own request.
LEMMA InvokeKeeps ==
    ASSUME WebIInv, Invoke
    PROVE  WebIInv'
<1>0. WebTypes /\ PoolByStage /\ OutputByStage /\ Outputs
  BY DEF WebIInv
<1>d. cur \in WebRequest /\ bodyPool \in BodyPool /\ cur # Nobody /\ bodyPool # Nobody
  BY <1>0, Dispatched, WebAssumption DEF Invoke, Phases
<1>1. WebTypes'
  <2>1. holds' \in [BodyPool -> Texts]
    BY <1>0, <1>d, TextsOfAnswers DEF Invoke, WebTypes
  <2>2. stage' \in {"PostDispatch", "error", "fail", "respond"}
    BY DEF Invoke
  <2>3. UNCHANGED <<host, cur, bodyPool, spare, status, out, finals, seen, returned>>
    BY DEF Invoke, respVars, outVars, restVars
  <2> QED
    BY <1>0, <1>d, <2>1, <2>2, <2>3 DEF WebTypes, Stages, Phases
<1>2. PoolByStage'
  BY <1>0, <1>d, WebAssumption DEF WebTypes, PoolByStage, Answered, Before, Between, Stages,
    Phases, Empty, AnswerText, Invoke, respVars, outVars, restVars
<1>3. OutputByStage'
  BY <1>0, <1>d, WebAssumption DEF WebTypes, OutputByStage, Outputs, PoolByStage, Block, Empty,
    Invoke, respVars, outVars, restVars
<1>4. Outputs'
  BY <1>0, <1>d, WebAssumption DEF WebTypes, Outputs, OutputByStage, PoolByStage, OwnAnswer,
    Later, Invoke, respVars, outVars, restVars
<1> QED
  BY <1>1, <1>2, <1>3, <1>4 DEF WebIInv

LEMMA WriteKeeps ==
    ASSUME WebIInv, Write
    PROVE  WebIInv'
<1>0. WebTypes /\ PoolByStage /\ OutputByStage /\ Outputs
  BY DEF WebIInv
<1>d. cur \in WebRequest /\ bodyPool \in BodyPool /\ cur # Nobody /\ bodyPool # Nobody
  BY <1>0, Dispatched, WebAssumption DEF Write, Phases
<1>1. WebTypes'
  <2>1. holds' \in [BodyPool -> Texts]
    BY <1>0, <1>d, TextsOfAnswers DEF Write, WebTypes
  <2> QED
    BY <1>0, <1>d, <2>1 DEF Write, WebTypes, Stages, Phases, outVars, restVars
<1>2. PoolByStage'
  BY <1>0, <1>d, WebAssumption DEF WebTypes, PoolByStage, Answered, Before, Between, Stages,
    Phases, Empty, AnswerText, Write, outVars, restVars
<1>3. OutputByStage'
  BY <1>0, <1>d, WebAssumption DEF WebTypes, OutputByStage, Outputs, PoolByStage, Block, Empty,
    Write, outVars, restVars
<1>4. Outputs'
  BY <1>0, <1>d, WebAssumption DEF WebTypes, Outputs, OutputByStage, PoolByStage, OwnAnswer,
    Later, Write, outVars, restVars
<1> QED
  BY <1>1, <1>2, <1>3, <1>4 DEF WebIInv

LEMMA SuccessKeeps ==
    ASSUME WebIInv, Success
    PROVE  WebIInv'
<1>0. WebTypes /\ PoolByStage /\ OutputByStage /\ Outputs
  BY DEF WebIInv
<1>d. cur \in WebRequest /\ bodyPool \in BodyPool /\ cur # Nobody /\ bodyPool # Nobody
  BY <1>0, Dispatched, WebAssumption DEF Success, Phases
<1>1. WebTypes'
  BY <1>0, <1>d, WebAssumption DEF WebTypes, Stages, Phases, Statuses, Success, bodyVars,
    outVars, restVars
<1>2. PoolByStage'
  BY <1>0, <1>d, WebAssumption DEF WebTypes, PoolByStage, Answered, Before, Between, Stages,
    Phases, Empty, AnswerText, Success, bodyVars, outVars, restVars
<1>3. OutputByStage'
  BY <1>0, <1>d, WebAssumption DEF WebTypes, OutputByStage, Outputs, PoolByStage, Block, Empty,
    Success, bodyVars, outVars, restVars
<1>4. Outputs'
  BY <1>0, <1>d, WebAssumption DEF WebTypes, Outputs, OutputByStage, PoolByStage, OwnAnswer,
    Later, Success, bodyVars, outVars, restVars
<1> QED
  BY <1>1, <1>2, <1>3, <1>4 DEF WebIInv

\* The text of the error takes the place of what the service has written.
LEMMA ErrorKeeps ==
    ASSUME WebIInv, Error
    PROVE  WebIInv'
<1>0. WebTypes /\ PoolByStage /\ OutputByStage /\ Outputs
  BY DEF WebIInv
<1>d. cur \in WebRequest /\ bodyPool \in BodyPool /\ cur # Nobody /\ bodyPool # Nobody
  BY <1>0, Dispatched, WebAssumption DEF Error, Phases
<1>1. WebTypes'
  <2>1. holds' \in [BodyPool -> Texts]
    BY <1>0, <1>d, TextsOfAnswers DEF Error, WebTypes
  <2> QED
    BY <1>0, <1>d, <2>1 DEF Error, WebTypes, Stages, Phases, Statuses, outVars, restVars
<1>2. PoolByStage'
  BY <1>0, <1>d, WebAssumption DEF WebTypes, PoolByStage, Answered, Before, Between, Stages,
    Phases, Empty, AnswerText, Error, outVars, restVars
<1>3. OutputByStage'
  BY <1>0, <1>d, WebAssumption DEF WebTypes, OutputByStage, Outputs, PoolByStage, Block, Empty,
    Error, outVars, restVars
<1>4. Outputs'
  BY <1>0, <1>d, WebAssumption DEF WebTypes, Outputs, OutputByStage, PoolByStage, OwnAnswer,
    Later, Error, outVars, restVars
<1> QED
  BY <1>1, <1>2, <1>3, <1>4 DEF WebIInv

LEMMA RespondKeeps ==
    ASSUME WebIInv, Respond
    PROVE  WebIInv'
<1>0. WebTypes /\ PoolByStage /\ OutputByStage /\ Outputs
  BY DEF WebIInv
<1>d. cur \in WebRequest /\ bodyPool \in BodyPool /\ cur # Nobody /\ bodyPool # Nobody
  BY <1>0, Dispatched, WebAssumption DEF Respond, Phases
<1>1. WebTypes'
  <2>1. Block(bodyPool) \in Blocks
    BY <1>0, <1>d, TextsOfAnswers DEF WebTypes, Block, Blocks
  <2>2. out' \in [WebRequest -> Seq(Blocks)]
    BY <1>0, <1>d, <2>1 DEF Respond, WebTypes
  <2> QED
    BY <1>0, <1>d, <2>2 DEF Respond, WebTypes, Stages, Phases, bodyVars, respVars, restVars
<1>2. PoolByStage'
  BY <1>0, <1>d, WebAssumption DEF WebTypes, PoolByStage, Answered, Before, Between, Stages,
    Phases, Empty, AnswerText, Respond, bodyVars, respVars, restVars
<1>3. OutputByStage'
  <2>1. UNCHANGED <<cur, bodyPool, holds, host, finals,
  returned>> /\ stage' = "finalize" /\ stage = "respond"
    BY DEF Respond, bodyVars, restVars
  <2>2. cur \notin returned /\ out[cur] = <<>> /\ finals[cur] = <<>>
    BY <1>0, <2>1 DEF OutputByStage
  <2>3. out'[cur] = IF holds[bodyPool] = Empty THEN <<>> ELSE <<Block(bodyPool)>>
    BY <1>0, <1>d, <2>2 DEF Respond, WebTypes
  <2>4. Block(bodyPool)' = Block(bodyPool) /\ Empty' = Empty
    BY <2>1 DEF Block, Empty
  <2> QED
    BY <2>1, <2>2, <2>3, <2>4 DEF OutputByStage
<1>4. Outputs'
  BY <1>0, <1>d, WebAssumption DEF WebTypes, Outputs, OutputByStage, PoolByStage, OwnAnswer,
    Later, Respond, bodyVars, respVars, restVars
<1> QED
  BY <1>1, <1>2, <1>3, <1>4 DEF WebIInv

LEMMA RespondFailsKeeps ==
    ASSUME WebIInv, RespondFails
    PROVE  WebIInv'
<1>0. WebTypes /\ PoolByStage /\ OutputByStage /\ Outputs
  BY DEF WebIInv
<1>d. cur \in WebRequest /\ bodyPool \in BodyPool /\ cur # Nobody /\ bodyPool # Nobody
  BY <1>0, Dispatched, WebAssumption DEF RespondFails, Phases
<1>1. WebTypes'
  BY <1>0, <1>d, WebAssumption DEF WebTypes, Stages, Phases, Statuses, RespondFails, bodyVars,
    respVars, outVars, restVars
<1>2. PoolByStage'
  BY <1>0, <1>d, WebAssumption DEF WebTypes, PoolByStage, Answered, Before, Between, Stages,
    Phases, Empty, AnswerText, RespondFails, bodyVars, respVars, outVars, restVars
<1>3. OutputByStage'
  BY <1>0, <1>d, WebAssumption DEF WebTypes, OutputByStage, Outputs, PoolByStage, Block, Empty,
    RespondFails, bodyVars, respVars, outVars, restVars
<1>4. Outputs'
  BY <1>0, <1>d, WebAssumption DEF WebTypes, Outputs, OutputByStage, PoolByStage, OwnAnswer,
    Later, RespondFails, bodyVars, respVars, outVars, restVars
<1> QED
  BY <1>1, <1>2, <1>3, <1>4 DEF WebIInv

\* What is sent is what the pool of the request holds.
LEMMA FinalizeKeeps ==
    ASSUME WebIInv, Finalize
    PROVE  WebIInv'
<1>0. WebTypes /\ PoolByStage /\ OutputByStage /\ Outputs
  BY DEF WebIInv
<1>d. cur \in WebRequest /\ bodyPool \in BodyPool /\ cur # Nobody /\ bodyPool # Nobody
  BY <1>0, Dispatched, WebAssumption DEF Finalize, Phases
<1>1. WebTypes'
  BY <1>0, <1>d, WebAssumption DEF WebTypes, Stages, Phases, Statuses, Finalize, Transmit,
    Sent, bodyVars, respVars, restVars
<1>2. PoolByStage'
  BY <1>0, <1>d, WebAssumption DEF WebTypes, PoolByStage, Answered, Before, Between, Stages,
    Phases, Empty, AnswerText, Finalize, Transmit, Sent, bodyVars, respVars, restVars
<1>3. OutputByStage'
  BY <1>0, <1>d, WebAssumption DEF WebTypes, OutputByStage, Outputs, PoolByStage, Block, Empty,
    Finalize, Transmit, Sent, bodyVars, respVars, restVars
<1>4. Outputs'
  <2> DEFINE text == holds[bodyPool]
             blocks == out[cur]
  <2>1. /\ cur \notin returned /\ finals[cur] = <<>>
        /\ blocks = IF text = Empty THEN <<>> ELSE <<Block(bodyPool)>>
        /\ Answered
    BY <1>0 DEF Finalize, OutputByStage, PoolByStage
  <2>2. Sent(Block(bodyPool)) = text
    BY <1>d DEF Sent, Block
  <2>3. [i \in DOMAIN blocks |-> Sent(blocks[i])] = IF text = Empty THEN <<>> ELSE <<text>>
    <3>1. CASE text = Empty
      BY <2>1, <3>1
    <3>2. CASE text # Empty
      <4>1. blocks = <<Block(bodyPool)>> /\ DOMAIN blocks = {1} /\ blocks[1] = Block(bodyPool)
        BY <2>1, <3>2
      <4>2. [i \in DOMAIN blocks |-> Sent(blocks[i])] = [i \in {1} |-> text]
        BY <4>1, <2>2
      <4> QED
        BY <3>2, <4>2
    <3> QED
      BY <3>1, <3>2
  <2>4. UNCHANGED <<cur, out, returned, host>>
    BY DEF Finalize, restVars
  <2>5. finals'[cur] = <<status>>
    BY <1>0, <1>d, <2>1 DEF Finalize, WebTypes
  <2>6. ~Later(cur) => seen'[cur] = IF text = Empty THEN <<>> ELSE <<text>>
    BY <1>0, <1>d, <2>3 DEF Finalize, Transmit, Later, WebTypes
  <2>7. ASSUME NEW r \in WebRequest, r = cur, ~Later(r) PROVE OwnAnswer(r)'
    BY <2>1, <2>4, <2>5, <2>6, <2>7 DEF OwnAnswer, Answered, AnswerText
  <2>8. \A r \in WebRequest \ {cur} : finals'[r] = finals[r] /\ seen'[r] = seen[r]
    BY <1>0 DEF Finalize, Transmit, WebTypes
  <2>9. Len(finals'[cur]) = 1
    BY <2>5
  <2> SUFFICES ASSUME NEW r \in WebRequest
               PROVE  /\ r \notin returned \cup {cur} => out[r] = <<>> /\ finals'[r] = <<>>
                      /\ Len(finals'[r]) <= 1
                      /\ r \in returned \ Unreadable => Len(finals'[r]) = 1
                      /\ ~Later(r) => OwnAnswer(r)'
    BY <2>4 DEF Outputs, Later
  <2>10. CASE r = cur
    <3>1. ~Later(r) => OwnAnswer(r)'
      BY <2>7, <2>10, Zenon
    <3> HIDE DEF text, blocks
    <3>2. r \in returned \cup {cur} /\ Len(finals'[r]) = 1
      BY <2>9, <2>10
    <3> QED
      BY <3>1, <3>2
  <2>11. CASE r # cur
    BY <1>0, <2>8, <2>11 DEF Outputs, OwnAnswer
  <2> QED
    BY <2>10, <2>11
<1> QED
  BY <1>1, <1>2, <1>3, <1>4 DEF WebIInv

\* Nothing has been handed over when the handlers of exceptions write.
LEMMA FailKeeps ==
    ASSUME WebIInv, Fail
    PROVE  WebIInv'
<1>0. WebTypes /\ PoolByStage /\ OutputByStage /\ Outputs
  BY DEF WebIInv
<1>d. cur \in WebRequest /\ bodyPool \in BodyPool /\ cur # Nobody /\ bodyPool # Nobody
  BY <1>0, Dispatched, WebAssumption DEF Fail, Phases
<1>1. WebTypes'
  <2>1. LiteralText(AnswerText("error")) \in Blocks
    BY <1>d, TextsOfAnswers DEF LiteralText, Blocks
  <2>2. out' \in [WebRequest -> Seq(Blocks)]
    BY <1>0, <1>d, <2>1 DEF Fail, WebTypes
  <2>3. finals' \in [WebRequest -> Seq(Statuses)]
    BY <1>0, <1>d DEF Fail, WebTypes, Statuses
  <2>4. DOMAIN seen' = WebRequest
    BY <1>0 DEF Fail, Transmit, WebTypes
  <2> QED
    BY <1>0, <1>d, <2>2, <2>3, <2>4 DEF Fail, WebTypes, Stages, Phases, bodyVars, respVars,
      restVars
<1>2. PoolByStage'
  BY <1>0, <1>d, WebAssumption DEF WebTypes, PoolByStage, Answered, Before, Between, Stages,
    Phases, Empty, AnswerText, Fail, Transmit, Sent, LiteralText, bodyVars, respVars, restVars
<1>3. OutputByStage'
  BY <1>0, <1>d, WebAssumption DEF WebTypes, OutputByStage, Outputs, PoolByStage, Block, Empty,
    Fail, Transmit, Sent, LiteralText, bodyVars, respVars, restVars
<1>4. Outputs'
  <2> DEFINE text == AnswerText("error")
             blocks == Append(out[cur], LiteralText(text))
  <2>1. cur \notin returned /\ finals[cur] = <<>> /\ out[cur] = <<>>
    BY <1>0 DEF Fail, OutputByStage
  <2>2. Sent(LiteralText(text)) = text
    BY DEF Sent, LiteralText
  <2>3. [i \in DOMAIN blocks |-> Sent(blocks[i])] = <<text>>
    <3>1. blocks = <<LiteralText(text)>> /\ DOMAIN blocks = {1} /\ blocks[1] = LiteralText(text)
      BY <2>1
    <3>2. [i \in DOMAIN blocks |-> Sent(blocks[i])] = [i \in {1} |-> text]
      BY <3>1, <2>2
    <3> QED
      BY <3>2
  <2>4. UNCHANGED <<cur, returned, host>>
    BY DEF Fail, restVars
  <2>5. finals'[cur] \in {<<400>>, <<500>>}
    BY <1>0, <1>d, <2>1 DEF Fail, WebTypes
  <2>6. ~Later(cur) => seen'[cur] = <<text>>
    BY <1>0, <1>d, <2>3 DEF Fail, Transmit, Later, WebTypes
  <2>7. ASSUME NEW r \in WebRequest, r = cur, ~Later(r) PROVE OwnAnswer(r)'
    <3>1. finals'[r] # <<>> /\ finals'[r] # <<200>> /\ seen'[r] = <<text>>
      BY <2>5, <2>6, <2>7
    <3>2. text = [of |-> r, what |-> "error"]
      BY <2>7 DEF AnswerText
    <3> QED
      BY <3>1, <3>2 DEF OwnAnswer
  <2>8. \A r \in WebRequest \ {cur} : finals'[r] = finals[r] /\ seen'[r] = seen[r] /\ out'[r] = out[r]
    BY <1>0 DEF Fail, Transmit, WebTypes
  <2>9. Len(finals'[cur]) = 1
    BY <2>5
  <2> SUFFICES ASSUME NEW r \in WebRequest
               PROVE  /\ r \notin returned \cup {cur} => out'[r] = <<>> /\ finals'[r] = <<>>
                      /\ Len(finals'[r]) <= 1
                      /\ r \in returned \ Unreadable => Len(finals'[r]) = 1
                      /\ ~Later(r) => OwnAnswer(r)'
    BY <2>4 DEF Outputs, Later
  <2>10. CASE r = cur
    <3>1. ~Later(r) => OwnAnswer(r)'
      BY <2>7, <2>10, Zenon
    <3> HIDE DEF text, blocks
    <3>2. r \in returned \cup {cur} /\ Len(finals'[r]) = 1
      BY <2>9, <2>10
    <3> QED
      BY <3>1, <3>2
  <2>11. CASE r # cur
    BY <1>0, <2>8, <2>11 DEF Outputs, OwnAnswer
  <2> QED
    BY <2>10, <2>11
<1> QED
  BY <1>1, <1>2, <1>3, <1>4 DEF WebIInv

\* The pool goes back empty.
LEMMA ReturnKeeps ==
    ASSUME WebIInv, Return
    PROVE  WebIInv'
<1>0. WebTypes /\ PoolByStage /\ OutputByStage /\ Outputs
  BY DEF WebIInv
<1>d. cur \in WebRequest /\ bodyPool \in BodyPool /\ cur # Nobody /\ bodyPool # Nobody
  BY <1>0, Dispatched, WebAssumption DEF Return, Phases
<1>1. WebTypes'
  <2>1. spare' \subseteq BodyPool /\ bodyPool' = Nobody /\ holds' \in [BodyPool -> Texts]
    BY <1>0, <1>d, TextsOfAnswers DEF Return, GiveBack, WebTypes
  <2> QED
    BY <1>0, <1>d, <2>1 DEF Return, WebTypes, Stages, Phases, respVars, outVars
<1>2. PoolByStage'
  BY <1>0, <1>d, WebAssumption DEF WebTypes, PoolByStage, Answered, Before, Between, Stages,
    Phases, Empty, AnswerText, Return, GiveBack, respVars, outVars
<1>3. OutputByStage'
  BY <1>0, <1>d, WebAssumption DEF WebTypes, OutputByStage, Outputs, PoolByStage, Block, Empty,
    Return, GiveBack, respVars, outVars
<1>4. Outputs'
  BY <1>0, <1>d, WebAssumption DEF WebTypes, Outputs, OutputByStage, PoolByStage, OwnAnswer,
    Later, Return, GiveBack, respVars, outVars
<1> QED
  BY <1>1, <1>2, <1>3, <1>4 DEF WebIInv

\* The invariant holds at first,
LEMMA WebStart == WebInit => WebIInv
<1> SUFFICES ASSUME WebInit PROVE WebIInv
  OBVIOUS
<1>1. stage = "idle" /\ cur = Nobody /\ bodyPool = Nobody /\ returned = {}
  BY DEF WebInit
<1>2. WebTypes
  <2>1. holds \in [BodyPool -> Texts] /\ spare \subseteq BodyPool
    BY TextsOfAnswers DEF WebInit
  <2>2. out \in [WebRequest -> Seq(Blocks)] /\ finals \in [WebRequest -> Seq(Statuses)]
    <3>1. \A S : <<>> \in Seq(S)
      OBVIOUS
    <3>2. out = [r \in WebRequest |-> <<>>] /\ finals = [r \in WebRequest |-> <<>>]
      BY DEF WebInit
    <3> QED
      BY <3>1, <3>2, Zenon
  <2>3. DOMAIN seen = WebRequest /\ host \in {"apache", "nginx"} /\ status \in Statuses
    BY DEF WebInit, Statuses
  <2> QED
    BY <1>1, <2>1, <2>2, <2>3 DEF WebTypes, Stages
<1>3. PoolByStage
  BY DEF WebInit, PoolByStage, Before, Between
<1>4. OutputByStage
  BY <1>1 DEF OutputByStage
<1>5. Outputs
  <2>1. \A r \in WebRequest : out[r] = <<>> /\ finals[r] = <<>> /\ seen[r] = Nobody
    BY DEF WebInit
  <2> QED
    BY <1>1, <2>1 DEF Outputs, OwnAnswer
<1> QED
  BY <1>2, <1>3, <1>4, <1>5 DEF WebIInv

\* and after each step.
LEMMA WebStep == WebIInv /\ [WebNext]_webVars => WebIInv'
<1> SUFFICES ASSUME WebIInv, [WebNext]_webVars PROVE WebIInv'
  OBVIOUS
<1>1. ASSUME NEW r \in WebRequest, Begin(r) PROVE WebIInv'
  BY <1>1, BeginKeeps
<1>2. ASSUME NEW r \in WebRequest, SendLater(r) PROVE WebIInv'
  BY <1>2, SendLaterKeeps
<1>3. ASSUME NEW r \in WebRequest, AnswerLate(r) PROVE WebIInv'
  BY <1>3, AnswerLateKeeps
<1>4. CASE Dispatching
  BY <1>4, FiltersRunKeeps, FilterThrowsKeeps, ReadBodyKeeps, ReadFailsKeeps, ParseKeeps,
    InvokeKeeps,
     WriteKeeps, SuccessKeeps, ErrorKeeps, RespondKeeps, RespondFailsKeeps, FinalizeKeeps,
     FailKeeps,
     ReturnKeeps DEF Dispatching
<1>5. CASE UNCHANGED webVars
  <2>1. WebTypes' /\ PoolByStage'
    BY <1>5 DEF webVars, WebIInv, WebTypes, PoolByStage, Answered, AnswerText, Empty
  <2>2. OutputByStage' /\ Outputs'
    BY <1>5 DEF webVars, WebIInv, OutputByStage, Outputs, OwnAnswer, Later, Block, Empty
  <2> QED
    BY <2>1, <2>2 DEF WebIInv
<1> QED
  BY <1>1, <1>2, <1>3, <1>4, <1>5 DEF WebNext

\* The inductive invariant of a dispatch: what is in the pools, in the callback and in the
\* output, at each stage of the request that is dispatched.
THEOREM WebInvariant == WebSpec => []WebIInv
BY WebStart, WebStep, PTL DEF WebSpec

\* Each client has one answer of its own, with its status, each callback is called once and
\* only JSON is dispatched, wherever an exception comes from.
THEOREM WebSafe == WebSpec => []WebInv
<1>1. WebIInv => WebInv
  <2> SUFFICES ASSUME WebIInv PROVE WebInv
    OBVIOUS
  <2>0. WebTypes /\ PoolByStage /\ OutputByStage /\ Outputs
    BY DEF WebIInv
  <2>1. WebTypeOK
    BY <2>0 DEF WebTypes, WebTypeOK, Statuses
  <2>2. \A r \in WebRequest : ~Later(r) => OwnAnswer(r)
    BY <2>0 DEF Outputs
  <2>3. ClientGetsItsOwn
    BY <2>2 DEF ClientGetsItsOwn, OwnAnswer, Later
  <2>4. StatusTellsBody
    <3> SUFFICES ASSUME NEW r \in WebRequest, seen[r] \notin {Nobody, <<>>}, ~Later(r)
                 PROVE  (finals[r] = <<200>>) = (seen[r][1].what = "answer")
      BY DEF StatusTellsBody, Later
    <3>1. CASE seen[r] = <<[of |-> r, what |-> "answer"]>> /\ finals[r] = <<200>>
      BY <3>1
    <3>2. CASE seen[r] = <<[of |-> r, what |-> "error"]>> /\ finals[r] # <<200>>
      BY <3>2
    <3> QED
      BY <2>2, <3>1, <3>2 DEF OwnAnswer
  <2>5. FinalizedOnce
    BY <2>0 DEF FinalizedOnce, Outputs
  <2>6. AnsweredOnce /\ OnlyJsonIsInvoked
    BY <2>0 DEF PoolByStage, AnsweredOnce, OnlyJsonIsInvoked
  <2> QED
    BY <2>1, <2>3, <2>4, <2>5, <2>6 DEF WebInv
<1> QED
  BY <1>1, WebInvariant, PTL

-----------------------------------------------------------------------------
(* Names: the hierarchy.                                                   *)

Height == Cardinality(Element)

LEMMA HeightIsNat == Height \in Nat
BY NamesAssumption, FS_CardinalityType DEF Height

\* How far an element is from the top, or less.
Depth ==
    CHOOSE depth \in [Element -> 0 .. Height] :
        \A e \in Element : Parent[e] # NoNode => depth[Parent[e]] < depth[e]

LEMMA DepthIs ==
    /\ Depth \in [Element -> 0 .. Height]
    /\ \A e \in Element : Parent[e] # NoNode => Depth[Parent[e]] < Depth[e]
<1>1. \E depth \in [Element -> 0 .. Height] :
          \A e \in Element : Parent[e] # NoNode => depth[Parent[e]] < depth[e]
  BY NamesAssumption DEF Height
<1> QED
  BY <1>1, Zenon DEF Depth

\* From an element up.
Climbs(s) ==
    /\ s \in Seq(Element) /\ s # <<>>
    /\ \A i \in 1 .. Len(s) - 1 : Parent[s[i]] = s[i + 1]

\* No element is above the last.
Ascent(s) == Climbs(s) /\ Parent[s[Len(s)]] = NoNode

Risen(s) == IF Parent[Last(s)] = NoNode THEN s ELSE Append(s, Parent[Last(s)])

LEMMA RisenClimbs ==
    ASSUME NEW s, Climbs(s)
    PROVE  /\ Climbs(Risen(s)) /\ Risen(s)[1] = s[1]
           /\ Parent[s[Len(s)]] = NoNode => Risen(s) = s
           /\ Parent[s[Len(s)]] # NoNode =>
                /\ Len(Risen(s)) = Len(s) + 1
                /\ Risen(s)[Len(s) + 1] = Parent[s[Len(s)]]
<1>1. s \in Seq(Element) /\ Len(s) \in Nat /\ Len(s) # 0 /\ Last(s) = s[Len(s)]
  BY DEF Climbs, Last
<1>2. s[Len(s)] \in Element /\ Parent[s[Len(s)]] \in Element \cup {NoNode}
  BY <1>1, NamesAssumption
<1>3. CASE Parent[s[Len(s)]] = NoNode
  BY <1>1, <1>3 DEF Risen
<1>4. CASE Parent[s[Len(s)]] # NoNode
  <2> DEFINE r == Append(s, Parent[s[Len(s)]])
  <2>1. Risen(s) = r
    BY <1>1, <1>4 DEF Risen
  <2>2. r \in Seq(Element) /\ r # <<>> /\ Len(r) = Len(s) + 1 /\ r[Len(s) + 1] = Parent[s[Len(s)]]
    BY <1>1, <1>2, <1>4
  <2>3. \A i \in 1 .. Len(s) : r[i] = s[i]
    BY <1>1
  <2> HIDE DEF r
  <2>4. ASSUME NEW i \in 1 .. Len(r) - 1 PROVE Parent[r[i]] = r[i + 1]
    <3>1. CASE i = Len(s)
      <4>1. i \in 1 .. Len(s)
        BY <1>1, <3>1
      <4> QED
        BY <2>2, <2>3, <3>1, <4>1
    <3>2. CASE i # Len(s)
      <4>1. i \in 1 .. Len(s) - 1 /\ i \in 1 .. Len(s) /\ i + 1 \in 1 .. Len(s)
        BY <1>1, <2>2, <3>2
      <4>2. Parent[s[i]] = s[i + 1]
        BY <4>1 DEF Climbs
      <4> QED
        BY <4>1, <4>2, <2>3
    <3> QED
      BY <3>1, <3>2
  <2>5. r[1] = s[1]
    BY <1>1, <2>3
  <2> QED
    BY <2>1, <2>2, <2>4, <2>5, <1>4 DEF Climbs
<1> QED
  BY <1>3, <1>4

\* The way up from an element.
LEMMA AncestryIs ==
    ASSUME NEW e \in Element
    PROVE  Ascent(Ancestry[e]) /\ Ancestry[e][1] = e /\ Len(Ancestry[e]) <= Height + 1
<1> DEFINE N == Height
           D == Seq(Element) \ {<<>>}
           d == <<e>>
           G == [x \in (1 .. N) \X D |-> Risen(x[2])]
           Solved(f) == [i \in 0 .. N |-> IF i = 0 THEN d ELSE Risen(f[i - 1])]
           up == CHOOSE f : f = Solved(f)
<1>1. N \in Nat /\ d \in D
  BY HeightIsNat
<1>2. Ancestry[e] = up[N]
  <2>1. \A s : Risen(s) = IF Parent[Last(s)] = NoNode THEN s ELSE Append(s, Parent[Last(s)])
    BY DEF Risen
  <2> QED
    BY DEF Ancestry, Height, Risen
<1> HIDE DEF N, d
<1>3. ASSUME NEW s \in D PROVE Risen(s) \in D
  <2>1. Len(s) \in Nat /\ Len(s) # 0 /\ Last(s) = s[Len(s)]
    BY DEF Last
  <2>2. Parent[s[Len(s)]] \in Element \cup {NoNode}
    BY <2>1, NamesAssumption
  <2> QED
    BY <2>1, <2>2 DEF Risen
<1> HIDE DEF D
<1>4. ASSUME NEW i \in 1 .. N, NEW s \in D
      PROVE  G[<<i, s>>] = Risen(s)
  OBVIOUS
<1>5. G \in [(1 .. N) \X D -> D]
  <2> SUFFICES ASSUME NEW x \in (1 .. N) \X D PROVE Risen(x[2]) \in D
    BY Zenon
  <2>1. x[2] \in D
    OBVIOUS
  <2> QED
    BY <2>1, <1>3, Zenon
<1> HIDE DEF G
<1>6. PICK h \in [0 .. N -> D] : h[0] = d /\ \A i \in 1 .. N : h[i] = G[<<i, h[i - 1]>>]
  <2>1. Recursive(D, d, N, G)
    BY <1>1, <1>5, Recursion, Zenon
  <2> QED
    BY <2>1, Zenon DEF Recursive
<1>7. ASSUME NEW i \in 1 .. N
      PROVE  h[i] = Risen(h[i - 1])
  <2>1. h[i - 1] \in D
    BY <1>1
  <2> QED
    BY <2>1, <1>4, <1>6
<1>8. h = Solved(h)
  <2>1. ASSUME NEW i \in 0 .. N PROVE h[i] = IF i = 0 THEN d ELSE Risen(h[i - 1])
    <3>1. i = 0 \/ i \in 1 .. N
      BY <1>1
    <3> QED
      BY <3>1, <1>6, <1>7
  <2> QED
    BY <2>1
<1>9. up = Solved(up)
  BY <1>8
<1>10. \A i \in 0 .. N : up[i] = IF i = 0 THEN d ELSE Risen(up[i - 1])
  BY <1>9
<1> HIDE DEF up
<1> DEFINE Good(s, i) == /\ Climbs(s) /\ s[1] = e /\ Len(s) <= i + 1
                         /\ Parent[s[Len(s)]] = NoNode \/ Depth[s[Len(s)]] + i <= Depth[e]
           S == {i \in 0 .. N : Good(up[i], i)}
<1>11. 0 \in S
  <2>1. up[0] = <<e>>
    BY <1>1, <1>10 DEF d
  <2>2. Len(<<e>>) = 1 /\ <<e>>[1] = e /\ <<e>> \in Seq(Element) /\ <<e>> # <<>> /\ 1 .. Len(<<e>>) - 1 = {}
    OBVIOUS
  <2>3. Climbs(<<e>>)
    BY <2>2 DEF Climbs
  <2>4. Depth[e] \in Nat
    BY DepthIs, HeightIsNat
  <2>5. Parent[<<e>>[Len(<<e>>)]] = NoNode \/ Depth[<<e>>[Len(<<e>>)]] + 0 <= Depth[e]
    BY <2>2, <2>4
  <2>6. Good(<<e>>, 0)
    BY <2>2, <2>3, <2>5
  <2> HIDE DEF Good
  <2> QED
    BY <2>1, <2>6, <1>1
<1>12. ASSUME NEW i \in 1 .. N, i - 1 \in S PROVE i \in S
  <2> DEFINE s == up[i - 1]
  <2>1. i \in 0 .. N /\ up[i] = Risen(s) /\ Good(s, i - 1)
    BY <1>1, <1>10, <1>12
  <2> HIDE DEF s
  <2>2. Len(s) \in Nat \ {0} /\ s[Len(s)] \in Element /\ i \in Nat
    BY <2>1 DEF Climbs
  <2>3. CASE Parent[s[Len(s)]] = NoNode
    BY <2>1, <2>2, <2>3, RisenClimbs
  <2>4. CASE Parent[s[Len(s)]] # NoNode
    <3>1. Len(Risen(s)) = Len(s) + 1 /\ Risen(s)[Len(s) + 1] = Parent[s[Len(s)]]
          /\ Climbs(Risen(s)) /\ Risen(s)[1] = s[1]
      BY <2>1, <2>4, RisenClimbs
    <3>2. Parent[s[Len(s)]] \in Element
      BY <2>2, <2>4, NamesAssumption
    <3>3. Depth[Parent[s[Len(s)]]] < Depth[s[Len(s)]] /\ Depth[e] \in Nat
          /\ Depth[Parent[s[Len(s)]]] \in Nat /\ Depth[s[Len(s)]] \in Nat
      BY <2>2, <2>4, <3>2, DepthIs, HeightIsNat
    <3>4. Depth[s[Len(s)]] + (i - 1) <= Depth[e]
      BY <2>1, <2>4
    <3>5. Depth[Risen(s)[Len(Risen(s))]] + i <= Depth[e]
      BY <3>1, <3>3, <3>4, <2>2
    <3> QED
      BY <3>1, <3>5, <2>1, <2>2
  <2> QED
    BY <2>3, <2>4
<1>13. Good(up[N], N)
  <2>1. N \in 0 .. N
    BY <1>1
  <2> HIDE DEF Good
  <2>2. \A i \in 0 .. N : i \in S
    <3> HIDE DEF S
    <3> QED
      BY <1>1, <1>11, <1>12, NatSteps, Zenon
  <2> QED
    BY <2>1, <2>2
<1> DEFINE a == up[N]
<1>14. Parent[a[Len(a)]] = NoNode
  <2> SUFFICES ASSUME Parent[a[Len(a)]] # NoNode PROVE FALSE
    OBVIOUS
  <2>1. a[Len(a)] \in Element
    BY <1>13 DEF Climbs
  <2>2. Parent[a[Len(a)]] \in Element
    BY <2>1, NamesAssumption
  <2>3. /\ Depth[a[Len(a)]] \in Nat /\ Depth[e] \in 0 .. N /\ Depth[Parent[a[Len(a)]]] \in Nat
        /\ Depth[Parent[a[Len(a)]]] < Depth[a[Len(a)]]
    BY <2>1, <2>2, DepthIs, HeightIsNat DEF N
  <2>4. Depth[a[Len(a)]] + N <= Depth[e]
    BY <1>13
  <2> QED
    BY <2>3, <2>4, <1>1
<1> QED
  BY <1>2, <1>13, <1>14 DEF Ascent, N

\* What t has from k on, s has from i on.
Within(t, k, s, i) == \A m \in k .. Len(t) : \E j \in i .. Len(s) : t[m] = s[j]

\* Two ways up that meet go on together.
LEMMA GoOnTogether ==
    ASSUME NEW s, NEW t, Ascent(s), Ascent(t),
           NEW i \in 1 .. Len(s), NEW k \in 1 .. Len(t), s[i] = t[k]
    PROVE  Within(t, k, s, i)
<1>1. Len(s) \in Nat /\ Len(t) \in Nat /\ i \in Nat /\ k \in Nat /\ k <= Len(t) /\ i <= Len(s)
  BY DEF Ascent, Climbs
<1> DEFINE S == {m \in 0 .. Len(t) - k : \E j \in i .. Len(s) : t[k + m] = s[j]}
<1>2. 0 \in S
  <2>1. i \in i .. Len(s) /\ t[k + 0] = s[i] /\ 0 \in 0 .. Len(t) - k
    BY <1>1
  <2> QED
    BY <2>1
<1>3. ASSUME NEW m \in 1 .. Len(t) - k, m - 1 \in S PROVE m \in S
  <2>1. PICK j \in i .. Len(s) : t[k + (m - 1)] = s[j]
    BY <1>3
  <2>2. k + (m - 1) \in 1 .. Len(t) - 1 /\ k + (m - 1) + 1 = k + m /\ m \in 0 .. Len(t) - k
        /\ k + m \in 1 .. Len(t)
    BY <1>1
  <2>3. Parent[s[j]] = t[k + m] /\ t[k + m] \in Element
    BY <2>1, <2>2 DEF Ascent, Climbs
  <2>4. j # Len(s)
    BY <2>3, NamesAssumption DEF Ascent
  <2>5. j \in 1 .. Len(s) - 1 /\ j + 1 \in i .. Len(s)
    BY <2>4, <1>1
  <2>6. Parent[s[j]] = s[j + 1]
    BY <2>5 DEF Ascent, Climbs
  <2> QED
    BY <2>2, <2>3, <2>5, <2>6
<1>4. \A m \in 0 .. Len(t) - k : m \in S
  <2>1. Len(t) - k \in Nat
    BY <1>1
  <2> HIDE DEF S
  <2> QED
    BY <2>1, <1>2, <1>3, NatSteps, Zenon
<1>5. ASSUME NEW m \in k .. Len(t) PROVE \E j \in i .. Len(s) : t[m] = s[j]
  <2>1. m - k \in 0 .. Len(t) - k /\ k + (m - k) = m
    BY <1>1
  <2> QED
    BY <2>1, <1>4
<1> QED
  BY <1>5 DEF Within

\* What is above an element that is above e, is above e.
LEMMA AboveIs ==
    ASSUME NEW e \in Element, NEW i \in DOMAIN Ancestry[e]
    PROVE  /\ Ancestry[e][i] \in Element
           /\ ToSet(Ancestry[Ancestry[e][i]]) = {Ancestry[e][j] : j \in i .. Len(Ancestry[e])}
<1> DEFINE s == Ancestry[e]  a == s[i]  t == Ancestry[a]
<1>1. Ascent(s) /\ s \in Seq(Element) /\ i \in 1 .. Len(s) /\ a \in Element
  BY AncestryIs DEF Ascent, Climbs
<1>2. Ascent(t) /\ t \in Seq(Element) /\ t[1] = a /\ Len(t) \in Nat /\ Len(t) # 0
  BY <1>1, AncestryIs DEF Ascent, Climbs
<1> HIDE DEF s, a, t
<1>3. 1 \in 1 .. Len(t) /\ t[1] = s[i] /\ s[i] = t[1]
  BY <1>2 DEF a
<1>4. Within(t, 1, s, i)
  BY <1>1, <1>2, <1>3, GoOnTogether, Zenon
<1>5. Within(s, i, t, 1)
  BY <1>1, <1>2, <1>3, GoOnTogether, Zenon
<1>6. ToSet(t) = {t[m] : m \in 1 .. Len(t)}
  BY <1>2 DEF ToSet
<1>7. ToSet(t) = {s[j] : j \in i .. Len(s)}
  BY <1>4, <1>5, <1>6 DEF Within
<1> QED
  BY <1>1, <1>7 DEF s, a, t

\* The way up meets no element twice.
LEMMA NotAgain ==
    ASSUME NEW e \in Element, NEW i \in DOMAIN Ancestry[e], NEW k \in DOMAIN Ancestry[e], i < k
    PROVE  Ancestry[e][i] # Ancestry[e][k]
<1> DEFINE s == Ancestry[e]
<1>1. Climbs(s) /\ Len(s) \in Nat /\ i \in 1 .. Len(s) /\ k \in 1 .. Len(s) /\ s \in Seq(Element)
  BY AncestryIs DEF Ascent, Climbs
<1> HIDE DEF s
<1> DEFINE S == {m \in 0 .. k - i : Depth[s[i + m]] + m <= Depth[s[i]]}
<1>2. \A j \in 1 .. Len(s) : s[j] \in Element /\ Depth[s[j]] \in Nat
  BY <1>1, DepthIs, HeightIsNat
<1>3. 0 \in S
  BY <1>1, <1>2
<1>4. ASSUME NEW m \in 1 .. k - i, m - 1 \in S PROVE m \in S
  <2>1. /\ i + (m - 1) \in 1 .. Len(s) - 1 /\ i + (m - 1) \in 1 .. Len(s) /\ i + (m - 1) + 1 = i + m
        /\ i + m \in 1 .. Len(s) /\ m \in 0 .. k - i
    BY <1>1
  <2>2. Parent[s[i + (m - 1)]] = s[i + m]
    BY <2>1, <1>1 DEF Climbs
  <2>3. Depth[s[i + m]] < Depth[s[i + (m - 1)]]
    BY <2>1, <2>2, <1>2, DepthIs, NamesAssumption
  <2>4. Depth[s[i + (m - 1)]] + (m - 1) <= Depth[s[i]]
    BY <1>4
  <2>5. Depth[s[i + m]] \in Nat /\ Depth[s[i + (m - 1)]] \in Nat /\ Depth[s[i]] \in Nat
    BY <2>1, <1>1, <1>2
  <2>6. m \in Nat
    BY <1>1
  <2>7. Depth[s[i + m]] + m <= Depth[s[i]]
    BY <2>3, <2>4, <2>5, <2>6
  <2> QED
    BY <2>1, <2>7
<1>5. \A m \in 0 .. k - i : m \in S
  <2>1. k - i \in Nat
    BY <1>1
  <2> HIDE DEF S
  <2> QED
    BY <2>1, <1>3, <1>4, NatSteps, Zenon
<1>6. k - i \in 0 .. k - i /\ i + (k - i) = k /\ k - i > 0
  BY <1>1
<1>7. Depth[s[k]] + (k - i) <= Depth[s[i]]
  <2>1. k - i \in S
    BY <1>5, <1>6
  <2>2. Depth[s[i + (k - i)]] + (k - i) <= Depth[s[i]]
    BY <2>1
  <2> QED
    BY <2>2, <1>6
<1>8. Depth[s[k]] # Depth[s[i]]
  BY <1>1, <1>2, <1>6, <1>7
<1> QED
  BY <1>8 DEF s

-----------------------------------------------------------------------------
(* The lists.                                                              *)

LEMMA MinOf ==
    ASSUME NEW S, S \subseteq Nat, S # {}
    PROVE  Min(S) \in S /\ \A x \in S : Min(S) <= x
<1>1. \E m \in S : \A x \in S : m <= x
  BY LeastNat
<1> QED
  BY <1>1 DEF Min

SpaceWith(list, p) == SelectInSeq(list, LAMBDA ns : ns.prefix = p)

Declares(list, p) == \E i \in DOMAIN list : list[i].prefix = p

\* The search in a list finds what is there.
LEMMA SpaceWithIs ==
    ASSUME NEW list \in Seq(Space), NEW p
    PROVE  /\ Declares(list, p) => SpaceWith(list, p) \in DOMAIN list
                                   /\ list[SpaceWith(list, p)].prefix = p
           /\ ~Declares(list, p) => SpaceWith(list, p) = 0
           /\ SpaceWith(list, p) # 0 <=> Declares(list, p)
<1> DEFINE I == {i \in 1 .. Len(list) : list[i].prefix = p}
<1>1. SpaceWith(list, p) = IF I # {} THEN Min(I) ELSE 0
  BY DEF SpaceWith, SelectInSeq
<1>2. Declares(list, p) <=> I # {}
  BY DEF Declares
<1>3. I # {} => Min(I) \in I
  BY MinOf
<1> QED
  BY <1>1, <1>2, <1>3

\* No prefix twice.
Unlike(list) == \A i, j \in DOMAIN list : list[i].prefix = list[j].prefix => i = j

LEMMA DeclaredIs ==
    ASSUME NEW list \in Seq(Space), Unlike(list), NEW uri \in Uri, NEW p \in Prefix
    PROVE  /\ Declared(list, uri, p) \in Seq(Space) /\ Unlike(Declared(list, uri, p))
           /\ Declares(Declared(list, uri, p), p)
           /\ Declared(list, uri, p)[SpaceWith(Declared(list, uri, p), p)].uri = uri
<1> DEFINE new == Declared(list, uri, p)
           k == SpaceWith(list, p)
<1>0. Len(list) \in Nat /\ DOMAIN list = 1 .. Len(list) /\ \A i \in DOMAIN list : list[i] \in Space
  OBVIOUS
<1>1. CASE Declares(list, p)
  <2>1. k \in 1 .. Len(list) /\ list[k].prefix = p
    BY <1>1, SpaceWithIs
  <2>2. new = [list EXCEPT ![k].uri = uri]
    BY <1>1 DEF Declared, Declares, SpaceWith
  <2> HIDE DEF k
  <2>3. /\ DOMAIN new = DOMAIN list /\ Len(new) = Len(list) /\ new[k] = [list[k] EXCEPT !.uri = uri]
        /\ \A i \in DOMAIN list : i # k => new[i] = list[i]
    BY <2>1, <2>2, <1>0
  <2>4. list[k] \in Space /\ new[k] \in Space /\ new[k].prefix = p /\ new[k].uri = uri
    BY <2>1, <2>3, <1>0 DEF Space
  <2>5. \A i \in DOMAIN list : new[i] \in Space /\ new[i].prefix = list[i].prefix
    BY <2>1, <2>3, <2>4, <1>0
  <2>6. new \in Seq(Space)
    <3>1. new \in [1 .. Len(list) -> Space]
      BY <2>2, <2>5, <1>0
    <3> QED
      BY <3>1, <1>0
  <2> HIDE DEF new
  <2>7. Unlike(new)
    BY <2>3, <2>5 DEF Unlike
  <2>8. Declares(new, p)
    BY <2>1, <2>3, <2>4, <1>0 DEF Declares
  <2>9. SpaceWith(new, p) \in DOMAIN new /\ new[SpaceWith(new, p)].prefix = p
    BY <2>6, <2>8, SpaceWithIs
  <2>10. SpaceWith(new, p) = k
    BY <2>1, <2>3, <2>4, <2>7, <2>9, <1>0 DEF Unlike
  <2> QED
    BY <2>4, <2>6, <2>7, <2>8, <2>10 DEF new
<1>2. CASE ~Declares(list, p)
  <2> DEFINE ns == [prefix |-> p, uri |-> uri]
  <2>1. new = Append(list, ns)
    BY <1>2 DEF Declared, Declares
  <2>2. ns \in Space /\ ns.prefix = p /\ ns.uri = uri
    BY DEF Space
  <2> HIDE DEF ns
  <2>3. /\ new \in Seq(Space) /\ Len(new) = Len(list) + 1 /\ new[Len(list) + 1] = ns
        /\ \A i \in 1 .. Len(list) : new[i] = list[i]
    BY <2>1, <2>2
  <2>4. \A i \in 1 .. Len(list) : list[i].prefix # p
    BY <1>2, <1>0 DEF Declares
  <2> HIDE DEF new
  <2>5. DOMAIN new = 1 .. Len(list) + 1 /\ \A i \in DOMAIN new : i \in 1 .. Len(list) \/ i = Len(list) + 1
    BY <2>3, <1>0
  <2>6. Unlike(new)
    <3> SUFFICES ASSUME NEW i \in DOMAIN new, NEW j \in DOMAIN new, new[i].prefix = new[j].prefix PROVE i = j
      BY DEF Unlike
    <3>1. CASE i \in 1 .. Len(list) /\ j \in 1 .. Len(list)
      BY <3>1, <2>3, <1>0 DEF Unlike
    <3>2. CASE i \notin 1 .. Len(list) \/ j \notin 1 .. Len(list)
      BY <3>2, <2>2, <2>3, <2>4, <2>5
    <3> QED
      BY <3>1, <3>2
  <2>7. Declares(new, p)
    BY <2>2, <2>3, <2>5, <1>0 DEF Declares
  <2>8. SpaceWith(new, p) \in DOMAIN new /\ new[SpaceWith(new, p)].prefix = p
    BY <2>3, <2>7, SpaceWithIs
  <2>9. SpaceWith(new, p) = Len(list) + 1
    BY <2>3, <2>4, <2>5, <2>8
  <2> QED
    BY <2>2, <2>3, <2>6, <2>7, <2>9 DEF new
<1> QED
  BY <1>1, <1>2

-----------------------------------------------------------------------------
(* What is declared up the hierarchy.                                      *)

\* Resolved and the search for a declaration, of any lists of namespaces.
ResolvedIn(sp, e, p) ==
    LET on == {d \in ToSet(Ancestry[e]) : \E i \in DOMAIN sp[d] : sp[d][i].prefix = p}
    IN  IF on = {} THEN NoNode
        ELSE LET d == CHOOSE d \in on : on \subseteq ToSet(Ancestry[d])
             IN  sp[d][SelectInSeq(sp[d], LAMBDA ns : ns.prefix = p)].uri

\* The element at i on the way up from e is the first to declare p.
Nearest(sp, e, i, p) ==
    /\ i \in DOMAIN Ancestry[e] /\ Declares(sp[Ancestry[e][i]], p)
    /\ \A j \in 1 .. i - 1 : ~Declares(sp[Ancestry[e][j]], p)

\* The namespace that d declares for p.
UriOf(sp, d, p) == sp[d][SpaceWith(sp[d], p)].uri

LEMMA NearestResolves ==
    ASSUME NEW sp, NEW e \in Element, NEW p, NEW i, Nearest(sp, e, i, p)
    PROVE  ResolvedIn(sp, e, p) = UriOf(sp, Ancestry[e][i], p)
<1> DEFINE s == Ancestry[e]
           on == {d \in ToSet(s) : \E k \in DOMAIN sp[d] : sp[d][k].prefix = p}
           Top(d) == on \subseteq ToSet(Ancestry[d])
<1>1. Len(s) \in Nat /\ DOMAIN s = 1 .. Len(s) /\ i \in 1 .. Len(s) /\ ToSet(s) = {s[j] : j \in 1 .. Len(s)}
  BY AncestryIs DEF Ascent, Climbs, Nearest, ToSet
<1>2. \A d \in on : \E j \in i .. Len(s) : d = s[j]
  <2> SUFFICES ASSUME NEW d \in on PROVE \E j \in i .. Len(s) : d = s[j]
    OBVIOUS
  <2>1. PICK j \in 1 .. Len(s) : d = s[j]
    BY <1>1
  <2>2. Declares(sp[s[j]], p)
    BY <2>1 DEF Declares
  <2>3. ~(j \in 1 .. i - 1)
    BY <2>2 DEF Nearest
  <2>4. j \in i .. Len(s)
    BY <2>3, <1>1
  <2> QED
    BY <2>1, <2>4
<1>3. s[i] \in on
  BY <1>1 DEF Nearest, Declares
<1>4. Top(s[i])
  <2>1. ToSet(Ancestry[s[i]]) = {s[j] : j \in i .. Len(s)}
    BY <1>1, AboveIs
  <2> HIDE DEF s, on
  <2> QED
    BY <2>1, <1>2
<1>5. ASSUME NEW d \in on, Top(d) PROVE d = s[i]
  <2>1. PICK j \in i .. Len(s) : d = s[j]
    BY <1>2
  <2>2. j \in 1 .. Len(s)
    BY <1>1
  <2>3. ToSet(Ancestry[s[j]]) = {s[k] : k \in j .. Len(s)}
    BY <2>2, <1>1, AboveIs
  <2>4. s[i] \in ToSet(Ancestry[s[j]])
    BY <1>3, <1>5, <2>1
  <2>5. PICK k \in j .. Len(s) : s[i] = s[k]
    <3> HIDE DEF s
    <3> QED
      BY <2>3, <2>4
  <2>6. k \in 1 .. Len(s) /\ ~(i < k)
    BY <2>2, <2>5, <1>1, NotAgain
  <2>7. j = i
    BY <2>1, <2>2, <2>5, <2>6, <1>1
  <2> QED
    BY <2>1, <2>7
<1>6. (CHOOSE d \in on : on \subseteq ToSet(Ancestry[d])) = s[i]
  <2> HIDE DEF s, on
  <2> QED
    BY <1>3, <1>4, <1>5
<1>7. on # {}
  BY <1>3
<1> QED
  BY <1>6, <1>7, Zenon DEF ResolvedIn, SpaceWith, UriOf

LEMMA NoneResolves ==
    ASSUME NEW sp, NEW e \in Element, NEW p,
           \A j \in DOMAIN Ancestry[e] : ~Declares(sp[Ancestry[e][j]], p)
    PROVE  ResolvedIn(sp, e, p) = NoNode
<1> DEFINE on == {d \in ToSet(Ancestry[e]) : \E k \in DOMAIN sp[d] : sp[d][k].prefix = p}
<1>1. on = {}
  BY DEF ToSet, Declares
<1> QED
  BY <1>1, Zenon DEF ResolvedIn

\* What the elements have and declare.
NamesIInv ==
    /\ prefix \in [Element -> Prefix]
    /\ attrs \in [Element -> Seq(Name)]
    /\ spaces \in [Element -> Seq(Space)]
    /\ \A e \in Element : Unlike(spaces[e])

LEMMA NearestIsFound ==
    ASSUME NamesIInv
    PROVE  FindsNearest
<1> SUFFICES ASSUME NEW e \in Element, NEW p \in Prefix
             PROVE  LET d == DeclarationByPrefix(e, p) IN
                    IF d = NoNode THEN Resolved(e, p) = NoNode
                    ELSE Resolved(e, p) = spaces[d][FindByPrefix(d, p)].uri /\ e \in Below[d]
  BY DEF FindsNearest
<1> DEFINE s == Ancestry[e]
           I == {i \in 1 .. Len(s) : SpaceWith(spaces[s[i]], p) # 0}
<1>1. Len(s) \in Nat /\ DOMAIN s = 1 .. Len(s) /\ \A j \in 1 .. Len(s) : s[j] \in Element
  BY AncestryIs DEF Ascent, Climbs
<1>2. DeclarationByPrefix(e, p) = IF (IF I # {} THEN Min(I) ELSE 0) = 0 THEN NoNode
                                  ELSE s[IF I # {} THEN Min(I) ELSE 0]
  BY DEF DeclarationByPrefix, SelectInSeq, FindByPrefix, SpaceWith
<1>3. \A j \in 1 .. Len(s) : SpaceWith(spaces[s[j]], p) # 0 <=> Declares(spaces[s[j]], p)
  BY <1>1, SpaceWithIs DEF NamesIInv
<1>4. Resolved(e, p) = ResolvedIn(spaces, e, p)
  BY Zenon DEF Resolved, ResolvedIn
<1>5. CASE I = {}
  <2>1. DeclarationByPrefix(e, p) = NoNode
    BY <1>2, <1>5
  <2>2. \A j \in DOMAIN s : ~Declares(spaces[s[j]], p)
    BY <1>1, <1>3, <1>5
  <2>3. ResolvedIn(spaces, e, p) = NoNode
    BY <2>2, NoneResolves
  <2> QED
    BY <2>1, <2>3, <1>4
<1>6. CASE I # {}
  <2> DEFINE i == Min(I)
             d == s[i]
  <2>1. i \in I /\ \A x \in I : i <= x
    <3>1. I \subseteq Nat
      BY <1>1
    <3> HIDE DEF I
    <3> QED
      BY <3>1, <1>6, MinOf, Zenon
  <2>2. i \in 1 .. Len(s) /\ d \in Element /\ NoNode \notin Element
    BY <2>1, <1>1, NamesAssumption
  <2>3. DeclarationByPrefix(e, p) = d
    BY <1>2, <1>6, <2>2
  <2>4. Nearest(spaces, e, i, p)
    <3>1. \A j \in 1 .. i - 1 : j \in 1 .. Len(s) /\ j \notin I
      BY <2>1, <2>2, <1>1
    <3> QED
      BY <3>1, <2>1, <2>2, <1>1, <1>3 DEF Nearest
  <2> HIDE DEF i
  <2>5. Resolved(e, p) = spaces[d][SpaceWith(spaces[d], p)].uri
    BY <2>4, <1>4, NearestResolves DEF UriOf
  <2>6. e \in Below[d]
    <3>1. d \in ToSet(s)
      BY <2>2, <1>1 DEF ToSet
    <3> QED
      BY <3>1, <2>2 DEF Below
  <2>7. d # NoNode
    BY <2>2
  <2>8. FindByPrefix(d, p) = SpaceWith(spaces[d], p)
    BY Zenon DEF FindByPrefix, SpaceWith
  <2>9. Resolved(e, p) = spaces[d][FindByPrefix(d, p)].uri
    BY <2>5, <2>8
  <2> HIDE DEF d
  <2> QED
    BY <2>3, <2>6, <2>7, <2>9, Zenon
<1> QED
  BY <1>5, <1>6

-----------------------------------------------------------------------------
(* Operations.                                                             *)

LEMMA RemoveAtType ==
    ASSUME NEW T, NEW list \in Seq(T), NEW i \in 1 .. Len(list)
    PROVE  RemoveAt(list, i) \in Seq(T)
<1>1. SubSeq(list, 1, i - 1) \in Seq(T) /\ SubSeq(list, i + 1, Len(list)) \in Seq(T)
  <2>1. \A j \in 1 .. i - 1 : list[j] \in T
    OBVIOUS
  <2>2. \A j \in i + 1 .. Len(list) : list[j] \in T
    OBVIOUS
  <2> QED
    BY <2>1, <2>2, SubSeqProperties
<1> QED
  BY <1>1 DEF RemoveAt

LEMMA RemoveFirstType ==
    ASSUME NEW T, NEW list \in Seq(T), NEW v
    PROVE  RemoveFirst(list, v) \in Seq(T)
<1> DEFINE I == {i \in 1 .. Len(list) : list[i] = v}
<1>1. CASE I = {}
  <2>1. ~\E i \in 1 .. Len(list) : list[i] = v
    BY <1>1
  <2> QED
    BY <2>1, Zenon DEF RemoveFirst
<1>2. CASE I # {}
  <2>1. I \subseteq Nat
    OBVIOUS
  <2>2. Min(I) \in I
    <3> HIDE DEF I
    <3> QED
      BY <2>1, <1>2, MinOf, Zenon
  <2>3. RemoveFirst(list, v) = RemoveAt(list, Min(I))
    <3>1. \E i \in 1 .. Len(list) : list[i] = v
      BY <1>2
    <3>2. SelectInSeq(list, LAMBDA x : x = v) = Min(I)
      BY <1>2, Zenon DEF SelectInSeq
    <3> QED
      BY <3>1, <3>2, Zenon DEF RemoveFirst
  <2>4. Min(I) \in 1 .. Len(list)
    BY <2>2
  <2> HIDE DEF I
  <2> QED
    BY <2>3, <2>4, RemoveAtType, Zenon
<1> QED
  BY <1>1, <1>2

LEMMA NamesInitial == NamesInit => NamesIInv
<1> SUFFICES ASSUME NamesInit PROVE NamesIInv
  OBVIOUS
<1>1. \A e \in Element : spaces[e] = <<>> /\ attrs[e] = <<>>
  BY DEF NamesInit
<1>2. <<>> \in Seq(Name) /\ <<>> \in Seq(Space)
  OBVIOUS
<1>3. attrs \in [Element -> Seq(Name)] /\ spaces \in [Element -> Seq(Space)]
  BY <1>2 DEF NamesInit
<1>4. \A e \in Element : Unlike(spaces[e])
  BY <1>1 DEF Unlike
<1> QED
  BY <1>3, <1>4 DEF NamesInit, NamesIInv

\* A change of one element's list of attributes, and of namespaces.
LEMMA AttrsKept ==
    ASSUME NamesIInv, NEW e \in Element, NEW list \in Seq(Name),
           attrs' = [attrs EXCEPT ![e] = list], prefix' \in [Element -> Prefix], spaces' = spaces
    PROVE  NamesIInv'
BY DEF NamesIInv

LEMMA SpacesKept ==
    ASSUME NamesIInv, NEW e \in Element, NEW list \in Seq(Space), Unlike(list),
           spaces' = [spaces EXCEPT ![e] = list], prefix' \in [Element -> Prefix],
           attrs' \in [Element -> Seq(Name)]
    PROVE  NamesIInv'
<1>1. spaces' \in [Element -> Seq(Space)]
  BY DEF NamesIInv
<1>2. \A d \in Element : spaces'[d] = IF d = e THEN list ELSE spaces[d]
  BY DEF NamesIInv
<1>3. \A d \in Element : Unlike(spaces'[d])
  BY <1>2 DEF NamesIInv
<1> QED
  BY <1>1, <1>3 DEF NamesIInv

LEMMA NamesStep == NamesIInv /\ [NamesNext]_namesVars => NamesIInv'
<1> SUFFICES ASSUME NamesIInv, [NamesNext]_namesVars PROVE NamesIInv'
  OBVIOUS
<1> USE DEF NamesIInv
<1>1. CASE UNCHANGED namesVars
  BY <1>1 DEF namesVars
<1>2. CASE NamesNext
  <2> PICK e \in Element :
        \/ ClearLists(e)
        \/ \E source \in Element : AssignLists(e, source)
        \/ \E i \in 1..MaxEntries : RemoveAttribute(e, i)
        \/ \E name \in Name : CreateAttribute(e, name) \/ RemoveAttributeByName(e, name)
        \/ \E p \in Prefix :
            \/ SetName(e, p)
            \/ \E uri \in Uri :
                \/ DeclareNamespace(e, uri, p)
                \/ \E recursive \in BOOLEAN : SetNamespace(e, uri, p, recursive)
    BY <1>2, Zenon DEF NamesNext
  <2>0. attrs[e] \in Seq(Name) /\ spaces[e] \in Seq(Space) /\ Unlike(spaces[e])
        /\ <<>> \in Seq(Space) /\ <<>> \in Seq(Name) /\ Unlike(<<>>)
    BY DEF Unlike
  <2>1. CASE ClearLists(e)
    <3>1. attrs' \in [Element -> Seq(Name)]
      BY <2>1, <2>0 DEF ClearLists
    <3>2. prefix' \in [Element -> Prefix] /\ spaces' = [spaces EXCEPT ![e] = <<>>]
      BY <2>1 DEF ClearLists
    <3> QED
      BY <3>1, <3>2, <2>0, SpacesKept
  <2>2. ASSUME NEW source \in Element, AssignLists(e, source) PROVE NamesIInv'
    <3>1. attrs' \in [Element -> Seq(Name)] /\ prefix' \in [Element -> Prefix]
      BY <2>2 DEF AssignLists
    <3>2. spaces[source] \in Seq(Space) /\ Unlike(spaces[source]) /\ spaces' = [spaces EXCEPT ![e] = spaces[source]]
      BY <2>2 DEF AssignLists
    <3> QED
      BY <3>1, <3>2, SpacesKept
  <2>3. ASSUME NEW i \in 1 .. MaxEntries, RemoveAttribute(e, i) PROVE NamesIInv'
    <3>1. RemoveAt(attrs[e], i) \in Seq(Name)
      BY <2>0, <2>3, RemoveAtType DEF RemoveAttribute
    <3>2. attrs' = [attrs EXCEPT ![e] = RemoveAt(attrs[e], i)] /\ prefix' = prefix /\ spaces' = spaces
      BY <2>3 DEF RemoveAttribute
    <3> QED
      BY <3>1, <3>2, AttrsKept
  <2>4. ASSUME NEW name \in Name, CreateAttribute(e, name) PROVE NamesIInv'
    <3>1. Append(attrs[e], name) \in Seq(Name)
      BY <2>0
    <3>2. attrs' = [attrs EXCEPT ![e] = Append(attrs[e], name)] /\ prefix' = prefix /\ spaces' = spaces
      BY <2>4 DEF CreateAttribute
    <3> QED
      BY <3>1, <3>2, AttrsKept
  <2>5. ASSUME NEW name \in Name, RemoveAttributeByName(e, name) PROVE NamesIInv'
    <3>1. RemoveFirst(attrs[e], name) \in Seq(Name)
      BY <2>0, RemoveFirstType
    <3>2. /\ attrs' = [attrs EXCEPT ![e] = RemoveFirst(attrs[e], name)] \/ attrs' = attrs
          /\ prefix' = prefix /\ spaces' = spaces
      BY <2>5 DEF RemoveAttributeByName
    <3> QED
      BY <3>1, <3>2, AttrsKept
  <2>6. ASSUME NEW p \in Prefix, SetName(e, p) PROVE NamesIInv'
    BY <2>6 DEF SetName
  <2>7. ASSUME NEW p \in Prefix, NEW uri \in Uri, DeclareNamespace(e, uri, p) PROVE NamesIInv'
    <3>1. Declared(spaces[e], uri, p) \in Seq(Space) /\ Unlike(Declared(spaces[e], uri, p))
      BY <2>0, DeclaredIs
    <3>2. spaces' = [spaces EXCEPT ![e] = Declared(spaces[e], uri, p)] /\ prefix' = prefix /\ attrs' = attrs
      BY <2>7 DEF DeclareNamespace
    <3> QED
      BY <3>1, <3>2, SpacesKept
  <2>8. ASSUME NEW p \in Prefix, NEW uri \in Uri, NEW recursive \in BOOLEAN,
               SetNamespace(e, uri, p, recursive)
        PROVE  NamesIInv'
    <3>1. Declared(spaces[e], uri, p) \in Seq(Space) /\ Unlike(Declared(spaces[e], uri, p))
      BY <2>0, DeclaredIs
    <3>2. spaces' = [spaces EXCEPT ![e] = Declared(spaces[e], uri, p)] /\ attrs' = attrs
      BY <2>8 DEF SetNamespace
    <3>3. prefix' \in [Element -> Prefix]
      BY <2>8 DEF SetNamespace, Replaced
    <3> QED
      BY <3>1, <3>2, <3>3, SpacesKept
  <2> QED
    BY <2>1, <2>2, <2>3, <2>4, <2>5, <2>6, <2>7, <2>8, Zenon
<1> QED
  BY <1>1, <1>2

-----------------------------------------------------------------------------
(* Prefixes that are replaced.                                             *)

LEMMA ParentAbove ==
    ASSUME NEW c \in Element, NEW d \in Element, Parent[c] = d
    PROVE  ToSet(Ancestry[c]) = {c} \cup ToSet(Ancestry[d])
<1> DEFINE s == Ancestry[c]
<1>1. /\ Len(s) \in Nat /\ Len(s) # 0 /\ s[1] = c /\ Parent[s[Len(s)]] = NoNode /\ DOMAIN s = 1 .. Len(s)
      /\ \A i \in 1 .. Len(s) - 1 : Parent[s[i]] = s[i + 1]
  BY AncestryIs DEF Ascent, Climbs
<1>2. Len(s) # 1
  BY <1>1, NamesAssumption
<1>3. 2 \in DOMAIN s /\ s[2] = d
  <2>0. Len(s) \in Nat /\ Len(s) # 0 /\ Len(s) # 1
    BY <1>1, <1>2
  <2>1. 1 \in 1 .. (Len(s) - 1) /\ 2 \in 1 .. Len(s)
    <3> DEFINE n == Len(s)
    <3>1. n \in Nat /\ n # 0 /\ n # 1
      BY <2>0
    <3> HIDE DEF n
    <3>2. 1 \in 1 .. (n - 1) /\ 2 \in 1 .. n
      BY <3>1
    <3> QED
      BY <3>2 DEF n
  <2>2. Parent[s[1]] = s[1 + 1]
    BY <1>1, <2>1
  <2> QED
    BY <1>1, <2>1, <2>2
<1>4. ToSet(Ancestry[d]) = {s[j] : j \in 2 .. Len(s)}
  BY <1>3, AboveIs
<1>5. ToSet(s) = {s[j] : j \in 1 .. Len(s)}
  BY <1>1 DEF ToSet
<1> HIDE DEF s
<1>6. \A j \in 1 .. Len(s) : j = 1 \/ j \in 2 .. Len(s)
  BY <1>1
<1>7. 1 \in 1 .. Len(s) /\ 2 .. Len(s) \subseteq 1 .. Len(s)
  BY <1>1
<1>8. ToSet(s) = {c} \cup {s[j] : j \in 2 .. Len(s)}
  BY <1>1, <1>5, <1>6, <1>7
<1> QED
  BY <1>4, <1>8 DEF s

\* With the elements of S, their children that have the prefix of e.
Joined(pfx, e, S) == S \cup {c \in Element : Parent[c] \in S /\ pfx[c] = pfx[e]}

LEMMA FollowersAre ==
    ASSUME NEW pfx, NEW e \in Element
    PROVE  \E among : /\ among[0] = {e}
                      /\ \A i \in 1 .. Height : among[i] = Joined(pfx, e, among[i - 1])
                      /\ Followers(pfx, e) = among[Height]
<1> DEFINE N == Height
           D == SUBSET Element
           d == {e}
           G == [x \in (1 .. N) \X D |-> Joined(pfx, e, x[2])]
           Solved(f) == [i \in 0 .. N |-> IF i = 0 THEN d ELSE Joined(pfx, e, f[i - 1])]
           among == CHOOSE f : f = Solved(f)
<1>1. N \in Nat /\ d \in D
  BY HeightIsNat
<1>2. Followers(pfx, e) = among[N]
  BY Zenon DEF Followers, Height, Joined
<1> HIDE DEF N, d
<1>3. ASSUME NEW s \in D PROVE Joined(pfx, e, s) \in D
  BY DEF Joined
<1> HIDE DEF D
<1>4. ASSUME NEW i \in 1 .. N, NEW s \in D
      PROVE  G[<<i, s>>] = Joined(pfx, e, s)
  OBVIOUS
<1>5. G \in [(1 .. N) \X D -> D]
  <2> SUFFICES ASSUME NEW x \in (1 .. N) \X D PROVE Joined(pfx, e, x[2]) \in D
    BY Zenon
  <2>1. x[2] \in D
    OBVIOUS
  <2> QED
    BY <2>1, <1>3, Zenon
<1> HIDE DEF G
<1>6. PICK h \in [0 .. N -> D] : h[0] = d /\ \A i \in 1 .. N : h[i] = G[<<i, h[i - 1]>>]
  <2>1. Recursive(D, d, N, G)
    BY <1>1, <1>5, Recursion, Zenon
  <2> QED
    BY <2>1, Zenon DEF Recursive
<1>7. ASSUME NEW i \in 1 .. N
      PROVE  h[i] = Joined(pfx, e, h[i - 1])
  <2>1. h[i - 1] \in D
    BY <1>1
  <2> QED
    BY <2>1, <1>4, <1>6
<1>8. h = Solved(h)
  <2>1. ASSUME NEW i \in 0 .. N PROVE h[i] = IF i = 0 THEN d ELSE Joined(pfx, e, h[i - 1])
    <3>1. i = 0 \/ i \in 1 .. N
      BY <1>1
    <3> QED
      BY <3>1, <1>6, <1>7
  <2> QED
    BY <2>1
<1>9. among = Solved(among)
  BY <1>8
<1>10. \A i \in 0 .. N : among[i] = IF i = 0 THEN d ELSE Joined(pfx, e, among[i - 1])
  BY <1>9
<1> HIDE DEF among
<1>11. among[0] = d /\ \A i \in 1 .. N : among[i] = Joined(pfx, e, among[i - 1])
  BY <1>1, <1>10
<1> QED
  BY <1>2, <1>11, Zenon DEF N, d

\* The elements below e up to which all have its prefix.
Connected(pfx, e) ==
    {d \in Below[e] : \A a \in Below[e] \cap ToSet(Ancestry[d]) : pfx[a] = pfx[e]}

LEMMA BelowIs ==
    ASSUME NEW e \in Element, NEW d \in Element
    PROVE  d \in Below[e] <=> e \in ToSet(Ancestry[d])
BY DEF Below

\* Nothing is both above and below an element but itself.
LEMMA OnlyItself ==
    ASSUME NEW e \in Element, NEW a \in Below[e], a \in ToSet(Ancestry[e])
    PROVE  a = e
<1> DEFINE s == Ancestry[e]
<1>1. Len(s) \in Nat /\ Len(s) # 0 /\ s[1] = e /\ DOMAIN s = 1 .. Len(s)
  BY AncestryIs DEF Ascent, Climbs
<1>2. PICK i \in 1 .. Len(s) : a = s[i]
  BY <1>1 DEF ToSet
<1>3. a \in Element /\ e \in ToSet(Ancestry[a])
  BY DEF Below
<1>4. ToSet(Ancestry[s[i]]) = {s[j] : j \in i .. Len(s)}
  BY <1>1, AboveIs
<1>5. PICK j \in i .. Len(s) : e = s[j]
  <2> HIDE DEF s
  <2> QED
    BY <1>2, <1>3, <1>4
<1>6. 1 \in DOMAIN s /\ j \in DOMAIN s
  BY <1>1
<1>7. ~(1 < j)
  BY <1>1, <1>5, <1>6, NotAgain
<1>8. i = 1
  BY <1>1, <1>7
<1> QED
  BY <1>1, <1>2, <1>8

LEMMA FollowersAreConnected ==
    ASSUME NEW pfx, NEW e \in Element
    PROVE  Followers(pfx, e) = Connected(pfx, e)
<1> PICK among : /\ among[0] = {e}
                 /\ \A i \in 1 .. Height : among[i] = Joined(pfx, e, among[i - 1])
                 /\ Followers(pfx, e) = among[Height]
  BY FollowersAre
<1>0. Height \in Nat
  BY HeightIsNat
<1>1. \A i \in 0 .. Height : among[i] \subseteq Connected(pfx, e)
  <2> DEFINE S == {i \in 0 .. Height : among[i] \subseteq Connected(pfx, e)}
  <2>1. 0 \in S
    <3>1. e \in ToSet(Ancestry[e])
      <4>1. 1 \in DOMAIN Ancestry[e] /\ Ancestry[e][1] = e
        BY AncestryIs DEF Ascent, Climbs
      <4> QED
        BY <4>1 DEF ToSet
    <3>2. e \in Below[e]
      BY <3>1, BelowIs
    <3>3. \A a \in Below[e] \cap ToSet(Ancestry[e]) : pfx[a] = pfx[e]
      BY OnlyItself
    <3> QED
      BY <3>2, <3>3, <1>0 DEF Connected
  <2>2. ASSUME NEW i \in 1 .. Height, i - 1 \in S PROVE i \in S
    <3>1. i \in 0 .. Height /\ among[i] = Joined(pfx, e, among[i - 1]) /\ among[i - 1] \subseteq Connected(pfx, e)
      BY <2>2, <1>0
    <3>2. ASSUME NEW c \in Element, Parent[c] \in among[i - 1], pfx[c] = pfx[e]
          PROVE  c \in Connected(pfx, e)
      <4> DEFINE d == Parent[c]
      <4>1. d \in Connected(pfx, e)
        BY <3>1, <3>2
      <4>2. d \in Element /\ e \in ToSet(Ancestry[d])
        BY <4>1 DEF Connected, Below
      <4>3. ToSet(Ancestry[c]) = {c} \cup ToSet(Ancestry[d])
        BY <4>2, ParentAbove
      <4>4. c \in Below[e]
        BY <4>2, <4>3, BelowIs
      <4>5. \A a \in Below[e] \cap ToSet(Ancestry[c]) : pfx[a] = pfx[e]
        BY <3>2, <4>1, <4>3 DEF Connected
      <4> QED
        BY <4>4, <4>5 DEF Connected
    <3> QED
      BY <3>1, <3>2 DEF Joined
  <2> HIDE DEF S
  <2>3. \A i \in 0 .. Height : i \in S
    BY <1>0, <2>1, <2>2, NatSteps, Zenon
  <2> QED
    BY <2>3 DEF S
<1>2. ASSUME NEW d \in Connected(pfx, e) PROVE d \in among[Height]
  <2> DEFINE s == Ancestry[d]
  <2>1. d \in Element /\ e \in ToSet(s) /\ \A a \in Below[e] \cap ToSet(s) : pfx[a] = pfx[e]
    BY DEF Connected, Below
  <2>2. /\ Len(s) \in Nat /\ Len(s) # 0 /\ s[1] = d /\ DOMAIN s = 1 .. Len(s) /\ Len(s) <= Height + 1
        /\ \A i \in 1 .. Len(s) : s[i] \in Element
        /\ \A i \in 1 .. Len(s) - 1 : Parent[s[i]] = s[i + 1]
    BY <2>1, AncestryIs DEF Ascent, Climbs
  <2>3. PICK k \in 1 .. Len(s) : e = s[k]
    BY <2>1, <2>2 DEF ToSet
  <2>4. ASSUME NEW i \in 1 .. k PROVE s[i] \in Element /\ pfx[s[i]] = pfx[e]
    <3>1. i \in DOMAIN s /\ k \in i .. Len(s)
      BY <2>2
    <3>2. s[i] \in Element /\ ToSet(Ancestry[s[i]]) = {s[j] : j \in i .. Len(s)}
      BY <3>1, <2>1, AboveIs
    <3>3. e \in ToSet(Ancestry[s[i]])
      <4> HIDE DEF s
      <4> QED
        BY <3>1, <3>2, <2>3
    <3>4. s[i] \in Below[e] /\ s[i] \in ToSet(s)
      BY <3>1, <3>2, <3>3, BelowIs DEF ToSet
    <3> QED
      BY <3>2, <3>4, <2>1
  <2> DEFINE S == {m \in 0 .. Height : (m <= k - 1 => s[k - m] \in among[m])
                                       /\ (m > k - 1 => d \in among[m])}
  <2>5. 0 \in S
    BY <1>0, <2>2, <2>3
  <2>6. ASSUME NEW m \in 1 .. Height, m - 1 \in S PROVE m \in S
    <3>1. m \in 0 .. Height /\ among[m] = Joined(pfx, e, among[m - 1])
      BY <1>0
    <3>2. CASE m <= k - 1
      <4>1. k - (m - 1) = (k - m) + 1 /\ k - m \in 1 .. Len(s) - 1 /\ k - m \in 1 .. k /\ m - 1 <= k - 1
        BY <3>2, <2>2
      <4>2. s[(k - m) + 1] \in among[m - 1]
        BY <2>6, <4>1
      <4>3. Parent[s[k - m]] \in among[m - 1]
        BY <4>1, <4>2, <2>2
      <4>4. s[k - m] \in Element /\ pfx[s[k - m]] = pfx[e]
        BY <4>1, <2>4
      <4>5. s[k - m] \in among[m]
        BY <4>3, <4>4, <3>1 DEF Joined
      <4> QED
        BY <4>5, <3>1, <3>2
    <3>3. CASE m > k - 1
      <4>1. d \in among[m - 1]
        <5>1. CASE m - 1 > k - 1
          BY <5>1, <2>6
        <5>2. CASE ~(m - 1 > k - 1)
          <6>1. m - 1 = k - 1 /\ k - (m - 1) = 1 /\ m - 1 <= k - 1
            BY <5>2, <3>3, <2>2
          <6>2. s[k - (m - 1)] \in among[m - 1]
            BY <6>1, <2>6
          <6> QED
            BY <6>1, <6>2, <2>2
        <5> QED
          BY <5>1, <5>2
      <4>2. d \in among[m]
        BY <4>1, <3>1 DEF Joined
      <4> QED
        BY <4>2, <3>1, <3>3
    <3> QED
      BY <3>2, <3>3, <2>2
  <2>7. Height \in S
    <3>1. Height \in 0 .. Height
      BY <1>0
    <3>2. \A m \in 0 .. Height : m \in S
      <4> HIDE DEF S
      <4> QED
        BY <1>0, <2>5, <2>6, NatSteps, Zenon
    <3> QED
      BY <3>1, <3>2
  <2>8. CASE Height > k - 1
    BY <2>7, <2>8
  <2>9. CASE ~(Height > k - 1)
    <3>1. k - Height = 1 /\ Height <= k - 1
      BY <2>9, <2>2, <1>0
    <3>2. s[k - Height] \in among[Height]
      BY <3>1, <2>7
    <3> QED
      BY <3>1, <3>2, <2>2
  <2> QED
    BY <2>8, <2>9
<1>3. Height \in 0 .. Height
  BY <1>0
<1> QED
  BY <1>1, <1>2, <1>3

\* Where setNamespace is heard, from an element that is connected with e.
LEMMA Reaches ==
    ASSUME NamesIInv, NEW e \in Element, NEW uri \in Uri, NEW p \in Prefix,
           spaces' = [spaces EXCEPT ![e] = Declared(spaces[e], uri, p)],
           NEW d \in Below[e]
    PROVE  \/ \E a \in (Below[e] \cap ToSet(Ancestry[d])) \ {e} :
                \E i \in DOMAIN spaces[a] : spaces[a][i].prefix = p
           \/ Resolved(d, p)' = uri
<1> DEFINE s == Ancestry[d]
           new == Declared(spaces[e], uri, p)
<1>1. d \in Element /\ e \in ToSet(s)
  BY DEF Below
<1>2. Len(s) \in Nat /\ DOMAIN s = 1 .. Len(s)
  BY <1>1, AncestryIs DEF Ascent, Climbs
<1>3. PICK k \in 1 .. Len(s) : e = s[k]
  BY <1>1, <1>2 DEF ToSet
<1>4. new \in Seq(Space) /\ Declares(new, p) /\ new[SpaceWith(new, p)].uri = uri
  BY DeclaredIs DEF NamesIInv
<1>5. spaces'[e] = new /\ \A a \in Element : a # e => spaces'[a] = spaces[a]
  BY DEF NamesIInv
<1> HIDE DEF new
<1> PICK sp : sp = spaces'
  OBVIOUS
<1>6. SUFFICES ASSUME \A a \in (Below[e] \cap ToSet(s)) \ {e} : ~Declares(spaces[a], p)
               PROVE  Resolved(d, p)' = uri
  BY DEF Declares
<1>7. Nearest(sp, d, k, p)
  <2>1. ASSUME NEW j \in 1 .. k - 1 PROVE ~Declares(sp[s[j]], p)
    <3>1. j \in DOMAIN s /\ k \in DOMAIN s /\ j < k /\ k \in j .. Len(s)
      BY <1>2
    <3>2. s[j] # e
      BY <3>1, <1>1, <1>3, NotAgain
    <3>3. s[j] \in Element /\ ToSet(Ancestry[s[j]]) = {s[i] : i \in j .. Len(s)}
      BY <3>1, <1>1, AboveIs
    <3>4. e \in ToSet(Ancestry[s[j]])
      <4> HIDE DEF s
      <4> QED
        BY <3>1, <3>3, <1>3
    <3>5. s[j] \in Below[e] /\ s[j] \in ToSet(s)
      BY <3>1, <3>3, <3>4, BelowIs DEF ToSet
    <3> QED
      BY <3>2, <3>3, <3>5, <1>5, <1>6
  <2> QED
    BY <2>1, <1>2, <1>3, <1>4, <1>5 DEF Nearest
<1>8. ResolvedIn(sp, d, p) = UriOf(sp, s[k], p)
  BY <1>1, <1>7, NearestResolves
<1>9. Resolved(d, p)' = ResolvedIn(spaces', d, p)
  BY Zenon DEF Resolved, ResolvedIn, SelectInSeq
<1> QED
  BY <1>3, <1>4, <1>5, <1>8, <1>9 DEF UriOf

LEMMA SetNamespaceReaches ==
    ASSUME NamesIInv, NEW e \in Element, NEW uri \in Uri, NEW p \in Prefix,
           SetNamespace(e, uri, p, TRUE), NEW d \in Element
    PROVE  LET connected == {c \in Below[e] : \A a \in Below[e] \cap ToSet(Ancestry[c]) :
                                                  prefix[a] = prefix[e]}
           IN  IF d \in connected
               THEN /\ prefix'[d] = p
                    /\ \/ \E a \in (Below[e] \cap ToSet(Ancestry[d])) \ {e} :
                            \E i \in DOMAIN spaces[a] : spaces[a][i].prefix = p
                       \/ Resolved(d, p)' = uri
               ELSE prefix'[d] = prefix[d]
<1>1. /\ prefix' = Replaced(prefix, e, p)
      /\ spaces' = [spaces EXCEPT ![e] = Declared(spaces[e], uri, p)]
  BY DEF SetNamespace
<1>2. prefix'[d] = IF d \in Followers(prefix, e) THEN p ELSE prefix[d]
  BY <1>1 DEF Replaced
<1>3. Followers(prefix, e) = Connected(prefix, e)
  BY FollowersAreConnected
<1>4. CASE d \in Connected(prefix, e)
  <2>1. d \in Below[e]
    BY <1>4 DEF Connected
  <2>2. \/ \E a \in (Below[e] \cap ToSet(Ancestry[d])) \ {e} :
             \E i \in DOMAIN spaces[a] : spaces[a][i].prefix = p
        \/ Resolved(d, p)' = uri
    BY <1>1, <2>1, Reaches, Zenon
  <2>3. prefix'[d] = p
    BY <1>2, <1>3, <1>4
  <2> QED
    BY <2>2, <2>3, <1>4, Zenon DEF Connected
<1>5. CASE d \notin Connected(prefix, e)
  <2>1. prefix'[d] = prefix[d]
    BY <1>2, <1>3, <1>5
  <2> QED
    BY <2>1, <1>5, Zenon DEF Connected
<1> QED
  BY <1>4, <1>5

\* Whatever is done to the names of a document: its elements have attributes and
\* namespaces, and declare each prefix once.
THEOREM NamesInvariant == NamesSpec => []NamesIInv
<1> QED
  BY NamesInitial, NamesStep, PTL DEF NamesSpec

\* findElementNamespaceDeclarationByPrefix finds the nearest declaration, in every
\* document that the operations can make.
THEOREM NamesFound == NamesSpec => []NamesInv
<1>1. NamesIInv => NamesInv
  <2> SUFFICES ASSUME NamesIInv PROVE NamesInv
    OBVIOUS
  <2>1. NamesTypeOK
    BY DEF NamesIInv, NamesTypeOK, Unlike, ToSet
  <2> QED
    BY <2>1, NearestIsFound DEF NamesInv
<1> QED
  BY <1>1, NamesInvariant, PTL

\* setNamespace changes the prefix of the elements below that are connected by it,
\* which then are in the namespace given, and of no others.
THEOREM NamespacesReach == NamesSpec => NamespaceReaches
<1> DEFINE A == <<prefix, spaces>>' # <<prefix, spaces>> => \A e \in Element, uri \in Uri, p \in Prefix :
                  SetNamespace(e, uri, p, TRUE) =>
                      LET connected == {d \in Below[e] : \A a \in Below[e] \cap ToSet(Ancestry[d]) :
                                                             prefix[a] = prefix[e]}
                      IN  \A d \in Element :
                            IF d \in connected
                            THEN /\ prefix'[d] = p
                                 /\ \/ \E a \in (Below[e] \cap ToSet(Ancestry[d])) \ {e} :
                                         \E i \in DOMAIN spaces[a] : spaces[a][i].prefix = p
                                    \/ Resolved(d, p)' = uri
                            ELSE prefix'[d] = prefix[d]
<1>1. NamesIInv => A
  BY SetNamespaceReaches, Zenon
<1>2. NamesIInv /\ [NamesNext]_namesVars => [A]_namesVars
  BY <1>1
<1> QED
  BY <1>2, NamesInvariant, PTL DEF NamesSpec, NamespaceReaches
================================================================================
