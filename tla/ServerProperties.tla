--------------------------- MODULE ServerProperties ---------------------------
(***************************************************************************)
(* What ngrest's server and ClientHandler promise, on the model of module  *)
(* Server.                                                                 *)
(***************************************************************************)
EXTENDS Server, FiniteSetsExt

\* The request context c holds.
Current(c) == script[c][reqNo[c]]

\* The header of the last request has not been accepted: parseHttpHeader or a
\* Header-phase filter threw.
HeaderFailed(c) == reqNo[c] # 0 /\ Current(c).form \in {"bad", "refused"}

\* An asynchronous operation, or its posted completion, has context c.
Busy(c) == c \in pending \/ \E i \in DOMAIN tasks : tasks[i].ctx = c

\* Every variable has its type.
TypeOK == SockTypeOK /\ HandlerTypeOK

(***************************************************************************)
(* ClientHandler::clients and the table of open descriptors agree: a       *)
(* descriptor is in the map exactly while it is open, and its context is   *)
(* the one of the connection behind it, not deleted and not marked to be.  *)
(* Every event looks its context up there (readyRead, readyWrite), also    *)
(* after closeConnection was called on a stale descriptor.                 *)
(***************************************************************************)
ClientsMatchSockets ==
    \A f \in Fd :
        /\ clients[f] = sock[f]
        /\ clients[f] # None => /\ life[clients[f]] = "live"
                                /\ ctxFd[clients[f]] = f
                                /\ clients[f] \notin deleteLater

(***************************************************************************)
(* "only one message can be processed at once per client so we reuse just  *)
(* one message for all requests" (ClientHandler.cpp:73): while an          *)
(* asynchronous operation has the message, its context is not deleted and  *)
(* the handler neither parses into it, nor dispatches, answers or resets   *)
(* it, whatever the peer sends meanwhile.                                  *)
(***************************************************************************)
OneMessageAtOnce ==
    \A c \in Conn : Busy(c) =>
        /\ life[c] = "live"
        /\ ctx = c => at \notin {"parse", "dispatch", "respond", "send", "written", "next"}

(***************************************************************************)
(* Requests are cut out of the stream at their boundaries: a request is    *)
(* dispatched with its own header and, wherever the body was read to, with *)
(* all of its body and no unit of the next request.                        *)
(***************************************************************************)
WholeRequestDispatched ==
    at = "dispatch" =>
        LET c == ctx IN
        /\ Current(c).start = base[c] + currentRequestOffset[c]
        /\ Current(c).body = base[c] + httpBodyOffset[c]
        /\ Current(c).length # INVALID => rcvd[c] = Current(c).end

(***************************************************************************)
(* poolRead stays one chunk, which tryNextRequest and processRequest       *)
(* assert (lines 562 and 487): while a header is read, or a body in place, *)
(* no read into poolRead is larger than what is left of the chunk, so      *)
(* grow() opens no second one and flatten() moves nothing the parsed       *)
(* headers point to.                                                       *)
(***************************************************************************)
PoolReadIsOneChunk ==
    LET c == ctx IN
    (at = "recv" /\ c \notin usePoolBody /\ ~HeaderFailed(c)
        /\ (httpBodyOffset[c] = 0 \/ httpBodyRemaining[c] # INVALID))
    => size[c] + Wanted(c) <= ReadCap

(***************************************************************************)
(* The handler loses its place in the stream of a connection only behind a *)
(* request whose header has been refused: the connection is to be closed   *)
(* ("return Status::Close; // close connection to client", line 331) but   *)
(* writeNextPart's loop takes up what follows.                             *)
(***************************************************************************)
LostOnlyWhenRefused == at = "astray" => HeaderFailed(ctx)

\* All: a request that is dispatched is whole, its headers stay where they
\* were parsed, and the next one is looked for where it starts.
RequestsCutWhole == WholeRequestDispatched /\ PoolReadIsOneChunk /\ LostOnlyWhenRefused

\* A request may be taken from connection c behind request n: it is the next
\* one, or n was refused and requests behind it have been lost.
MayFollow(c, n, k) == k = n + 1 \/ (k > n /\ script[c][n].form \in {"bad", "refused"})

(***************************************************************************)
(* Requests are taken from a connection one after the other: whenever a    *)
(* header has been found (httpBodyOffset is set) it is that of the request *)
(* behind the last one; none is skipped, and none parsed again.  (Behind a *)
(* refused one requests are lost, and a later one may be found.)           *)
(***************************************************************************)
TakesTheNext ==
    \A c \in Conn :
        IF httpBodyOffset[c] = 0 /\ httpBodyOffset'[c] # 0
        THEN IF reqNo[c] = 0 THEN reqNo'[c] = 1 ELSE MayFollow(c, reqNo[c], reqNo'[c])
        ELSE reqNo'[c] = reqNo[c]

RequestsInOrder == [][TakesTheNext]_vars

\* Where in out[c] the units are that context c has written itself.
Own(c) == {i \in DOMAIN out[c] : out[c][i].by = c}

\* Unit v is to be written to c behind unit u: the rest of the same response,
\* or the first unit of the response to the request taken next.
Follows(c, u, v) ==
    IF u.unit < RespUnits
    THEN v.req = u.req /\ v.unit = u.unit + 1
    ELSE v.unit = 1 /\ MayFollow(c, u.req, v.req)

\* Own(c) before place i.
Before(c, i) == {j \in Own(c) : j < i}

InOrder(c) ==
    \A i \in Own(c) :
        IF Before(c, i) = {} THEN out[c][i].req = 1 /\ out[c][i].unit = 1
        ELSE Follows(c, out[c][Max(Before(c, i))], out[c][i])

(***************************************************************************)
(* Through partial writes, EAGAIN, closed connections and errors, what a   *)
(* context writes to its connection is response after response, each whole *)
(* before the next begins, none skipped and none sent twice.               *)
(***************************************************************************)
ResponsesInOrder == \A c \in Conn : InOrder(c)

(***************************************************************************)
(* Between two events writeNextPart's loop is not running on any context:  *)
(* pipeline, on which disconnected, writeNextPart and its loop all decide, *)
(* is never left set.  (It is when an exception leaves the loop.)          *)
(***************************************************************************)
LoopLeftClean == at = "idle" => pipeline = {} /\ needTryNext = {}

(***************************************************************************)
(* Between two events a context marked deleteLater still has an operation  *)
(* that will come back and delete it.                                      *)
(***************************************************************************)
DeletionOnlyDelayed ==
    at = "idle" =>
        \A c \in deleteLater : life[c] = "live" => Busy(c)

\* Both: when the loop is back no context is left in the middle of something
\* that nobody will finish, however its connection has ended.
NothingLeftBehind == LoopLeftClean /\ DeletionOnlyDelayed

(***************************************************************************)
(* A peer is sent nothing but responses to its own requests.               *)
(***************************************************************************)
RespondsToOwnClient ==
    \A c \in Conn : \A i \in DOMAIN out[c] : out[c][i].by = c

(***************************************************************************)
(* processResponse does not touch a context that writeNextPart deleted.    *)
(***************************************************************************)
NoUseAfterDelete ==
    (at = "responded" /\ ClosesAfterWrite) => life[ctx] = "live"

(***************************************************************************)
(* readyRead gives a connection up only when the peer has closed it (or it *)
(* is closed already).                                                     *)
(***************************************************************************)
GivesUpOnlyAtEof ==
    [][(at = "recv" /\ ret' = "Close" /\ at' = "readDone")
        => ctx \in fin \cup rst \/ ~Connected(ctx)]_vars

(***************************************************************************)
(* poolBody takes a body of which a part is still to come, so nothing read *)
(* with it belongs to the next request.                                    *)
(***************************************************************************)
PoolBodyHoldsOneBody ==
    \A c \in usePoolBody : rcvd[c] <= Current(c).end

(***************************************************************************)
(* Once a response with "Connection: Close" has been written, and the next *)
(* request not been started, the connection is closed.                     *)
(***************************************************************************)
LastResponseCloses ==
    at = "idle" =>
        \A c \in Conn \ keepAliveConnection :
            Connected(c) => c \in processing \/ httpBodyOffset[c] # 0

(***************************************************************************)
(* No request and no completion ends the process.                          *)
(***************************************************************************)
ServerStaysUp == at # "down"

(***************************************************************************)
(* Every request of a peer that waits for its responses is answered in     *)
(* full, however slowly it sends and reads.                                *)
(***************************************************************************)
AllAnswered == \A c \in Conn : <>(Answers(c) = Len(script[c]))

(***************************************************************************)
(* The context of a connection that is gone is deleted in the end.         *)
(***************************************************************************)
ContextsReclaimed ==
    \A c \in Conn : (c \in opened /\ ~Connected(c)) ~> life[c] = "freed"

\* The ends of the responses that c has been sent, and the request the last of
\* them answers.
Ends(c) == {i \in Own(c) : out[c][i].unit = RespUnits}
LastAnswered(c) == IF Ends(c) = {} THEN 0 ELSE out[c][Max(Ends(c))].req

\* A connection is gone once the server has closed it or the peer reset it.
Phase(c) == IF c \notin opened THEN "new"
            ELSE IF Connected(c) /\ c \notin rst THEN "open" ELSE "gone"

(***************************************************************************)
(* The server implements module Conversation.                              *)
(***************************************************************************)
ConversationOf ==
    INSTANCE Conversation WITH
        phase <- [c \in Conn |-> Phase(c)],
        asked <- reqNo,
        answered <- [c \in Conn |-> LastAnswered(c)],
        refused <- {c \in Conn : HeaderFailed(c)}

AnswersEveryRequest == ConversationOf!Spec

------------------------------------------------------------------------------
(***************************************************************************)
(* The inductive invariant behind the safety properties.                   *)
(***************************************************************************)

\* Nothing more is parsed into context c, nor dispatched from it, before it
\* is reset: its header has been parsed and its body, if any, is complete.
Held(c) == httpBodyOffset[c] # 0 /\ httpBodyRemaining[c] \in {0, INVALID}

\* The flags of a context that has a message in the works.
FlagsInv ==
    \A c \in Conn :
        /\ c \in writing \cup processing \cup needTryNext => Held(c)
        /\ c \in needTryNext => c \notin processing

\* An operation holds a message that is neither being written nor done with,
\* in a context that is kept for it; there is one operation per context.
BusyInv ==
    /\ \A c \in Conn : Busy(c) =>
         /\ life[c] = "live" /\ ctxFd[c] \in Fd
         /\ c \in processing /\ c \notin writing \cup needTryNext
    /\ \A i \in DOMAIN tasks : tasks[i].ctx \notin pending
    /\ \A i, j \in DOMAIN tasks : tasks[i].ctx = tasks[j].ctx => i = j

\* The contexts that exist.
LifeInv ==
    \A c \in Conn : (life[c] = "none" <=> c \notin opened)
                    /\ (c \in deleteLater \cup pending => c \in opened)

\* What holds of the thread's context, by the place the thread is at.
CallInv ==
    LET c == ctx IN
    /\ at \notin {"idle", "down", "astray"} => c \in Conn /\ ctxFd[c] \in Fd /\ c \in opened
    /\ at \in {"recv", "parse", "dispatch", "respond", "send", "written", "next", "looped"}
         => life[c] = "live"
    /\ (at \notin {"idle", "down", "astray"} /\ site # "event")
         => life[c] = "live" /\ c \in pipeline
    /\ (at \in {"recv", "parse", "dispatch", "readDone"} /\ site = "event")
         => via = "read"
    /\ via = "read" => evFd \in Fd
    /\ at = "parse" => httpBodyOffset[c] = 0 /\ httpBodyRemaining[c] = INVALID
    /\ at = "dispatch" => Held(c) /\ c \notin writing \cup processing \cup needTryNext
    /\ at \in {"respond", "send", "written", "next"} => Held(c) /\ ~Busy(c)
    /\ at = "next" => c \in pipeline \ processing
    /\ at = "looped" => site # "event"
    /\ at = "idle" => site = "event"

\* Until a header has been parsed nothing is known of the body.
BodyInv == \A c \in Conn : httpBodyOffset[c] = 0 => httpBodyRemaining[c] = INVALID

IInv ==
    /\ TypeOK
    /\ ClientsMatchSockets
    /\ FlagsInv
    /\ BusyInv
    /\ LifeInv
    /\ CallInv
    /\ BodyInv

\* Where the request behind the last one starts.
NextStart(c) == IF reqNo[c] = 0 THEN 0 ELSE Current(c).end

\* The thread is about to look for a header in what context c has read.
Looking(c) == ctx = c /\ at \in {"parse", "astray"}

(***************************************************************************)
(* Where in its stream the read buffer of context c stands, while no       *)
(* header has been found and behind one that has.  What has been read is   *)
(* in poolRead, but for a body that was moved to poolBody.                 *)
(***************************************************************************)
SearchInv(c) ==
    httpBodyOffset[c] = 0 =>
        /\ c \notin usePoolBody
        /\ currentRequestOffset[c] <= size[c]
        /\ \/ base[c] + currentRequestOffset[c] = NextStart(c)
           \/ HeaderFailed(c) /\ base[c] + currentRequestOffset[c] >= Current(c).start
        /\ \/ /\ nextRequestOffset[c] = INVALID /\ currentRequestOffset[c] = 0
              /\ \A k \in HeadersRead(c) : base[c] + size[c] < script[c][k].body + TryBlock
           \/ /\ Looking(c) /\ site = "next"
              /\ nextRequestOffset[c] = currentRequestOffset[c]
              /\ HeaderFailed(c) => base[c] + currentRequestOffset[c] = Current(c).start
        /\ Looking(c) \/ HeadersRead(c) = {}

FoundInv(c) ==
    httpBodyOffset[c] # 0 =>
        LET r == Current(c) IN
        /\ reqNo[c] # 0
        /\ base[c] + currentRequestOffset[c] = r.start
        /\ base[c] + httpBodyOffset[c] = r.body
        /\ httpBodyOffset[c] <= size[c]
        /\ IF HeaderFailed(c)
           THEN /\ httpBodyRemaining[c] = INVALID /\ c \notin usePoolBody
                /\ \/ nextRequestOffset[c] = INVALID
                   \/ base[c] + nextRequestOffset[c] = r.start
           ELSE /\ IF r.length = INVALID THEN httpBodyRemaining[c] = 0
                   ELSE httpBodyRemaining[c] \in {Minus64(r.end, rcvd[c]), INVALID}
                /\ IF nextRequestOffset[c] = INVALID THEN r.length # INVALID
                   ELSE base[c] + nextRequestOffset[c] = r.end
                /\ IF c \in usePoolBody
                   THEN nextRequestOffset[c] = INVALID /\ r.length # INVALID
                   ELSE /\ httpBodyRemaining[c] # INVALID
                        /\ size[c] + httpBodyRemaining[c] <= ReadCap

\* The units of c's stream that have been sent, received, and read.
CountInv(c) ==
    /\ reqNo[c] \in 0 .. Len(script[c])
    /\ rcvd[c] <= sent[c]
    /\ sent[c] = 0 \/ \E k \in DOMAIN script[c] : sent[c] <= script[c][k].end
    /\ c \notin usePoolBody => base[c] + size[c] = rcvd[c]
    /\ ~HeaderFailed(c) => size[c] <= ReadCap

\* What is handled, or answered, has been read to its end.
Complete(c) == HeaderFailed(c) \/ httpBodyRemaining[c] = 0

\* The contexts whose request is handled, or answered.
InHand ==
    writing \cup processing \cup needTryNext
        \cup {c \in {ctx} : at \in {"dispatch", "respond", "send", "written", "next"}}

\* All of it, relative to IInv.
StreamInv ==
    /\ \A c \in Conn : CountInv(c) /\ SearchInv(c) /\ FoundInv(c)
    /\ \A c \in InHand : Complete(c)
    /\ at = "dispatch" => httpBodyRemaining[ctx] = 0
    /\ at \in {"recv", "parse"} => script[ctx] # <<>>
    /\ at = "astray" => HeaderFailed(ctx)

\* What c writes can still reach its peer.
Alive(c) == c \notin rst /\ (c \in opened => Connected(c))

\* The response to the last request has been written.
AllWritten(c) ==
    IF Own(c) = {} THEN reqNo[c] = 0
    ELSE LET u == out[c][Max(Own(c))] IN u.req = reqNo[c] /\ u.unit = RespUnits

\* Unit n of the response to the last request is the next to be written.
NextDue(c, n) ==
    IF Own(c) = {} THEN reqNo[c] = 1 /\ n = 1
    ELSE Follows(c, out[c][Max(Own(c))], [req |-> reqNo[c], unit |-> n])

(***************************************************************************)
(* How far the responses of c have got: between two requests all has been  *)
(* written; while one is in hand, the unit that left says is next.         *)
(***************************************************************************)
WrittenInv(c) ==
    Alive(c) =>
        IF httpBodyOffset[c] = 0 \/ (c \in writing /\ left[c] = 0) THEN AllWritten(c)
        ELSE IF c \in writing THEN NextDue(c, RespUnits - left[c] + 1)
        ELSE NextDue(c, 1)

\* The handler is done with the response of c.
Finished(c) == c \in needTryNext \/ (ctx = c /\ at \in {"written", "next"})

\* A response is begun once, and left only when all of it has been written or
\* nobody can read the rest.
ReplyInv ==
    /\ \A c \in Conn : WrittenInv(c)
    /\ \A c \in Conn : Finished(c) /\ Alive(c) => c \in writing /\ left[c] = 0
    /\ at = "respond" => ctx \notin writing \cup needTryNext
    /\ at = "send" => ctx \in writing
    /\ rst \subseteq opened
    /\ ResponsesInOrder

\* The inductive invariant.
ServerInv == IInv /\ StreamInv /\ ReplyInv
==============================================================================
