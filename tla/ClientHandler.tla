---------------------------- MODULE ClientHandler ----------------------------
(***************************************************************************)
(* ngrest's ClientHandler (src/core/server/src/ClientHandler.cpp): reading *)
(* requests, dispatching them, writing responses and taking the next       *)
(* request out of the read buffer, one ClientContext per connection.       *)
(*                                                                         *)
(* The handler runs on the event loop's thread.  Its code is cut at the    *)
(* system calls and at the calls into the engine; `at' is the next piece   *)
(* that the thread will run.  There are at most two processResponse frames *)
(* on its stack: the outer one runs writeNextPart's loop (lines 737-760)   *)
(* and the inner one answers a request that this loop has taken from the   *)
(* buffer.                                                                 *)
(***************************************************************************)
EXTENDS Sockets

CONSTANTS
    TryBlock,      \* TRY_BLOCK_SIZE, units asked for while a header is read
    ReadCap        \* capacity of poolRead's first chunk

\* Headers are small enough for the first chunk of poolRead, which then is
\* never reallocated (the code's sizes are 512 and 2048).
ASSUME HandlerAssumption ==
    /\ TryBlock \in Nat \ {0} /\ ReadCap \in Nat
    /\ \A s \in Scripts : \A k \in DOMAIN s :
         /\ s[k].body - s[k].start + TryBlock <= ReadCap
         /\ s[k].end + ReadCap < MaxU64

VARIABLES
    clients,               \* ClientHandler::clients, descriptor to context
    ctxFd,                 \* ClientContext::fd; a context is named by its connection
    life,                  \* "none" before new, "live", "freed" after delete
    keepAliveConnection,   \* the contexts whose flag of that name is set,
    deleteLater,           \* and so for the next six
    processing,
    pipeline,
    needTryNext,
    writing,
    usePoolBody,
    base,                  \* stream position of the first unit in poolRead
    size,                  \* poolRead's size
    currentRequestOffset,
    nextRequestOffset,
    httpBodyOffset,
    httpBodyRemaining,
    reqNo,                 \* number of the request last parsed
    left,                  \* response units still to be written
    pending,               \* contexts whose request an asynchronous service has
    tasks,                 \* Server::taskQueue, completions posted to the loop
    at,                    \* the code to run next, "down" after std::terminate,
                           \* "astray" where the model stops (ParseAstray)
    ctx,                   \* the context it runs on
    via,                   \* what the event loop called: handleRequest ("read"),
                           \* readyWrite ("write") or a posted task ("task")
    evFd,                  \* the descriptor of the event
    site,                  \* who called the code that runs: the event loop
                           \* ("event"), or writeNextPart's loop through
                           \* tryNextRequest ("next") or readyRead ("more")
    short,                 \* recv has returned less than it was asked for
    ret,                   \* Status, or truth value, of the call that returned
    res,                   \* writeNextPart's res
    closing,               \* processResponse frames whose closeConnection is set
    rejecting              \* frames entered from a catch block that goes on to
                           \* return false or Status::Close

ctxVars == <<clients, ctxFd, life, deleteLater>>
flagVars == <<keepAliveConnection, processing, pipeline, needTryNext, writing, usePoolBody>>
readVars == <<base, size, currentRequestOffset, nextRequestOffset,
              httpBodyOffset, httpBodyRemaining, reqNo>>
svcVars == <<pending, tasks>>
callVars == <<ctx, via, evFd>>
localVars == <<short, res, closing, rejecting>>
handlerVars == <<ctxVars, flagVars, readVars, left, svcVars,
                 at, callVars, site, ret, localVars>>

Frames == {"outer", "inner"}

Places == {"idle", "recv", "parse", "dispatch", "respond", "send", "written",
           "responded", "next", "looped", "readDone", "down", "astray"}

Task == [ctx : Conn, ok : BOOLEAN]

HandlerTypeOK ==
    /\ clients \in [Fd -> Conn \cup {None}]
    /\ ctxFd \in [Conn -> Fd \cup {None}]
    /\ life \in [Conn -> {"none", "live", "freed"}]
    /\ keepAliveConnection \subseteq Conn /\ deleteLater \subseteq Conn
    /\ processing \subseteq Conn /\ pipeline \subseteq Conn
    /\ needTryNext \subseteq Conn /\ writing \subseteq Conn
    /\ usePoolBody \subseteq Conn
    /\ base \in [Conn -> Nat] /\ size \in [Conn -> Nat]
    /\ currentRequestOffset \in [Conn -> Nat]
    /\ nextRequestOffset \in [Conn -> Nat]
    /\ httpBodyOffset \in [Conn -> Nat]
    /\ httpBodyRemaining \in [Conn -> Nat]
    /\ reqNo \in [Conn -> Nat]
    /\ left \in [Conn -> 0 .. RespUnits]
    /\ pending \subseteq Conn
    /\ tasks \in Seq(Task)
    /\ at \in Places
    /\ ctx \in Conn \cup {None}
    /\ via \in {"none", "read", "write", "task"}
    /\ evFd \in Fd \cup {None}
    /\ site \in {"event", "next", "more"}
    /\ short \in BOOLEAN
    /\ ret \in {"Success", "Done", "Again", "Close"}
    /\ res \in {"Done", "Close"}
    /\ closing \subseteq Frames
    /\ rejecting \subseteq Frames

HandlerInit ==
    /\ clients = [f \in Fd |-> None]
    /\ ctxFd = [c \in Conn |-> None]
    /\ life = [c \in Conn |-> "none"]
    /\ keepAliveConnection = Conn
    /\ deleteLater = {} /\ processing = {} /\ pipeline = {}
    /\ needTryNext = {} /\ writing = {} /\ usePoolBody = {}
    /\ base = [c \in Conn |-> 0]
    /\ size = [c \in Conn |-> 0]
    /\ currentRequestOffset = [c \in Conn |-> 0]
    /\ nextRequestOffset = [c \in Conn |-> INVALID]
    /\ httpBodyOffset = [c \in Conn |-> 0]
    /\ httpBodyRemaining = [c \in Conn |-> INVALID]
    /\ reqNo = [c \in Conn |-> 0]
    /\ left = [c \in Conn |-> 0]
    /\ pending = {}
    /\ tasks = <<>>
    /\ at = "idle"
    /\ ctx = None /\ via = "none" /\ evFd = None /\ site = "event"
    /\ short = FALSE /\ ret = "Success" /\ res = "Done"
    /\ closing = {} /\ rejecting = {}

\* uint64_t subtraction
Minus64(a, b) == (a - b) % (MaxU64 + 1)

Lesser(a, b) == IF a <= b THEN a ELSE b

Frame == IF site = "event" THEN "outer" ELSE "inner"

\* The thread enters a handler with an empty stack, and leaves it.
Enter(place, c, who, f) ==
    /\ at' = place /\ ctx' = c /\ via' = who /\ evFd' = f
    /\ UNCHANGED <<site, ret, localVars>>

BackToLoop ==
    /\ at' = "idle" /\ ctx' = None /\ via' = "none" /\ evFd' = None /\ site' = "event"
    /\ short' = FALSE /\ ret' = "Success" /\ res' = "Done"
    /\ closing' = {} /\ rejecting' = {}

\* Most steps stay on the stack they are on.
GoTo(place) == at' = place /\ UNCHANGED <<callVars, site, ret, localVars>>
Return(place, status) == at' = place /\ ret' = status /\ UNCHANGED <<callVars, site, localVars>>

------------------------------------------------------------------------------
(* connected, disconnected and Server::closeConnection.                    *)

ConnectedCb(f, c) ==
    IF clients[f] = None
    THEN /\ clients' = [clients EXCEPT ![f] = c]
         /\ ctxFd' = [ctxFd EXCEPT ![c] = f]
         /\ life' = [life EXCEPT ![c] = "live"]
    ELSE UNCHANGED <<clients, ctxFd, life>>   \* "is already connected"

\* Mutation of Disconnected: the context is deleted whatever is done with it.
DisconnectedAtOnce(f) ==
    LET c == clients[f] IN
    /\ clients' = [clients EXCEPT ![f] = None]
    /\ life' = IF c # None THEN [life EXCEPT ![c] = "freed"] ELSE life
    /\ UNCHANGED <<ctxFd, deleteLater>>

\* Mutation of Disconnected: the deletion is always left to writeNextPart.
DisconnectedLater(f) ==
    LET c == clients[f] IN
    /\ clients' = [clients EXCEPT ![f] = None]
    /\ deleteLater' = IF c # None THEN deleteLater \cup {c} ELSE deleteLater
    /\ UNCHANGED <<ctxFd, life>>

\* Mutation of Disconnected: the entry goes only when the context is deleted.
DisconnectedKeepsEntry(f) ==
    LET c == clients[f] IN
    /\ IF c # None /\ c \notin processing \cup pipeline
       THEN /\ clients' = [clients EXCEPT ![f] = None]
            /\ life' = [life EXCEPT ![c] = "freed"]
            /\ UNCHANGED deleteLater
       ELSE /\ deleteLater' = deleteLater \cup ({c} \ {None})
            /\ UNCHANGED <<clients, life>>
    /\ UNCHANGED ctxFd

Disconnected(f) ==
    LET c == clients[f] IN
    /\ clients' = [clients EXCEPT ![f] = None]
    /\ life' = IF c # None /\ c \notin processing \cup pipeline
               THEN [life EXCEPT ![c] = "freed"] ELSE life
    /\ deleteLater' = IF c # None /\ c \in processing \cup pipeline
                      THEN deleteLater \cup {c} ELSE deleteLater
    /\ UNCHANGED ctxFd

\* close() and EPOLL_CTL_DEL of a descriptor that is not open fail, the
\* callback is made all the same.
CloseConnection(f) ==
    /\ sock' = [sock EXCEPT ![f] = None]
    /\ edge' = edge \ {sock[f]}
    /\ Disconnected(f)
    /\ UNCHANGED <<script, opened, sent, rcvd, fin, rst, out, taken, nospace>>


------------------------------------------------------------------------------
(* readyRead of a context, lines 246-310.                                  *)

\* Mutation of Wanted: a block is asked for whatever is left of the body.
WantsBlock(c) == TryBlock

Wanted(c) == IF httpBodyRemaining[c] # INVALID THEN httpBodyRemaining[c] ELSE TryBlock

LeaveRead(status) == Return("readDone", status)

\* recv fails: the descriptor is closed, or the peer has reset the connection.
RecvError ==
    LET c == ctx IN
    /\ at = "recv"
    /\ sock[ctxFd[c]] = None \/ (sock[ctxFd[c]] = c /\ c \in rst)
    /\ LeaveRead("Close")
    /\ UNCHANGED <<sockVars, ctxVars, flagVars, readVars, left, svcVars>>

\* recv returns 0: at the end of the stream, but also when asked for 0 units.
RecvZero ==
    LET c == ctx IN
    /\ at = "recv" /\ sock[ctxFd[c]] = c /\ c \notin rst
    /\ \/ Wanted(c) = 0
       \/ Unread(c) = 0 /\ c \in fin
    /\ LeaveRead("Close")
    /\ UNCHANGED <<sockVars, ctxVars, flagVars, readVars, left, svcVars>>

\* EAGAIN: all available data has been read.
RecvAgain ==
    LET c == ctx IN
    /\ at = "recv" /\ sock[ctxFd[c]] = c /\ c \notin rst
    /\ Wanted(c) # 0 /\ Unread(c) = 0 /\ c \notin fin
    /\ LeaveRead("Success")
    /\ UNCHANGED <<sockVars, ctxVars, flagVars, readVars, left, svcVars>>

RecvData ==
    LET c == ctx
        got == Lesser(Wanted(c), Unread(c))
        rest == IF httpBodyRemaining[c] # INVALID
                THEN Minus64(httpBodyRemaining[c], got) ELSE INVALID
    IN
    /\ at = "recv" /\ sock[ctxFd[c]] = c /\ c \notin rst
    /\ got > 0
    /\ rcvd' = [rcvd EXCEPT ![c] = @ + got]
    /\ size' = IF c \in usePoolBody THEN size ELSE [size EXCEPT ![c] = @ + got]
    /\ httpBodyRemaining' = [httpBodyRemaining EXCEPT ![c] = rest]
    /\ short' = (got < Wanted(c))
    /\ at' = IF httpBodyOffset[c] = 0 THEN "parse" ELSE IF rest = 0 THEN "dispatch" ELSE "recv"
    /\ UNCHANGED <<callVars, site, ret, res, closing, rejecting>>
    /\ UNCHANGED <<script, opened, sock, sent, fin, rst, out, taken, nospace, edge>>
    /\ UNCHANGED <<ctxVars, flagVars, base, currentRequestOffset, nextRequestOffset,
                   httpBodyOffset, reqNo, left, svcVars>>

------------------------------------------------------------------------------
(* tryParseHeaders, lines 312-379, and what its callers do with its result *)
(* (readyRead, lines 286-298, and tryNextRequest, lines 579-602).          *)

\* Requests whose empty line is in poolRead at or after currentRequestOffset.
\* readyRead starts its search later, but only past what it has searched.
HeadersRead(c) ==
    {k \in DOMAIN script[c] :
        /\ base[c] + currentRequestOffset[c] < script[c][k].body
        /\ script[c][k].body <= base[c] + size[c]}

IsFirst(k, S) == k \in S /\ \A j \in S : k <= j

\* The header is incomplete.  A partial next request is moved to the front
\* of poolRead, and writeNextPart's loop goes on to readyRead.
ParseAgain ==
    LET c == ctx IN
    /\ at = "parse" /\ HeadersRead(c) = {}
    /\ IF site = "next"
       THEN /\ base' = [base EXCEPT ![c] = @ + currentRequestOffset[c]]
            /\ size' = [size EXCEPT ![c] = Minus64(@, currentRequestOffset[c])]
            /\ currentRequestOffset' = [currentRequestOffset EXCEPT ![c] = 0]
            /\ nextRequestOffset' = [nextRequestOffset EXCEPT ![c] = INVALID]
            /\ at' = "recv" /\ site' = "more"
            /\ UNCHANGED <<callVars, ret, localVars>>
       ELSE /\ IF short THEN LeaveRead("Success") ELSE GoTo("recv")
            /\ UNCHANGED <<base, size, currentRequestOffset, nextRequestOffset>>
    /\ UNCHANGED <<sockVars, ctxVars, flagVars, httpBodyOffset, httpBodyRemaining,
                   reqNo, left, svcVars>>

\* The header that has been found is all of the header of request k, which has
\* not been parsed before.
Finds(c, k) ==
    /\ IsFirst(k, HeadersRead(c))
    /\ script[c][k].start = base[c] + currentRequestOffset[c] /\ k # reqNo[c]

(***************************************************************************)
(* The empty line that has been found ends no header the peer has sent:    *)
(* either a request was refused, and the loop went on behind the data that *)
(* had been read with it; or the loop ran below readyWrite, which dropped  *)
(* the refusal's Status::Close (Server.cpp:224), and its next turn comes   *)
(* back to the refused header, whose lines have been cut up in place.      *)
(* What the handler makes of such text is not modelled: the model stops.   *)
(***************************************************************************)
ParseAstray ==
    LET c == ctx IN
    /\ at = "parse"
    /\ HeadersRead(c) # {} /\ ~\E k \in HeadersRead(c) : Finds(c, k)
    /\ GoTo("astray")
    /\ UNCHANGED <<sockVars, ctxVars, flagVars, readVars, left, svcVars>>

\* A Header-phase filter throws: the error is answered from the catch block
\* and the connection is to be closed.
ParseRefused ==
    LET c == ctx IN
    /\ at = "parse"
    /\ \E k \in HeadersRead(c) :
         /\ Finds(c, k) /\ script[c][k].form = "refused"
         /\ httpBodyOffset' = [httpBodyOffset EXCEPT ![c] = script[c][k].body - base[c]]
         /\ reqNo' = [reqNo EXCEPT ![c] = k]
    /\ at' = "respond" /\ rejecting' = rejecting \cup {Frame}
    /\ UNCHANGED <<callVars, site, ret, short, res, closing>>
    /\ UNCHANGED <<sockVars, ctxVars, flagVars, base, size, currentRequestOffset,
                   nextRequestOffset, httpBodyRemaining, left, svcVars>>

(***************************************************************************)
(* parseHttpHeader throws, and tryParseHeaders' callers do not catch it.   *)
(* Below handleRequest alone the exception closes the connection.  Out of  *)
(* writeNextPart's loop, which leaves pipeline set, it unwinds to          *)
(*   - handleRequest when the outer processResponse runs in a catch block; *)
(*   - Engine::dispatchMessage when it answers a synchronous operation:    *)
(*     its catch block calls context->callback->error, on an object of the *)
(*     pool that reset() has given back, intact or overwritten;            *)
(*   - nothing when the loop runs below a posted task or readyWrite.       *)
(***************************************************************************)
ParseFailed ==
    LET c == ctx IN
    /\ at = "parse"
    /\ \E k \in HeadersRead(c) :
         /\ Finds(c, k) /\ script[c][k].form = "bad"
         /\ httpBodyOffset' = [httpBodyOffset EXCEPT ![c] = script[c][k].body - base[c]]
         /\ reqNo' = [reqNo EXCEPT ![c] = k]
    /\ \/ /\ via = "read" /\ (site = "event" \/ "outer" \in rejecting)
          /\ at' = "readDone" /\ site' = "event" /\ ret' = "Close"
       \/ /\ via = "read" /\ site # "event" /\ "outer" \notin rejecting
          /\ at' \in {"respond", "down"} /\ site' = "event" /\ UNCHANGED ret
       \/ /\ via # "read"
          /\ at' = "down" /\ UNCHANGED <<site, ret>>
    /\ UNCHANGED <<callVars, localVars>>
    /\ UNCHANGED <<sockVars, ctxVars, flagVars, base, size, currentRequestOffset,
                   nextRequestOffset, httpBodyRemaining, left, svcVars>>

\* Where the body of a parsed request goes, and where the next one starts.
BodyRest(c, r) ==
    IF r.length = INVALID THEN 0
    ELSE Minus64(r.body - base[c] + r.length, size[c])

NeedsPoolBody(c, r) == BodyRest(c, r) # 0 /\ BodyRest(c, r) > ReadCap - size[c]

\* Mutation of AfterRequest: the next request is taken to follow the header.
AfterHeader(c, r) == IF NeedsPoolBody(c, r) THEN INVALID ELSE r.body - base[c]

AfterRequest(c, r) ==
    IF NeedsPoolBody(c, r) THEN INVALID
    ELSE r.body - base[c] + (IF r.length = INVALID THEN 0 ELSE r.length)

ParseDone ==
    LET c == ctx IN
    /\ at = "parse"
    /\ \E k \in HeadersRead(c) :
         LET r == script[c][k]
             again == site = "next" /\ BodyRest(c, r) # 0   \* line 602
         IN
         /\ Finds(c, k) /\ r.form \in {"good", "denied"}
         /\ reqNo' = [reqNo EXCEPT ![c] = k]
         /\ keepAliveConnection' = IF r.keep THEN keepAliveConnection \cup {c}
                                             ELSE keepAliveConnection \ {c}
         /\ httpBodyOffset' = [httpBodyOffset EXCEPT ![c] = r.body - base[c]]
         /\ httpBodyRemaining' = [httpBodyRemaining EXCEPT ![c] = BodyRest(c, r)]
         /\ usePoolBody' = IF NeedsPoolBody(c, r) THEN usePoolBody \cup {c} ELSE usePoolBody
         /\ nextRequestOffset' = [nextRequestOffset EXCEPT
                                    ![c] = IF again THEN INVALID ELSE AfterRequest(c, r)]
         /\ at' = IF BodyRest(c, r) = 0 THEN "dispatch" ELSE "recv"
         /\ site' = IF again THEN "more" ELSE site
    /\ UNCHANGED <<callVars, ret, localVars>>
    /\ UNCHANGED <<sockVars, ctxVars, processing, pipeline, needTryNext, writing,
                   base, size, currentRequestOffset, left, svcVars>>

------------------------------------------------------------------------------
(* processRequest, lines 470-504, down to Engine::dispatchMessage and the  *)
(* service, and the return from it to readyRead or tryNextRequest.         *)

ProcessRequest ==
    LET c == ctx
        r == script[c][reqNo[c]]
    IN
    /\ at = "dispatch"
    /\ processing' = processing \cup {c}
    /\ \/ /\ r.form = "denied"       \* runPhase(Phase::PreDispatch) throws
          /\ at' = "respond" /\ rejecting' = rejecting \cup {Frame}
          /\ UNCHANGED <<pending, ret>>
       \/ /\ r.form = "good" /\ r.svc = "sync"
          /\ at' = "respond"
          /\ UNCHANGED <<pending, ret, rejecting>>
       \/ /\ r.form = "good" /\ r.svc # "sync"
          /\ pending' = pending \cup {c}
          /\ at' = IF site = "next" THEN "looped" ELSE "readDone"
          /\ ret' = "Success"
          /\ UNCHANGED rejecting
    /\ UNCHANGED <<callVars, site, short, res, closing>>
    /\ UNCHANGED <<sockVars, ctxVars, keepAliveConnection, pipeline, needTryNext, writing,
                   usePoolBody, readVars, left, tasks>>

------------------------------------------------------------------------------
(* processResponse, lines 605-645 (and processError, which ends in it).    *)

ProcessResponse ==
    LET c == ctx IN
    /\ at = "respond"
    /\ writing' = writing \cup {c}
    /\ left' = [left EXCEPT ![c] = RespUnits]
    /\ closing' = IF c \in keepAliveConnection THEN closing \ {Frame} ELSE closing \cup {Frame}
    /\ at' = "send"
    /\ UNCHANGED <<callVars, site, ret, short, res, rejecting>>
    /\ UNCHANGED <<sockVars, ctxVars, keepAliveConnection, processing, pipeline, needTryNext,
                   usePoolBody, readVars, svcVars>>

------------------------------------------------------------------------------
(* writeChunks, lines 678-702, on the header and then on the body.  The    *)
(* descriptor of a context that outlives its connection may by then refer  *)
(* to another one.                                                         *)

\* Mutation of NextUnits: a resumed write starts the response again.
FirstUnits(c, n) ==
    [i \in 1 .. n |-> [by |-> c, req |-> reqNo[c], unit |-> i]]

\* The next n units of the response context c is writing.
NextUnits(c, n) ==
    [i \in 1 .. n |-> [by |-> c, req |-> reqNo[c], unit |-> RespUnits - left[c] + i]]

SendData ==
    LET c == ctx
        d == sock[ctxFd[c]]
        n == Lesser(left[c], Room(d))
    IN
    /\ at = "send" /\ d # None /\ d \notin rst
    /\ n > 0
    /\ out' = [out EXCEPT ![d] = @ \o NextUnits(c, n)]
    /\ left' = [left EXCEPT ![c] = @ - n]
    /\ GoTo(IF left[c] = n THEN "written" ELSE "send")
    /\ UNCHANGED <<script, opened, sock, sent, rcvd, fin, rst, taken, nospace, edge>>
    /\ UNCHANGED <<ctxVars, flagVars, readVars, svcVars>>

\* Nothing is left: readyWrite was called on a context whose response is
\* written, but whose flag writing was not reset behind it.
SendNothing ==
    /\ at = "send" /\ left[ctx] = 0
    /\ GoTo("written")
    /\ UNCHANGED <<sockVars, ctxVars, flagVars, readVars, left, svcVars>>

\* Mutation of SendAgain: a full send buffer ends the response.
SendGivesUp ==
    LET d == sock[ctxFd[ctx]] IN
    /\ at = "send" /\ left[ctx] > 0 /\ d # None /\ d \notin rst
    /\ Room(d) <= 0
    /\ GoTo("written")
    /\ UNCHANGED <<sockVars, ctxVars, flagVars, readVars, left, svcVars>>

\* EAGAIN: the send buffer is full, writeNextPart returns Status::Again.
SendAgain ==
    LET d == sock[ctxFd[ctx]] IN
    /\ at = "send" /\ left[ctx] > 0 /\ d # None /\ d \notin rst
    /\ Room(d) <= 0
    /\ nospace' = nospace \cup {d}
    /\ Return("responded", "Again")
    /\ UNCHANGED <<script, opened, sock, sent, rcvd, fin, rst, out, taken, edge>>
    /\ UNCHANGED <<ctxVars, flagVars, readVars, left, svcVars>>

\* Any other error ends the response where it is.
SendError ==
    LET d == sock[ctxFd[ctx]] IN
    /\ at = "send" /\ left[ctx] > 0 /\ (d = None \/ d \in rst)
    /\ GoTo("written")
    /\ UNCHANGED <<sockVars, ctxVars, flagVars, readVars, left, svcVars>>

------------------------------------------------------------------------------
(* writeNextPart after the response, lines 720-764.                        *)

\* Below another writeNextPart the caller's loop is told to go on; a context
\* whose connection is closed is deleted; otherwise the loop starts.
ResponseWritten ==
    LET c == ctx IN
    /\ at = "written"
    /\ processing' = processing \ {c}
    /\ IF c \in pipeline
       THEN /\ needTryNext' = needTryNext \cup {c}
            /\ Return("responded", "Done")
            /\ UNCHANGED <<life, pipeline>>
       ELSE IF c \in deleteLater
       THEN /\ life' = [life EXCEPT ![c] = "freed"]
            /\ Return("responded", "Done")
            /\ UNCHANGED <<needTryNext, pipeline>>
       ELSE /\ pipeline' = pipeline \cup {c}
            /\ at' = "next" /\ res' = "Done"
            /\ UNCHANGED <<callVars, site, ret, short, closing, rejecting>>
            /\ UNCHANGED <<life, needTryNext>>
    /\ UNCHANGED <<sockVars, clients, ctxFd, deleteLater, keepAliveConnection, writing,
                   usePoolBody, readVars, left, svcVars>>

\* ClientContext::reset, lines 131-152; poolRead keeps what it holds.
ResetContext(c) ==
    /\ writing' = writing \ {c}
    /\ needTryNext' = needTryNext \ {c}
    /\ usePoolBody' = usePoolBody \ {c}
    /\ httpBodyOffset' = [httpBodyOffset EXCEPT ![c] = 0]
    /\ httpBodyRemaining' = [httpBodyRemaining EXCEPT ![c] = INVALID]
    /\ left' = [left EXCEPT ![c] = 0]

\* Mutation of NothingFollows: the last unit of the buffer is passed over.
NothingMuchFollows(c) ==
    nextRequestOffset[c] = INVALID \/ size[c] <= nextRequestOffset[c] + 1

\* "no data remaining": nothing of the next request is in the buffer.
NothingFollows(c) ==
    nextRequestOffset[c] = INVALID \/ size[c] = nextRequestOffset[c]

\* tryNextRequest up to tryParseHeaders, lines 557-579.  When
\* the buffer holds nothing more the loop goes on to readyRead.
TryNextRequest ==
    LET c == ctx IN
    /\ at = "next"
    /\ ResetContext(c)
    /\ IF NothingFollows(c)
       THEN /\ base' = [base EXCEPT ![c] = rcvd[c]]
            /\ size' = [size EXCEPT ![c] = 0]
            /\ currentRequestOffset' = [currentRequestOffset EXCEPT ![c] = 0]
            /\ nextRequestOffset' = [nextRequestOffset EXCEPT ![c] = INVALID]
            /\ at' = "recv" /\ site' = "more"
       ELSE /\ currentRequestOffset' = [currentRequestOffset EXCEPT ![c] = nextRequestOffset[c]]
            /\ at' = "parse" /\ site' = "next"
            /\ UNCHANGED <<base, size, nextRequestOffset>>
    /\ UNCHANGED <<callVars, ret, localVars>>
    /\ UNCHANGED <<sockVars, ctxVars, keepAliveConnection, processing, pipeline, reqNo, svcVars>>

\* The loop is left, line 761.
LoopLeft == pipeline \ {ctx}

\* tryNextRequest or readyRead has returned to the loop.
LoopNext ==
    LET c == ctx
        again == c \in needTryNext /\ ret # "Close"
        result == IF ret = "Close" THEN "Close" ELSE res
    IN
    /\ at = "looped"
    /\ needTryNext' = IF ret = "Close" THEN needTryNext \ {c} ELSE needTryNext
    /\ pipeline' = IF again THEN pipeline ELSE LoopLeft
    /\ IF again
       THEN GoTo("next")
       ELSE /\ at' = "responded" /\ site' = "event" /\ res' = result /\ ret' = result
            /\ UNCHANGED <<callVars, short, closing, rejecting>>
    /\ UNCHANGED <<sockVars, ctxVars, keepAliveConnection, processing, writing,
                   usePoolBody, readVars, left, svcVars>>

------------------------------------------------------------------------------
(* The end of processResponse, lines 647-654, and of readyWrite, whose     *)
(* Status the epoll loop drops (Server.cpp:224).                           *)

ClosesAfterWrite ==
    /\ Frame = "inner" \/ via # "write"
    /\ ret = "Close" \/ (ret = "Done" /\ Frame \in closing)

\* processResponse returns to the loop (through tryNextRequest), to readyRead,
\* or to the event loop.
LeaveResponse ==
    LET status == IF Frame \in rejecting THEN "Close" ELSE "Success" IN
    IF site = "next" THEN Return("looped", status)
    ELSE IF site = "more" \/ via = "read" THEN Return("readDone", status)
    ELSE BackToLoop

\* closeConnection(clientContext->fd).  When writeNextPart has just deleted
\* the context the descriptor is read from freed memory: still the old one,
\* or one that is not open.
ResponseDone ==
    /\ at = "responded"
    /\ \/ /\ ClosesAfterWrite
          /\ CloseConnection(ctxFd[ctx])
       \/ /\ ClosesAfterWrite => life[ctx] = "freed"
          /\ UNCHANGED <<sockVars, ctxVars>>
    /\ LeaveResponse
    /\ UNCHANGED <<flagVars, readVars, left, svcVars>>

\* readyRead has returned: to writeNextPart's loop, or to handleRequest,
\* which closes the connection on false (Server.cpp:488-496).
ReadReturns ==
    /\ at = "readDone"
    /\ IF site = "more" THEN GoTo("looped") ELSE BackToLoop
    /\ IF site = "event" /\ ret = "Close"
       THEN CloseConnection(evFd)
       ELSE UNCHANGED <<sockVars, ctxVars>>
    /\ UNCHANGED <<flagVars, readVars, left, svcVars>>

HandlerNext ==
    \/ RecvError \/ RecvZero \/ RecvAgain \/ RecvData
    \/ ParseAgain \/ ParseAstray \/ ParseRefused \/ ParseFailed \/ ParseDone
    \/ ProcessRequest \/ ProcessResponse
    \/ SendData \/ SendNothing \/ SendAgain \/ SendError
    \/ ResponseWritten \/ TryNextRequest \/ LoopNext
    \/ ResponseDone \/ ReadReturns
==============================================================================
