---------------------------- MODULE RequestReader ----------------------------
(***************************************************************************)
(* How the bytes of one connection become requests: the search for the end *)
(* of a header, its parsing in place and the offsets of the requests in    *)
(* poolRead, in ClientHandler.cpp and strutils.h (src/core/server/src).    *)
(* ClientHandler.tla has everything around it; here a request is answered  *)
(* at once, there is room for it in poolRead, and a body is only sent with *)
(* the last request.  Offsets count from 0, positions in a sequence from 1.*)
(***************************************************************************)
EXTENDS Integers, Sequences, SequencesExt, FiniteSetsExt

CONSTANTS
    Streams,       \* what a client sends: sequences of requests
    TryBlock,      \* TRY_BLOCK_SIZE
    MinPart,       \* of a request as many bytes as this arrive together
    Before,        \* what the two bytes before the buffer may be
    Lower          \* upper case letter to lower case

ASSUME ReaderAssumption == TryBlock \in Nat \ {0} /\ MinPart \in Nat \ {0}

VARIABLES
    stream,
    delivered,     \* bytes of the stream that have arrived
    taken,         \* bytes that have been received
    received,      \* poolRead's chunk, as far as it is filled
    currentRequestOffset, nextRequestOffset, httpBodyOffset, httpBodyRemaining,
    findOffset,    \* where the end of the header is looked for
    full,          \* recv gave as much as it was asked for; in tryNextRequest "next"
    cursor,        \* the cursor of parseHttpHeader
    request,       \* where the method, the path and the headers are in the buffer
    dispatched,    \* the requests that have been processed
    at

offsetVars == <<currentRequestOffset, nextRequestOffset, httpBodyOffset, httpBodyRemaining, findOffset>>
readerVars == <<stream, delivered, taken, received, offsetVars, full, cursor, request, dispatched, at>>

Invalid == -1
NUL == "NUL"
CR == "CR"
LF == "LF"
Ws == {" ", "TAB", LF, CR}

\* What is sent of a request [method, path, headers, body].
Wire(r) ==
    r.method \o <<" ">> \o r.path \o <<" ", "v", CR, LF>>
      \o FlattenSeq([i \in DOMAIN r.headers |-> r.headers[i].name \o <<":", " ">> \o r.headers[i].value \o <<CR, LF>>])
      \o <<CR, LF>> \o r.body
WireOf == [s \in Streams |-> FlattenSeq([i \in DOMAIN s |-> Wire(s[i])])]
StartsOf == [s \in Streams |-> {Len(FlattenSeq([j \in 1..(i - 1) |-> Wire(s[j])])) : i \in DOMAIN s}]
EndsOf == [s \in Streams |-> (StartsOf[s] \ {0}) \cup {Len(WireOf[s])}]
Bytes == WireOf[stream]

NoRequest == [method |-> 0, path |-> 0, headers |-> <<>>]

ReaderInit ==
    /\ stream \in Streams
    /\ delivered = 0 /\ taken = 0 /\ received = <<>>
    /\ currentRequestOffset = 0 /\ nextRequestOffset = Invalid
    /\ httpBodyOffset = 0 /\ httpBodyRemaining = Invalid /\ findOffset = 0
    /\ full = "no" /\ cursor = 0 /\ request = NoRequest /\ dispatched = <<>>
    /\ at = "waiting"

-----------------------------------------------------------------------------
(* The network.                                                            *)

\* Where the reads end when the stream arrives up to n, and that none ends inside the
\* first bytes of a request.
ReadEnds(n) == {n} \cup {taken + j * TryBlock : j \in 1..((n - taken) \div TryBlock)}
InParts(n) ==
    \A e \in ReadEnds(n) : \A start \in StartsOf[stream] : e - start \notin 1..(MinPart - 1)

Deliver ==
    /\ at = "waiting"
    /\ \E n \in (delivered + 1)..Len(Bytes) : InParts(n) /\ delivered' = n
    /\ at' = "recv"
    /\ UNCHANGED <<stream, taken, received, offsetVars, full, cursor, request, dispatched>>

-----------------------------------------------------------------------------
(* readyRead, lines 244-310.                                               *)

Wanted == IF httpBodyRemaining = Invalid THEN TryBlock ELSE httpBodyRemaining
Got == Min({Wanted, delivered - taken})

\* Mutation of FindFrom: what was there before is not searched again.
FindFromEnd(prevSize) == prevSize

\* The offset of line 284; the two bytes before the buffer have those less than 0.
FindFrom(prevSize) == IF prevSize = 0 THEN 0 ELSE prevSize - 3

Receive ==
    /\ at = "recv" /\ Got > 0
    /\ received' = received \o SubSeq(Bytes, taken + 1, taken + Got)
    /\ taken' = taken + Got
    /\ httpBodyRemaining' = IF httpBodyRemaining = Invalid THEN Invalid ELSE httpBodyRemaining - Got
    /\ findOffset' = FindFrom(Len(received))
    /\ full' = IF Got = Wanted THEN "yes" ELSE "no"
    /\ at' = IF httpBodyOffset = 0 THEN "find" ELSE IF httpBodyRemaining' = 0 THEN "process" ELSE "recv"
    /\ UNCHANGED <<stream, delivered, currentRequestOffset, nextRequestOffset, httpBodyOffset, cursor, request, dispatched>>

\* EAGAIN.
Drained ==
    /\ at = "recv" /\ Got = 0
    /\ at' = "waiting"
    /\ UNCHANGED <<stream, delivered, taken, received, offsetVars, full, cursor, request, dispatched>>

-----------------------------------------------------------------------------
(* tryParseHeaders, lines 312-379.                                         *)

EndOfHeader == <<CR, LF, CR, LF>>
\* strstr from an offset on: offsets of the mark before the first NUL.
MarkFound(before) ==
    LET text == IF findOffset < 0 THEN SubSeq(before, 3 + findOffset, 2) \o received
                                  ELSE SubSeq(received, findOffset + 1, Len(received))
        nul  == SelectInSeq(text, LAMBDA c : c = NUL)
        hits == {k \in 0..(Len(text) - 4) : SubSeq(text, k + 1, k + 4) = EndOfHeader /\ (nul = 0 \/ k + 4 < nul)}
    IN  IF hits = {} THEN {} ELSE {findOffset + Min(hits)}

\* Lines 317-324: the header is ended where its last, empty, line begins.
HeaderFound ==
    /\ at = "find"
    /\ \E before \in Before : \E pos \in MarkFound(before) :
         /\ httpBodyOffset' = pos + 4
         /\ received' = [received EXCEPT ![pos + 3] = NUL]
    /\ cursor' = currentRequestOffset + 1
    /\ at' = "line"
    /\ UNCHANGED <<stream, delivered, taken, currentRequestOffset, nextRequestOffset, httpBodyRemaining,
                   findOffset, full, request, dispatched>>

\* Lines 288-292; and in tryNextRequest, 576-585: what there is of the request goes to
\* the beginning of the buffer, and reading goes on (lines 748-757).
HeaderMissing ==
    /\ at = "find"
    /\ \E before \in Before : MarkFound(before) = {}
    /\ IF full = "next"
       THEN /\ received' = SubSeq(received, currentRequestOffset + 1, Len(received))
            /\ currentRequestOffset' = 0 /\ nextRequestOffset' = Invalid
       ELSE UNCHANGED <<received, currentRequestOffset, nextRequestOffset>>
    /\ at' = IF full = "no" THEN "waiting" ELSE "recv"
    /\ UNCHANGED <<stream, delivered, taken, httpBodyOffset, httpBodyRemaining, findOffset, full, cursor,
                   request, dispatched>>

-----------------------------------------------------------------------------
(* parseHttpHeader, lines 410-468, with the functions of strutils.h.  They *)
(* write into the buffer, of which the byte behind the last one is NUL.    *)

ByteAt(b, i) == IF i <= Len(b) THEN b[i] ELSE NUL
SeekTo(b, i, set) == Min({j \in i..(Len(b) + 1) : ByteAt(b, j) \in set \cup {NUL}})
SkipSpace(b, i) == Min({j \in i..(Len(b) + 1) : ByteAt(b, j) \notin Ws})
PutNul(b, i) == IF i <= Len(b) THEN [b EXCEPT ![i] = NUL] ELSE b
CStringAt(b, i) == SubSeq(b, i, SeekTo(b, i, {}) - 1)

\* token: [b, next], behind the delimiter or the NUL.
Token(b, i, delimiters) ==
    LET end == SeekTo(b, i, delimiters) IN [b |-> PutNul(b, end), next |-> end + 1]

\* trimRight: blanks from `end` backwards, but not the first byte.
TrimRight(b, start, end) ==
    LET blanks == {j \in (start + 1)..end : \A k \in j..end : ByteAt(b, k) \in Ws}
    IN  IF blanks = {} THEN b ELSE PutNul(b, Min(blanks))

\* toLowerCase, of a C string in place.
ToLowerCase(b, i) ==
    [j \in DOMAIN b |-> IF j \in i..(SeekTo(b, i, {}) - 1) /\ b[j] \in DOMAIN Lower THEN Lower[b[j]] ELSE b[j]]

\* Lines 414-436: method, path and the rest of the line.
RequestLine ==
    /\ at = "line"
    /\ LET method == Token(received, cursor, Ws)
           start  == SkipSpace(method.b, method.next)
           path   == Token(method.b, start, Ws)
           end    == SeekTo(path.b, SkipSpace(path.b, path.next), {LF})
       IN  /\ received' = path.b
           /\ request' = [method |-> cursor, path |-> start, headers |-> <<>>]
           /\ IF ByteAt(path.b, end) = LF
              THEN cursor' = SkipSpace(path.b, end) /\ at' = "header"
              ELSE at' = "failed" /\ UNCHANGED cursor
    /\ UNCHANGED <<stream, delivered, taken, offsetVars, full, dispatched>>

\* The name, without the blanks behind it and in lower case.
HeaderNameEnd(b, name, end) == ToLowerCase(TrimRight(b, name, end), name)

\* Lines 449-467, one header; the assertions of lines 451 and 455.
HeaderLine ==
    /\ at = "header" /\ ByteAt(received, cursor) # NUL
    /\ LET name  == Token(received, cursor, {":"})
           named == HeaderNameEnd(name.b, cursor, name.next - 2)
           start == SkipSpace(named, name.next)
           value == Token(named, start, {LF})
       IN  IF ByteAt(name.b, name.next) = NUL \/ ByteAt(named, start) = NUL
           THEN at' = "failed" /\ UNCHANGED <<received, cursor, request>>
           ELSE /\ received' = TrimRight(value.b, start, value.next - 2)
                /\ cursor' = value.next
                /\ request' = [request EXCEPT !.headers = Append(@, [name |-> cursor, value |-> start])]
                /\ UNCHANGED at
    /\ UNCHANGED <<stream, delivered, taken, offsetVars, full, dispatched>>

-----------------------------------------------------------------------------
(* What the headers say of the body, lines 335-376; a length is one digit. *)

\* Request::getHeader: the first header of that name.
Headers(name) == {i \in DOMAIN request.headers : CStringAt(received, request.headers[i].name) = name}
Value(name) == CStringAt(received, request.headers[Min(Headers(name))].value)
DigitValue == [d \in {"0", "1", "2", "3"} |-> IF d = "0" THEN 0 ELSE IF d = "1" THEN 1 ELSE IF d = "2" THEN 2 ELSE 3]
ContentLength == <<"l">>
TransferEncoding == <<"t">>
Identity == <<"i">>

\* Not a number.
BadLength == Headers(ContentLength) # {} /\ ~(Len(Value(ContentLength)) = 1 /\ Value(ContentLength)[1] \in DOMAIN DigitValue)
BadEncoding ==
    Headers(ContentLength) = {} /\ Headers(TransferEncoding) # {} /\ Value(TransferEncoding) # Identity
BodySize == IF Headers(ContentLength) = {} THEN 0 ELSE DigitValue[Value(ContentLength)[1]]

Framed ==
    /\ at = "header" /\ ByteAt(received, cursor) = NUL /\ ~BadLength /\ ~BadEncoding
    /\ nextRequestOffset' = httpBodyOffset + BodySize
    /\ httpBodyRemaining' = IF Headers(ContentLength) = {} THEN 0 ELSE httpBodyOffset + BodySize - Len(received)
    /\ at' = IF httpBodyRemaining' = 0 THEN "process" ELSE "recv"
    /\ UNCHANGED <<stream, delivered, taken, received, currentRequestOffset, httpBodyOffset, findOffset, full,
                   cursor, request, dispatched>>

\* The exceptions of lines 346 and 371.
FramingFails ==
    /\ at = "header" /\ ByteAt(received, cursor) = NUL /\ (BadLength \/ BadEncoding)
    /\ at' = "failed"
    /\ UNCHANGED <<stream, delivered, taken, received, offsetVars, full, cursor, request, dispatched>>

-----------------------------------------------------------------------------

\* processRequest, lines 470-504, and the answer.
Process ==
    /\ at = "process"
    /\ dispatched' = Append(dispatched,
          [method  |-> CStringAt(received, request.method), path |-> CStringAt(received, request.path),
           headers |-> [i \in DOMAIN request.headers |->
                           [name  |-> CStringAt(received, request.headers[i].name),
                            value |-> CStringAt(received, request.headers[i].value)]],
           body    |-> IF Headers(ContentLength) = {} THEN <<>>
                       ELSE SubSeq(received, httpBodyOffset + 1, Len(received))])
    /\ at' = "next"
    /\ UNCHANGED <<stream, delivered, taken, received, offsetVars, full, cursor, request>>

Remains == Len(received) # nextRequestOffset

\* tryNextRequest, lines 557-575, from the loop of lines 737-761, which sets the next
\* offset to Invalid (line 751).
TryNextRequest ==
    /\ at = "next"
    /\ httpBodyOffset' = 0 /\ httpBodyRemaining' = Invalid /\ request' = NoRequest
    /\ IF Remains
       THEN /\ currentRequestOffset' = nextRequestOffset /\ findOffset' = nextRequestOffset
            /\ full' = "next" /\ at' = "find"
            /\ UNCHANGED <<received, nextRequestOffset>>
       ELSE /\ currentRequestOffset' = 0 /\ nextRequestOffset' = Invalid /\ received' = <<>> /\ at' = "recv"
            /\ UNCHANGED <<findOffset, full>>
    /\ UNCHANGED <<stream, delivered, taken, cursor, dispatched>>

ReaderNext ==
    \/ Deliver \/ Receive \/ Drained \/ HeaderFound \/ HeaderMissing \/ RequestLine \/ HeaderLine
    \/ Framed \/ FramingFails \/ Process \/ TryNextRequest

ReaderSpec == ReaderInit /\ [][ReaderNext]_readerVars

-----------------------------------------------------------------------------

\* What a request says, as it should be dispatched; and that it is well-formed.
Lowered(text) == [i \in DOMAIN text |-> IF text[i] \in DOMAIN Lower THEN Lower[text[i]] ELSE text[i]]
Without(text) ==
    LET kept == {i \in DOMAIN text : text[i] \notin Ws} IN IF kept = {} THEN <<>> ELSE SubSeq(text, Min(kept), Max(kept))
MeantBy(r) ==
    [method |-> r.method, path |-> r.path, body |-> r.body,
     headers |-> [i \in DOMAIN r.headers |-> [name  |-> Lowered(Without(r.headers[i].name)),
                                              value |-> Without(r.headers[i].value)]]]

\* Types; the header that is parsed is inside of the buffer, and the body behind it.
ReaderTypeOK ==
    /\ at \in {"waiting", "recv", "find", "line", "header", "process", "next", "failed"}
    /\ taken <= delivered /\ delivered <= Len(Bytes)
    /\ currentRequestOffset <= Len(received)
    /\ at \in {"line", "header"} => currentRequestOffset < cursor /\ cursor < httpBodyOffset
    /\ at = "process" => httpBodyOffset + BodySize = nextRequestOffset /\ nextRequestOffset <= Len(received)

\* The requests that are dispatched are the first ones of the stream, in its order, each
\* with its method, its path, its headers and its body, however the bytes have arrived.
DispatchedAsSent ==
    /\ Len(dispatched) <= Len(stream)
    /\ \A i \in DOMAIN dispatched : dispatched[i] = MeantBy(stream[i])

\* A connection fails only at a request that is not well-formed.
FailsAtBadRequests ==
    at = "failed" => Len(dispatched) < Len(stream) /\ stream[Len(dispatched) + 1].bad

\* A connection that waits for more has dispatched every request that has arrived as a
\* whole: none is left in the buffer.
ArrivedIsDispatched ==
    at = "waiting" => Len(dispatched) = Cardinality({e \in EndsOf[stream] : e <= delivered})

\* Whatever pieces the bytes arrive in, the requests are those that were sent: none
\* is changed, lost, made up or left waiting.
ReaderInv == ReaderTypeOK /\ DispatchedAsSent /\ FailsAtBadRequests /\ ArrivedIsDispatched
==============================================================================
