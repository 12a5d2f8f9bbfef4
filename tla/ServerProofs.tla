----------------------------- MODULE ServerProofs -----------------------------
(***************************************************************************)
(* Proofs about module Server for every value of its constants: any number *)
(* of connections and descriptors, any requests, any buffer sizes.  First  *)
(* the connections and what serves them, then what is read of a stream,    *)
(* then what is written.                                                   *)
(***************************************************************************)
EXTENDS ServerProperties, Numbers, SequenceTheorems, TLAPS

LEMMA Minus64Type ==
    ASSUME NEW a \in Int, NEW b \in Int
    PROVE  Minus64(a, b) \in 0 .. MaxU64
<1>1. MaxU64 \in Nat \ {0}
  BY SocketsAssumption
<1> QED
  BY <1>1, SMT DEF Minus64

\* A header found in poolRead belongs to a request of the script, and ends
\* behind the first unit of the pool.
LEMMA HeaderFound ==
    ASSUME TypeOK, NEW c \in Conn, NEW k \in HeadersRead(c)
    PROVE  /\ k \in Nat
           /\ script[c][k] \in Request
           /\ script[c][k].body - base[c] \in Nat \ {0}
<1>1. script[c] \in Seq(Request) /\ k \in DOMAIN script[c]
  BY SocketsAssumption DEF TypeOK, SockTypeOK, HeadersRead
<1>2. k \in Nat /\ script[c][k] \in Request
  BY <1>1
<1>3. /\ script[c][k].body \in Nat
      /\ base[c] \in Nat /\ currentRequestOffset[c] \in Nat
      /\ base[c] + currentRequestOffset[c] < script[c][k].body
  BY <1>2 DEF Request, HeadersRead, TypeOK, HandlerTypeOK
<1> QED
  BY <1>2, <1>3

\* The context the thread works on.
LEMMA ThreadContext ==
    ASSUME IInv, at \notin {"idle", "down", "astray"}
    PROVE  /\ ctx \in Conn /\ ctx \in opened
           /\ ctxFd[ctx] \in Fd
           /\ Frame \in Frames
BY DEF IInv, CallInv, Frame, Frames

\* The types of what the handler counts.
LEMMA ReadTypes ==
    ASSUME IInv
    PROVE  /\ base \in [Conn -> Nat] /\ size \in [Conn -> Nat]
           /\ currentRequestOffset \in [Conn -> Nat]
           /\ nextRequestOffset \in [Conn -> Nat]
           /\ httpBodyOffset \in [Conn -> Nat]
           /\ httpBodyRemaining \in [Conn -> Nat]
           /\ reqNo \in [Conn -> Nat]
           /\ left \in [Conn -> 0 .. RespUnits]
           /\ sent \in [Conn -> Nat] /\ rcvd \in [Conn -> Nat]
           /\ INVALID \in Nat \ {0}
BY SocketsAssumption DEF IInv, TypeOK, SockTypeOK, HandlerTypeOK, INVALID

LEMMA InitInv == Init => IInv
<1> SUFFICES ASSUME Init PROVE IInv
  OBVIOUS
<1> USE DEF Init, SockInit, HandlerInit
<1>1. SockTypeOK
  BY DEF SockTypeOK
<1>2. HandlerTypeOK
  <2>1. INVALID \in Nat /\ 0 \in 0 .. RespUnits /\ <<>> \in Seq(Task)
    BY SocketsAssumption DEF INVALID
  <2>2. /\ nextRequestOffset \in [Conn -> Nat]
        /\ httpBodyRemaining \in [Conn -> Nat]
        /\ left \in [Conn -> 0 .. RespUnits]
    BY <2>1
  <2> QED
    BY <2>1, <2>2 DEF HandlerTypeOK, Places, Frames
<1>3. ClientsMatchSockets
  BY DEF ClientsMatchSockets
<1>4. ~ \E c \in Conn : Busy(c)
  BY DEF Busy
<1>5. FlagsInv /\ BusyInv /\ LifeInv /\ CallInv /\ BodyInv
  BY <1>4 DEF FlagsInv, BusyInv, LifeInv, CallInv, BodyInv
<1> QED
  BY <1>1, <1>2, <1>3, <1>5 DEF IInv, TypeOK

------------------------------------------------------------------------------
(* Reading.                                                                *)

\* recv returns without data.
LEMMA RecvEndsStep ==
    ASSUME IInv, RecvError \/ RecvZero \/ RecvAgain
    PROVE  IInv'
<1> USE DEF sockVars, ctxVars, flagVars, readVars, svcVars, callVars, localVars, Return
<1>1. /\ at = "recv" /\ at' = "readDone" /\ ret' \in {"Success", "Close"}
      /\ UNCHANGED <<sockVars, ctxVars, flagVars, readVars, left, svcVars,
                     callVars, site, localVars>>
  BY DEF RecvError, RecvZero, RecvAgain, LeaveRead
<1>2. TypeOK'
  BY <1>1, ZenonT(60) DEF IInv, TypeOK, SockTypeOK, HandlerTypeOK, Places, Frames
<1>3. ClientsMatchSockets'
  BY <1>1 DEF IInv, ClientsMatchSockets
<1>4. FlagsInv' /\ LifeInv' /\ BodyInv'
  BY <1>1 DEF IInv, FlagsInv, Held, LifeInv, BodyInv
<1>5. BusyInv'
  BY <1>1 DEF IInv, BusyInv, Busy
<1>6. CallInv'
  BY <1>1 DEF IInv, CallInv, Held, Busy
<1> QED
  BY <1>2, <1>3, <1>4, <1>5, <1>6 DEF IInv

LEMMA RecvDataStep ==
    ASSUME IInv, RecvData
    PROVE  IInv'
<1> USE DEF sockVars, ctxVars, flagVars, readVars, svcVars, callVars, localVars
<1> DEFINE got == Lesser(Wanted(ctx), Unread(ctx))
           rest == IF httpBodyRemaining[ctx] # INVALID
                   THEN Minus64(httpBodyRemaining[ctx], got) ELSE INVALID
<1>1. at = "recv"
  BY DEF RecvData
<1>2. ctx \in Conn
  BY <1>1, ThreadContext
<1>3. got \in Nat /\ got > 0 /\ got <= Wanted(ctx)
  <2>1. sent[ctx] \in Nat /\ rcvd[ctx] \in Nat /\ httpBodyRemaining[ctx] \in Nat
    BY <1>2, ReadTypes
  <2>2. Unread(ctx) \in Int /\ Wanted(ctx) \in Nat
    BY <2>1, HandlerAssumption DEF Unread, Wanted
  <2>3. got > 0
    BY DEF RecvData
  <2> QED
    BY <2>2, <2>3 DEF Lesser
<1>4. /\ rest \in 0 .. MaxU64
      /\ httpBodyRemaining[ctx] = INVALID => rest = INVALID
      /\ INVALID # 0 /\ INVALID \in 0 .. MaxU64
  BY <1>2, <1>3, SocketsAssumption, Minus64Type, SMTT(30) DEF INVALID, IInv, TypeOK, HandlerTypeOK
<1>5. Held(ctx) => httpBodyRemaining[ctx] = INVALID
  BY <1>3 DEF Held, Wanted
<1>6. httpBodyOffset[ctx] = 0 => httpBodyRemaining[ctx] = INVALID
  BY <1>2 DEF IInv, BodyInv
<1> HIDE DEF rest, got
<1>7. /\ httpBodyRemaining' = [httpBodyRemaining EXCEPT ![ctx] = rest]
      /\ rcvd' = [rcvd EXCEPT ![ctx] = @ + got]
      /\ size' = size \/ size' = [size EXCEPT ![ctx] = @ + got]
      /\ short' \in BOOLEAN
      /\ at' = IF httpBodyOffset[ctx] = 0 THEN "parse" ELSE IF rest = 0 THEN "dispatch" ELSE "recv"
      /\ UNCHANGED <<script, opened, sock, sent, fin, rst, out, taken, nospace, edge>>
      /\ UNCHANGED <<ctxVars, flagVars, base, currentRequestOffset, nextRequestOffset,
                     httpBodyOffset, reqNo, left, svcVars>>
      /\ UNCHANGED <<callVars, site, ret, res, closing, rejecting>>
  BY DEF RecvData, rest, got
<1>8. TypeOK'
  <2>1. SockTypeOK'
    BY <1>2, <1>3, <1>7 DEF IInv, TypeOK, SockTypeOK
  <2>2. size' \in [Conn -> Nat]
    BY <1>2, <1>3, <1>7, ReadTypes
  <2>3. rest \in Nat
    BY <1>4
  <2>4. httpBodyRemaining' \in [Conn -> Nat]
    BY <1>2, <1>7, <2>3, ReadTypes
  <2>5. at' \in Places
    BY <1>7 DEF Places
  <2>6. HandlerTypeOK'
    BY <1>7, <2>2, <2>4, <2>5 DEF IInv, TypeOK, HandlerTypeOK
  <2> QED
    BY <2>1, <2>6 DEF TypeOK
<1>9. ClientsMatchSockets'
  BY <1>7 DEF IInv, ClientsMatchSockets
<1>10. FlagsInv'
  BY <1>2, <1>4, <1>5, <1>7 DEF IInv, FlagsInv, Held, TypeOK, HandlerTypeOK
<1>11. BusyInv' /\ LifeInv'
  BY <1>7 DEF IInv, BusyInv, Busy, LifeInv
<1>12. BodyInv'
  BY <1>2, <1>4, <1>6, <1>7 DEF IInv, BodyInv, TypeOK, HandlerTypeOK
<1>13. CallInv'
  BY <1>1, <1>2, <1>4, <1>5, <1>6, <1>7
     DEF IInv, CallInv, FlagsInv, Held, TypeOK, HandlerTypeOK
<1> QED
  BY <1>8, <1>9, <1>10, <1>11, <1>12, <1>13 DEF IInv

\* Until a request is parsed its context has no message in the works.
LEMMA ParseClean ==
    ASSUME IInv, at = "parse"
    PROVE  /\ ctx \in Conn
           /\ ctx \notin writing \cup processing \cup needTryNext
           /\ ~Busy(ctx)
BY ThreadContext DEF IInv, CallInv, FlagsInv, BusyInv, Held

LEMMA ParseAgainStep ==
    ASSUME IInv, ParseAgain
    PROVE  IInv'
<1> USE DEF sockVars, ctxVars, flagVars, readVars, svcVars, callVars, localVars
<1>1. at = "parse"
  BY DEF ParseAgain
<1>2. ctx \in Conn
  BY <1>1, ThreadContext
<1>3. /\ Minus64(size[ctx], currentRequestOffset[ctx]) \in Nat
      /\ INVALID \in Nat
  BY <1>2, Minus64Type, ReadTypes
<1>4. /\ at' \in {"recv", "readDone"}
      /\ site = "next" => at' = "recv" /\ site' = "more"
      /\ site # "next" => site' = site
      /\ ret' \in {ret, "Success"}
      /\ base' = base \/ base' = [base EXCEPT ![ctx] = @ + currentRequestOffset[ctx]]
      /\ size' = size \/ size' = [size EXCEPT ![ctx] = Minus64(@, currentRequestOffset[ctx])]
      /\ currentRequestOffset' \in {currentRequestOffset, [currentRequestOffset EXCEPT ![ctx] = 0]}
      /\ nextRequestOffset' \in {nextRequestOffset, [nextRequestOffset EXCEPT ![ctx] = INVALID]}
      /\ UNCHANGED <<sockVars, ctxVars, flagVars, httpBodyOffset, httpBodyRemaining, reqNo,
                     left, svcVars, callVars, localVars>>
  BY DEF ParseAgain, GoTo, LeaveRead, Return
<1>5. TypeOK'
  <2>1. SockTypeOK'
    BY <1>4 DEF IInv, TypeOK, SockTypeOK
  <2>2. base' \in [Conn -> Nat]
    BY <1>2, <1>4, ReadTypes
  <2>3. size' \in [Conn -> Nat]
    BY <1>2, <1>3, <1>4, ReadTypes
  <2>4. /\ currentRequestOffset' \in [Conn -> Nat]
        /\ nextRequestOffset' \in [Conn -> Nat]
    BY <1>2, <1>4, ReadTypes
  <2>5. at' \in Places
    BY <1>4 DEF Places
  <2>6. HandlerTypeOK'
    BY <1>4, <2>2, <2>3, <2>4, <2>5, ZenonT(30) DEF IInv, TypeOK, HandlerTypeOK
  <2> QED
    BY <2>1, <2>6 DEF TypeOK
<1>6. ClientsMatchSockets' /\ FlagsInv' /\ LifeInv' /\ BodyInv'
  BY <1>4 DEF IInv, ClientsMatchSockets, FlagsInv, Held, LifeInv, BodyInv
<1>7. BusyInv'
  BY <1>4 DEF IInv, BusyInv, Busy
<1>8. CallInv'
  BY <1>1, <1>4 DEF IInv, CallInv, TypeOK, HandlerTypeOK
<1> QED
  BY <1>5, <1>6, <1>7, <1>8 DEF IInv

LEMMA ParseAstrayStep ==
    ASSUME IInv, ParseAstray
    PROVE  IInv'
<1> USE DEF sockVars, ctxVars, flagVars, readVars, svcVars, callVars, localVars
<1>1. /\ at = "parse" /\ at' = "astray"
      /\ UNCHANGED <<sockVars, ctxVars, flagVars, readVars, left, svcVars,
                     callVars, site, ret, localVars>>
  BY DEF ParseAstray, GoTo
<1>2. TypeOK'
  BY <1>1, ZenonT(60) DEF IInv, TypeOK, SockTypeOK, HandlerTypeOK, Places
<1>3. ClientsMatchSockets' /\ FlagsInv' /\ LifeInv' /\ BodyInv'
  BY <1>1 DEF IInv, ClientsMatchSockets, FlagsInv, Held, LifeInv, BodyInv
<1>4. BusyInv'
  BY <1>1 DEF IInv, BusyInv, Busy
<1>5. CallInv'
  BY <1>1 DEF IInv, CallInv
<1> QED
  BY <1>2, <1>3, <1>4, <1>5 DEF IInv

\* A Header-phase filter, or parseHttpHeader, throws.
LEMMA ParseThrowsStep ==
    ASSUME IInv, ParseRefused \/ ParseFailed
    PROVE  IInv'
<1> USE DEF sockVars, ctxVars, flagVars, readVars, svcVars, callVars, localVars
<1>1. at = "parse"
  BY DEF ParseRefused, ParseFailed
<1>2. ctx \in Conn /\ Frame \in Frames
  BY <1>1, ThreadContext
<1>3. PICK k \in HeadersRead(ctx) :
        /\ httpBodyOffset' = [httpBodyOffset EXCEPT ![ctx] = script[ctx][k].body - base[ctx]]
        /\ reqNo' = [reqNo EXCEPT ![ctx] = k]
  BY DEF ParseRefused, ParseFailed
<1>4. k \in Nat /\ script[ctx][k].body - base[ctx] \in Nat \ {0}
  BY <1>2, HeaderFound DEF IInv
<1>5. /\ UNCHANGED <<sockVars, ctxVars, flagVars, base, size, currentRequestOffset,
                      nextRequestOffset, httpBodyRemaining, left, svcVars>>
      /\ UNCHANGED <<callVars, short, res, closing>>
      /\ rejecting' \in {rejecting, rejecting \cup {Frame}}
      /\ site' \in {site, "event"} /\ ret' \in {ret, "Close"}
      /\ at' \in {"respond", "readDone", "down"}
      /\ at' = "readDone" => via = "read"
  BY DEF ParseRefused, ParseFailed
<1>6. /\ httpBodyOffset' \in [Conn -> Nat]
      /\ reqNo' \in [Conn -> Nat]
      /\ httpBodyOffset'[ctx] # 0
      /\ httpBodyOffset[ctx] = 0
      /\ \A c \in Conn \ {ctx} : httpBodyOffset'[c] = httpBodyOffset[c]
  BY <1>1, <1>2, <1>3, <1>4, ReadTypes DEF IInv, CallInv
<1>7. TypeOK'
  <2>1. SockTypeOK'
    BY <1>5 DEF IInv, TypeOK, SockTypeOK
  <2>2. /\ rejecting' \subseteq Frames /\ at' \in Places
        /\ site' \in {"event", "next", "more"}
        /\ ret' \in {"Success", "Done", "Again", "Close"}
    BY <1>2, <1>5 DEF IInv, TypeOK, HandlerTypeOK, Places
  <2>3. HandlerTypeOK'
    BY <1>5, <1>6, <2>2 DEF IInv, TypeOK, HandlerTypeOK
  <2> QED
    BY <2>1, <2>3 DEF TypeOK
<1>8. ClientsMatchSockets' /\ LifeInv'
  BY <1>5 DEF IInv, ClientsMatchSockets, LifeInv
<1>9. FlagsInv' /\ BodyInv'
  BY <1>2, <1>5, <1>6, <1>1, ParseClean DEF IInv, FlagsInv, BodyInv, Held
<1>10. BusyInv'
  BY <1>5 DEF IInv, BusyInv, Busy
<1>11. ~ Busy(ctx)'
  BY <1>1, <1>5, ParseClean DEF Busy
<1>12. CallInv'
  BY <1>1, <1>2, <1>5, <1>6, <1>11 DEF IInv, CallInv, Held
<1> QED
  BY <1>7, <1>8, <1>9, <1>10, <1>12 DEF IInv

LEMMA ParseDoneStep ==
    ASSUME IInv, ParseDone
    PROVE  IInv'
<1> USE DEF sockVars, ctxVars, flagVars, readVars, svcVars, callVars, localVars
<1>1. at = "parse"
  BY DEF ParseDone
<1>2. ctx \in Conn
  BY <1>1, ThreadContext
<1>3. PICK k \in HeadersRead(ctx) :
        LET r == script[ctx][k]
            again == site = "next" /\ BodyRest(ctx, r) # 0
        IN
        /\ reqNo' = [reqNo EXCEPT ![ctx] = k]
        /\ keepAliveConnection' \in {keepAliveConnection \cup {ctx}, keepAliveConnection \ {ctx}}
        /\ httpBodyOffset' = [httpBodyOffset EXCEPT ![ctx] = r.body - base[ctx]]
        /\ httpBodyRemaining' = [httpBodyRemaining EXCEPT ![ctx] = BodyRest(ctx, r)]
        /\ usePoolBody' \in {usePoolBody \cup {ctx}, usePoolBody}
        /\ nextRequestOffset' = [nextRequestOffset EXCEPT
                                   ![ctx] = IF again THEN INVALID ELSE AfterRequest(ctx, r)]
        /\ at' = IF BodyRest(ctx, r) = 0 THEN "dispatch" ELSE "recv"
        /\ site' = IF again THEN "more" ELSE site
  BY DEF ParseDone
<1> DEFINE r == script[ctx][k]
<1>4. k \in Nat /\ r \in Request /\ r.body - base[ctx] \in Nat \ {0}
  BY <1>2, HeaderFound DEF IInv
<1> HIDE DEF r
<1>5. r.length \in Nat /\ r.body \in Nat /\ base[ctx] \in Nat /\ size[ctx] \in Nat
  <2>1. r.length \in 0 .. MaxU64 /\ r.body \in Nat
    BY <1>4 DEF Request
  <2> QED
    BY <1>2, <2>1, ReadTypes
<1>6. BodyRest(ctx, r) \in Nat
  <2> DEFINE total == r.body - base[ctx] + r.length
  <2>1. total \in Int /\ size[ctx] \in Int
    BY <1>5
  <2>2. BodyRest(ctx, r) = IF r.length = INVALID THEN 0 ELSE Minus64(total, size[ctx])
    BY DEF BodyRest
  <2> HIDE DEF total
  <2>3. Minus64(total, size[ctx]) \in 0 .. MaxU64
    BY <2>1, Minus64Type
  <2> QED
    BY <2>2, <2>3
<1>7. AfterRequest(ctx, r) \in Nat /\ INVALID \in Nat
  BY <1>4, <1>5, ReadTypes DEF AfterRequest
<1>8. /\ reqNo' = [reqNo EXCEPT ![ctx] = k]
      /\ keepAliveConnection' \in {keepAliveConnection \cup {ctx}, keepAliveConnection \ {ctx}}
      /\ httpBodyOffset' = [httpBodyOffset EXCEPT ![ctx] = r.body - base[ctx]]
      /\ httpBodyRemaining' = [httpBodyRemaining EXCEPT ![ctx] = BodyRest(ctx, r)]
      /\ usePoolBody' \in {usePoolBody \cup {ctx}, usePoolBody}
      /\ \/ nextRequestOffset' = [nextRequestOffset EXCEPT ![ctx] = INVALID]
         \/ nextRequestOffset' = [nextRequestOffset EXCEPT ![ctx] = AfterRequest(ctx, r)]
      /\ at' = IF BodyRest(ctx, r) = 0 THEN "dispatch" ELSE "recv"
      /\ site' = site \/ (site = "next" /\ site' = "more")
  BY <1>3 DEF r
<1>9. /\ UNCHANGED <<callVars, ret, localVars>>
      /\ UNCHANGED <<sockVars, ctxVars, processing, pipeline, needTryNext, writing,
                      base, size, currentRequestOffset, left, svcVars>>
  BY DEF ParseDone
<1>10. /\ httpBodyOffset' \in [Conn -> Nat] /\ httpBodyOffset'[ctx] # 0
       /\ reqNo' \in [Conn -> Nat]
       /\ \A c \in Conn \ {ctx} : httpBodyOffset'[c] = httpBodyOffset[c]
  BY <1>2, <1>4, <1>8, ReadTypes
<1>11. /\ httpBodyRemaining' \in [Conn -> Nat]
       /\ httpBodyRemaining'[ctx] = BodyRest(ctx, r)
       /\ \A c \in Conn \ {ctx} : httpBodyRemaining'[c] = httpBodyRemaining[c]
  BY <1>2, <1>6, <1>8, ReadTypes
<1>12. nextRequestOffset' \in [Conn -> Nat]
  BY <1>2, <1>7, <1>8, ReadTypes
<1>13. TypeOK'
  <2>1. SockTypeOK'
    BY <1>9 DEF IInv, TypeOK, SockTypeOK
  <2>2. keepAliveConnection' \subseteq Conn /\ usePoolBody' \subseteq Conn
    BY <1>2, <1>8 DEF IInv, TypeOK, HandlerTypeOK
  <2>3. at' \in Places /\ site' \in {"event", "next", "more"}
    BY <1>8 DEF Places, IInv, TypeOK, HandlerTypeOK
  <2>4. HandlerTypeOK'
    BY <1>9, <1>10, <1>11, <1>12, <2>2, <2>3 DEF IInv, TypeOK, HandlerTypeOK
  <2> QED
    BY <2>1, <2>4 DEF TypeOK
<1>14. ClientsMatchSockets' /\ LifeInv'
  BY <1>9 DEF IInv, ClientsMatchSockets, LifeInv
<1>15. FlagsInv' /\ BodyInv'
  BY <1>1, <1>9, <1>10, <1>11, ParseClean DEF IInv, FlagsInv, BodyInv, Held
<1>16. BusyInv'
  BY <1>9 DEF IInv, BusyInv, Busy
<1>17. CallInv'
  BY <1>1, <1>8, <1>9, <1>10, <1>11, ParseClean DEF IInv, CallInv, Held
<1> QED
  BY <1>13, <1>14, <1>15, <1>16, <1>17 DEF IInv

------------------------------------------------------------------------------
(* Dispatching and answering.                                              *)

LEMMA ProcessRequestStep ==
    ASSUME IInv, ProcessRequest
    PROVE  IInv'
<1> USE DEF sockVars, ctxVars, flagVars, readVars, svcVars, callVars, localVars
<1>1. at = "dispatch"
  BY DEF ProcessRequest
<1>2. ctx \in Conn /\ Frame \in Frames /\ ctx \in opened /\ ctxFd[ctx] \in Fd
  BY <1>1, ThreadContext
<1>3. /\ life[ctx] = "live" /\ Held(ctx)
      /\ ctx \notin writing \cup processing \cup needTryNext
      /\ ~Busy(ctx)
  BY <1>1, <1>2 DEF IInv, CallInv, BusyInv
<1>4. /\ processing' = processing \cup {ctx}
      /\ \/ at' = "respond" /\ pending' = pending
         \/ /\ pending' = pending \cup {ctx}
            /\ at' = IF site = "next" THEN "looped" ELSE "readDone"
      /\ rejecting' \in {rejecting, rejecting \cup {Frame}}
      /\ ret' \in {ret, "Success"}
      /\ UNCHANGED <<callVars, site, short, res, closing>>
      /\ UNCHANGED <<sockVars, ctxVars, keepAliveConnection, pipeline, needTryNext, writing,
                      usePoolBody, readVars, left, tasks>>
  BY DEF ProcessRequest
<1>5. TypeOK'
  <2>1. SockTypeOK'
    BY <1>4 DEF IInv, TypeOK, SockTypeOK
  <2>2. /\ processing' \subseteq Conn /\ pending' \subseteq Conn
        /\ rejecting' \subseteq Frames /\ at' \in Places
        /\ ret' \in {"Success", "Done", "Again", "Close"}
    BY <1>2, <1>4 DEF IInv, TypeOK, HandlerTypeOK, Places
  <2>3. HandlerTypeOK'
    BY <1>4, <2>2 DEF IInv, TypeOK, HandlerTypeOK
  <2> QED
    BY <2>1, <2>3 DEF TypeOK
<1>6. ClientsMatchSockets' /\ LifeInv'
  BY <1>2, <1>4 DEF IInv, ClientsMatchSockets, LifeInv
<1>7. FlagsInv' /\ BodyInv'
  BY <1>3, <1>4 DEF IInv, FlagsInv, BodyInv, Held
<1>8. BusyInv'
  BY <1>2, <1>3, <1>4 DEF IInv, BusyInv, Busy
<1>9. CallInv'
  BY <1>1, <1>2, <1>3, <1>4 DEF IInv, CallInv, Held, Busy
<1> QED
  BY <1>5, <1>6, <1>7, <1>8, <1>9 DEF IInv

LEMMA ProcessResponseStep ==
    ASSUME IInv, ProcessResponse
    PROVE  IInv'
<1> USE DEF sockVars, ctxVars, flagVars, readVars, svcVars, callVars, localVars
<1>1. at = "respond"
  BY DEF ProcessResponse
<1>2. ctx \in Conn /\ Frame \in Frames
  BY <1>1, ThreadContext
<1>3. Held(ctx) /\ ~Busy(ctx)
  BY <1>1 DEF IInv, CallInv
<1>4. /\ writing' = writing \cup {ctx}
      /\ left' = [left EXCEPT ![ctx] = RespUnits]
      /\ closing' \in {closing \ {Frame}, closing \cup {Frame}}
      /\ at' = "send"
      /\ UNCHANGED <<callVars, site, ret, short, res, rejecting>>
      /\ UNCHANGED <<sockVars, ctxVars, keepAliveConnection, processing, pipeline, needTryNext,
                      usePoolBody, readVars, svcVars>>
  BY DEF ProcessResponse
<1>5. TypeOK'
  <2>1. SockTypeOK'
    BY <1>4 DEF IInv, TypeOK, SockTypeOK
  <2>2. RespUnits \in 0 .. RespUnits
    BY SocketsAssumption
  <2>3. left' \in [Conn -> 0 .. RespUnits]
    BY <1>2, <1>4, <2>2, ReadTypes
  <2>4. writing' \subseteq Conn /\ closing' \subseteq Frames /\ at' \in Places
    BY <1>2, <1>4 DEF IInv, TypeOK, HandlerTypeOK, Places
  <2>5. HandlerTypeOK'
    BY <1>4, <2>3, <2>4 DEF IInv, TypeOK, HandlerTypeOK
  <2> QED
    BY <2>1, <2>5 DEF TypeOK
<1>6. ClientsMatchSockets' /\ LifeInv' /\ BodyInv'
  BY <1>4 DEF IInv, ClientsMatchSockets, LifeInv, BodyInv
<1>7. FlagsInv'
  BY <1>3, <1>4 DEF IInv, FlagsInv, Held
<1>8. BusyInv'
  BY <1>3, <1>4 DEF IInv, BusyInv, Busy
<1>9. CallInv'
  BY <1>1, <1>2, <1>3, <1>4 DEF IInv, CallInv, Held, Busy
<1> QED
  BY <1>5, <1>6, <1>7, <1>8, <1>9 DEF IInv

LEMMA SendDataStep ==
    ASSUME IInv, SendData
    PROVE  IInv'
<1> USE DEF sockVars, ctxVars, flagVars, readVars, svcVars, callVars, localVars
<1> DEFINE d == sock[ctxFd[ctx]]
           n == Lesser(left[ctx], Room(d))
<1>1. at = "send" /\ d # None /\ n > 0
  BY DEF SendData
<1>2. ctx \in Conn /\ ctxFd[ctx] \in Fd
  BY <1>1, ThreadContext
<1>3. d \in Conn
  BY <1>1, <1>2 DEF IInv, TypeOK, SockTypeOK
<1>4. left[ctx] \in 0 .. RespUnits /\ reqNo[ctx] \in Nat /\ RespUnits \in Nat
  BY <1>2, ReadTypes, SocketsAssumption
<1>5. n \in 1 .. left[ctx]
  <2>1. out[d] \in Seq(Unit) /\ taken[d] \in Nat
    BY <1>3 DEF IInv, TypeOK, SockTypeOK
  <2>2. Len(out[d]) \in Nat
    BY <2>1
  <2>3. Room(d) \in Int
    BY <2>1, <2>2, SocketsAssumption DEF Room
  <2> QED
    BY <1>1, <1>4, <2>3 DEF Lesser
<1> HIDE DEF n
<1>6. NextUnits(ctx, n) \in Seq(Unit)
  <2>1. \A i \in 1 .. n : RespUnits - left[ctx] + i \in Nat
    BY <1>4, <1>5
  <2>2. \A i \in 1 .. n :
          [by |-> ctx, req |-> reqNo[ctx], unit |-> RespUnits - left[ctx] + i] \in Unit
    BY <1>2, <1>4, <2>1 DEF Unit
  <2>3. NextUnits(ctx, n) \in [1 .. n -> Unit]
    BY <2>2 DEF NextUnits
  <2>4. n \in Nat
    BY <1>4, <1>5
  <2> QED
    BY <2>3, <2>4
<1>7. /\ out' = [out EXCEPT ![d] = @ \o NextUnits(ctx, n)]
      /\ left' = [left EXCEPT ![ctx] = @ - n]
      /\ at' \in {"written", "send"}
      /\ UNCHANGED <<script, opened, sock, sent, rcvd, fin, rst, taken, nospace, edge>>
      /\ UNCHANGED <<ctxVars, flagVars, readVars, svcVars, callVars, site, ret, localVars>>
  BY DEF SendData, GoTo, n
<1> HIDE DEF d
<1>8. TypeOK'
  <2>1. out' \in [Conn -> Seq(Unit)]
    <3>1. out \in [Conn -> Seq(Unit)]
      BY DEF IInv, TypeOK, SockTypeOK
    <3>2. out[d] \o NextUnits(ctx, n) \in Seq(Unit)
      BY <1>3, <1>6, <3>1
    <3> QED
      BY <1>7, <3>1, <3>2
  <2>2. SockTypeOK'
    BY <1>7, <2>1 DEF IInv, TypeOK, SockTypeOK
  <2>3. left[ctx] - n \in 0 .. RespUnits
    BY <1>4, <1>5
  <2>4. left' \in [Conn -> 0 .. RespUnits]
    BY <1>2, <1>7, <2>3, ReadTypes
  <2>5. at' \in Places
    BY <1>7 DEF Places
  <2>6. HandlerTypeOK'
    BY <1>7, <2>4, <2>5 DEF IInv, TypeOK, HandlerTypeOK
  <2> QED
    BY <2>2, <2>6 DEF TypeOK
<1>9. ClientsMatchSockets' /\ LifeInv' /\ BodyInv' /\ FlagsInv'
  BY <1>7 DEF IInv, ClientsMatchSockets, LifeInv, BodyInv, FlagsInv, Held
<1>10. BusyInv'
  BY <1>7 DEF IInv, BusyInv, Busy
<1>11. CallInv'
  BY <1>1, <1>7 DEF IInv, CallInv, Held, Busy
<1> QED
  BY <1>8, <1>9, <1>10, <1>11 DEF IInv

\* send fails, for want of space or for good.
LEMMA SendFailsStep ==
    ASSUME IInv, SendNothing \/ SendAgain \/ SendError
    PROVE  IInv'
<1> USE DEF sockVars, ctxVars, flagVars, readVars, svcVars, callVars, localVars
<1>1. at = "send"
  BY DEF SendNothing, SendAgain, SendError
<1>2. /\ at' \in {"responded", "written"} /\ ret' \in {ret, "Again"}
      /\ UNCHANGED <<script, opened, sock, sent, rcvd, fin, rst, out, taken, edge>>
      /\ UNCHANGED <<ctxVars, flagVars, readVars, left, svcVars, callVars, site, localVars>>
  BY DEF SendNothing, SendAgain, SendError, GoTo, Return
<1>3. nospace' \subseteq Conn
  <2>1. ctxFd[ctx] \in Fd
    BY <1>1, ThreadContext
  <2>2. sock[ctxFd[ctx]] \in Conn \cup {None} /\ nospace \subseteq Conn
    BY <2>1 DEF IInv, TypeOK, SockTypeOK
  <2> QED
    BY <2>2 DEF SendNothing, SendAgain, SendError
<1>4. TypeOK'
  <2>1. SockTypeOK'
    BY <1>2, <1>3 DEF IInv, TypeOK, SockTypeOK
  <2>2. at' \in Places /\ ret' \in {"Success", "Done", "Again", "Close"}
    BY <1>2 DEF IInv, TypeOK, HandlerTypeOK, Places
  <2>3. HandlerTypeOK'
    BY <1>2, <2>2 DEF IInv, TypeOK, HandlerTypeOK
  <2> QED
    BY <2>1, <2>3 DEF TypeOK
<1>5. ClientsMatchSockets' /\ LifeInv' /\ BodyInv' /\ FlagsInv'
  BY <1>2 DEF IInv, ClientsMatchSockets, LifeInv, BodyInv, FlagsInv, Held
<1>6. BusyInv'
  BY <1>2 DEF IInv, BusyInv, Busy
<1>7. CallInv'
  BY <1>1, <1>2 DEF IInv, CallInv, Held, Busy
<1> QED
  BY <1>4, <1>5, <1>6, <1>7 DEF IInv

\* A context deleted here is not in clients, and no operation has it.
LEMMA ResponseWrittenStep ==
    ASSUME IInv, ResponseWritten
    PROVE  IInv'
<1> USE DEF sockVars, ctxVars, flagVars, readVars, svcVars, callVars, localVars
<1>1. at = "written"
  BY DEF ResponseWritten
<1>2. ctx \in Conn /\ ctx \in opened /\ ctxFd[ctx] \in Fd
  BY <1>1, ThreadContext
<1>3. Held(ctx) /\ ~Busy(ctx) /\ life[ctx] = "live"
  BY <1>1 DEF IInv, CallInv
<1>4. life \in [Conn -> {"none", "live", "freed"}]
  BY DEF IInv, TypeOK, HandlerTypeOK
<1>5. /\ processing' = processing \ {ctx}
      /\ UNCHANGED <<sockVars, clients, ctxFd, deleteLater, keepAliveConnection, writing,
                      usePoolBody, readVars, left, svcVars>>
      /\ UNCHANGED <<callVars, site, short, closing, rejecting>>
      /\ \/ /\ ctx \in pipeline
            /\ needTryNext' = needTryNext \cup {ctx}
            /\ at' = "responded" /\ ret' = "Done"
            /\ UNCHANGED <<life, pipeline, res>>
         \/ /\ ctx \notin pipeline /\ ctx \in deleteLater
            /\ life' = [life EXCEPT ![ctx] = "freed"]
            /\ at' = "responded" /\ ret' = "Done"
            /\ UNCHANGED <<needTryNext, pipeline, res>>
         \/ /\ pipeline' = pipeline \cup {ctx}
            /\ at' = "next" /\ res' = "Done"
            /\ UNCHANGED <<life, needTryNext, ret>>
  BY DEF ResponseWritten, Return
<1>6. /\ life' \in [Conn -> {"none", "live", "freed"}]
      /\ \A c \in Conn : life'[c] # life[c] => c = ctx /\ c \in deleteLater /\ c \notin pipeline
                                               /\ life'[c] = "freed"
  BY <1>2, <1>4, <1>5
<1>7. TypeOK'
  <2>1. SockTypeOK'
    BY <1>5 DEF IInv, TypeOK, SockTypeOK
  <2>2. /\ processing' \subseteq Conn /\ pipeline' \subseteq Conn /\ needTryNext' \subseteq Conn
        /\ at' \in Places /\ res' \in {"Done", "Close"}
        /\ ret' \in {"Success", "Done", "Again", "Close"}
    BY <1>2, <1>5 DEF IInv, TypeOK, HandlerTypeOK, Places
  <2>3. HandlerTypeOK'
    BY <1>5, <1>6, <2>2 DEF IInv, TypeOK, HandlerTypeOK
  <2> QED
    BY <2>1, <2>3 DEF TypeOK
<1>8. ClientsMatchSockets'
  <2>1. \A f \in Fd : clients[f] \in Conn \cup {None}
    BY DEF IInv, TypeOK, HandlerTypeOK
  <2> QED
    BY <1>5, <1>6, <2>1 DEF IInv, ClientsMatchSockets
<1>9. LifeInv'
  BY <1>2, <1>3, <1>5, <1>6 DEF IInv, LifeInv
<1>10. FlagsInv' /\ BodyInv'
  BY <1>3, <1>5 DEF IInv, FlagsInv, BodyInv, Held
<1>11. BusyInv'
  <2>1. \A c \in Conn : Busy(c)' <=> Busy(c)
    BY <1>5 DEF Busy
  <2>2. \A c \in Conn : Busy(c) => c # ctx
    BY <1>3
  <2>3. \A c \in Conn : Busy(c) => /\ life'[c] = "live" /\ ctxFd'[c] \in Fd
                                   /\ c \in processing' /\ c \notin writing' \cup needTryNext'
    BY <1>5, <1>6, <2>2 DEF IInv, BusyInv
  <2> QED
    BY <1>5, <2>1, <2>3 DEF IInv, BusyInv
<1>12. CallInv'
  BY <1>1, <1>2, <1>3, <1>5, <1>6 DEF IInv, CallInv, Held, Busy
<1> QED
  BY <1>7, <1>8, <1>9, <1>10, <1>11, <1>12 DEF IInv

LEMMA TryNextRequestStep ==
    ASSUME IInv, TryNextRequest
    PROVE  IInv'
<1> USE DEF sockVars, ctxVars, flagVars, readVars, svcVars, callVars, localVars
<1>1. at = "next"
  BY DEF TryNextRequest, NothingFollows
<1>2. ctx \in Conn
  BY <1>1, ThreadContext
<1>3. Held(ctx) /\ ~Busy(ctx) /\ life[ctx] = "live" /\ ctx \in pipeline \ processing
  BY <1>1 DEF IInv, CallInv
<1>4. /\ writing' = writing \ {ctx}
      /\ needTryNext' = needTryNext \ {ctx}
      /\ usePoolBody' = usePoolBody \ {ctx}
      /\ httpBodyOffset' = [httpBodyOffset EXCEPT ![ctx] = 0]
      /\ httpBodyRemaining' = [httpBodyRemaining EXCEPT ![ctx] = INVALID]
      /\ left' = [left EXCEPT ![ctx] = 0]
      /\ base' = base \/ base' = [base EXCEPT ![ctx] = rcvd[ctx]]
      /\ size' = size \/ size' = [size EXCEPT ![ctx] = 0]
      /\ \/ currentRequestOffset' = [currentRequestOffset EXCEPT ![ctx] = 0]
         \/ currentRequestOffset' = [currentRequestOffset EXCEPT ![ctx] = nextRequestOffset[ctx]]
      /\ \/ nextRequestOffset' = nextRequestOffset
         \/ nextRequestOffset' = [nextRequestOffset EXCEPT ![ctx] = INVALID]
      /\ \/ at' = "recv" /\ site' = "more"
         \/ at' = "parse" /\ site' = "next"
      /\ UNCHANGED <<callVars, ret, localVars>>
      /\ UNCHANGED <<sockVars, ctxVars, keepAliveConnection, processing, pipeline, reqNo, svcVars>>
  <2> DEFINE empty == nextRequestOffset[ctx] = INVALID \/ size[ctx] = nextRequestOffset[ctx]
  <2>1. CASE empty
    BY <2>1 DEF TryNextRequest, NothingFollows, ResetContext
  <2>2. CASE ~empty
    BY <2>2 DEF TryNextRequest, NothingFollows, ResetContext
  <2> QED
    BY <2>1, <2>2
<1>5. /\ httpBodyOffset' \in [Conn -> Nat] /\ httpBodyOffset'[ctx] = 0
      /\ httpBodyRemaining' \in [Conn -> Nat] /\ httpBodyRemaining'[ctx] = INVALID
      /\ \A c \in Conn \ {ctx} : /\ httpBodyOffset'[c] = httpBodyOffset[c]
                                  /\ httpBodyRemaining'[c] = httpBodyRemaining[c]
  BY <1>2, <1>4, ReadTypes
<1>6. TypeOK'
  <2>1. SockTypeOK'
    BY <1>4 DEF IInv, TypeOK, SockTypeOK
  <2>2. base' \in [Conn -> Nat] /\ size' \in [Conn -> Nat]
    BY <1>2, <1>4, ReadTypes
  <2>3. currentRequestOffset' \in [Conn -> Nat] /\ nextRequestOffset' \in [Conn -> Nat]
    BY <1>2, <1>4, ReadTypes
  <2>4. left' \in [Conn -> 0 .. RespUnits]
    BY <1>2, <1>4, ReadTypes, SocketsAssumption
  <2>5. /\ writing' \subseteq Conn /\ needTryNext' \subseteq Conn /\ usePoolBody' \subseteq Conn
        /\ at' \in Places /\ site' \in {"event", "next", "more"}
    BY <1>4 DEF IInv, TypeOK, HandlerTypeOK, Places
  <2>6. HandlerTypeOK'
    BY <1>4, <1>5, <2>2, <2>3, <2>4, <2>5 DEF IInv, TypeOK, HandlerTypeOK
  <2> QED
    BY <2>1, <2>6 DEF TypeOK
<1>7. ClientsMatchSockets' /\ LifeInv'
  BY <1>4 DEF IInv, ClientsMatchSockets, LifeInv
<1>8. FlagsInv' /\ BodyInv'
  BY <1>3, <1>4, <1>5 DEF IInv, FlagsInv, BodyInv, Held
<1>9. BusyInv'
  BY <1>4 DEF IInv, BusyInv, Busy
<1>10. CallInv'
  BY <1>1, <1>2, <1>3, <1>4, <1>5 DEF IInv, CallInv
<1> QED
  BY <1>6, <1>7, <1>8, <1>9, <1>10 DEF IInv

LEMMA LoopNextStep ==
    ASSUME IInv, LoopNext
    PROVE  IInv'
<1> USE DEF sockVars, ctxVars, flagVars, readVars, svcVars, callVars, localVars
<1>1. at = "looped"
  BY DEF LoopNext
<1>2. ctx \in Conn /\ ctx \in opened /\ ctxFd[ctx] \in Fd
  BY <1>1, ThreadContext
<1>3. site # "event" /\ life[ctx] = "live" /\ ctx \in pipeline
  BY <1>1 DEF IInv, CallInv
<1>4. /\ needTryNext' \in {needTryNext, needTryNext \ {ctx}}
      /\ UNCHANGED <<sockVars, ctxVars, keepAliveConnection, processing, writing,
                      usePoolBody, readVars, left, svcVars>>
      /\ UNCHANGED <<callVars, short, closing, rejecting>>
      /\ \/ /\ ctx \in needTryNext /\ pipeline' = pipeline
            /\ at' = "next" /\ UNCHANGED <<site, ret, res>>
         \/ /\ pipeline' = pipeline \ {ctx}
            /\ at' = "responded" /\ site' = "event"
            /\ ret' \in {"Close", res} /\ res' \in {"Close", res}
  BY DEF LoopNext, LoopLeft, GoTo
<1>5. TypeOK'
  <2>1. SockTypeOK'
    BY <1>4 DEF IInv, TypeOK, SockTypeOK
  <2>2. /\ needTryNext' \subseteq Conn /\ pipeline' \subseteq Conn
        /\ at' \in Places /\ site' \in {"event", "next", "more"} /\ res' \in {"Done", "Close"}
        /\ ret' \in {"Success", "Done", "Again", "Close"}
    BY <1>4 DEF IInv, TypeOK, HandlerTypeOK, Places
  <2>3. HandlerTypeOK'
    BY <1>4, <2>2 DEF IInv, TypeOK, HandlerTypeOK
  <2> QED
    BY <2>1, <2>3 DEF TypeOK
<1>6. ClientsMatchSockets' /\ LifeInv' /\ BodyInv' /\ FlagsInv'
  BY <1>4 DEF IInv, ClientsMatchSockets, LifeInv, BodyInv, FlagsInv, Held
<1>7. BusyInv'
  BY <1>4 DEF IInv, BusyInv, Busy
<1>8. ctx \in needTryNext => Held(ctx) /\ ~Busy(ctx) /\ ctx \notin processing
  BY <1>2 DEF IInv, FlagsInv, BusyInv
<1>9. CallInv'
  BY <1>2, <1>3, <1>4, <1>8 DEF IInv, CallInv, Held, Busy
<1> QED
  BY <1>5, <1>6, <1>7, <1>9 DEF IInv

------------------------------------------------------------------------------
(* Closing.                                                                *)

\* A descriptor that has a context has one of its own.
LEMMA ClientsDiffer ==
    ASSUME IInv, NEW f \in Fd, NEW g \in Fd, clients[f] = clients[g], clients[f] # None
    PROVE  f = g
BY DEF IInv, ClientsMatchSockets

\* Server::closeConnection, whatever descriptor it is called with, leaves no
\* context behind in the map and deletes none that an operation or
\* writeNextPart's loop still has.
LEMMA CloseConnectionStep ==
    ASSUME IInv, NEW f \in Fd, CloseConnection(f),
           UNCHANGED <<flagVars, readVars, svcVars>>
    PROVE  /\ SockTypeOK'
           /\ clients' \in [Fd -> Conn \cup {None}] /\ ctxFd' = ctxFd /\ opened' = opened
           /\ life' \in [Conn -> {"none", "live", "freed"}]
           /\ deleteLater' \subseteq Conn
           /\ \A c \in pipeline : life'[c] = life[c]
           /\ ClientsMatchSockets' /\ FlagsInv' /\ BusyInv' /\ LifeInv' /\ BodyInv'
<1> USE DEF flagVars, readVars, svcVars
<1> DEFINE c == clients[f]
<1>1. c \in Conn \cup {None} /\ sock[f] = c
  BY DEF IInv, TypeOK, HandlerTypeOK, ClientsMatchSockets
<1>2. c # None => c \in Conn /\ life[c] = "live" /\ c \notin deleteLater /\ c \in opened
  BY <1>1 DEF IInv, ClientsMatchSockets, LifeInv
<1>3. /\ sock' = [sock EXCEPT ![f] = None]
      /\ clients' = [clients EXCEPT ![f] = None]
      /\ edge' = edge \ {sock[f]}
      /\ UNCHANGED <<script, opened, sent, rcvd, fin, rst, out, taken, nospace, ctxFd>>
      /\ \/ life' = life
         \/ c # None /\ c \notin processing \cup pipeline /\ life' = [life EXCEPT ![c] = "freed"]
      /\ \/ deleteLater' = deleteLater
         \/ c # None /\ deleteLater' = deleteLater \cup {c}
  BY DEF CloseConnection, Disconnected
<1> HIDE DEF c
<1>4. /\ sock \in [Fd -> Conn \cup {None}] /\ clients \in [Fd -> Conn \cup {None}]
      /\ life \in [Conn -> {"none", "live", "freed"}]
  BY DEF IInv, TypeOK, SockTypeOK, HandlerTypeOK
<1>5. SockTypeOK'
  BY <1>3, <1>4 DEF IInv, TypeOK, SockTypeOK
<1>6. /\ clients' \in [Fd -> Conn \cup {None}]
      /\ life' \in [Conn -> {"none", "live", "freed"}]
      /\ deleteLater' \subseteq Conn
  <2>1. deleteLater \subseteq Conn
    BY DEF IInv, TypeOK, HandlerTypeOK
  <2> QED
    BY <1>2, <1>3, <1>4, <2>1
<1>7. \A x \in Conn : life'[x] # life[x] => /\ x = c /\ c # None
                                           /\ x \notin processing \cup pipeline
                                           /\ life'[x] = "freed"
  BY <1>2, <1>3, <1>4
<1>8. \A x \in pipeline : life'[x] = life[x]
  BY <1>7 DEF IInv, TypeOK, HandlerTypeOK
<1>9. ClientsMatchSockets'
  <2> SUFFICES ASSUME NEW g \in Fd
               PROVE  /\ clients'[g] = sock'[g]
                      /\ clients'[g] # None => /\ life'[clients'[g]] = "live"
                                               /\ ctxFd'[clients'[g]] = g
                                               /\ clients'[g] \notin deleteLater'
    BY DEF ClientsMatchSockets
  <2>1. CASE g = f
    BY <1>3, <1>4, <2>1
  <2>2. CASE g # f
    <3>1. clients'[g] = clients[g] /\ sock'[g] = sock[g] /\ clients[g] \in Conn \cup {None}
      BY <1>3, <1>4, <2>2
    <3>2. clients[g] # None => clients[g] # c
      BY <2>2, ClientsDiffer DEF c
    <3> QED
      BY <1>3, <1>7, <3>1, <3>2 DEF IInv, ClientsMatchSockets
  <2> QED
    BY <2>1, <2>2
<1>10. LifeInv'
  BY <1>2, <1>3, <1>7 DEF IInv, LifeInv
<1>11. FlagsInv' /\ BodyInv'
  BY DEF IInv, FlagsInv, BodyInv, Held
<1>12. BusyInv'
  <2>1. \A x \in Conn : Busy(x)' <=> Busy(x)
    BY DEF Busy
  <2>2. \A x \in Conn : Busy(x) => life'[x] = "live"
    BY <1>7 DEF IInv, BusyInv
  <2> QED
    BY <1>3, <2>1, <2>2 DEF IInv, BusyInv
<1> QED
  BY <1>3, <1>5, <1>6, <1>8, <1>9, <1>10, <1>11, <1>12

\* When the thread has left its stack only the type of its variables is left.
LEMMA BackToLoopInv ==
    ASSUME BackToLoop
    PROVE  CallInv'
BY DEF BackToLoop, CallInv

LEMMA ResponseDoneStep ==
    ASSUME IInv, ResponseDone
    PROVE  IInv'
<1> USE DEF flagVars, readVars, svcVars
<1>1. at = "responded"
  BY DEF ResponseDone
<1>2. ctx \in Conn /\ ctx \in opened /\ ctxFd[ctx] \in Fd
  BY <1>1, ThreadContext
<1>3. UNCHANGED <<flagVars, readVars, left, svcVars>>
  BY DEF ResponseDone
<1>4. /\ SockTypeOK'
      /\ clients' \in [Fd -> Conn \cup {None}] /\ ctxFd' = ctxFd /\ opened' = opened
      /\ life' \in [Conn -> {"none", "live", "freed"}]
      /\ deleteLater' \subseteq Conn
      /\ \A c \in pipeline : life'[c] = life[c]
      /\ ClientsMatchSockets' /\ FlagsInv' /\ BusyInv' /\ LifeInv' /\ BodyInv'
  <2>1. CASE CloseConnection(ctxFd[ctx])
    BY <1>2, <1>3, <2>1, CloseConnectionStep
  <2>2. CASE UNCHANGED <<sockVars, ctxVars>>
    <3> USE <1>3, <2>2 DEF sockVars, ctxVars
    <3>1. SockTypeOK'
      BY DEF IInv, TypeOK, SockTypeOK
    <3>2. ClientsMatchSockets' /\ FlagsInv' /\ LifeInv' /\ BodyInv'
      BY DEF IInv, ClientsMatchSockets, FlagsInv, LifeInv, BodyInv, Held
    <3>3. BusyInv'
      BY DEF IInv, BusyInv, Busy
    <3> QED
      BY <3>1, <3>2, <3>3 DEF IInv, TypeOK, HandlerTypeOK
  <2> QED
    BY <2>1, <2>2 DEF ResponseDone
<1>5. \/ BackToLoop
      \/ /\ UNCHANGED <<callVars, site, localVars>>
         /\ ret' \in {"Close", "Success"}
         /\ \/ site = "next" /\ at' = "looped"
            \/ (site = "more" \/ via = "read") /\ at' = "readDone"
  BY DEF ResponseDone, LeaveResponse, Return
<1>6. HandlerTypeOK'
  BY <1>3, <1>4, <1>5
     DEF IInv, TypeOK, HandlerTypeOK, Places, BackToLoop, callVars, localVars
<1>7. CallInv'
  <2>1. CASE BackToLoop
    BY <2>1, BackToLoopInv
  <2>2. CASE ~BackToLoop
    BY <1>1, <1>2, <1>3, <1>4, <1>5, <2>2 DEF IInv, CallInv, callVars
  <2> QED
    BY <2>1, <2>2
<1> QED
  BY <1>4, <1>6, <1>7 DEF IInv, TypeOK

LEMMA ReadReturnsStep ==
    ASSUME IInv, ReadReturns
    PROVE  IInv'
<1> USE DEF flagVars, readVars, svcVars
<1>1. at = "readDone"
  BY DEF ReadReturns
<1>2. ctx \in Conn /\ ctx \in opened /\ ctxFd[ctx] \in Fd
  BY <1>1, ThreadContext
<1>3. UNCHANGED <<flagVars, readVars, left, svcVars>>
  BY DEF ReadReturns
<1>4. /\ SockTypeOK'
      /\ clients' \in [Fd -> Conn \cup {None}] /\ ctxFd' = ctxFd /\ opened' = opened
      /\ life' \in [Conn -> {"none", "live", "freed"}]
      /\ deleteLater' \subseteq Conn
      /\ \A c \in pipeline : life'[c] = life[c]
      /\ ClientsMatchSockets' /\ FlagsInv' /\ BusyInv' /\ LifeInv' /\ BodyInv'
  <2>1. CASE site = "event" /\ CloseConnection(evFd)
    <3>1. evFd \in Fd
      BY <1>1, <2>1 DEF IInv, CallInv
    <3> QED
      BY <1>3, <2>1, <3>1, CloseConnectionStep
  <2>2. CASE UNCHANGED <<sockVars, ctxVars>>
    <3> USE <1>3, <2>2 DEF sockVars, ctxVars
    <3>1. SockTypeOK'
      BY DEF IInv, TypeOK, SockTypeOK
    <3>2. ClientsMatchSockets' /\ FlagsInv' /\ LifeInv' /\ BodyInv'
      BY DEF IInv, ClientsMatchSockets, FlagsInv, LifeInv, BodyInv, Held
    <3>3. BusyInv'
      BY DEF IInv, BusyInv, Busy
    <3> QED
      BY <3>1, <3>2, <3>3 DEF IInv, TypeOK, HandlerTypeOK
  <2> QED
    BY <2>1, <2>2 DEF ReadReturns
<1>5. \/ BackToLoop
      \/ site = "more" /\ at' = "looped" /\ UNCHANGED <<callVars, site, ret, localVars>>
  BY DEF ReadReturns, GoTo
<1>6. HandlerTypeOK'
  BY <1>3, <1>4, <1>5
     DEF IInv, TypeOK, HandlerTypeOK, Places, BackToLoop, callVars, localVars
<1>7. CallInv'
  <2>1. CASE BackToLoop
    BY <2>1, BackToLoopInv
  <2>2. CASE ~BackToLoop
    BY <1>1, <1>2, <1>3, <1>4, <1>5, <2>2 DEF IInv, CallInv, callVars
  <2> QED
    BY <2>1, <2>2
<1> QED
  BY <1>4, <1>6, <1>7 DEF IInv, TypeOK

------------------------------------------------------------------------------
(* The event loop.                                                         *)

LEMMA AcceptStep ==
    ASSUME IInv, NEW f \in Fd, NEW c \in Conn, Accept(f, c)
    PROVE  IInv'
<1> USE DEF flagVars, readVars, svcVars, callVars, localVars, ThreadStays
<1>1. /\ at = "idle" /\ c \notin opened /\ sock[f] = None /\ clients[f] = None
      /\ c \notin deleteLater /\ life[c] = "none" /\ ~Busy(c)
  BY DEF Accept, IInv, ClientsMatchSockets, LifeInv, BusyInv
<1>2. /\ opened' = opened \cup {c}
      /\ sock' = [sock EXCEPT ![f] = c]
      /\ edge' = edge \cup {c}
      /\ clients' = [clients EXCEPT ![f] = c]
      /\ ctxFd' = [ctxFd EXCEPT ![c] = f]
      /\ life' = [life EXCEPT ![c] = "live"]
      /\ UNCHANGED <<script, sent, rcvd, fin, rst, out, taken, nospace>>
      /\ UNCHANGED <<deleteLater, flagVars, readVars, left, svcVars>>
      /\ UNCHANGED <<at, callVars, site, ret, localVars>>
  BY <1>1 DEF Accept, ConnectedCb
<1>3. /\ sock \in [Fd -> Conn \cup {None}] /\ clients \in [Fd -> Conn \cup {None}]
      /\ ctxFd \in [Conn -> Fd \cup {None}] /\ life \in [Conn -> {"none", "live", "freed"}]
      /\ opened \subseteq Conn /\ edge \subseteq Conn
  BY DEF IInv, TypeOK, SockTypeOK, HandlerTypeOK
<1>4. /\ sock' \in [Fd -> Conn \cup {None}] /\ clients' \in [Fd -> Conn \cup {None}]
      /\ ctxFd' \in [Conn -> Fd \cup {None}] /\ life' \in [Conn -> {"none", "live", "freed"}]
      /\ opened' \subseteq Conn /\ edge' \subseteq Conn
  BY <1>2, <1>3
<1>5. TypeOK'
  BY <1>2, <1>4, ZenonT(30) DEF IInv, TypeOK, SockTypeOK, HandlerTypeOK
<1>6. ClientsMatchSockets'
  <2> SUFFICES ASSUME NEW g \in Fd
               PROVE  /\ clients'[g] = sock'[g]
                      /\ clients'[g] # None => /\ life'[clients'[g]] = "live"
                                               /\ ctxFd'[clients'[g]] = g
                                               /\ clients'[g] \notin deleteLater'
    BY DEF ClientsMatchSockets
  <2>1. CASE g = f
    BY <1>1, <1>2, <1>3, <2>1
  <2>2. CASE g # f
    <3>1. clients[g] \in Conn \cup {None} /\ clients[g] # c
      BY <1>1, <1>3, SocketsAssumption DEF IInv, ClientsMatchSockets
    <3> QED
      BY <1>2, <1>3, <2>2, <3>1 DEF IInv, ClientsMatchSockets
  <2> QED
    BY <2>1, <2>2
<1>7. FlagsInv' /\ BodyInv' /\ CallInv'
  BY <1>1, <1>2 DEF IInv, FlagsInv, BodyInv, CallInv, Held
<1>8. LifeInv'
  BY <1>2, <1>3 DEF IInv, LifeInv
<1>9. BusyInv'
  <2>1. \A x \in Conn : Busy(x)' <=> Busy(x)
    BY <1>2 DEF Busy
  <2>2. \A x \in Conn : Busy(x) => life'[x] = life[x] /\ ctxFd'[x] = ctxFd[x]
    BY <1>1, <1>2, <1>3
  <2> QED
    BY <1>2, <2>1, <2>2 DEF IInv, BusyInv
<1> QED
  BY <1>5, <1>6, <1>7, <1>8, <1>9 DEF IInv

\* closeConnection from the loop itself.
LEMMA LoopClosesStep ==
    ASSUME IInv, NEW f \in Fd, at = "idle", CloseConnection(f), ThreadStays,
           UNCHANGED <<flagVars, readVars, left, svcVars>>
    PROVE  IInv'
<1>1. /\ SockTypeOK'
      /\ clients' \in [Fd -> Conn \cup {None}] /\ ctxFd' = ctxFd
      /\ life' \in [Conn -> {"none", "live", "freed"}]
      /\ deleteLater' \subseteq Conn
      /\ ClientsMatchSockets' /\ FlagsInv' /\ BusyInv' /\ LifeInv' /\ BodyInv'
  BY CloseConnectionStep
<1>2. HandlerTypeOK'
  BY <1>1, ZenonT(60) DEF IInv, TypeOK, HandlerTypeOK, flagVars, readVars, svcVars, ThreadStays,
              callVars, localVars
<1>3. CallInv'
  BY DEF IInv, CallInv, ThreadStays, callVars
<1> QED
  BY <1>1, <1>2, <1>3 DEF IInv, TypeOK

LEMMA HangUpEventStep ==
    ASSUME IInv, NEW f \in Fd, HangUpEvent(f)
    PROVE  IInv'
BY LoopClosesStep DEF HangUpEvent

LEMMA HandleRequestStep ==
    ASSUME IInv, NEW f \in Fd, HandleRequest(f)
    PROVE  IInv'
<1>1. at = "idle" /\ UNCHANGED <<flagVars, readVars, left, svcVars>>
  BY DEF HandleRequest
<1>2. CASE CloseConnection(f) /\ ThreadStays
  BY <1>1, <1>2, LoopClosesStep
<1>3. CASE /\ clients[f] # None
           /\ Enter("recv", clients[f], "read", f)
           /\ edge' = edge \ {sock[f]}
           /\ UNCHANGED <<script, opened, sock, sent, rcvd, fin, rst, out, taken, nospace>>
           /\ UNCHANGED ctxVars
  <2>1. /\ clients[f] \in Conn /\ clients[f] \in opened
        /\ ctxFd[clients[f]] \in Fd /\ life[clients[f]] = "live"
    BY <1>3 DEF IInv, TypeOK, HandlerTypeOK, ClientsMatchSockets, LifeInv
  <2>2. CallInv' /\ at' \in Places
    BY <1>1, <1>3, <2>1 DEF IInv, CallInv, Enter, ctxVars, Places
  <2> USE <1>1, <1>3 DEF flagVars, readVars, svcVars, ctxVars, localVars, Enter
  <2>3. SockTypeOK'
    BY DEF IInv, TypeOK, SockTypeOK
  <2>4. HandlerTypeOK'
    BY <2>1, <2>2 DEF IInv, TypeOK, HandlerTypeOK
  <2>5. ClientsMatchSockets' /\ FlagsInv' /\ LifeInv' /\ BodyInv'
    BY DEF IInv, ClientsMatchSockets, FlagsInv, LifeInv, BodyInv, Held
  <2>6. BusyInv'
    BY DEF IInv, BusyInv, Busy
  <2> QED
    BY <2>2, <2>3, <2>4, <2>5, <2>6 DEF IInv, TypeOK
<1> QED
  BY <1>2, <1>3 DEF HandleRequest

LEMMA ReadyWriteStep ==
    ASSUME IInv, NEW f \in Fd, ReadyWrite(f)
    PROVE  IInv'
<1>1. /\ at = "idle" /\ edge' = edge \ {sock[f]}
      /\ UNCHANGED <<script, opened, sock, sent, rcvd, fin, rst, out, taken, nospace>>
      /\ UNCHANGED <<ctxVars, flagVars, readVars, left, svcVars>>
  BY DEF ReadyWrite
<1>2. SockTypeOK'
  BY <1>1 DEF IInv, TypeOK, SockTypeOK
<1>3. ClientsMatchSockets' /\ FlagsInv' /\ LifeInv' /\ BodyInv'
  BY <1>1 DEF IInv, ClientsMatchSockets, FlagsInv, LifeInv, BodyInv, Held, ctxVars, flagVars,
              readVars, svcVars
<1>4. BusyInv'
  BY <1>1 DEF IInv, BusyInv, Busy, ctxVars, flagVars, svcVars
<1>5. CallInv' /\ HandlerTypeOK'
  <2>1. CASE ThreadStays
    <3>1. CallInv'
      BY <1>1, <2>1 DEF IInv, CallInv, ThreadStays, callVars
    <3>2. HandlerTypeOK'
      BY <1>1, <2>1, SMTT(30) DEF IInv, TypeOK, HandlerTypeOK, ThreadStays, callVars, localVars,
                        ctxVars, flagVars, readVars, svcVars
    <3> QED
      BY <3>1, <3>2
  <2>2. CASE /\ clients[f] # None /\ clients[f] \in writing
             /\ Enter("send", clients[f], "write", f)
    <3>1. /\ clients[f] \in Conn /\ clients[f] \in opened
          /\ ctxFd[clients[f]] \in Fd /\ life[clients[f]] = "live"
      BY <2>2 DEF IInv, TypeOK, HandlerTypeOK, ClientsMatchSockets, LifeInv
    <3>2. Held(clients[f]) /\ ~Busy(clients[f])
      BY <2>2, <3>1 DEF IInv, FlagsInv, BusyInv
    <3>3. (Held(clients[f]) /\ ~Busy(clients[f]))'
      BY <1>1, <3>2 DEF Held, Busy, readVars, svcVars, ctxVars
    <3>4. CallInv' /\ at' \in Places
      <4> DEFINE c == clients[f]
      <4>1. c \in Conn /\ c \in opened /\ ctxFd[c] \in Fd /\ life[c] = "live"
        BY <3>1
      <4>2. (Held(c) /\ ~Busy(c))' /\ c' = c
        BY <1>1, <3>3 DEF ctxVars
      <4>3. Enter("send", c, "write", f)
        BY <2>2
      <4> QED
        BY <1>1, <4>1, <4>2, <4>3 DEF IInv, CallInv, Enter, ctxVars, Places
    <3>5. HandlerTypeOK'
      BY <1>1, <2>2, <3>1, <3>4 DEF IInv, TypeOK, HandlerTypeOK, Enter, localVars,
                                    ctxVars, flagVars, readVars, svcVars
    <3> QED
      BY <3>4, <3>5
  <2> QED
    BY <2>1, <2>2 DEF ReadyWrite
<1> QED
  BY <1>2, <1>3, <1>4, <1>5 DEF IInv, TypeOK

LEMMA RunTaskStep ==
    ASSUME IInv, RunTask
    PROVE  IInv'
<1>1. /\ at = "idle" /\ tasks # <<>> /\ tasks' = Tail(tasks)
      /\ UNCHANGED <<sockVars, ctxVars, flagVars, readVars, left, pending>>
  BY DEF RunTask
<1>2. tasks \in Seq(Task) /\ 1 \in DOMAIN tasks /\ Head(tasks) = tasks[1]
  BY <1>1 DEF IInv, TypeOK, HandlerTypeOK
<1>3. /\ tasks' \in Seq(Task)
      /\ \A i \in DOMAIN tasks' : /\ i + 1 \in DOMAIN tasks
                                  /\ tasks'[i] = tasks[i + 1]
                                  /\ i + 1 # 1 /\ i \in Int
  BY <1>1, <1>2
<1> DEFINE c == tasks[1].ctx
<1>4. /\ c \in Conn /\ Busy(c) /\ c \notin pending
      /\ \A i \in DOMAIN tasks' : tasks'[i].ctx # c
  <2>1. c \in Conn
    <3>1. tasks[1] \in Task
      BY <1>2
    <3> QED
      BY <3>1 DEF Task
  <2>2. c \notin pending
    BY <1>2 DEF IInv, BusyInv
  <2>3. \A i \in DOMAIN tasks' : tasks'[i].ctx # c
    BY <1>2, <1>3 DEF IInv, BusyInv
  <2> QED
    BY <1>2, <2>1, <2>2, <2>3 DEF Busy
<1>5. /\ life[c] = "live" /\ ctxFd[c] \in Fd /\ c \in opened
      /\ Held(c)
  BY <1>4 DEF IInv, BusyInv, FlagsInv, LifeInv
<1>6. /\ c \notin pending'
      /\ httpBodyOffset'[c] # 0 /\ httpBodyRemaining'[c] \in {0, INVALID}
      /\ life'[c] = "live" /\ ctxFd'[c] \in Fd /\ c \in opened'
  BY <1>1, <1>4, <1>5 DEF Held, sockVars, readVars, ctxVars
<1>7. \/ Enter("respond", c, "task", None)
      \/ at' = "down" /\ UNCHANGED <<callVars, site, ret, localVars>>
  BY <1>2 DEF RunTask, GoTo
<1> HIDE DEF c
<1>8. CallInv'
  <2>1. CASE Enter("respond", c, "task", None)
    <3>1. /\ at' = "respond" /\ ctx' = c /\ via' = "task" /\ site' = "event"
      BY <1>1, <2>1 DEF Enter, IInv, CallInv
    <3>2. Held(ctx)' /\ ~Busy(ctx)'
      BY <1>4, <1>6, <3>1 DEF Held, Busy
    <3> QED
      BY <1>4, <1>6, <3>1, <3>2 DEF CallInv
  <2>2. CASE at' = "down" /\ UNCHANGED <<callVars, site, ret, localVars>>
    BY <2>2 DEF IInv, CallInv, callVars
  <2> QED
    BY <1>7, <2>1, <2>2
<1>9. SockTypeOK'
  BY <1>1 DEF IInv, TypeOK, SockTypeOK, sockVars
<1>10. HandlerTypeOK'
  <2>1. at' \in Places /\ ctx' \in Conn \cup {None}
        /\ via' \in {"none", "read", "write", "task"} /\ evFd' \in Fd \cup {None}
        /\ UNCHANGED <<site, ret, localVars>>
    BY <1>4, <1>7 DEF IInv, TypeOK, HandlerTypeOK, Places, Enter, callVars
  <2> QED
    BY <1>1, <1>3, <2>1 DEF IInv, TypeOK, HandlerTypeOK, localVars, ctxVars, flagVars, readVars
<1>11. ClientsMatchSockets' /\ FlagsInv' /\ LifeInv' /\ BodyInv'
  BY <1>1 DEF IInv, ClientsMatchSockets, FlagsInv, LifeInv, BodyInv, Held, sockVars, ctxVars,
              flagVars, readVars
<1>12. BusyInv'
  <2>1. \A x \in Conn : Busy(x)' => Busy(x)
    BY <1>1, <1>3 DEF Busy
  <2>2. \A x \in Conn : Busy(x)' => /\ life'[x] = "live" /\ ctxFd'[x] \in Fd
                                    /\ x \in processing' /\ x \notin writing' \cup needTryNext'
    BY <1>1, <2>1 DEF IInv, BusyInv, ctxVars, flagVars
  <2>3. \A i \in DOMAIN tasks' : tasks'[i].ctx \notin pending'
    BY <1>1, <1>3 DEF IInv, BusyInv
  <2>4. \A i, j \in DOMAIN tasks' : tasks'[i].ctx = tasks'[j].ctx => i = j
    <3> SUFFICES ASSUME NEW i \in DOMAIN tasks', NEW j \in DOMAIN tasks',
                        tasks'[i].ctx = tasks'[j].ctx
                 PROVE  i = j
      OBVIOUS
    <3>1. i + 1 = j + 1
      BY <1>3 DEF IInv, BusyInv
    <3> QED
      BY <1>3, <3>1
  <2> QED
    BY <2>2, <2>3, <2>4 DEF BusyInv
<1> QED
  BY <1>8, <1>9, <1>10, <1>11, <1>12 DEF IInv, TypeOK

LEMMA ServiceCompletesStep ==
    ASSUME IInv, NEW c \in Conn, ServiceCompletes(c)
    PROVE  IInv'
<1> DEFINE done == [ctx |-> c, ok |-> script[c][reqNo[c]].svc = "async"]
<1>1. /\ c \in pending /\ pending' = pending \ {c} /\ tasks' = Append(tasks, done)
      /\ UNCHANGED <<sockVars, ctxVars, flagVars, readVars, left>>
      /\ UNCHANGED <<at, callVars, site, ret, localVars>>
  BY DEF ServiceCompletes, ThreadStays
<1>2. tasks \in Seq(Task) /\ done \in Task /\ done.ctx = c
  BY DEF IInv, TypeOK, HandlerTypeOK, Task
<1> HIDE DEF done
<1>3. /\ tasks' \in Seq(Task)
      /\ DOMAIN tasks \subseteq DOMAIN tasks'
      /\ Len(tasks) + 1 \in DOMAIN tasks' /\ tasks'[Len(tasks) + 1] = done
      /\ \A i \in DOMAIN tasks' : \/ i \in DOMAIN tasks /\ tasks'[i] = tasks[i]
                                  \/ i = Len(tasks) + 1 /\ tasks'[i] = done
      /\ \A i \in DOMAIN tasks : tasks'[i] = tasks[i]
  BY <1>1, <1>2
<1>4. \A x \in Conn : Busy(x)' <=> Busy(x)
  BY <1>1, <1>2, <1>3 DEF Busy
<1>5. SockTypeOK'
  BY <1>1 DEF IInv, TypeOK, SockTypeOK, sockVars
<1>6. HandlerTypeOK'
  <2>1. pending' \subseteq Conn
    BY <1>1 DEF IInv, TypeOK, HandlerTypeOK
  <2> QED
    BY <1>1, <1>3, <2>1, ZenonT(30) DEF IInv, TypeOK, HandlerTypeOK, localVars, callVars, ctxVars, flagVars,
                            readVars
<1>7. ClientsMatchSockets' /\ FlagsInv' /\ LifeInv' /\ BodyInv'
  BY <1>1 DEF IInv, ClientsMatchSockets, FlagsInv, LifeInv, BodyInv, Held, sockVars, ctxVars,
              flagVars, readVars
<1>8. BusyInv'
  <2>1. \A x \in Conn : Busy(x)' => /\ life'[x] = "live" /\ ctxFd'[x] \in Fd
                                    /\ x \in processing' /\ x \notin writing' \cup needTryNext'
    BY <1>1, <1>4 DEF IInv, BusyInv, ctxVars, flagVars
  <2>2. \A i \in DOMAIN tasks : tasks[i].ctx # c
    BY <1>1 DEF IInv, BusyInv
  <2>3. \A i \in DOMAIN tasks' : tasks'[i].ctx \notin pending'
    BY <1>1, <1>2, <1>3 DEF IInv, BusyInv
  <2>4. \A i, j \in DOMAIN tasks' : tasks'[i].ctx = tasks'[j].ctx => i = j
    BY <1>2, <1>3, <2>2 DEF IInv, BusyInv
  <2> QED
    BY <2>1, <2>3, <2>4 DEF BusyInv
<1>9. CallInv'
  <2>1. UNCHANGED <<at, ctx, via, evFd, site, opened, ctxFd, life, pipeline, writing, processing,
                    needTryNext, httpBodyOffset, httpBodyRemaining>>
    BY <1>1 DEF callVars, sockVars, ctxVars, flagVars, readVars
  <2>2. (at \in {"respond", "send", "written", "next"}) => ~Busy(ctx)'
    <3>1. (at \in {"respond", "send", "written", "next"}) => ctx \in Conn /\ ~Busy(ctx)
      BY DEF IInv, CallInv
    <3>2. ctx' = ctx
      BY <2>1
    <3> QED
      BY <1>1, <1>2, <1>3, <3>1, <3>2 DEF Busy
  <2> QED
    BY <2>1, <2>2 DEF IInv, CallInv, Held
<1> QED
  BY <1>5, <1>6, <1>7, <1>8, <1>9 DEF IInv, TypeOK

LEMMA PeerStep ==
    ASSUME IInv, PeerNext, UNCHANGED handlerVars
    PROVE  IInv'
<1> USE DEF handlerVars, ctxVars, flagVars, readVars, svcVars, callVars, localVars
<1>1. PICK c \in Conn : PeerSends(c) \/ PeerReads(c) \/ PeerCloses(c) \/ PeerResets(c)
  BY DEF PeerNext
<1>2. /\ UNCHANGED <<script, opened, sock, rcvd, out>>
      /\ sent' \in {sent, [sent EXCEPT ![c] = @ + 1]}
      /\ fin' \in {fin, fin \cup {c}} /\ rst' \in {rst, rst \cup {c}}
      /\ taken' \in {taken, [taken EXCEPT ![c] = Len(out[c])]}
      /\ nospace' \in {nospace, nospace \ {c}} /\ edge' \in {edge, edge \cup {c}}
  BY <1>1 DEF PeerSends, PeerReads, PeerCloses, PeerResets
<1>3. SockTypeOK'
  <2>1. sent \in [Conn -> Nat] /\ taken \in [Conn -> Nat] /\ out[c] \in Seq(Unit)
    BY DEF IInv, TypeOK, SockTypeOK
  <2>2. sent[c] + 1 \in Nat /\ Len(out[c]) \in Nat
    BY <2>1
  <2>3. sent' \in [Conn -> Nat] /\ taken' \in [Conn -> Nat]
    BY <1>2, <2>1, <2>2
  <2> QED
    BY <1>2, <2>3 DEF IInv, TypeOK, SockTypeOK
<1>4. HandlerTypeOK'
  BY ZenonT(30) DEF IInv, TypeOK, HandlerTypeOK
<1>5. ClientsMatchSockets' /\ FlagsInv' /\ LifeInv' /\ BodyInv'
  BY <1>2 DEF IInv, ClientsMatchSockets, FlagsInv, LifeInv, BodyInv, Held
<1>6. BusyInv'
  BY DEF IInv, BusyInv, Busy
<1>7. CallInv'
  BY <1>2 DEF IInv, CallInv, Held, Busy
<1> QED
  BY <1>3, <1>4, <1>5, <1>6, <1>7 DEF IInv, TypeOK

------------------------------------------------------------------------------

LEMMA StutterStep ==
    ASSUME IInv, UNCHANGED vars
    PROVE  IInv'
<1> USE DEF vars, sockVars, handlerVars, ctxVars, flagVars, readVars, svcVars, callVars, localVars
<1>1. TypeOK'
  BY ZenonT(30) DEF IInv, TypeOK, SockTypeOK, HandlerTypeOK
<1>2. ClientsMatchSockets' /\ FlagsInv' /\ LifeInv' /\ BodyInv'
  BY DEF IInv, ClientsMatchSockets, FlagsInv, LifeInv, BodyInv, Held
<1>3. BusyInv' /\ CallInv'
  BY DEF IInv, BusyInv, CallInv, Busy, Held
<1> QED
  BY <1>1, <1>2, <1>3 DEF IInv

LEMMA HandlerStep ==
    ASSUME IInv, HandlerNext
    PROVE  IInv'
BY RecvEndsStep, RecvDataStep, ParseAgainStep, ParseAstrayStep, ParseThrowsStep, ParseDoneStep,
   ProcessRequestStep, ProcessResponseStep, SendDataStep, SendFailsStep,
   ResponseWrittenStep, TryNextRequestStep, LoopNextStep, ResponseDoneStep, ReadReturnsStep
   DEF HandlerNext

LEMMA EventStep ==
    ASSUME IInv, EventNext
    PROVE  IInv'
BY AcceptStep, HangUpEventStep, HandleRequestStep, ReadyWriteStep, RunTaskStep DEF EventNext

\* No step of a peer, of a service, of the event loop or of the handler breaks
\* IInv.
LEMMA InvStep ==
    ASSUME IInv, [Next]_vars
    PROVE  IInv'
<1>1. CASE PeerNext /\ UNCHANGED handlerVars
  BY <1>1, PeerStep
<1>2. CASE \E c \in Conn : ServiceCompletes(c)
  BY <1>2, ServiceCompletesStep
<1>3. CASE EventNext
  BY <1>3, EventStep
<1>4. CASE HandlerNext
  BY <1>4, HandlerStep
<1>5. CASE UNCHANGED vars
  BY <1>5, StutterStep
<1> QED
  BY <1>1, <1>2, <1>3, <1>4, <1>5 DEF Next

\* IInv is an invariant of the server.
THEOREM Invariance == Spec => []IInv
<1>1. Init => IInv
  BY InitInv
<1>2. IInv /\ [Next]_vars => IInv'
  BY InvStep
<1> QED
  BY <1>1, <1>2, PTL DEF Spec

\* Every variable keeps its type.
THEOREM TypeCorrect == Spec => []TypeOK
<1>1. IInv => TypeOK
  BY DEF IInv
<1> QED
  BY <1>1, Invariance, PTL

\* The context an event finds in clients is always the live one of the
\* connection the event is for, however descriptors are closed and reused.
THEOREM ClientsMatch == Spec => []ClientsMatchSockets
<1>1. IInv => ClientsMatchSockets
  BY DEF IInv
<1> QED
  BY <1>1, Invariance, PTL

\* One message per client is enough: nothing touches the message an
\* asynchronous operation holds.
THEOREM OneMessage == Spec => []OneMessageAtOnce
<1>1. IInv => OneMessageAtOnce
  <2> SUFFICES ASSUME IInv, NEW c \in Conn, Busy(c)
               PROVE  /\ life[c] = "live"
                      /\ ctx = c => at \notin {"parse", "dispatch", "respond",
                                              "send", "written", "next"}
    BY DEF OneMessageAtOnce
  <2>1. life[c] = "live" /\ c \in processing /\ Held(c)
    BY DEF IInv, BusyInv, FlagsInv
  <2>2. ctx = c => at \notin {"parse", "dispatch", "respond", "send", "written", "next"}
    BY <2>1 DEF IInv, CallInv, Held
  <2> QED
    BY <2>1, <2>2
<1> QED
  BY <1>1, Invariance, PTL

-----------------------------------------------------------------------------
(***************************************************************************)
(* The handler keeps its place in the stream of every connection: what it  *)
(* takes for a request is one, whatever the peer sends and however recv    *)
(* cuts it.                                                                *)
(***************************************************************************)
LEMMA SmallConstants ==
    /\ MaxU64 \in Nat \ {0} /\ INVALID = MaxU64
    /\ TryBlock \in Nat \ {0} /\ ReadCap \in Nat
BY SocketsAssumption, HandlerAssumption DEF INVALID

\* uint64_t subtraction is that of the integers where that is not negative, and
\* only where both are equal is the result 0.
LEMMA Minus64Small ==
    ASSUME NEW a \in Int, NEW b \in Int, a - b \in 0 .. MaxU64
    PROVE  Minus64(a, b) = a - b
BY SmallConstants DEF Minus64

\* The result depends on the difference alone.
LEMMA Minus64Same ==
    ASSUME NEW a, NEW b, NEW d, NEW e, a - b = d - e
    PROVE  Minus64(a, b) = Minus64(d, e)
<1> DEFINE M(x) == x % (MaxU64 + 1)
<1>1. M(a - b) = M(d - e)
  <2> HIDE DEF M
  <2> QED
    OBVIOUS
<1> QED
  BY <1>1 DEF Minus64

LEMMA Minus64Zero ==
    ASSUME NEW a \in 0 .. MaxU64, NEW b \in 0 .. MaxU64, Minus64(a, b) = 0
    PROVE  a = b
<1>1. CASE a >= b
  <2>1. a - b \in 0 .. MaxU64
    BY <1>1, SmallConstants
  <2> QED
    BY <2>1, Minus64Small
<1>2. CASE a < b
  <2> DEFINE x == a - b
  <2>1. x \in Int /\ x < 0 /\ x + MaxU64 + 1 > 0
    BY <1>2, SmallConstants
  <2>2. x % (MaxU64 + 1) = x + MaxU64 + 1
    BY <2>1, SmallConstants
  <2> QED
    BY <2>1, <2>2 DEF Minus64
<1> QED
  BY <1>1, <1>2, SmallConstants

LEMMA ScriptDomain ==
    ASSUME NEW s \in Scripts
    PROVE  s \in Seq(Request) /\ Len(s) \in Nat /\ DOMAIN s = 1 .. Len(s)
BY SocketsAssumption

\* Where the requests of a script lie.
LEMMA Layout ==
    ASSUME NEW s \in Scripts, NEW k \in DOMAIN s
    PROVE  /\ s \in Seq(Request) /\ k \in 1 .. Len(s) /\ s[k] \in Request
           /\ s[k].start \in Nat /\ s[k].body \in Nat /\ s[k].end \in Nat
           /\ s[k].length \in 0 .. MaxU64
           /\ s[k].form \in {"good", "bad", "refused", "denied"}
           /\ s[k].start < s[k].body /\ s[k].body <= s[k].end
           /\ s[k].end = s[k].body + (IF s[k].length = INVALID THEN 0 ELSE s[k].length)
           /\ s[k].body - s[k].start + TryBlock <= ReadCap
           /\ s[k].end + ReadCap < MaxU64
           /\ k = 1 => s[k].start = 0
           /\ k + 1 \in DOMAIN s => s[k + 1].start = s[k].end
           /\ \A j \in 1 .. k - 1 : s[j].end <= s[k].start
<1>1. s \in Seq(Request) /\ WellFormed(s)
  BY SocketsAssumption
<1>2. k \in 1 .. Len(s) /\ s[k] \in Request
  BY <1>1
<1>3. /\ s[k].start \in Nat /\ s[k].body \in Nat /\ s[k].end \in Nat
      /\ s[k].length \in 0 .. MaxU64
      /\ s[k].form \in {"good", "bad", "refused", "denied"}
  BY <1>2 DEF Request
<1>4. s # <<>>
  BY <1>1, <1>2
<1>5. /\ s[k].start < s[k].body
      /\ s[k].end = s[k].body + (IF s[k].length = INVALID THEN 0 ELSE s[k].length)
      /\ k + 1 \in DOMAIN s => s[k + 1].start = s[k].end
      /\ \A j \in 1 .. k - 1 : s[j].end <= s[k].start
  BY <1>1 DEF WellFormed
<1>6. s[1].start = 0
  BY <1>1, <1>4 DEF WellFormed
<1>7. s[k].body <= s[k].end
  BY <1>3, <1>5, SmallConstants
<1>8. s[k].body - s[k].start + TryBlock <= ReadCap /\ s[k].end + ReadCap < MaxU64
  BY HandlerAssumption
<1> QED
  BY <1>1, <1>2, <1>3, <1>5, <1>6, <1>7, <1>8

\* An earlier request ends where a later one starts, or before.
LEMMA LayoutOrder ==
    ASSUME NEW s \in Scripts, NEW j \in DOMAIN s, NEW k \in DOMAIN s, j < k
    PROVE  s[j].end <= s[k].start
<1>1. j \in 1 .. k - 1
  BY Layout
<1> QED
  BY <1>1, Layout

\* The request that context c holds.
LEMMA CurrentRequest ==
    ASSUME IInv, NEW c \in Conn, CountInv(c), reqNo[c] # 0
    PROVE  script[c] \in Scripts /\ reqNo[c] \in DOMAIN script[c]
<1>1. script[c] \in Scripts
  BY DEF IInv, TypeOK, SockTypeOK
<1>2. script[c] \in Seq(Request) /\ reqNo[c] \in Nat
  BY <1>1, SocketsAssumption, ReadTypes
<1> QED
  BY <1>1, <1>2 DEF CountInv

------------------------------------------------------------------------------
(* Steps that read nothing and parse nothing.                              *)

ConnInv(c) == CountInv(c) /\ SearchInv(c) /\ FoundInv(c)

\* What ConnInv(c) speaks of, but for where the thread is.
streamVars == <<script, sent, rcvd, readVars, usePoolBody>>

\* What the thread reads by: the place it is at and who called it.
placeVars == <<at, ctx, site>>

\* A step may change the stream of one connection: the others keep theirs.
SameFor(c) ==
    /\ script'[c] = script[c] /\ sent'[c] = sent[c] /\ rcvd'[c] = rcvd[c]
    /\ base'[c] = base[c] /\ size'[c] = size[c] /\ reqNo'[c] = reqNo[c]
    /\ currentRequestOffset'[c] = currentRequestOffset[c]
    /\ nextRequestOffset'[c] = nextRequestOffset[c]
    /\ httpBodyOffset'[c] = httpBodyOffset[c]
    /\ httpBodyRemaining'[c] = httpBodyRemaining[c]
    /\ c \in usePoolBody' <=> c \in usePoolBody

LEMMA SameStream ==
    ASSUME NEW c \in Conn, ConnInv(c), SameFor(c),
           httpBodyOffset[c] = 0 => /\ Looking(c)' <=> Looking(c)
                                    /\ Looking(c) => site' = site
    PROVE  ConnInv(c)'
<1>1. Current(c)' = Current(c) /\ HeaderFailed(c)' = HeaderFailed(c)
  BY DEF SameFor, Current, HeaderFailed
<1>2. NextStart(c)' = NextStart(c) /\ HeadersRead(c)' = HeadersRead(c)
  BY <1>1 DEF SameFor, NextStart, HeadersRead
<1>3. CountInv(c)'
  BY <1>1 DEF SameFor, ConnInv, CountInv
<1>4. SearchInv(c)'
  BY <1>1, <1>2 DEF SameFor, ConnInv, SearchInv
<1>5. FoundInv(c)'
  BY <1>1 DEF SameFor, ConnInv, FoundInv
<1> QED
  BY <1>3, <1>4, <1>5 DEF ConnInv

\* A step that leaves every stream alone, and does not take the thread to a
\* place where it reads or parses.
LEMMA QuietStep ==
    ASSUME StreamInv, UNCHANGED streamVars, InHand' \subseteq InHand,
           \/ UNCHANGED placeVars
           \/ at \notin {"parse", "astray"} /\ at' \notin {"recv", "parse", "dispatch", "astray"}
    PROVE  StreamInv'
<1>1. \A c \in Conn : ConnInv(c)'
  <2> SUFFICES ASSUME NEW c \in Conn PROVE ConnInv(c)'
    OBVIOUS
  <2>1. ConnInv(c)
    BY DEF StreamInv, ConnInv
  <2>2. SameFor(c)
    BY DEF SameFor, streamVars, readVars
  <2>3. (Looking(c)' <=> Looking(c)) /\ (Looking(c) => site' = site)
    BY DEF Looking, placeVars
  <2> QED
    BY <2>1, <2>2, <2>3, SameStream
<1>2. at' = "dispatch" => httpBodyRemaining'[ctx'] = 0
  BY DEF StreamInv, streamVars, readVars, placeVars
<1>3. at' \in {"recv", "parse"} => script'[ctx'] # <<>>
  BY DEF StreamInv, streamVars, placeVars
<1>4. at' = "astray" => HeaderFailed(ctx)'
  BY DEF StreamInv, streamVars, readVars, placeVars, HeaderFailed, Current
<1>5. \A c \in InHand' : Complete(c)'
  BY DEF StreamInv, streamVars, readVars, Complete, HeaderFailed, Current
<1> QED
  BY <1>1, <1>2, <1>3, <1>4, <1>5 DEF StreamInv, ConnInv

LEMMA QuietHandler ==
    ASSUME IInv, StreamInv,
           \/ RecvError \/ RecvZero \/ RecvAgain
           \/ ProcessRequest \/ ProcessResponse
           \/ SendData \/ SendNothing \/ SendAgain \/ SendError
           \/ ResponseWritten \/ LoopNext \/ ResponseDone \/ ReadReturns
    PROVE  StreamInv'
<1> USE DEF streamVars, readVars, flagVars, sockVars, ctxVars, callVars, placeVars
<1>1. UNCHANGED streamVars
  BY DEF RecvError, RecvZero, RecvAgain, ProcessRequest, ProcessResponse, SendData,
         SendNothing, SendAgain, SendError, ResponseWritten, LoopNext, ResponseDone,
         ReadReturns, CloseConnection
<1>2. at \notin {"parse", "astray"} /\ at' \notin {"recv", "parse", "dispatch", "astray"}
  BY DEF RecvError, RecvZero, RecvAgain, LeaveRead, Return, GoTo, BackToLoop,
         ProcessRequest, ProcessResponse, SendData, SendNothing, SendAgain, SendError,
         ResponseWritten, LoopNext, ResponseDone, LeaveResponse, ReadReturns
<1>3. InHand' \subseteq InHand
  BY DEF InHand, RecvError, RecvZero, RecvAgain, LeaveRead, Return, GoTo, BackToLoop,
         ProcessRequest, ProcessResponse, SendData, SendNothing, SendAgain, SendError,
         ResponseWritten, LoopNext, ResponseDone, LeaveResponse, ReadReturns
<1> QED
  BY <1>1, <1>2, <1>3, QuietStep

LEMMA QuietEvent ==
    ASSUME IInv, StreamInv,
           \/ \E f \in Fd : (\E c \in Conn : Accept(f, c)) \/ HangUpEvent(f) \/ ReadyWrite(f)
           \/ RunTask
           \/ \E c \in Conn : ServiceCompletes(c)
    PROVE  StreamInv'
<1> USE DEF streamVars, readVars, flagVars, sockVars, ctxVars, callVars, placeVars
<1>1. UNCHANGED streamVars
  BY DEF Accept, HangUpEvent, ReadyWrite, RunTask, ServiceCompletes, CloseConnection
<1>2. \/ UNCHANGED placeVars
      \/ at \notin {"parse", "astray"} /\ at' \notin {"recv", "parse", "dispatch", "astray"}
  BY ZenonT(30) DEF Accept, HangUpEvent, ReadyWrite, RunTask, ServiceCompletes, ThreadStays, Enter, GoTo
<1>3. InHand' \subseteq InHand
  <2>1. CASE RunTask
    <3>1. tasks # <<>> /\ at = "idle" /\ UNCHANGED <<writing, processing, needTryNext>>
      BY <2>1 DEF RunTask
    <3>2. Head(tasks).ctx \in processing
      <4>1. tasks \in Seq(Task)
        BY DEF IInv, TypeOK, HandlerTypeOK
      <4>2. 1 \in DOMAIN tasks /\ Head(tasks) = tasks[1] /\ tasks[1].ctx \in Conn
        <5>1. 1 \in DOMAIN tasks /\ Head(tasks) = tasks[1] /\ tasks[1] \in Task
          BY <3>1, <4>1
        <5> QED
          BY <5>1 DEF Task
      <4>3. Busy(tasks[1].ctx)
        BY <4>2 DEF Busy
      <4> QED
        BY <4>2, <4>3 DEF IInv, BusyInv
    <3>3. at' \in {"idle", "respond", "down"} /\ (at' = "respond" => ctx' = Head(tasks).ctx)
      BY <2>1, <3>1 DEF RunTask, Enter, GoTo
    <3> QED
      BY <3>1, <3>2, <3>3 DEF InHand
  <2>2. CASE ~RunTask
    BY <2>2, ZenonT(30) DEF InHand, Accept, HangUpEvent, ReadyWrite, ServiceCompletes, ThreadStays, Enter
  <2> QED
    BY <2>1, <2>2
<1> QED
  BY <1>1, <1>2, <1>3, QuietStep

\* A peer sends no more than its script has.
LEMMA PeerStream ==
    ASSUME IInv, StreamInv, PeerNext, UNCHANGED handlerVars
    PROVE  StreamInv'
<1> USE DEF sockVars, handlerVars, ctxVars, flagVars, readVars, svcVars, callVars, localVars
<1>1. CASE UNCHANGED sent
  <2>1. UNCHANGED streamVars /\ UNCHANGED placeVars /\ UNCHANGED InHand
    BY <1>1 DEF PeerNext, PeerSends, PeerReads, PeerCloses, PeerResets, streamVars, placeVars,
                InHand
  <2> QED
    BY <2>1, QuietStep
<1>2. ASSUME NEW d \in Conn, PeerSends(d)
      PROVE  StreamInv'
  <2>1. /\ MaySend(d) /\ sent' = [sent EXCEPT ![d] = @ + 1]
        /\ UNCHANGED <<script, rcvd>>
    BY <1>2 DEF PeerSends
  <2>2. \A c \in Conn : sent[c] \in Nat /\ rcvd[c] \in Nat
    BY ReadTypes
  <2>3. ASSUME NEW c \in Conn
        PROVE  ConnInv(c)'
    <3>1. CountInv(c) /\ SearchInv(c) /\ FoundInv(c)
      BY DEF StreamInv
    <3>2. /\ Current(c)' = Current(c) /\ HeaderFailed(c)' = HeaderFailed(c)
          /\ Looking(c)' = Looking(c)
      BY <2>1 DEF Current, HeaderFailed, Looking
    <3>3. NextStart(c)' = NextStart(c) /\ HeadersRead(c)' = HeadersRead(c)
      BY <2>1, <3>2 DEF NextStart, HeadersRead
    <3>4. rcvd[c] <= sent'[c]
      BY <2>1, <2>2, <3>1 DEF CountInv, IInv, TypeOK, SockTypeOK
    <3>5. sent'[c] = 0 \/ \E k \in DOMAIN script[c] : sent'[c] <= script[c][k].end
      <4>1. CASE c # d
        BY <2>1, <3>1, <4>1 DEF CountInv, IInv, TypeOK, SockTypeOK
      <4>2. CASE c = d
        <5>1. PICK k \in DOMAIN script[c] : sent[c] < script[c][k].end
          BY <2>1, <4>2 DEF MaySend
        <5>2. script[c] \in Scripts
          BY DEF IInv, TypeOK, SockTypeOK
        <5>3. script[c][k].end \in Nat
          BY <5>2, Layout
        <5>4. sent'[c] = sent[c] + 1
          BY <2>1, <4>2 DEF IInv, TypeOK, SockTypeOK
        <5> QED
          BY <2>2, <5>1, <5>3, <5>4
      <4> QED
        BY <4>1, <4>2
    <3>6. CountInv(c)'
      BY <2>1, <3>1, <3>2, <3>4, <3>5 DEF CountInv
    <3>7. SearchInv(c)' /\ FoundInv(c)'
      BY <2>1, <3>1, <3>2, <3>3 DEF SearchInv, FoundInv
    <3> QED
      BY <3>6, <3>7 DEF ConnInv
  <2>4. /\ HeaderFailed(ctx)' = HeaderFailed(ctx) /\ InHand' = InHand
        /\ \A c \in InHand : Complete(c)' = Complete(c)
    BY <2>1 DEF HeaderFailed, Current, InHand, Complete
  <2> QED
    BY <2>1, <2>3, <2>4 DEF StreamInv, ConnInv
<1>3. (\E d \in Conn : PeerSends(d)) \/ UNCHANGED sent
  BY DEF PeerNext, PeerReads, PeerCloses, PeerResets
<1> QED
  BY <1>1, <1>2, <1>3

\* Something has been sent over a connection that is read from.
LEMMA HandleRequestStream ==
    ASSUME IInv, StreamInv, NEW f \in Fd, HandleRequest(f)
    PROVE  StreamInv'
<1> USE DEF readVars, flagVars, sockVars, ctxVars, callVars, placeVars
<1> DEFINE c == sock[f]
<1>1. UNCHANGED streamVars /\ at = "idle"
  BY DEF HandleRequest, CloseConnection, streamVars
<1>2. CASE Unread(c) = 0 \/ clients[f] = None
  <2>1. UNCHANGED placeVars /\ UNCHANGED InHand
    BY <1>2 DEF HandleRequest, ThreadStays, InHand
  <2> QED
    BY <1>1, <2>1, QuietStep
<1>3. CASE Unread(c) # 0 /\ clients[f] # None
  <2>1. at' = "recv" /\ ctx' = c /\ c \in Conn
    BY <1>3 DEF HandleRequest, Enter, IInv, ClientsMatchSockets, TypeOK, SockTypeOK
  <2>2. script[c] # <<>>
    <3>1. rcvd[c] \in Nat /\ sent[c] \in Nat /\ rcvd[c] <= sent[c]
      BY <2>1, ReadTypes DEF StreamInv, CountInv
    <3>2. sent[c] # 0
      BY <1>3, <3>1 DEF Unread
    <3>3. \E k \in DOMAIN script[c] : sent[c] <= script[c][k].end
      BY <2>1, <3>2 DEF StreamInv, CountInv
    <3> QED
      BY <3>3
  <2>3. \A d \in Conn : ConnInv(d)'
    <3> SUFFICES ASSUME NEW d \in Conn PROVE ConnInv(d)'
      OBVIOUS
    <3>1. ConnInv(d)
      BY DEF StreamInv, ConnInv
    <3>2. SameFor(d)
      BY <1>1 DEF SameFor, streamVars
    <3>3. ~Looking(d) /\ ~Looking(d)'
      BY <1>1, <2>1 DEF Looking
    <3> QED
      BY <3>1, <3>2, <3>3, SameStream
  <2>4. \A d \in InHand' : Complete(d)'
    <3>1. InHand' \subseteq InHand
      BY <2>1 DEF HandleRequest, InHand
    <3> QED
      BY <1>1, <3>1 DEF StreamInv, streamVars, Complete, HeaderFailed, Current
  <2> QED
    BY <1>1, <2>1, <2>2, <2>3, <2>4 DEF StreamInv, ConnInv, streamVars
<1> QED
  BY <1>2, <1>3

------------------------------------------------------------------------------
(* What is known of the thread's connection while it looks for a header.   *)

\* The types of what belongs to a connection.
LEMMA ConnTypes ==
    ASSUME IInv, NEW c \in Conn
    PROVE  /\ script[c] \in Scripts
           /\ base[c] \in Nat /\ size[c] \in Nat /\ reqNo[c] \in Nat
           /\ currentRequestOffset[c] \in Nat /\ nextRequestOffset[c] \in Nat
           /\ httpBodyOffset[c] \in Nat /\ httpBodyRemaining[c] \in Nat
           /\ sent[c] \in Nat /\ rcvd[c] \in Nat
BY ReadTypes DEF IInv, TypeOK, SockTypeOK

\* A stream is shorter than what a uint64_t counts.
LEMMA StreamBounds ==
    ASSUME IInv, StreamInv, NEW c \in Conn
    PROVE  sent[c] < MaxU64 /\ rcvd[c] < MaxU64
<1>1. sent[c] = 0 \/ \E k \in DOMAIN script[c] : sent[c] <= script[c][k].end
  BY DEF StreamInv, CountInv
<1>2. sent[c] < MaxU64
  <2>1. CASE sent[c] = 0
    BY <2>1, SmallConstants
  <2>2. ASSUME NEW k \in DOMAIN script[c], sent[c] <= script[c][k].end
        PROVE  sent[c] < MaxU64
    BY <2>2, ConnTypes, Layout, SmallConstants
  <2> QED
    BY <1>1, <2>1, <2>2
<1> QED
  BY <1>2, ConnTypes, SmallConstants DEF StreamInv, CountInv

\* The request behind the last one starts where that one ends.
LEMMA NextRequest ==
    ASSUME IInv, StreamInv, NEW c \in Conn
    PROVE  /\ NextStart(c) \in Nat
           /\ reqNo[c] + 1 \in DOMAIN script[c] =>
                script[c][reqNo[c] + 1].start = NextStart(c)
           /\ \A k \in DOMAIN script[c] : k <= reqNo[c] => script[c][k].end <= NextStart(c)
<1>1. script[c] \in Scripts /\ reqNo[c] \in Nat /\ CountInv(c)
  BY ConnTypes DEF StreamInv
<1>2. CASE reqNo[c] = 0
  <2>1. NextStart(c) = 0
    BY <1>2 DEF NextStart
  <2>2. 1 \in DOMAIN script[c] => script[c][1].start = 0
    BY <1>1, Layout
  <2>3. \A k \in DOMAIN script[c] : ~(k <= 0)
    BY <1>1, ScriptDomain
  <2> QED
    BY <1>2, <2>1, <2>2, <2>3
<1>3. CASE reqNo[c] # 0
  <2>1. reqNo[c] \in DOMAIN script[c] /\ NextStart(c) = script[c][reqNo[c]].end
    BY <1>1, <1>3, CurrentRequest DEF NextStart, Current
  <2>2. ASSUME NEW k \in DOMAIN script[c], k <= reqNo[c]
        PROVE  script[c][k].end <= NextStart(c)
    <3>1. CASE k = reqNo[c]
      BY <1>1, <2>1, <3>1, Layout
    <3>2. CASE k # reqNo[c]
      <4>1. k < reqNo[c]
        BY <1>1, <2>2, <3>2, ScriptDomain
      <4>2. script[c][k].end <= script[c][reqNo[c]].start
        BY <1>1, <2>1, <4>1, LayoutOrder
      <4>3. /\ script[c][reqNo[c]].start < script[c][reqNo[c]].body
            /\ script[c][reqNo[c]].body <= script[c][reqNo[c]].end
            /\ script[c][reqNo[c]].start \in Nat /\ script[c][reqNo[c]].body \in Nat
            /\ script[c][reqNo[c]].end \in Nat /\ script[c][k].end \in Nat
        BY <1>1, <2>1, Layout
      <4> QED
        BY <2>1, <4>2, <4>3
    <3> QED
      BY <3>1, <3>2
  <2> QED
    BY <1>1, <2>1, <2>2, Layout
<1> QED
  BY <1>2, <1>3

\* Behind a request whose header was accepted, the first header found is that
\* of the next request.
LEMMA FindsNext ==
    ASSUME IInv, StreamInv, NEW c \in Conn, httpBodyOffset[c] = 0,
           ~HeaderFailed(c), HeadersRead(c) # {}
    PROVE  Finds(c, reqNo[c] + 1)
<1> DEFINE n == reqNo[c] + 1
<1>1. script[c] \in Scripts /\ reqNo[c] \in Nat /\ base[c] \in Nat /\ size[c] \in Nat
      /\ currentRequestOffset[c] \in Nat
  BY ConnTypes
<1>2. base[c] + currentRequestOffset[c] = NextStart(c)
  BY DEF StreamInv, SearchInv
<1>3. \A k \in HeadersRead(c) : k \in DOMAIN script[c] /\ k \in Nat /\ n <= k
  <2> SUFFICES ASSUME NEW k \in HeadersRead(c), k \in DOMAIN script[c]
               PROVE  k \in Nat /\ n <= k
    BY DEF HeadersRead
  <2>1. /\ NextStart(c) < script[c][k].body /\ k \in Nat
        /\ script[c][k].body \in Nat /\ script[c][k].end \in Nat
        /\ script[c][k].body <= script[c][k].end
    BY <1>1, <1>2, Layout DEF HeadersRead
  <2>2. NextStart(c) \in Nat /\ (k <= reqNo[c] => script[c][k].end <= NextStart(c))
    BY NextRequest
  <2> QED
    BY <1>1, <2>1, <2>2
<1>4. n \in HeadersRead(c)
  <2>1. PICK k \in HeadersRead(c) : TRUE
    OBVIOUS
  <2>2. n \in DOMAIN script[c]
    BY <1>1, <1>3, <2>1, ScriptDomain
  <2>3. script[c][n].start = NextStart(c) /\ script[c][n].start < script[c][n].body
    BY <1>1, <2>2, NextRequest, Layout
  <2>4. script[c][n].body <= base[c] + size[c]
    <3>1. CASE n = k
      BY <2>1, <3>1 DEF HeadersRead
    <3>2. CASE n # k
      <4>1. n < k /\ k \in DOMAIN script[c]
        BY <1>1, <1>3, <2>1, <3>2
      <4>2. /\ script[c][n].body <= script[c][n].end
            /\ script[c][n].end <= script[c][k].start
            /\ script[c][k].start < script[c][k].body
            /\ script[c][n].body \in Nat /\ script[c][n].end \in Nat
            /\ script[c][k].start \in Nat /\ script[c][k].body \in Nat
        BY <1>1, <2>2, <4>1, Layout, LayoutOrder
      <4>3. script[c][k].body <= base[c] + size[c]
        BY <2>1 DEF HeadersRead
      <4> QED
        BY <1>1, <4>2, <4>3
    <3> QED
      BY <3>1, <3>2
  <2> QED
    BY <1>2, <2>2, <2>3, <2>4 DEF HeadersRead
<1>5. script[c][n].start = base[c] + currentRequestOffset[c]
  BY <1>2, <1>3, <1>4, NextRequest
<1> QED
  BY <1>1, <1>3, <1>4, <1>5 DEF Finds, IsFirst

\* Only one header is the first.
LEMMA FindsOne ==
    ASSUME IInv, NEW c \in Conn, NEW j, NEW k, Finds(c, j), Finds(c, k)
    PROVE  j = k
<1>1. j \in DOMAIN script[c] /\ k \in DOMAIN script[c] /\ j <= k /\ k <= j
  BY DEF Finds, IsFirst, HeadersRead
<1>2. j \in Nat /\ k \in Nat
  <2>1. script[c] \in Scripts
    BY ConnTypes
  <2> QED
    BY <1>1, <2>1, ScriptDomain
<1> QED
  BY <1>1, <1>2

\* While the header of the next request has not been found, there is room for
\* another block in poolRead's first chunk.
LEMMA SearchFits ==
    ASSUME IInv, StreamInv, NEW c \in Conn, httpBodyOffset[c] = 0,
           ~Looking(c), ~HeaderFailed(c), script[c] # <<>>
    PROVE  size[c] + TryBlock <= ReadCap
<1> DEFINE n == reqNo[c] + 1
<1>1. /\ script[c] \in Scripts /\ reqNo[c] \in Nat /\ base[c] \in Nat /\ size[c] \in Nat
      /\ rcvd[c] \in Nat /\ sent[c] \in Nat
  BY ConnTypes
<1>2. base[c] = NextStart(c) /\ currentRequestOffset[c] = 0 /\ HeadersRead(c) = {}
      /\ base[c] + size[c] = rcvd[c]
  BY <1>1 DEF StreamInv, SearchInv, CountInv
<1>3. CASE n \in DOMAIN script[c]
  <2>1. /\ script[c][n].start = base[c]
        /\ script[c][n].start < script[c][n].body /\ script[c][n].body \in Nat
        /\ script[c][n].body - script[c][n].start + TryBlock <= ReadCap
    BY <1>1, <1>2, <1>3, NextRequest, Layout
  <2>2. script[c][n].body > base[c] + size[c]
    <3>1. ~(/\ base[c] + currentRequestOffset[c] < script[c][n].body
            /\ script[c][n].body <= base[c] + size[c])
      BY <1>2, <1>3 DEF HeadersRead
    <3> QED
      BY <1>1, <1>2, <2>1, <3>1
  <2> QED
    BY <1>1, <2>1, <2>2, SmallConstants, SMTT(30)
<1>4. CASE n \notin DOMAIN script[c]
  <2>1. script[c] \in Seq(Request) /\ reqNo[c] \in 0 .. Len(script[c])
    BY <1>1, SocketsAssumption DEF StreamInv, CountInv
  <2>2. reqNo[c] = Len(script[c]) /\ reqNo[c] \in DOMAIN script[c]
    BY <1>1, <1>4, <2>1
  <2>3. sent[c] <= base[c]
    <3>1. CASE sent[c] = 0
      BY <1>1, <3>1
    <3>2. ASSUME NEW k \in DOMAIN script[c], sent[c] <= script[c][k].end
          PROVE  sent[c] <= base[c]
      <4>1. k <= reqNo[c]
        BY <2>1, <2>2
      <4> QED
        BY <1>1, <1>2, <3>2, <4>1, NextRequest, Layout
    <3> QED
      BY <3>1, <3>2 DEF StreamInv, CountInv
  <2>4. size[c] = 0
    BY <1>1, <1>2, <2>3 DEF StreamInv, CountInv
  <2>5. TryBlock <= ReadCap
    <3> DEFINE r == script[c][reqNo[c]]
    <3>1. r.start < r.body /\ r.start \in Nat /\ r.body \in Nat
          /\ r.body - r.start + TryBlock <= ReadCap
      BY <1>1, <2>2, Layout
    <3> QED
      BY <3>1, SmallConstants
  <2> QED
    BY <2>4, <2>5, SmallConstants
<1> QED
  BY <1>3, <1>4

------------------------------------------------------------------------------
(* Reading and looking for headers.                                        *)

\* What the thread does with its context leaves the other connections alone.
LEMMA OtherStreams ==
    ASSUME StreamInv, ctx' = ctx, \A d \in Conn \ {ctx} : SameFor(d)
    PROVE  \A d \in Conn \ {ctx} : ConnInv(d)'
<1> SUFFICES ASSUME NEW d \in Conn \ {ctx} PROVE ConnInv(d)'
  OBVIOUS
<1>1. ConnInv(d) /\ SameFor(d) /\ ~Looking(d) /\ ~Looking(d)'
  BY DEF StreamInv, ConnInv, Looking
<1> QED
  BY <1>1, SameStream

\* Nor does it change what is complete of the others.
LEMMA OtherComplete ==
    ASSUME StreamInv, ctx \in Conn, ctx' = ctx, \A d \in Conn \ {ctx} : SameFor(d),
           InHand' \subseteq InHand \cup {ctx}, InHand \subseteq Conn,
           ctx \in InHand' => Complete(ctx)'
    PROVE  \A c \in InHand' : Complete(c)'
<1>1. ASSUME NEW c \in InHand', c # ctx
      PROVE  Complete(c)'
  <2>1. Complete(c) /\ SameFor(c)
    BY <1>1 DEF StreamInv
  <2> QED
    BY <2>1 DEF SameFor, Complete, HeaderFailed, Current
<1>2. ASSUME NEW c \in InHand', c = ctx
      PROVE  Complete(c)'
  BY <1>2 DEF Complete, HeaderFailed, Current
<1> QED
  BY <1>1, <1>2

LEMMA HandsAreConns ==
    ASSUME IInv
    PROVE  InHand \subseteq Conn
BY ThreadContext DEF InHand, IInv, TypeOK, HandlerTypeOK

\* (a - b) - g, when it is not negative.
LEMMA Minus64Shift ==
    ASSUME NEW a \in 0 .. MaxU64, NEW b \in 0 .. MaxU64, NEW g \in Nat, g <= Minus64(a, b)
    PROVE  Minus64(a, b + g) = Minus64(a, b) - g
<1> DEFINE x == a - b
<1>1. CASE a >= b
  <2>1. a - b \in 0 .. MaxU64
    BY <1>1, SmallConstants
  <2>2. Minus64(a, b) = a - b
    BY <2>1, Minus64Small
  <2>3. a - (b + g) \in 0 .. MaxU64 /\ b + g \in Int
    BY <1>1, <2>2, SmallConstants
  <2> QED
    BY <2>2, <2>3, Minus64Small
<1>2. CASE a < b
  <2>1. x \in Int /\ x < 0 /\ x + MaxU64 + 1 > 0
    BY <1>2, SmallConstants
  <2>2. Minus64(a, b) = x + MaxU64 + 1
    BY <2>1, SmallConstants DEF Minus64
  <2>3. x - g < 0 /\ x - g + MaxU64 + 1 >= 0 /\ x - g \in Int
    BY <2>1, <2>2, SmallConstants
  <2>4. (x - g) % (MaxU64 + 1) = x - g + MaxU64 + 1
    <3>1. CASE x - g + MaxU64 + 1 = 0
      BY <2>3, <3>1, SmallConstants
    <3>2. CASE x - g + MaxU64 + 1 > 0
      BY <2>3, <3>2, SmallConstants
    <3> QED
      BY <2>3, <3>1, <3>2, SmallConstants
  <2>5. a - (b + g) = x - g
    BY SmallConstants
  <2> QED
    BY <2>1, <2>2, <2>4, <2>5, SmallConstants DEF Minus64
<1> QED
  BY <1>1, <1>2, SmallConstants

LEMMA RecvDataStream ==
    ASSUME IInv, StreamInv, RecvData
    PROVE  StreamInv'
<1> USE DEF sockVars, ctxVars, flagVars, readVars, svcVars, callVars, localVars
<1> DEFINE c == ctx
           got == Lesser(Wanted(c), Unread(c))
           rest == IF httpBodyRemaining[c] # INVALID
                   THEN Minus64(httpBodyRemaining[c], got) ELSE INVALID
<1>1. at = "recv" /\ c \in Conn /\ InHand \subseteq Conn
  BY ThreadContext, HandsAreConns DEF RecvData
<1>2. /\ script[c] \in Scripts
      /\ base[c] \in Nat /\ size[c] \in Nat /\ reqNo[c] \in Nat
      /\ currentRequestOffset[c] \in Nat /\ nextRequestOffset[c] \in Nat
      /\ httpBodyOffset[c] \in Nat /\ httpBodyRemaining[c] \in Nat
      /\ sent[c] \in Nat /\ rcvd[c] \in Nat
  BY <1>1, ConnTypes
<1>3. /\ got \in Nat /\ got > 0 /\ got <= Wanted(c) /\ got <= sent[c] - rcvd[c]
      /\ Wanted(c) \in Nat
  <2>1. Unread(c) \in Int /\ Wanted(c) \in Nat
    BY <1>2, SmallConstants DEF Unread, Wanted
  <2>2. got > 0
    BY DEF RecvData
  <2> QED
    BY <1>2, <2>1, <2>2 DEF Lesser, Unread
<1>4. ConnInv(c) /\ ~Looking(c)
  BY <1>1 DEF StreamInv, ConnInv, Looking
<1> HIDE DEF rest, got
<1>5. /\ rcvd' = [rcvd EXCEPT ![c] = @ + got]
      /\ size' = IF c \in usePoolBody THEN size ELSE [size EXCEPT ![c] = @ + got]
      /\ httpBodyRemaining' = [httpBodyRemaining EXCEPT ![c] = rest]
      /\ at' = IF httpBodyOffset[c] = 0 THEN "parse" ELSE IF rest = 0 THEN "dispatch" ELSE "recv"
      /\ UNCHANGED <<script, sent, base, currentRequestOffset, nextRequestOffset,
                     httpBodyOffset, reqNo, flagVars, ctx, site>>
  BY DEF RecvData, got, rest
<1>6. /\ rcvd'[c] = rcvd[c] + got /\ httpBodyRemaining'[c] = rest
      /\ size'[c] = IF c \in usePoolBody THEN size[c] ELSE size[c] + got
  BY <1>1, <1>5, ReadTypes
<1>7. \A d \in Conn \ {c} : SameFor(d)
  BY <1>5, ReadTypes DEF SameFor
<1>8. /\ Current(c)' = Current(c) /\ HeaderFailed(c)' = HeaderFailed(c)
      /\ NextStart(c)' = NextStart(c)
  BY <1>5 DEF Current, HeaderFailed, NextStart
<1>9. script[c] # <<>>
  BY <1>1 DEF StreamInv
<1>10. ConnInv(c)' /\ (at' = "dispatch" => httpBodyRemaining'[c] = 0)
                  /\ (Complete(c) => Complete(c)')
  <2>1. CASE httpBodyOffset[c] = 0
    <3>1. /\ c \notin usePoolBody /\ HeadersRead(c) = {}
          /\ nextRequestOffset[c] = INVALID /\ currentRequestOffset[c] = 0
          /\ httpBodyRemaining[c] = INVALID
          /\ base[c] + size[c] = rcvd[c]
      BY <1>1, <1>4, <2>1 DEF ConnInv, SearchInv, CountInv, IInv, BodyInv
    <3>2. Wanted(c) = TryBlock /\ rest = INVALID /\ at' = "parse"
      BY <1>5, <2>1, <3>1 DEF Wanted, rest
    <3>3. ~HeaderFailed(c) => size'[c] <= ReadCap
      BY <1>1, <1>2, <1>3, <1>4, <1>6, <1>9, <2>1, <3>1, <3>2, SearchFits, SmallConstants, SMTT(30)
    <3>4. CountInv(c)'
      <4>1. rcvd'[c] <= sent[c] /\ base[c] + size'[c] = rcvd'[c]
        BY <1>2, <1>3, <1>6, <3>1
      <4> QED
        BY <1>4, <1>5, <1>8, <3>3, <4>1 DEF ConnInv, CountInv
    <3>5. \A k \in HeadersRead(c)' : base'[c] + size'[c] < script'[c][k].body + TryBlock
      <4> SUFFICES ASSUME NEW k \in DOMAIN script[c],
                          base[c] + currentRequestOffset[c] < script[c][k].body,
                          script[c][k].body <= base[c] + size'[c]
                   PROVE  base[c] + size'[c] < script[c][k].body + TryBlock
        BY <1>5 DEF HeadersRead
      <4>1. script[c][k].body \in Nat
        BY <1>2, Layout
      <4>2. ~(script[c][k].body <= base[c] + size[c])
        BY <3>1 DEF HeadersRead
      <4> QED
        BY <1>2, <1>3, <1>6, <3>1, <3>2, <4>1, <4>2, SmallConstants
    <3>6. SearchInv(c)'
      <4>1. Looking(c)'
        BY <1>5, <3>2 DEF Looking
      <4>2. currentRequestOffset[c] <= size'[c]
        BY <1>2, <1>3, <1>6, <3>1
      <4> QED
        BY <1>4, <1>5, <1>8, <2>1, <3>1, <3>5, <4>1, <4>2 DEF ConnInv, SearchInv
    <3>7. FoundInv(c)'
      BY <1>5, <2>1 DEF FoundInv
    <3>8. ~Complete(c) \/ HeaderFailed(c)
      BY <3>1, SmallConstants DEF Complete
    <3> QED
      BY <1>8, <3>2, <3>4, <3>6, <3>7, <3>8 DEF ConnInv, Complete
  <2>2. CASE httpBodyOffset[c] # 0 /\ HeaderFailed(c)
    <3>1. httpBodyRemaining[c] = INVALID /\ c \notin usePoolBody /\ rest = INVALID
      BY <1>4, <2>2 DEF ConnInv, FoundInv, rest
    <3>2. CountInv(c)'
      <4>1. rcvd'[c] <= sent[c] /\ base[c] + size'[c] = rcvd'[c]
        BY <1>2, <1>3, <1>4, <1>6, <3>1, SMTT(30) DEF ConnInv, CountInv
      <4> QED
        BY <1>4, <1>5, <1>8, <2>2, <4>1 DEF ConnInv, CountInv
    <3>3. SearchInv(c)'
      BY <1>5, <2>2 DEF SearchInv
    <3>4. httpBodyOffset[c] <= size'[c]
      BY <1>2, <1>3, <1>4, <1>6, <2>2, <3>1 DEF ConnInv, FoundInv
    <3>5. FoundInv(c)'
      BY <1>4, <1>5, <1>6, <1>8, <2>2, <3>1, <3>4 DEF ConnInv, FoundInv
    <3> QED
      BY <1>5, <1>8, <2>2, <3>1, <3>2, <3>3, <3>5, SmallConstants DEF ConnInv, Complete
  <2>3. CASE httpBodyOffset[c] # 0 /\ ~HeaderFailed(c)
    <3> DEFINE r == Current(c)
               v == httpBodyRemaining[c]
    <3>1. reqNo[c] # 0 /\ httpBodyOffset[c] <= size[c]
      BY <1>4, <2>3 DEF ConnInv, FoundInv
    <3>2. r.end \in 0 .. MaxU64 /\ rcvd[c] \in 0 .. MaxU64
      <4>1. reqNo[c] \in DOMAIN script[c]
        BY <1>1, <1>4, <3>1, CurrentRequest DEF ConnInv
      <4>2. r.end \in Nat /\ r.end + ReadCap < MaxU64
        BY <1>2, <4>1, Layout DEF Current
      <4> QED
        BY <1>1, <1>2, <4>2, StreamBounds, SmallConstants
    <3>3. v # 0
      BY <1>2, <1>3, SmallConstants DEF Wanted
    <3>4. r.length # INVALID /\ v \in {Minus64(r.end, rcvd[c]), INVALID}
      BY <1>4, <2>3, <3>3 DEF ConnInv, FoundInv
    <3>5. v # INVALID => got <= v /\ v \in 0 .. MaxU64 /\ rest = v - got /\ rest # INVALID
      <4> SUFFICES ASSUME v # INVALID
                   PROVE  got <= v /\ v \in 0 .. MaxU64 /\ rest = v - got /\ rest # INVALID
        OBVIOUS
      <4>1. got <= v
        BY <1>3 DEF Wanted
      <4>2. v \in 0 .. MaxU64
        BY <3>2, <3>4, Minus64Type, SmallConstants DEF Minus64
      <4>3. v - got \in 0 .. MaxU64 /\ v - got # INVALID /\ got \in Int /\ v \in Int
        BY <1>2, <1>3, <4>1, <4>2, SmallConstants
      <4>4. rest = Minus64(v, got)
        BY DEF rest
      <4> QED
        BY <4>1, <4>2, <4>3, <4>4, Minus64Small
    <3>6. rest \in {Minus64(r.end, rcvd'[c]), INVALID}
      <4>1. CASE v = INVALID
        BY <4>1 DEF rest
      <4>2. CASE v # INVALID
        BY <1>3, <1>6, <3>2, <3>4, <3>5, <4>2, Minus64Shift
      <4> QED
        BY <4>1, <4>2
    <3>7. /\ httpBodyOffset[c] <= size'[c]
          /\ c \notin usePoolBody => size'[c] + rest <= ReadCap /\ rest # INVALID
          /\ size'[c] <= ReadCap
      <4>1. CASE c \in usePoolBody
        BY <1>4, <1>6, <2>3, <3>1, <4>1 DEF ConnInv, CountInv
      <4>2. CASE c \notin usePoolBody
        <5>1. v # INVALID /\ size[c] + v <= ReadCap
          BY <1>4, <2>3, <4>2 DEF ConnInv, FoundInv
        <5> QED
          BY <1>2, <1>3, <1>6, <3>1, <3>5, <4>2, <5>1, SmallConstants
      <4> QED
        BY <4>1, <4>2
    <3>8. CountInv(c)'
      <4>1. rcvd'[c] <= sent[c] /\ (c \notin usePoolBody => base[c] + size'[c] = rcvd'[c])
        BY <1>2, <1>3, <1>4, <1>6, SMTT(30) DEF ConnInv, CountInv
      <4> QED
        BY <1>4, <1>5, <1>8, <3>7, <4>1 DEF ConnInv, CountInv
    <3>9. SearchInv(c)'
      BY <1>5, <2>3 DEF SearchInv
    <3>10. FoundInv(c)'
      BY <1>4, <1>5, <1>6, <1>8, <2>3, <3>4, <3>6, <3>7 DEF ConnInv, FoundInv
    <3>11. ~Complete(c)
      BY <2>3, <3>3 DEF Complete
    <3> QED
      BY <1>5, <1>6, <2>3, <3>8, <3>9, <3>10, <3>11 DEF ConnInv
  <2> QED
    BY <2>1, <2>2, <2>3
<1>11. InHand' \subseteq InHand \cup {c} /\ (c \in InHand' => c \in InHand \/ at' = "dispatch")
  BY <1>5 DEF InHand
<1>12. c \in InHand' => Complete(c)'
  <2>1. c \in InHand => Complete(c)
    BY DEF StreamInv
  <2>2. at' = "dispatch" => Complete(c)'
    BY <1>5, <1>10 DEF Complete
  <2> QED
    BY <1>10, <1>11, <2>1, <2>2
<1>13. \A d \in InHand' : Complete(d)'
  BY <1>1, <1>5, <1>7, <1>11, <1>12, OtherComplete
<1> QED
  BY <1>1, <1>5, <1>7, <1>9, <1>10, <1>13, OtherStreams DEF StreamInv, ConnInv

\* What ParseAgain, ParseAstray and the steps that parse start from.
LEMMA ParseStart ==
    ASSUME IInv, StreamInv, at = "parse"
    PROVE  /\ ctx \in Conn /\ ConnInv(ctx) /\ Looking(ctx) /\ script[ctx] # <<>>
           /\ httpBodyOffset[ctx] = 0 /\ httpBodyRemaining[ctx] = INVALID
           /\ ctx \notin usePoolBody /\ base[ctx] + size[ctx] = rcvd[ctx]
           /\ ctx \notin InHand /\ InHand \subseteq Conn
<1>1. ctx \in Conn /\ ConnInv(ctx) /\ Looking(ctx) /\ script[ctx] # <<>>
  BY ThreadContext DEF StreamInv, ConnInv, Looking
<1>2. httpBodyOffset[ctx] = 0 /\ httpBodyRemaining[ctx] = INVALID
  BY DEF IInv, CallInv
<1>3. ctx \notin usePoolBody /\ base[ctx] + size[ctx] = rcvd[ctx]
  BY <1>1, <1>2 DEF ConnInv, SearchInv, CountInv
<1>4. ctx \notin InHand
  BY <1>1, <1>2 DEF InHand, IInv, FlagsInv, Held
<1> QED
  BY <1>1, <1>2, <1>3, <1>4, HandsAreConns

LEMMA ParseAgainStream ==
    ASSUME IInv, StreamInv, ParseAgain
    PROVE  StreamInv'
<1> USE DEF sockVars, ctxVars, flagVars, readVars, svcVars, callVars, localVars
<1> DEFINE c == ctx
<1>1. at = "parse" /\ HeadersRead(c) = {}
  BY DEF ParseAgain
<1>2. /\ c \in Conn /\ ConnInv(c) /\ Looking(c) /\ script[c] # <<>>
      /\ httpBodyOffset[c] = 0 /\ c \notin usePoolBody
      /\ base[c] + size[c] = rcvd[c]
      /\ c \notin InHand /\ InHand \subseteq Conn
  BY <1>1, ParseStart
<1>3. /\ base[c] \in Nat /\ size[c] \in Nat /\ currentRequestOffset[c] \in Nat
      /\ rcvd[c] \in Nat /\ rcvd[c] < MaxU64
  BY <1>2, ConnTypes, StreamBounds
<1>4. /\ UNCHANGED <<script, sent, rcvd, flagVars, httpBodyOffset, httpBodyRemaining, reqNo, ctx>>
      /\ at' \in {"recv", "readDone"}
  BY DEF ParseAgain, GoTo, LeaveRead, Return
<1>5. /\ Current(c)' = Current(c) /\ HeaderFailed(c)' = HeaderFailed(c)
      /\ NextStart(c)' = NextStart(c) /\ ~Looking(c)'
  BY <1>4 DEF Current, HeaderFailed, NextStart, Looking
<1>6. ConnInv(c)' /\ \A d \in Conn \ {c} : SameFor(d)
  <2>1. CASE site = "next"
    <3>1. /\ base' = [base EXCEPT ![c] = @ + currentRequestOffset[c]]
          /\ size' = [size EXCEPT ![c] = Minus64(@, currentRequestOffset[c])]
          /\ currentRequestOffset' = [currentRequestOffset EXCEPT ![c] = 0]
          /\ nextRequestOffset' = [nextRequestOffset EXCEPT ![c] = INVALID]
      BY <2>1 DEF ParseAgain
    <3>2. \A d \in Conn \ {c} : SameFor(d)
      BY <1>4, <3>1, ReadTypes DEF SameFor
    <3>3. currentRequestOffset[c] <= size[c]
      BY <1>2 DEF ConnInv, SearchInv
    <3>4. Minus64(size[c], currentRequestOffset[c]) = size[c] - currentRequestOffset[c]
      <4>1. size[c] - currentRequestOffset[c] \in 0 .. MaxU64
        BY <1>2, <1>3, <3>3, SmallConstants
      <4> QED
        BY <1>3, <4>1, Minus64Small
    <3>5. /\ base'[c] = base[c] + currentRequestOffset[c]
          /\ size'[c] = size[c] - currentRequestOffset[c]
          /\ currentRequestOffset'[c] = 0 /\ nextRequestOffset'[c] = INVALID
      BY <1>2, <3>1, <3>4, ReadTypes
    <3>6. HeadersRead(c)' = {}
      <4>1. /\ base'[c] + currentRequestOffset'[c] = base[c] + currentRequestOffset[c]
            /\ base'[c] + size'[c] = base[c] + size[c]
        BY <1>3, <3>5
      <4> QED
        BY <1>1, <1>4, <4>1 DEF HeadersRead
    <3>7. CountInv(c)'
      <4>1. base'[c] + size'[c] = rcvd[c] /\ size'[c] <= size[c] /\ size'[c] \in Int
        BY <1>2, <1>3, <3>5
      <4>2. ~HeaderFailed(c) => size'[c] <= ReadCap
        BY <1>2, <1>3, <4>1, SmallConstants DEF ConnInv, CountInv
      <4> QED
        BY <1>2, <1>4, <1>5, <4>1, <4>2 DEF ConnInv, CountInv
    <3>8. SearchInv(c)'
      <4>1. base'[c] + currentRequestOffset'[c] = base[c] + currentRequestOffset[c]
            /\ currentRequestOffset'[c] <= size'[c]
        BY <1>3, <3>3, <3>5
      <4>2. \/ base'[c] + currentRequestOffset'[c] = NextStart(c)
            \/ HeaderFailed(c) /\ base'[c] + currentRequestOffset'[c] >= Current(c).start
        BY <1>2, <4>1 DEF ConnInv, SearchInv
      <4>3. \A k \in HeadersRead(c)' : base'[c] + size'[c] < script'[c][k].body + TryBlock
        BY <3>6
      <4> QED
        BY <1>2, <1>4, <1>5, <3>5, <3>6, <4>1, <4>2, <4>3 DEF SearchInv
    <3> QED
      BY <1>2, <1>4, <3>2, <3>7, <3>8 DEF ConnInv, FoundInv
  <2>2. CASE site # "next"
    <3>1. UNCHANGED <<base, size, currentRequestOffset, nextRequestOffset>>
      BY <2>2 DEF ParseAgain
    <3>2. HeadersRead(c)' = {}
      BY <1>1, <1>4, <3>1 DEF HeadersRead
    <3>3. CountInv(c)'
      BY <1>2, <1>4, <1>5, <3>1 DEF ConnInv, CountInv
    <3>4. SearchInv(c)'
      BY <1>2, <1>4, <1>5, <2>2, <3>1, <3>2 DEF ConnInv, SearchInv
    <3> QED
      BY <1>2, <1>4, <3>1, <3>3, <3>4 DEF ConnInv, FoundInv, SameFor
  <2> QED
    BY <2>1, <2>2
<1>7. InHand' \subseteq InHand
  BY <1>4 DEF InHand
<1>8. \A d \in InHand' : Complete(d)'
  BY <1>2, <1>4, <1>6, <1>7, OtherComplete
<1> QED
  BY <1>2, <1>4, <1>6, <1>8, OtherStreams DEF StreamInv, ConnInv

\* The place in the stream is lost only behind a refused request.
LEMMA ParseAstrayStream ==
    ASSUME IInv, StreamInv, ParseAstray
    PROVE  StreamInv'
<1> USE DEF sockVars, ctxVars, flagVars, readVars, svcVars, callVars, localVars
<1>1. /\ at = "parse" /\ at' = "astray" /\ UNCHANGED <<ctx, site, script, sent, rcvd, readVars, flagVars>>
      /\ HeadersRead(ctx) # {} /\ ~\E k \in HeadersRead(ctx) : Finds(ctx, k)
  BY DEF ParseAstray, GoTo
<1>2. /\ ctx \in Conn /\ httpBodyOffset[ctx] = 0
      /\ ctx \notin InHand /\ InHand \subseteq Conn
  BY <1>1, ParseStart
<1>3. HeaderFailed(ctx)
  <2> SUFFICES ASSUME ~HeaderFailed(ctx) PROVE FALSE
    OBVIOUS
  <2>1. Finds(ctx, reqNo[ctx] + 1)
    BY <1>1, <1>2, FindsNext
  <2> QED
    BY <1>1, <2>1 DEF Finds, IsFirst
<1>4. ASSUME NEW d \in Conn
      PROVE  ConnInv(d)'
  <2>1. SameFor(d) /\ (Looking(d)' <=> Looking(d)) /\ site' = site /\ ConnInv(d)
    BY <1>1 DEF SameFor, Looking, StreamInv, ConnInv
  <2> QED
    BY <2>1, SameStream
<1>5. \A d \in InHand' : Complete(d)'
  <2>1. \A d \in Conn : SameFor(d)
    BY <1>1 DEF SameFor
  <2>2. InHand' \subseteq InHand
    BY <1>1 DEF InHand
  <2> QED
    BY <1>1, <1>2, <2>1, <2>2, OtherComplete
<1>6. HeaderFailed(ctx)'
  BY <1>1, <1>3 DEF HeaderFailed, Current
<1> QED
  BY <1>1, <1>4, <1>5, <1>6 DEF StreamInv, ConnInv

\* The header that is parsed: it is where the handler looks for one, it is in
\* poolRead's first chunk, and it is that of the request behind the last.
LEMMA ParseFinds ==
    ASSUME IInv, StreamInv, at = "parse", NEW k, Finds(ctx, k)
    PROVE  LET c == ctx
               r == script[c][k]
           IN  /\ k \in DOMAIN script[c] /\ k \in 1 .. Len(script[c])
               /\ base[c] + currentRequestOffset[c] = r.start
               /\ r.body - base[c] \in Nat \ {0} /\ r.body - base[c] <= size[c]
               /\ nextRequestOffset[c] \in {INVALID, currentRequestOffset[c]}
               /\ size[c] <= ReadCap
               /\ k = reqNo[c] + 1 \/ (HeaderFailed(c) /\ k > reqNo[c])
<1> DEFINE c == ctx
           r == script[c][k]
<1>1. c \in Conn /\ ConnInv(c) /\ httpBodyOffset[c] = 0
  BY ParseStart
<1>2. /\ script[c] \in Scripts
      /\ base[c] \in Nat /\ size[c] \in Nat /\ reqNo[c] \in Nat
      /\ currentRequestOffset[c] \in Nat /\ nextRequestOffset[c] \in Nat
  BY <1>1, ConnTypes
<1>3. /\ k \in HeadersRead(c) /\ k \in DOMAIN script[c]
      /\ r.start = base[c] + currentRequestOffset[c] /\ k # reqNo[c]
      /\ base[c] + currentRequestOffset[c] < r.body /\ r.body <= base[c] + size[c]
  BY DEF Finds, IsFirst, HeadersRead
<1>4. k \in 1 .. Len(script[c]) /\ k \in Nat
  BY <1>2, <1>3, ScriptDomain
<1>5. r.start \in Nat /\ r.body \in Nat /\ r.body - r.start + TryBlock <= ReadCap
  BY <1>2, <1>3, Layout
<1>6. r.body - base[c] \in Nat \ {0} /\ r.body - base[c] <= size[c]
  BY <1>2, <1>3, <1>5
<1>7. nextRequestOffset[c] \in {INVALID, currentRequestOffset[c]}
  BY <1>1 DEF ConnInv, SearchInv
<1>8. CASE ~HeaderFailed(c)
  <2>1. size[c] <= ReadCap
    BY <1>1, <1>8 DEF ConnInv, CountInv
  <2>2. Finds(c, reqNo[c] + 1)
    BY <1>1, <1>3, <1>8, FindsNext
  <2>3. k = reqNo[c] + 1
    BY <1>1, <2>2, FindsOne
  <2> QED
    BY <1>3, <1>4, <1>6, <1>7, <2>1, <2>3
<1>9. CASE HeaderFailed(c)
  <2> DEFINE n == reqNo[c]
  <2>1. n \in DOMAIN script[c] /\ n \in Nat
    BY <1>1, <1>2, <1>9, CurrentRequest DEF HeaderFailed, ConnInv
  <2>2. /\ Current(c) = script[c][n]
        /\ script[c][n].start \in Nat /\ script[c][n].end \in Nat /\ r.end \in Nat
        /\ script[c][n].start < script[c][n].end /\ r.start < r.end
    <3>1. /\ script[c][n].start \in Nat /\ script[c][n].end \in Nat /\ script[c][n].body \in Nat
          /\ script[c][n].start < script[c][n].body /\ script[c][n].body <= script[c][n].end
      BY <1>2, <2>1, Layout
    <3>2. r.end \in Nat /\ r.start < r.body /\ r.body <= r.end
      BY <1>2, <1>3, Layout
    <3> QED
      BY <1>5, <3>1, <3>2 DEF Current
  <2>3. r.start >= script[c][n].start
    <3>1. \/ base[c] + currentRequestOffset[c] = NextStart(c)
          \/ base[c] + currentRequestOffset[c] >= Current(c).start
      BY <1>1 DEF ConnInv, SearchInv
    <3>2. NextStart(c) = script[c][n].end
      BY <1>9 DEF HeaderFailed, NextStart, Current
    <3> QED
      BY <1>2, <1>3, <2>2, <3>1, <3>2
  <2>4. k > n
    <3>1. CASE k < n
      <4>1. r.end <= script[c][n].start
        BY <1>2, <1>3, <2>1, <3>1, LayoutOrder
      <4> QED
        BY <1>5, <2>2, <2>3, <4>1
    <3> QED
      BY <1>3, <1>4, <2>1, <3>1
  <2>5. currentRequestOffset[c] = 0 /\ base[c] + size[c] < r.body + TryBlock
    <3>1. CASE base[c] + currentRequestOffset[c] = Current(c).start
      <4>1. script[c][n].end <= r.start
        BY <1>2, <1>3, <2>1, <2>4, LayoutOrder
      <4> QED
        BY <1>3, <1>5, <2>2, <3>1, <4>1
    <3>2. CASE base[c] + currentRequestOffset[c] # Current(c).start
      BY <1>1, <1>3, <1>9, <3>2 DEF ConnInv, SearchInv
    <3> QED
      BY <3>1, <3>2
  <2>6. size[c] <= ReadCap
    BY <1>2, <1>3, <1>5, <2>5, SmallConstants
  <2> QED
    BY <1>3, <1>4, <1>6, <1>7, <1>9, <2>4, <2>6
<1> QED
  BY <1>8, <1>9

LEMMA ParseThrowsStream ==
    ASSUME IInv, StreamInv, ParseRefused \/ ParseFailed
    PROVE  StreamInv'
<1> USE DEF sockVars, ctxVars, flagVars, readVars, svcVars, callVars, localVars
<1> DEFINE c == ctx
<1>1. PICK k : /\ Finds(c, k) /\ script[c][k].form \in {"bad", "refused"}
               /\ httpBodyOffset' = [httpBodyOffset EXCEPT ![c] = script[c][k].body - base[c]]
               /\ reqNo' = [reqNo EXCEPT ![c] = k]
  BY DEF ParseRefused, ParseFailed
<1> DEFINE r == script[c][k]
<1>2. /\ at = "parse" /\ at' \in {"respond", "readDone", "down"}
      /\ UNCHANGED <<script, sent, rcvd, flagVars, base, size, currentRequestOffset,
                     nextRequestOffset, httpBodyRemaining, ctx>>
  BY DEF ParseRefused, ParseFailed
<1>3. /\ c \in Conn /\ ConnInv(c) /\ Looking(c) /\ script[c] # <<>>
      /\ httpBodyOffset[c] = 0 /\ httpBodyRemaining[c] = INVALID
      /\ c \notin usePoolBody /\ base[c] + size[c] = rcvd[c]
      /\ c \notin InHand /\ InHand \subseteq Conn
  BY <1>2, ParseStart
<1>4. /\ k \in DOMAIN script[c] /\ k \in 1 .. Len(script[c])
      /\ base[c] + currentRequestOffset[c] = r.start
      /\ r.body - base[c] \in Nat \ {0} /\ r.body - base[c] <= size[c]
      /\ nextRequestOffset[c] \in {INVALID, currentRequestOffset[c]}
  BY <1>1, <1>2, ParseFinds
<1>5. httpBodyOffset'[c] = r.body - base[c] /\ reqNo'[c] = k
  BY <1>1, <1>3, ReadTypes
<1>6. Current(c)' = r /\ HeaderFailed(c)'
  <2>1. k # 0 /\ script[c] \in Scripts
    BY <1>3, <1>4, ConnTypes, ScriptDomain
  <2> QED
    BY <1>1, <1>2, <1>5, <2>1 DEF Current, HeaderFailed
<1>7. \A d \in Conn \ {c} : SameFor(d)
  BY <1>1, <1>2, ReadTypes DEF SameFor
<1>8. ConnInv(c)'
  <2>1. base[c] \in Nat /\ script[c] \in Scripts
    BY <1>3, ConnTypes
  <2>2. r.body \in Nat
    BY <1>4, <2>1, Layout
  <2>3. CountInv(c)'
    <3>1. k \in 0 .. Len(script[c])
      BY <1>4, <2>1, ScriptDomain
    <3> QED
      BY <1>2, <1>3, <1>5, <1>6, <3>1 DEF ConnInv, CountInv
  <2>4. SearchInv(c)'
    BY <1>2, <1>4, <1>5 DEF SearchInv
  <2>5. base[c] + (r.body - base[c]) = r.body
    BY <2>1, <2>2
  <2>6. k # 0
    BY <1>4, <2>1, ScriptDomain
  <2>7. FoundInv(c)'
    BY <1>2, <1>3, <1>4, <1>5, <1>6, <2>5, <2>6 DEF FoundInv
  <2> QED
    BY <2>3, <2>4, <2>7 DEF ConnInv
<1>9. InHand' \subseteq InHand \cup {c}
  BY <1>2 DEF InHand
<1>10. \A d \in InHand' : Complete(d)'
  <2>1. Complete(c)'
    BY <1>2, <1>6 DEF Complete
  <2> QED
    BY <1>2, <1>3, <1>7, <1>9, <2>1, OtherComplete
<1> QED
  BY <1>2, <1>3, <1>7, <1>8, <1>10, OtherStreams DEF StreamInv, ConnInv

\* What is still to come of a body is what lies between what has been received
\* and the end of the request.
LEMMA RestOfBody ==
    ASSUME IInv, StreamInv, at = "parse", NEW k, Finds(ctx, k)
    PROVE  LET c == ctx
               r == script[c][k]
           IN  /\ BodyRest(c, r) \in 0 .. MaxU64
               /\ IF r.length = INVALID THEN BodyRest(c, r) = 0
                  ELSE BodyRest(c, r) = Minus64(r.end, rcvd[c])
               /\ IF NeedsPoolBody(c, r)
                  THEN AfterRequest(c, r) = INVALID /\ r.length # INVALID
                  ELSE /\ AfterRequest(c, r) # INVALID
                       /\ base[c] + AfterRequest(c, r) = r.end
                       /\ BodyRest(c, r) # INVALID
                       /\ size[c] + BodyRest(c, r) <= ReadCap
<1> DEFINE c == ctx
           r == script[c][k]
<1>1. c \in Conn /\ base[c] + size[c] = rcvd[c]
  BY ParseStart
<1>2. /\ script[c] \in Scripts
      /\ base[c] \in Nat /\ size[c] \in Nat /\ rcvd[c] \in Nat
  BY <1>1, ConnTypes
<1>3. k \in DOMAIN script[c] /\ size[c] <= ReadCap
  BY ParseFinds
<1>4. /\ r.body \in Nat /\ r.end \in Nat /\ r.length \in 0 .. MaxU64
      /\ r.end = r.body + (IF r.length = INVALID THEN 0 ELSE r.length)
      /\ r.end + ReadCap < MaxU64
  BY <1>2, <1>3, Layout
<1>5. IF r.length = INVALID THEN BodyRest(c, r) = 0
      ELSE BodyRest(c, r) = Minus64(r.end, rcvd[c])
  <2>1. r.length # INVALID => r.body - base[c] + r.length - size[c] = r.end - rcvd[c]
    BY <1>1, <1>2, <1>4, SmallConstants
  <2>2. CASE r.length = INVALID
    BY <2>2 DEF BodyRest
  <2>3. CASE r.length # INVALID
    <3>1. BodyRest(c, r) = Minus64(r.body - base[c] + r.length, size[c])
      BY <2>3 DEF BodyRest
    <3> DEFINE a == r.body - base[c] + r.length
               b == size[c]
               d == r.end
               e == rcvd[c]
    <3>2. a - b = d - e
      BY <1>1, <1>2, <1>4, <2>3, SmallConstants
    <3>3. Minus64(a, b) = Minus64(d, e)
      <4> HIDE DEF a, b, d, e
      <4> QED
        BY <3>2, Minus64Same
    <3> QED
      BY <2>3, <3>1, <3>3
  <2> QED
    BY <2>2, <2>3
<1>6. BodyRest(c, r) \in 0 .. MaxU64
  <2>1. r.end \in Int /\ rcvd[c] \in Int
    BY <1>2, <1>4
  <2>2. Minus64(r.end, rcvd[c]) \in 0 .. MaxU64
    BY <2>1, Minus64Type
  <2> QED
    BY <1>5, <2>2, SmallConstants
<1>7. CASE NeedsPoolBody(c, r)
  BY <1>5, <1>6, <1>7 DEF NeedsPoolBody, AfterRequest
<1>8. CASE ~NeedsPoolBody(c, r)
  <2>1. AfterRequest(c, r) = r.end - base[c]
    <3>1. AfterRequest(c, r) = r.body - base[c] + (IF r.length = INVALID THEN 0 ELSE r.length)
      BY <1>8 DEF AfterRequest
    <3> QED
      BY <1>2, <1>4, <3>1, SmallConstants
  <2>2. AfterRequest(c, r) # INVALID /\ base[c] + AfterRequest(c, r) = r.end
    BY <1>2, <1>4, <2>1, SmallConstants
  <2>3. BodyRest(c, r) = 0 \/ BodyRest(c, r) <= ReadCap - size[c]
    BY <1>2, <1>6, <1>8, SmallConstants DEF NeedsPoolBody
  <2>4. BodyRest(c, r) # INVALID /\ size[c] + BodyRest(c, r) <= ReadCap
    BY <1>2, <1>3, <1>4, <1>6, <2>3, SmallConstants
  <2> QED
    BY <1>5, <1>6, <1>8, <2>2, <2>4
<1> QED
  BY <1>5, <1>6, <1>7, <1>8

LEMMA ParseDoneStream ==
    ASSUME IInv, StreamInv, ParseDone
    PROVE  StreamInv'
<1> USE DEF sockVars, ctxVars, flagVars, readVars, svcVars, callVars, localVars
<1> DEFINE c == ctx
<1>1. PICK k :
        LET r == script[c][k]
            again == site = "next" /\ BodyRest(c, r) # 0
        IN
        /\ Finds(c, k) /\ r.form \in {"good", "denied"}
        /\ reqNo' = [reqNo EXCEPT ![c] = k]
        /\ httpBodyOffset' = [httpBodyOffset EXCEPT ![c] = r.body - base[c]]
        /\ httpBodyRemaining' = [httpBodyRemaining EXCEPT ![c] = BodyRest(c, r)]
        /\ usePoolBody' = IF NeedsPoolBody(c, r) THEN usePoolBody \cup {c} ELSE usePoolBody
        /\ nextRequestOffset' = [nextRequestOffset EXCEPT
                                   ![c] = IF again THEN INVALID ELSE AfterRequest(c, r)]
        /\ at' = IF BodyRest(c, r) = 0 THEN "dispatch" ELSE "recv"
  BY DEF ParseDone
<1> DEFINE r == script[c][k]
           rest == BodyRest(c, r)
           next == IF site = "next" /\ rest # 0 THEN INVALID ELSE AfterRequest(c, r)
<1>2. /\ at = "parse"
      /\ UNCHANGED <<script, sent, rcvd, processing, writing, needTryNext, base, size,
                     currentRequestOffset, ctx>>
  BY DEF ParseDone
<1>3. /\ c \in Conn /\ ConnInv(c) /\ Looking(c) /\ script[c] # <<>>
      /\ httpBodyOffset[c] = 0 /\ c \notin usePoolBody /\ base[c] + size[c] = rcvd[c]
      /\ c \notin InHand /\ InHand \subseteq Conn
  BY <1>2, ParseStart
<1>4. /\ k \in DOMAIN script[c] /\ k \in 1 .. Len(script[c])
      /\ base[c] + currentRequestOffset[c] = r.start
      /\ r.body - base[c] \in Nat \ {0} /\ r.body - base[c] <= size[c]
      /\ size[c] <= ReadCap
  BY <1>1, <1>2, ParseFinds
<1>5. /\ rest \in 0 .. MaxU64
      /\ IF r.length = INVALID THEN rest = 0 ELSE rest = Minus64(r.end, rcvd[c])
      /\ IF NeedsPoolBody(c, r)
         THEN AfterRequest(c, r) = INVALID /\ r.length # INVALID
         ELSE /\ AfterRequest(c, r) # INVALID
              /\ base[c] + AfterRequest(c, r) = r.end
              /\ rest # INVALID
              /\ size[c] + rest <= ReadCap
  BY <1>1, <1>2, RestOfBody
<1> HIDE DEF rest
<1>6. /\ httpBodyOffset'[c] = r.body - base[c] /\ reqNo'[c] = k
      /\ httpBodyRemaining'[c] = rest /\ nextRequestOffset'[c] = next
      /\ c \in usePoolBody' <=> NeedsPoolBody(c, r)
  BY <1>1, <1>3, ReadTypes DEF rest
<1>7. k # 0 /\ k \in 0 .. Len(script[c]) /\ script[c] \in Scripts
  BY <1>3, <1>4, ConnTypes, ScriptDomain
<1>8. Current(c)' = r /\ ~HeaderFailed(c)'
  BY <1>1, <1>2, <1>6, <1>7 DEF Current, HeaderFailed
<1>9. \A d \in Conn \ {c} : SameFor(d)
  BY <1>1, <1>2, ReadTypes DEF SameFor
<1>10. ConnInv(c)'
  <2>1. CountInv(c)'
    BY <1>2, <1>3, <1>4, <1>6, <1>7, <1>8 DEF ConnInv, CountInv
  <2>2. SearchInv(c)'
    BY <1>2, <1>4, <1>6 DEF SearchInv
  <2>3. base[c] + (r.body - base[c]) = r.body
    <3>1. base[c] \in Nat /\ r.body \in Nat
      BY <1>3, <1>4, <1>7, ConnTypes, Layout
    <3> QED
      BY <3>1
  <2>4. IF next = INVALID THEN r.length # INVALID ELSE base[c] + next = r.end
    BY <1>5
  <2>5. FoundInv(c)'
    BY <1>2, <1>3, <1>4, <1>5, <1>6, <1>7, <1>8, <2>3, <2>4 DEF FoundInv
  <2> QED
    BY <2>1, <2>2, <2>5 DEF ConnInv
<1>11. at' = "dispatch" => httpBodyRemaining'[c] = 0
  BY <1>1, <1>6 DEF rest
<1>12. at' \in {"dispatch", "recv"}
  BY <1>1
<1>13. \A d \in InHand' : Complete(d)'
  <2>1. InHand' \subseteq InHand \cup {c} /\ (c \in InHand' => at' = "dispatch")
    BY <1>2, <1>3, <1>12 DEF InHand
  <2>2. c \in InHand' => Complete(c)'
    BY <1>2, <1>11, <2>1 DEF Complete
  <2> QED
    BY <1>2, <1>3, <1>9, <2>1, <2>2, OtherComplete
<1> QED
  BY <1>2, <1>3, <1>9, <1>10, <1>11, <1>12, <1>13, OtherStreams DEF StreamInv, ConnInv

\* Where the request behind the one that has been answered starts, and that what
\* has been received of it is in poolRead.
LEMMA NextPlace ==
    ASSUME IInv, StreamInv, at = "next"
    PROVE  LET c == ctx
               empty == nextRequestOffset[c] = INVALID \/ size[c] = nextRequestOffset[c]
           IN  /\ c \in Conn /\ reqNo[c] # 0
               /\ empty => \/ rcvd[c] = NextStart(c)
                           \/ HeaderFailed(c) /\ rcvd[c] >= Current(c).start
               /\ ~empty => /\ c \notin usePoolBody /\ nextRequestOffset[c] <= size[c]
                            /\ IF HeaderFailed(c)
                               THEN base[c] + nextRequestOffset[c] = Current(c).start
                               ELSE base[c] + nextRequestOffset[c] = NextStart(c)
<1> DEFINE c == ctx
           r == Current(c)
           empty == nextRequestOffset[c] = INVALID \/ size[c] = nextRequestOffset[c]
<1>1. c \in Conn /\ ConnInv(c) /\ Complete(c) /\ httpBodyOffset[c] # 0
  BY ThreadContext DEF StreamInv, ConnInv, InHand, IInv, CallInv, Held
<1>2. /\ script[c] \in Scripts
      /\ base[c] \in Nat /\ size[c] \in Nat /\ reqNo[c] \in Nat
      /\ nextRequestOffset[c] \in Nat /\ httpBodyOffset[c] \in Nat
      /\ sent[c] \in Nat /\ rcvd[c] \in Nat
  BY <1>1, ConnTypes
<1>3. /\ reqNo[c] # 0 /\ base[c] + httpBodyOffset[c] = r.body /\ httpBodyOffset[c] <= size[c]
      /\ reqNo[c] \in DOMAIN script[c] /\ NextStart(c) = r.end
  BY <1>1, CurrentRequest DEF ConnInv, FoundInv, NextStart
<1>4. /\ r.start \in Nat /\ r.body \in Nat /\ r.end \in Nat
      /\ r.start < r.body /\ r.body <= r.end /\ r.end < MaxU64
      /\ r.end = r.body + (IF r.length = INVALID THEN 0 ELSE r.length)
  <2>1. /\ r.start \in Nat /\ r.body \in Nat /\ r.end \in Nat
        /\ r.start < r.body /\ r.body <= r.end /\ r.end + ReadCap < MaxU64
        /\ r.end = r.body + (IF r.length = INVALID THEN 0 ELSE r.length)
    BY <1>2, <1>3, Layout DEF Current
  <2> QED
    BY <2>1, SmallConstants
<1>5. rcvd[c] < MaxU64
  BY <1>1, StreamBounds
<1>6. CASE ~HeaderFailed(c)
  <2>1. httpBodyRemaining[c] = 0
    BY <1>1, <1>6 DEF Complete
  <2>2. r.length # INVALID => rcvd[c] = r.end
    <3> SUFFICES ASSUME r.length # INVALID PROVE rcvd[c] = r.end
      OBVIOUS
    <3>1. Minus64(r.end, rcvd[c]) = 0
      BY <1>1, <1>6, <2>1, SmallConstants DEF ConnInv, FoundInv
    <3> QED
      BY <1>2, <1>4, <1>5, <3>1, Minus64Zero, SmallConstants
  <2>3. nextRequestOffset[c] = INVALID => r.length # INVALID
    BY <1>1, <1>6 DEF ConnInv, FoundInv
  <2>4. nextRequestOffset[c] # INVALID =>
          c \notin usePoolBody /\ base[c] + nextRequestOffset[c] = r.end
    BY <1>1, <1>6 DEF ConnInv, FoundInv
  <2>5. empty => rcvd[c] = NextStart(c)
    <3>1. CASE nextRequestOffset[c] = INVALID
      BY <1>3, <2>2, <2>3, <3>1
    <3>2. CASE nextRequestOffset[c] # INVALID
      BY <1>1, <1>3, <2>4, <3>2 DEF ConnInv, CountInv
    <3> QED
      BY <3>1, <3>2
  <2>6. ~empty => nextRequestOffset[c] <= size[c]
    <3> SUFFICES ASSUME ~empty PROVE nextRequestOffset[c] <= size[c]
      OBVIOUS
    <3>1. base[c] + nextRequestOffset[c] = r.end /\ base[c] + size[c] = rcvd[c]
      BY <1>1, <2>4 DEF ConnInv, CountInv
    <3>2. r.end <= base[c] + size[c]
      BY <1>2, <1>3, <1>4, <2>2, <3>1
    <3> QED
      BY <1>2, <3>1, <3>2
  <2> QED
    BY <1>1, <1>3, <1>6, <2>4, <2>5, <2>6
<1>7. CASE HeaderFailed(c)
  <2>1. /\ c \notin usePoolBody /\ base[c] + size[c] = rcvd[c]
        /\ nextRequestOffset[c] = INVALID \/ base[c] + nextRequestOffset[c] = r.start
    BY <1>1, <1>7 DEF ConnInv, FoundInv, CountInv
  <2>2. rcvd[c] >= r.start
    BY <1>2, <1>3, <1>4, <2>1
  <2>3. ~empty => nextRequestOffset[c] <= size[c]
    BY <1>2, <1>3, <1>4, <2>1
  <2> QED
    BY <1>1, <1>3, <1>7, <2>1, <2>2, <2>3
<1> QED
  BY <1>6, <1>7

LEMMA TryNextRequestStream ==
    ASSUME IInv, StreamInv, TryNextRequest
    PROVE  StreamInv'
<1> USE DEF sockVars, ctxVars, flagVars, readVars, svcVars, callVars, localVars
<1> DEFINE c == ctx
           empty == nextRequestOffset[c] = INVALID \/ size[c] = nextRequestOffset[c]
<1>1. /\ at = "next" /\ ResetContext(c)
      /\ UNCHANGED <<script, sent, rcvd, processing, reqNo, ctx>>
  BY DEF TryNextRequest, NothingFollows
<1>2. c \in Conn /\ ConnInv(c) /\ Complete(c) /\ InHand \subseteq Conn /\ c \notin processing
  BY <1>1, ThreadContext, HandsAreConns DEF StreamInv, ConnInv, InHand, IInv, CallInv
<1>3. /\ script[c] \in Scripts
      /\ base[c] \in Nat /\ size[c] \in Nat /\ reqNo[c] \in Nat
      /\ nextRequestOffset[c] \in Nat /\ rcvd[c] \in Nat
  BY <1>2, ConnTypes
<1>4. /\ reqNo[c] # 0
      /\ empty => \/ rcvd[c] = NextStart(c)
                  \/ HeaderFailed(c) /\ rcvd[c] >= Current(c).start
      /\ ~empty => /\ c \notin usePoolBody /\ nextRequestOffset[c] <= size[c]
                   /\ IF HeaderFailed(c)
                      THEN base[c] + nextRequestOffset[c] = Current(c).start
                      ELSE base[c] + nextRequestOffset[c] = NextStart(c)
  BY <1>1, NextPlace
<1>5. /\ usePoolBody' = usePoolBody \ {c}
      /\ httpBodyOffset'[c] = 0 /\ httpBodyRemaining'[c] = INVALID
      /\ writing' = writing \ {c} /\ needTryNext' = needTryNext \ {c}
  BY <1>1, <1>2, ReadTypes DEF ResetContext
<1>6. /\ Current(c)' = Current(c) /\ HeaderFailed(c)' = HeaderFailed(c)
      /\ NextStart(c)' = NextStart(c)
  BY <1>1 DEF Current, HeaderFailed, NextStart
<1>7. script[c] # <<>>
  BY <1>2, <1>3, <1>4, CurrentRequest DEF ConnInv
<1>8. at' \in {"recv", "parse"}
  BY DEF TryNextRequest, NothingFollows
<1>9. ConnInv(c)' /\ \A d \in Conn \ {c} : SameFor(d)
  <2>1. CASE empty
    <3>1. /\ base' = [base EXCEPT ![c] = rcvd[c]]
          /\ size' = [size EXCEPT ![c] = 0]
          /\ currentRequestOffset' = [currentRequestOffset EXCEPT ![c] = 0]
          /\ nextRequestOffset' = [nextRequestOffset EXCEPT ![c] = INVALID]
          /\ at' = "recv"
      BY <2>1 DEF TryNextRequest, NothingFollows
    <3>2. /\ base'[c] = rcvd[c] /\ size'[c] = 0
          /\ currentRequestOffset'[c] = 0 /\ nextRequestOffset'[c] = INVALID
      BY <1>2, <3>1, ReadTypes
    <3>3. HeadersRead(c)' = {}
      <4> SUFFICES ASSUME NEW k \in DOMAIN script[c],
                          rcvd[c] + 0 < script[c][k].body, script[c][k].body <= rcvd[c] + 0
                   PROVE  FALSE
        BY <1>1, <3>2 DEF HeadersRead
      <4>1. script[c][k].body \in Nat
        BY <1>3, Layout
      <4> QED
        BY <1>3, <4>1
    <3>4. CountInv(c)'
      BY <1>1, <1>2, <1>3, <1>5, <1>6, <3>2, SmallConstants DEF ConnInv, CountInv
    <3>5. base'[c] + currentRequestOffset'[c] = rcvd[c]
      BY <1>3, <3>2
    <3>6. SearchInv(c)'
      BY <1>1, <1>3, <1>4, <1>5, <1>6, <2>1, <3>2, <3>3, <3>5 DEF SearchInv
    <3>7. \A d \in Conn \ {c} : SameFor(d)
      BY <1>1, <3>1, ReadTypes DEF SameFor, ResetContext
    <3>8. FoundInv(c)'
      BY <1>1, <1>5 DEF FoundInv
    <3> QED
      BY <1>1, <3>4, <3>6, <3>7, <3>8 DEF ConnInv
  <2>2. CASE ~empty
    <3>1. /\ currentRequestOffset' = [currentRequestOffset EXCEPT ![c] = nextRequestOffset[c]]
          /\ at' = "parse" /\ site' = "next"
          /\ UNCHANGED <<base, size, nextRequestOffset>>
      BY <2>2 DEF TryNextRequest, NothingFollows
    <3>2. currentRequestOffset'[c] = nextRequestOffset[c] /\ Looking(c)'
      BY <1>1, <1>2, <3>1, ReadTypes DEF Looking
    <3>3. CountInv(c)'
      BY <1>1, <1>2, <1>4, <1>6, <2>2, <3>1 DEF ConnInv, CountInv
    <3>4. \/ base[c] + nextRequestOffset[c] = NextStart(c)
          \/ HeaderFailed(c) /\ base[c] + nextRequestOffset[c] >= Current(c).start
      <4>1. Current(c).start \in Nat
        BY <1>2, <1>3, <1>4, CurrentRequest, Layout DEF ConnInv, Current
      <4> QED
        BY <1>3, <1>4, <2>2, <4>1
    <3>5. SearchInv(c)'
      BY <1>1, <1>4, <1>5, <1>6, <2>2, <3>1, <3>2, <3>4 DEF SearchInv
    <3>6. \A d \in Conn \ {c} : SameFor(d)
      BY <1>1, <3>1, ReadTypes DEF SameFor, ResetContext
    <3>7. FoundInv(c)'
      BY <1>1, <1>5 DEF FoundInv
    <3> QED
      BY <1>1, <3>3, <3>5, <3>6, <3>7 DEF ConnInv
  <2> QED
    BY <2>1, <2>2
<1>10. \A d \in InHand' : Complete(d)'
  <2>1. InHand' \subseteq InHand \cup {c} /\ c \notin InHand'
    BY <1>1, <1>2, <1>5, <1>8 DEF InHand
  <2> QED
    BY <1>1, <1>2, <1>9, <2>1, OtherComplete
<1> QED
  BY <1>1, <1>2, <1>7, <1>8, <1>9, <1>10, OtherStreams DEF StreamInv, ConnInv

------------------------------------------------------------------------------
(* The invariant of the server, and what it says of requests.              *)

LEMMA InitStream == Init => StreamInv
<1> SUFFICES ASSUME Init
             PROVE  StreamInv
  OBVIOUS
<1> USE DEF Init, SockInit, HandlerInit
<1>1. IInv
  BY InitInv
<1>2. ASSUME NEW c \in Conn
      PROVE  CountInv(c) /\ SearchInv(c) /\ FoundInv(c)
  <2>1. /\ script[c] \in Scripts /\ sent[c] = 0 /\ rcvd[c] = 0 /\ base[c] = 0 /\ size[c] = 0
        /\ currentRequestOffset[c] = 0 /\ nextRequestOffset[c] = INVALID
        /\ httpBodyOffset[c] = 0 /\ reqNo[c] = 0 /\ c \notin usePoolBody
    OBVIOUS
  <2>2. ~HeaderFailed(c) /\ NextStart(c) = 0
    BY <2>1 DEF HeaderFailed, NextStart
  <2>3. HeadersRead(c) = {}
    <3> SUFFICES ASSUME NEW k \in DOMAIN script[c], 0 < script[c][k].body, script[c][k].body <= 0
                 PROVE  FALSE
      BY <2>1 DEF HeadersRead
    <3>1. script[c][k].body \in Nat
      BY <2>1, Layout
    <3> QED
      BY <3>1
  <2>4. 0 \in 0 .. Len(script[c])
    BY <2>1, ScriptDomain
  <2>5. CountInv(c)
    BY <2>1, <2>2, <2>4, SmallConstants DEF CountInv
  <2>6. SearchInv(c)
    BY <2>1, <2>2, <2>3 DEF SearchInv
  <2>7. FoundInv(c)
    BY <2>1 DEF FoundInv
  <2> QED
    BY <2>5, <2>6, <2>7
<1>3. InHand = {} /\ at = "idle"
  BY DEF InHand
<1> QED
  BY <1>2, <1>3 DEF StreamInv

LEMMA StutterStream ==
    ASSUME StreamInv, UNCHANGED vars
    PROVE  StreamInv'
<1>1. UNCHANGED streamVars /\ UNCHANGED placeVars /\ InHand' = InHand
  BY DEF vars, sockVars, handlerVars, ctxVars, flagVars, readVars, svcVars, callVars, localVars,
         streamVars, placeVars, InHand
<1> QED
  BY <1>1, QuietStep

LEMMA HandlerStream ==
    ASSUME IInv, StreamInv, HandlerNext
    PROVE  StreamInv'
BY QuietHandler, RecvDataStream, ParseAgainStream, ParseAstrayStream, ParseThrowsStream,
   ParseDoneStream, TryNextRequestStream
   DEF HandlerNext

LEMMA EventStream ==
    ASSUME IInv, StreamInv, EventNext
    PROVE  StreamInv'
<1>1. CASE \E f \in Fd : (\E c \in Conn : Accept(f, c)) \/ HangUpEvent(f) \/ ReadyWrite(f)
  BY <1>1, QuietEvent
<1>2. CASE RunTask
  BY <1>2, QuietEvent
<1>3. CASE \E f \in Fd : HandleRequest(f)
  BY <1>3, HandleRequestStream
<1> QED
  BY <1>1, <1>2, <1>3 DEF EventNext

\* The inductive step: the streams are kept whatever happens.
LEMMA StreamStep ==
    ASSUME IInv, StreamInv, [Next]_vars
    PROVE  StreamInv'
<1>1. CASE PeerNext /\ UNCHANGED handlerVars
  BY <1>1, PeerStream
<1>2. CASE \E c \in Conn : ServiceCompletes(c)
  BY <1>2, QuietEvent
<1>3. CASE EventNext
  BY <1>3, EventStream
<1>4. CASE HandlerNext
  BY <1>4, HandlerStream
<1>5. CASE UNCHANGED vars
  BY <1>5, StutterStream
<1> QED
  BY <1>1, <1>2, <1>3, <1>4, <1>5 DEF Next

\* StreamInv is an invariant of the server.  What IInv says of contexts and
\* flags is needed to know which connection a step reads from, and that no
\* other step touches its stream.
THEOREM StreamInvariant == Spec => [](IInv /\ StreamInv)
<1>1. Init => IInv /\ StreamInv
  BY InitInv, InitStream
<1>2. (IInv /\ StreamInv) /\ [Next]_vars => (IInv /\ StreamInv)'
  BY InvStep, StreamStep
<1> QED
  BY <1>1, <1>2, PTL DEF Spec

\* Requests are cut out of the stream at their boundaries, for every script
\* of requests that keep to the sizes of HandlerAssumption, every cut of recv
\* and every number of connections: what is dispatched is a whole request and
\* nothing else, no read outgrows poolRead's chunk, and the handler loses its
\* place only behind a refused request.
THEOREM CutWhole == Spec => []RequestsCutWhole
<1>1. IInv /\ StreamInv => RequestsCutWhole
  <2> SUFFICES ASSUME IInv, StreamInv
               PROVE  RequestsCutWhole
    OBVIOUS
  <2> DEFINE c == ctx
  <2>1. ASSUME at = "dispatch"
        PROVE  /\ Current(c).start = base[c] + currentRequestOffset[c]
               /\ Current(c).body = base[c] + httpBodyOffset[c]
               /\ Current(c).length # INVALID => rcvd[c] = Current(c).end
    <3> DEFINE r == Current(c)
    <3>1. /\ c \in Conn /\ CountInv(c) /\ FoundInv(c) /\ httpBodyRemaining[c] = 0
          /\ httpBodyOffset[c] # 0
      BY <2>1, ThreadContext DEF StreamInv, IInv, CallInv, Held
    <3>2. /\ ~HeaderFailed(c) /\ reqNo[c] # 0
          /\ base[c] + currentRequestOffset[c] = r.start
          /\ base[c] + httpBodyOffset[c] = r.body
          /\ r.length # INVALID => httpBodyRemaining[c] \in {Minus64(r.end, rcvd[c]), INVALID}
      BY <3>1, SmallConstants DEF FoundInv
    <3>3. script[c] \in Scripts /\ reqNo[c] \in DOMAIN script[c]
      BY <3>1, <3>2, ConnTypes, CurrentRequest
    <3>4. r.end \in 0 .. MaxU64 /\ rcvd[c] \in 0 .. MaxU64
      <4>1. r.end \in Nat /\ r.end + ReadCap < MaxU64
        BY <3>3, Layout DEF Current
      <4>2. rcvd[c] \in Nat /\ rcvd[c] < MaxU64
        BY <3>1, ConnTypes, StreamBounds
      <4> QED
        BY <4>1, <4>2, SmallConstants
    <3>5. r.length # INVALID => r.end = rcvd[c]
      BY <3>1, <3>2, <3>4, Minus64Zero, SmallConstants
    <3> QED
      BY <3>2, <3>5
  <2>2. ASSUME at = "recv", c \notin usePoolBody, ~HeaderFailed(c),
               httpBodyOffset[c] = 0 \/ httpBodyRemaining[c] # INVALID
        PROVE  size[c] + Wanted(c) <= ReadCap
    <3>1. c \in Conn /\ FoundInv(c) /\ script[c] # <<>> /\ ~Looking(c)
      BY <2>2, ThreadContext DEF StreamInv, Looking
    <3>2. CASE httpBodyOffset[c] = 0
      <4>1. httpBodyRemaining[c] = INVALID
        BY <3>1, <3>2 DEF IInv, BodyInv
      <4>2. size[c] + TryBlock <= ReadCap
        BY <2>2, <3>1, <3>2, SearchFits
      <4> QED
        BY <4>1, <4>2 DEF Wanted
    <3>3. CASE httpBodyOffset[c] # 0
      BY <2>2, <3>1, <3>3 DEF FoundInv, Wanted
    <3> QED
      BY <3>2, <3>3
  <2>3. at = "astray" => HeaderFailed(ctx)
    BY DEF StreamInv
  <2> QED
    BY <2>1, <2>2, <2>3 DEF RequestsCutWhole, WholeRequestDispatched, PoolReadIsOneChunk,
                            LostOnlyWhenRefused
<1> QED
  BY <1>1, StreamInvariant, PTL

\* No step takes a request twice or passes one over: a header that is found
\* is that of the request behind the last one, unless that was refused.
THEOREM TakenInOrder == Spec => RequestsInOrder
<1>1. (IInv /\ StreamInv) /\ [Next]_vars => [TakesTheNext]_vars
  <2> SUFFICES ASSUME IInv, StreamInv, [Next]_vars
               PROVE  TakesTheNext
    OBVIOUS
  <2>1. ASSUME NEW k, at = "parse", Finds(ctx, k),
               httpBodyOffset' = [httpBodyOffset EXCEPT ![ctx] = script[ctx][k].body - base[ctx]],
               reqNo' = [reqNo EXCEPT ![ctx] = k]
        PROVE  TakesTheNext
    <3> SUFFICES ASSUME NEW c \in Conn
                 PROVE  IF httpBodyOffset[c] = 0 /\ httpBodyOffset'[c] # 0
                        THEN IF reqNo[c] = 0 THEN reqNo'[c] = 1
                             ELSE MayFollow(c, reqNo[c], reqNo'[c])
                        ELSE reqNo'[c] = reqNo[c]
      BY DEF TakesTheNext
    <3>1. CASE c = ctx
      <4>1. httpBodyOffset[c] = 0 /\ httpBodyOffset'[c] # 0 /\ reqNo'[c] = k
        BY <2>1, <3>1, ParseStart, ParseFinds, ReadTypes
      <4>2. k = reqNo[c] + 1 \/ (HeaderFailed(c) /\ k > reqNo[c])
        BY <2>1, <3>1, ParseFinds
      <4> QED
        BY <4>1, <4>2 DEF MayFollow, HeaderFailed, Current
    <3>2. CASE c # ctx
      BY <2>1, <3>2, ReadTypes
    <3> QED
      BY <3>1, <3>2
  <2>2. ASSUME reqNo' = reqNo,
               \A c \in Conn : httpBodyOffset'[c] \in {httpBodyOffset[c], 0}
        PROVE  TakesTheNext
    BY <2>2 DEF TakesTheNext
  <2>3. CASE UNCHANGED readVars
    BY <2>2, <2>3 DEF readVars
  <2>4. CASE HandlerNext
    <3>1. CASE ParseRefused \/ ParseFailed \/ ParseDone
      BY <2>1, <3>1 DEF ParseRefused, ParseFailed, ParseDone
    <3>2. CASE RecvData \/ ParseAgain
      BY <2>2, <3>2 DEF RecvData, ParseAgain
    <3>3. CASE TryNextRequest
      <4>1. /\ reqNo' = reqNo
            /\ httpBodyOffset' = [httpBodyOffset EXCEPT ![ctx] = 0]
        BY <3>3 DEF TryNextRequest, NothingFollows, ResetContext
      <4> QED
        BY <2>2, <4>1, ReadTypes
    <3>4. CASE ~(ParseRefused \/ ParseFailed \/ ParseDone \/ RecvData \/ ParseAgain
                    \/ TryNextRequest)
      <4>1. UNCHANGED readVars
        BY <2>4, <3>4 DEF HandlerNext, RecvError, RecvZero, RecvAgain, ParseAstray,
           ProcessRequest, ProcessResponse, SendData, SendNothing, SendAgain, SendError,
           ResponseWritten, LoopNext, ResponseDone, ReadReturns
      <4> QED
        BY <2>3, <4>1
    <3> QED
      BY <3>1, <3>2, <3>3, <3>4
  <2>5. CASE EventNext \/ \E c \in Conn : ServiceCompletes(c)
    <3>1. UNCHANGED readVars
      BY <2>5 DEF EventNext, Accept, HangUpEvent, HandleRequest, ReadyWrite, RunTask,
                  ServiceCompletes
    <3> QED
      BY <2>3, <3>1
  <2>6. CASE (PeerNext /\ UNCHANGED handlerVars) \/ UNCHANGED vars
    BY <2>3, <2>6 DEF vars, handlerVars
  <2> QED
    BY <2>4, <2>5, <2>6 DEF Next
<1> QED
  BY <1>1, StreamInvariant, PTL DEF Spec, RequestsInOrder

------------------------------------------------------------------------------
(* What is written: a context writes to its connection response after      *)
(* response, and the server implements Conversation.                       *)

LEMMA OwnPlaces ==
    ASSUME IInv, NEW c \in Conn
    PROVE  /\ out[c] \in Seq(Unit) /\ Len(out[c]) \in Nat /\ DOMAIN out[c] = 1 .. Len(out[c])
           /\ Own(c) \subseteq 1 .. Len(out[c]) /\ Ends(c) \subseteq Own(c)
           /\ Own(c) # {} => Max(Own(c)) \in Own(c) /\ \A i \in Own(c) : i <= Max(Own(c))
           /\ Ends(c) # {} => Max(Ends(c)) \in Ends(c) /\ \A i \in Ends(c) : i <= Max(Ends(c))
<1>1. out[c] \in Seq(Unit)
  BY DEF IInv, TypeOK, SockTypeOK
<1>2. Len(out[c]) \in Nat /\ DOMAIN out[c] = 1 .. Len(out[c])
  BY <1>1
<1>3. Own(c) \subseteq 1 .. Len(out[c]) /\ Ends(c) \subseteq Own(c)
  BY <1>2 DEF Own, Ends
<1> QED
  BY <1>1, <1>2, <1>3, MaxOf

------------------------------------------------------------------------------
(* Steps that write nothing.                                               *)

\* Descriptors change hands, and peers go, in four ways.
LEMMA SockSteps ==
    ASSUME [Next]_vars
    PROVE  \/ UNCHANGED <<rst, opened, sock>>
           \/ /\ UNCHANGED reqNo
              /\ \/ \E f : CloseConnection(f)
                 \/ \E f \in Fd : \E c \in Conn : Accept(f, c)
                 \/ \E c \in Conn : PeerResets(c)
<1> USE DEF sockVars, handlerVars, readVars
<1>1. CASE PeerNext /\ UNCHANGED handlerVars
  BY <1>1 DEF PeerNext, PeerSends, PeerReads, PeerCloses
<1>2. CASE \E c \in Conn : ServiceCompletes(c)
  BY <1>2 DEF ServiceCompletes
<1>3. CASE EventNext
  <2>1. UNCHANGED reqNo
    BY <1>3 DEF EventNext, Accept, HangUpEvent, HandleRequest, ReadyWrite, RunTask
  <2>2. \/ UNCHANGED <<rst, opened, sock>>
        \/ \E f : CloseConnection(f)
        \/ \E f \in Fd : \E c \in Conn : Accept(f, c)
    BY <1>3 DEF EventNext, HangUpEvent, HandleRequest, ReadyWrite, RunTask
  <2> QED
    BY <2>1, <2>2
<1>4. CASE HandlerNext
  BY <1>4 DEF HandlerNext, RecvError, RecvZero, RecvAgain, RecvData, ParseAgain, ParseAstray,
     ParseRefused, ParseFailed, ParseDone, ProcessRequest, ProcessResponse, SendData,
     SendNothing, SendAgain, SendError, ResponseWritten, TryNextRequest, LoopNext,
     ResponseDone, ReadReturns
<1>5. CASE UNCHANGED vars
  BY <1>5 DEF vars
<1> QED
  BY <1>1, <1>2, <1>3, <1>4, <1>5 DEF Next

LEMMA ConnectedOpened ==
    ASSUME IInv, NEW c \in Conn, Connected(c)
    PROVE  c \in opened
BY SocketsAssumption DEF Connected, IInv, ClientsMatchSockets, LifeInv

\* A connection that cannot be written to any more never can again.
LEMMA AliveBefore ==
    ASSUME IInv, [Next]_vars, NEW c \in Conn, Alive(c)'
    PROVE  Alive(c)
<1>1. sock \in [Fd -> Conn \cup {None}]
  BY DEF IInv, TypeOK, SockTypeOK
<1>2. CASE UNCHANGED <<rst, opened, sock>>
  BY <1>2 DEF Alive, Connected
<1>3. ASSUME NEW f, CloseConnection(f)
      PROVE  Alive(c)
  BY <1>1, <1>3, SocketsAssumption DEF CloseConnection, Alive, Connected
<1>4. ASSUME NEW f \in Fd, NEW d \in Conn, Accept(f, d)
      PROVE  Alive(c)
  BY <1>1, <1>4, SocketsAssumption DEF Accept, Alive, Connected
<1>5. ASSUME NEW d \in Conn, PeerResets(d)
      PROVE  Alive(c)
  BY <1>5 DEF PeerResets, Alive, Connected
<1> QED
  BY <1>2, <1>3, <1>4, <1>5, SockSteps

\* Only a connection that has been accepted is reset.
LEMMA OnlyOpenedReset ==
    ASSUME IInv, rst \subseteq opened, [Next]_vars
    PROVE  rst' \subseteq opened'
<1>1. CASE UNCHANGED <<rst, opened, sock>>
  BY <1>1
<1>2. ASSUME NEW f, CloseConnection(f)
      PROVE  rst' \subseteq opened'
  BY <1>2 DEF CloseConnection
<1>3. ASSUME NEW f \in Fd, NEW d \in Conn, Accept(f, d)
      PROVE  rst' \subseteq opened'
  BY <1>3 DEF Accept
<1>4. ASSUME NEW d \in Conn, PeerResets(d)
      PROVE  rst' \subseteq opened'
  <2>1. d \in opened
    BY <1>4, ConnectedOpened DEF PeerResets
  <2> QED
    BY <1>4, <2>1 DEF PeerResets
<1> QED
  BY <1>1, <1>2, <1>3, <1>4, SockSteps

\* A connection whose part of the state stays as it is.
SameReply(c) ==
    /\ script'[c] = script[c] /\ out'[c] = out[c] /\ reqNo'[c] = reqNo[c]
    /\ httpBodyOffset'[c] = httpBodyOffset[c] /\ left'[c] = left[c]
    /\ c \in writing' <=> c \in writing

LEMMA SameWritten ==
    ASSUME NEW c \in Conn, SameReply(c)
    PROVE  /\ WrittenInv(c) /\ (Alive(c)' => Alive(c)) => WrittenInv(c)'
           /\ InOrder(c) => InOrder(c)'
<1>1. Own(c)' = Own(c) /\ \A i : Before(c, i)' = Before(c, i)
  BY DEF SameReply, Own, Before
<1>2. AllWritten(c)' = AllWritten(c)
  BY <1>1 DEF SameReply, AllWritten
<1>3. \A n : NextDue(c, n)' = NextDue(c, n)
  BY <1>1 DEF SameReply, NextDue, Follows, MayFollow
<1>4. WrittenInv(c) /\ (Alive(c)' => Alive(c)) => WrittenInv(c)'
  BY <1>2, <1>3 DEF SameReply, WrittenInv
<1>5. InOrder(c) => InOrder(c)'
  BY <1>1 DEF SameReply, InOrder, Follows, MayFollow
<1> QED
  BY <1>4, <1>5

\* Steps that change nothing the responses depend on, but for who is done.
LEMMA QuietReply ==
    ASSUME IInv, ReplyInv, [Next]_vars,
           UNCHANGED <<script, out, reqNo, httpBodyOffset, left, writing>>,
           \A c \in Conn : Finished(c)' => Finished(c) \/ ~Alive(c)
                                           \/ (c \in writing /\ left[c] = 0),
           at' = "respond" => ctx' \notin writing \cup needTryNext',
           at' = "send" => ctx' \in writing
    PROVE  ReplyInv'
<1>0. (rst \subseteq opened)'
  BY OnlyOpenedReset DEF ReplyInv
<1>1. \A c \in Conn : SameReply(c) /\ (Alive(c)' => Alive(c))
  BY AliveBefore DEF SameReply
<1>2. \A c \in Conn : WrittenInv(c)' /\ InOrder(c)'
  BY <1>1, SameWritten DEF ReplyInv, ResponsesInOrder
<1>3. ASSUME NEW c \in Conn, Finished(c)', Alive(c)'
      PROVE  c \in writing' /\ left'[c] = 0
  BY <1>1, <1>3 DEF ReplyInv
<1> QED
  BY <1>0, <1>2, <1>3 DEF ReplyInv, ResponsesInOrder

LEMMA QuietReadReply ==
    ASSUME IInv, ReplyInv,
           \/ RecvError \/ RecvZero \/ RecvAgain \/ RecvData
           \/ ParseAgain \/ ParseAstray \/ ProcessRequest
    PROVE  ReplyInv'
<1> USE DEF sockVars, ctxVars, flagVars, readVars, svcVars, callVars, localVars
<1>1. [Next]_vars
  BY DEF Next, HandlerNext
<1>2. UNCHANGED <<script, out, reqNo, httpBodyOffset, left, writing, needTryNext, ctx>>
  BY DEF RecvError, RecvZero, RecvAgain, RecvData, ParseAgain, ParseAstray, ProcessRequest,
         LeaveRead, GoTo, Return
<1>3. /\ at' \notin {"written", "next", "send"}
      /\ at' = "respond" => at = "dispatch"
  BY DEF RecvError, RecvZero, RecvAgain, RecvData, ParseAgain, ParseAstray, ProcessRequest,
         LeaveRead, GoTo, Return
<1>4. at = "dispatch" => ctx \notin writing \cup needTryNext
  BY DEF IInv, CallInv
<1>5. \A c \in Conn : Finished(c)' => Finished(c)
  BY <1>2, <1>3 DEF Finished
<1> QED
  BY <1>1, <1>2, <1>3, <1>4, <1>5, QuietReply

LEMMA QuietWriteReply ==
    ASSUME IInv, ReplyInv,
           SendNothing \/ SendAgain \/ SendError \/ ResponseWritten \/ LoopNext
    PROVE  ReplyInv'
<1> USE DEF sockVars, ctxVars, flagVars, readVars, svcVars, callVars, localVars
<1>1. [Next]_vars
  BY DEF Next, HandlerNext
<1>2. UNCHANGED <<script, out, reqNo, httpBodyOffset, left, writing, ctx>>
  BY DEF SendNothing, SendAgain, SendError, ResponseWritten, LoopNext, GoTo, Return
<1>3. at' \notin {"respond", "send"}
  BY DEF SendNothing, SendAgain, SendError, ResponseWritten, LoopNext, GoTo, Return
<1>4. ASSUME NEW c \in Conn, Finished(c)', ~Finished(c)
      PROVE  ~Alive(c) \/ (c \in writing /\ left[c] = 0)
  <2>1. CASE ResponseWritten \/ LoopNext
    BY <1>2, <1>4, <2>1 DEF ResponseWritten, LoopNext, Finished, GoTo, Return
  <2>2. CASE SendAgain
    BY <1>2, <1>4, <2>2 DEF SendAgain, Finished, Return
  <2>3. CASE SendNothing
    BY <1>2, <1>4, <2>3 DEF SendNothing, Finished, GoTo, ReplyInv
  <2>4. CASE SendError
    <3>1. c = ctx /\ at = "send" /\ (sock[ctxFd[c]] = None \/ sock[ctxFd[c]] \in rst)
      BY <1>2, <1>4, <2>4 DEF SendError, Finished, GoTo
    <3>2. c \in opened
      BY <3>1, ThreadContext
    <3>3. Connected(c) => sock[ctxFd[c]] = c
      BY SocketsAssumption DEF Connected, IInv, ClientsMatchSockets
    <3> QED
      BY <3>1, <3>2, <3>3, SocketsAssumption DEF Alive
  <2> QED
    BY <2>1, <2>2, <2>3, <2>4
<1> QED
  BY <1>1, <1>2, <1>3, <1>4, QuietReply

LEMMA QuietReturnReply ==
    ASSUME IInv, ReplyInv, ResponseDone \/ ReadReturns
    PROVE  ReplyInv'
<1> USE DEF sockVars, ctxVars, flagVars, readVars, svcVars, callVars, localVars
<1>1. [Next]_vars
  BY DEF Next, HandlerNext
<1>2. UNCHANGED <<script, out, reqNo, httpBodyOffset, left, writing, needTryNext>>
  BY DEF ResponseDone, ReadReturns, CloseConnection
<1>3. at' \notin {"respond", "send", "written", "next"}
  BY DEF ResponseDone, ReadReturns, LeaveResponse, Return, GoTo, BackToLoop
<1>4. \A c \in Conn : Finished(c)' => Finished(c)
  BY <1>2, <1>3 DEF Finished
<1> QED
  BY <1>1, <1>2, <1>3, <1>4, QuietReply

LEMMA QuietEventReply ==
    ASSUME IInv, ReplyInv,
           \/ EventNext
           \/ \E c \in Conn : ServiceCompletes(c)
           \/ PeerNext /\ UNCHANGED handlerVars
           \/ UNCHANGED vars
    PROVE  ReplyInv'
<1> USE DEF sockVars, handlerVars, ctxVars, flagVars, readVars, svcVars, callVars, localVars
<1>1. [Next]_vars
  BY DEF Next
<1>2. UNCHANGED <<script, out, reqNo, httpBodyOffset, left, writing, needTryNext>>
  BY DEF EventNext, Accept, HangUpEvent, HandleRequest, ReadyWrite, RunTask, ServiceCompletes,
         CloseConnection, PeerNext, PeerSends, PeerReads, PeerCloses, PeerResets, vars
<1>3. \/ UNCHANGED <<at, ctx>>
      \/ at' \in {"recv", "down"}
      \/ at' = "send" /\ ctx' \in writing
      \/ at' = "respond" /\ ctx' \notin writing \cup needTryNext
  <2>1. CASE RunTask
    <3>1. tasks # <<>> /\ tasks \in Seq(Task)
      BY <2>1 DEF RunTask, IInv, TypeOK, HandlerTypeOK
    <3>2. 1 \in DOMAIN tasks /\ Head(tasks) = tasks[1] /\ tasks[1] \in Task
      BY <3>1
    <3>3. Busy(tasks[1].ctx) /\ tasks[1].ctx \in Conn
      BY <3>2 DEF Busy, Task
    <3>4. tasks[1].ctx \notin writing \cup needTryNext
      BY <3>3 DEF IInv, BusyInv
    <3> QED
      BY <2>1, <3>2, <3>4 DEF RunTask, Enter, GoTo
  <2>2. CASE ~RunTask
    BY <2>2, ZenonT(30) DEF EventNext, Accept, HangUpEvent, HandleRequest, ReadyWrite, ServiceCompletes,
       Enter, GoTo, ThreadStays, PeerNext, vars
  <2> QED
    BY <2>1, <2>2
<1>4. \A c \in Conn : Finished(c)' => Finished(c)
  BY <1>2, <1>3 DEF Finished
<1>5. /\ at' = "respond" => ctx' \notin writing \cup needTryNext'
      /\ at' = "send" => ctx' \in writing
  BY <1>2, <1>3 DEF ReplyInv
<1> QED
  BY <1>1, <1>2, <1>4, <1>5, QuietReply

------------------------------------------------------------------------------
(* Steps of a request and its response.                                    *)

\* A header has been found where all had been written.
LEMMA ParsedReply ==
    ASSUME IInv, StreamInv, ReplyInv, ParseRefused \/ ParseFailed \/ ParseDone
    PROVE  ReplyInv'
<1> USE DEF sockVars, ctxVars, flagVars, readVars, svcVars, callVars, localVars
<1> DEFINE c == ctx
<1>1. [Next]_vars
  BY DEF Next, HandlerNext
<1>2. PICK k : /\ at = "parse" /\ Finds(c, k)
               /\ httpBodyOffset' = [httpBodyOffset EXCEPT ![c] = script[c][k].body - base[c]]
               /\ reqNo' = [reqNo EXCEPT ![c] = k]
  BY DEF ParseRefused, ParseFailed, ParseDone
<1>3. /\ UNCHANGED <<script, out, left, writing, needTryNext, rst, opened, sock, ctx>>
      /\ at' \notin {"written", "next", "send"}
  BY DEF ParseRefused, ParseFailed, ParseDone
<1>4. /\ c \in Conn /\ httpBodyOffset[c] = 0
      /\ c \notin writing \cup needTryNext
  BY <1>2, ThreadContext DEF IInv, CallInv, FlagsInv, Held
<1>5. /\ httpBodyOffset'[c] # 0 /\ reqNo'[c] = k
      /\ k = reqNo[c] + 1 \/ (HeaderFailed(c) /\ k > reqNo[c])
  BY <1>2, <1>4, ParseFinds, ReadTypes
<1>6. InOrder(c)' /\ Own(c)' = Own(c)
  <2>1. Own(c)' = Own(c) /\ \A i : Before(c, i)' = Before(c, i)
    BY <1>3 DEF Own, Before
  <2> QED
    BY <1>3, <1>4, <2>1 DEF ReplyInv, ResponsesInOrder, InOrder, Follows, MayFollow
<1>7. WrittenInv(c)'
  <2> SUFFICES ASSUME Alive(c)'
               PROVE  NextDue(c, 1)'
    BY <1>3, <1>4, <1>5 DEF WrittenInv
  <2>1. AllWritten(c)
    BY <1>3, <1>4 DEF ReplyInv, WrittenInv, Alive, Connected
  <2>2. CASE Own(c) = {}
    BY <1>3, <1>5, <1>6, <2>1, <2>2 DEF AllWritten, NextDue, HeaderFailed
  <2>3. CASE Own(c) # {}
    <3> DEFINE u == out[c][Max(Own(c))]
    <3>1. u.req = reqNo[c] /\ u.unit = RespUnits
      BY <2>1, <2>3 DEF AllWritten
    <3>2. MayFollow(c, u.req, k)
      BY <1>5, <3>1 DEF MayFollow, HeaderFailed, Current
    <3>3. ~(u.unit < RespUnits)
      BY <3>1, SocketsAssumption
    <3> QED
      BY <1>3, <1>5, <1>6, <2>3, <3>2, <3>3 DEF NextDue, Follows, MayFollow
  <2> QED
    BY <2>2, <2>3
<1>8. \A d \in Conn \ {c} : WrittenInv(d)' /\ InOrder(d)'
  <2> SUFFICES ASSUME NEW d \in Conn \ {c}
               PROVE  WrittenInv(d)' /\ InOrder(d)'
    OBVIOUS
  <2>1. SameReply(d)
    BY <1>2, <1>3, ReadTypes DEF SameReply
  <2> QED
    BY <1>1, <2>1, AliveBefore, SameWritten DEF ReplyInv, ResponsesInOrder
<1>9. \A d \in Conn : Finished(d)' /\ Alive(d)' => d \in writing' /\ left'[d] = 0
  BY <1>1, <1>3, AliveBefore DEF ReplyInv, Finished
<1> QED
  BY <1>3, <1>4, <1>6, <1>7, <1>8, <1>9 DEF ReplyInv, ResponsesInOrder

\* The response is begun.
LEMMA ProcessResponseReply ==
    ASSUME IInv, ReplyInv, ProcessResponse
    PROVE  ReplyInv'
<1> USE DEF sockVars, ctxVars, flagVars, readVars, svcVars, callVars, localVars
<1> DEFINE c == ctx
<1>1. [Next]_vars
  BY DEF Next, HandlerNext
<1>2. /\ at = "respond" /\ at' = "send" /\ writing' = writing \cup {c}
      /\ left' = [left EXCEPT ![c] = RespUnits]
      /\ UNCHANGED <<script, out, reqNo, httpBodyOffset, needTryNext, rst, opened, sock, ctx>>
  BY DEF ProcessResponse
<1>3. /\ c \in Conn /\ httpBodyOffset[c] # 0 /\ c \notin writing \cup needTryNext
      /\ left'[c] = RespUnits
  BY <1>2, ThreadContext, ReadTypes DEF ReplyInv, IInv, CallInv, Held
<1>4. Own(c)' = Own(c) /\ \A i : Before(c, i)' = Before(c, i)
  BY <1>2 DEF Own, Before
<1>5. InOrder(c)'
  BY <1>2, <1>3, <1>4 DEF ReplyInv, ResponsesInOrder, InOrder, Follows, MayFollow
<1>6. WrittenInv(c)'
  <2> SUFFICES ASSUME Alive(c)'
               PROVE  NextDue(c, 1)'
    BY <1>2, <1>3, SocketsAssumption DEF WrittenInv
  <2>1. NextDue(c, 1)
    BY <1>2, <1>3 DEF ReplyInv, WrittenInv, Alive, Connected
  <2> QED
    BY <1>2, <1>4, <2>1 DEF NextDue, Follows, MayFollow
<1>7. \A d \in Conn \ {c} : WrittenInv(d)' /\ InOrder(d)'
  <2> SUFFICES ASSUME NEW d \in Conn \ {c}
               PROVE  WrittenInv(d)' /\ InOrder(d)'
    OBVIOUS
  <2>1. SameReply(d)
    BY <1>2, ReadTypes DEF SameReply
  <2> QED
    BY <1>1, <2>1, AliveBefore, SameWritten DEF ReplyInv, ResponsesInOrder
<1>8. \A d \in Conn : Finished(d)' /\ Alive(d)' => d \in writing' /\ left'[d] = 0
  <2> SUFFICES ASSUME NEW d \in Conn, Finished(d)', Alive(d)'
               PROVE  d \in writing' /\ left'[d] = 0
    OBVIOUS
  <2>1. d \in needTryNext /\ d # c
    BY <1>2, <1>3 DEF Finished
  <2>2. d \in writing /\ left[d] = 0
    BY <1>1, <2>1, AliveBefore DEF ReplyInv, Finished
  <2> QED
    BY <1>2, <2>1, <2>2, ReadTypes
<1> QED
  BY <1>2, <1>3, <1>5, <1>6, <1>7, <1>8 DEF ReplyInv, ResponsesInOrder

\* The context is made ready for the next request.
LEMMA TryNextRequestReply ==
    ASSUME IInv, ReplyInv, TryNextRequest
    PROVE  ReplyInv'
<1> USE DEF sockVars, ctxVars, flagVars, readVars, svcVars, callVars, localVars
<1> DEFINE c == ctx
<1>1. [Next]_vars
  BY DEF Next, HandlerNext
<1>2. /\ at = "next" /\ at' \in {"recv", "parse"}
      /\ writing' = writing \ {c} /\ needTryNext' = needTryNext \ {c}
      /\ left' = [left EXCEPT ![c] = 0]
      /\ httpBodyOffset' = [httpBodyOffset EXCEPT ![c] = 0]
      /\ UNCHANGED <<script, out, reqNo, rst, opened, sock, ctx>>
  BY DEF TryNextRequest, NothingFollows, ResetContext
<1>3. c \in Conn /\ httpBodyOffset'[c] = 0
  BY <1>2, ThreadContext, ReadTypes
<1>4. Own(c)' = Own(c) /\ \A i : Before(c, i)' = Before(c, i)
  BY <1>2 DEF Own, Before
<1>5. InOrder(c)'
  BY <1>2, <1>3, <1>4 DEF ReplyInv, ResponsesInOrder, InOrder, Follows, MayFollow
<1>6. WrittenInv(c)'
  <2> SUFFICES ASSUME Alive(c)'
               PROVE  AllWritten(c)'
    BY <1>3, <1>2 DEF WrittenInv
  <2>1. AllWritten(c)
    BY <1>2, <1>3 DEF ReplyInv, WrittenInv, Finished, Alive, Connected
  <2> QED
    BY <1>2, <1>4, <2>1 DEF AllWritten
<1>7. \A d \in Conn \ {c} : WrittenInv(d)' /\ InOrder(d)'
  <2> SUFFICES ASSUME NEW d \in Conn \ {c}
               PROVE  WrittenInv(d)' /\ InOrder(d)'
    OBVIOUS
  <2>1. SameReply(d)
    BY <1>2, ReadTypes DEF SameReply
  <2> QED
    BY <1>1, <2>1, AliveBefore, SameWritten DEF ReplyInv, ResponsesInOrder
<1>8. \A d \in Conn : Finished(d)' /\ Alive(d)' => d \in writing' /\ left'[d] = 0
  <2> SUFFICES ASSUME NEW d \in Conn, Finished(d)', Alive(d)'
               PROVE  d \in writing' /\ left'[d] = 0
    OBVIOUS
  <2>1. d \in needTryNext /\ d # c
    BY <1>2 DEF Finished
  <2>2. d \in writing /\ left[d] = 0
    BY <1>1, <2>1, AliveBefore DEF ReplyInv, Finished
  <2> QED
    BY <1>2, <2>1, <2>2, ReadTypes
<1> QED
  BY <1>2, <1>3, <1>5, <1>6, <1>7, <1>8 DEF ReplyInv, ResponsesInOrder

------------------------------------------------------------------------------
(* Units are written.                                                      *)

\* What SendData does, with the number n of units that go out.
LEMMA SendDataDoes ==
    ASSUME IInv, ReplyInv, SendData
    PROVE  \E n \in 1 .. left[ctx], d \in Conn \ rst :
             /\ ctx \in Conn /\ left[ctx] \in 1 .. RespUnits /\ ctx \in writing
             /\ d = sock[ctxFd[ctx]]
             /\ out' = [out EXCEPT ![d] = @ \o NextUnits(ctx, n)]
             /\ left' = [left EXCEPT ![ctx] = @ - n]
             /\ at' = IF left[ctx] = n THEN "written" ELSE "send"
             /\ UNCHANGED <<script, opened, sock, rst, ctxVars, flagVars, readVars, ctx>>
<1> DEFINE d == sock[ctxFd[ctx]]
           n == Lesser(left[ctx], Room(d))
<1>1. at = "send" /\ d # None /\ d \notin rst /\ n > 0
  BY DEF SendData
<1>2. ctx \in Conn /\ ctxFd[ctx] \in Fd /\ ctx \in writing
  BY <1>1, ThreadContext DEF ReplyInv
<1>3. d \in Conn
  BY <1>1, <1>2 DEF IInv, TypeOK, SockTypeOK
<1>4. left[ctx] \in 0 .. RespUnits
  BY <1>2, ReadTypes
<1>5. Room(d) \in Int
  <2>1. out[d] \in Seq(Unit) /\ taken[d] \in Nat
    BY <1>3 DEF IInv, TypeOK, SockTypeOK
  <2>2. Len(out[d]) \in Nat
    BY <2>1
  <2> QED
    BY <2>1, <2>2, SocketsAssumption DEF Room
<1>6. n \in 1 .. left[ctx] /\ left[ctx] \in 1 .. RespUnits
  <2>1. n \in {left[ctx], Room(d)} /\ n <= left[ctx] /\ RespUnits \in Nat
    BY <1>4, <1>5, SocketsAssumption DEF Lesser
  <2> HIDE DEF n
  <2> QED
    BY <1>1, <1>4, <1>5, <2>1
<1>7. /\ out' = [out EXCEPT ![d] = @ \o NextUnits(ctx, n)]
      /\ left' = [left EXCEPT ![ctx] = @ - n]
      /\ at' = IF left[ctx] = n THEN "written" ELSE "send"
      /\ UNCHANGED <<script, opened, sock, rst, ctxVars, flagVars, readVars, ctx>>
  BY DEF SendData, GoTo, callVars
<1> HIDE DEF n, d
<1> QED
  BY <1>1, <1>2, <1>3, <1>6, <1>7 DEF d

\* What out is after that.
LEMMA Appended ==
    ASSUME IInv, NEW c \in Conn, NEW d \in Conn, NEW n \in Nat,
           out' = [out EXCEPT ![d] = @ \o NextUnits(c, n)]
    PROVE  /\ \A i \in 1 .. Len(out[d]) : out'[d][i] = out[d][i]
           /\ \A i \in 1 .. n : /\ out'[d][Len(out[d]) + i].req = reqNo[c]
                               /\ out'[d][Len(out[d]) + i].unit = RespUnits - left[c] + i
           /\ Own(d)' = IF c = d THEN Own(d) \cup (Len(out[d]) + 1 .. Len(out[d]) + n)
                        ELSE Own(d)
<1> DEFINE size0 == Len(out[d])
           new == NextUnits(c, n)
<1>1. out[d] \in Seq(Unit) /\ size0 \in Nat /\ DOMAIN out[d] = 1 .. size0
  BY OwnPlaces
<1>2. DOMAIN new = 1 .. n
  BY DEF NextUnits
<1>3. new \in Seq({new[i] : i \in 1 .. n})
  <2>1. new = [i \in 1 .. n |-> new[i]]
    BY DEF NextUnits
  <2>2. new \in [1 .. n -> {new[i] : i \in 1 .. n}]
    BY <2>1
  <2> HIDE DEF new
  <2> QED
    BY <2>2
<1>4. Len(new) = n
  <2> HIDE DEF new
  <2> QED
    BY <1>2, <1>3
<1>5. out'[d] = out[d] \o new
  BY DEF IInv, TypeOK, SockTypeOK
<1>6. /\ DOMAIN out'[d] = 1 .. size0 + n
      /\ \A i \in 1 .. size0 : out'[d][i] = out[d][i]
      /\ \A i \in 1 .. n : out'[d][size0 + i] = new[i]
  <2> HIDE DEF new
  <2>1. /\ DOMAIN (out[d] \o new) = 1 .. size0 + n
        /\ \A i \in 1 .. size0 : (out[d] \o new)[i] = out[d][i]
        /\ \A i \in 1 .. n : (out[d] \o new)[size0 + i] = new[i]
    <3> DEFINE T == Unit \cup {new[i] : i \in 1 .. n}
               old == out[d]
    <3>1. old \in Seq(T) /\ new \in Seq(T)
      BY <1>1, <1>3
    <3> HIDE DEF T, old
    <3>2. /\ old \o new \in Seq(T) /\ Len(old \o new) = Len(old) + Len(new)
          /\ \A i \in 1 .. Len(old) + Len(new) :
               (old \o new)[i] = IF i <= Len(old) THEN old[i] ELSE new[i - Len(old)]
      BY <3>1, ConcatProperties
    <3>3. \A i \in 1 .. n : /\ size0 + i \in 1 .. size0 + n /\ ~(size0 + i <= size0)
                           /\ size0 + i - size0 = i
      BY <1>1
    <3>4. \A i \in 1 .. size0 : i \in 1 .. size0 + n /\ i <= size0
      BY <1>1
    <3> QED
      BY <1>1, <1>4, <3>2, <3>3, <3>4 DEF old
  <2> QED
    BY <1>5, <2>1
<1>7. \A i \in 1 .. n : /\ new[i].by = c /\ new[i].req = reqNo[c]
                       /\ new[i].unit = RespUnits - left[c] + i
  BY DEF NextUnits
<1>8. Own(d)' = IF c = d THEN Own(d) \cup (size0 + 1 .. size0 + n) ELSE Own(d)
  <2> HIDE DEF new
  <2>1. \A i \in size0 + 1 .. size0 + n : out'[d][i].by = c
    <3> SUFFICES ASSUME NEW i \in size0 + 1 .. size0 + n
                 PROVE  out'[d][i].by = c
      OBVIOUS
    <3> DEFINE j == i - size0
    <3>1. j \in 1 .. n /\ size0 + j = i
      BY <1>1
    <3> HIDE DEF j
    <3>2. out'[d][i] = new[j]
      BY <1>6, <3>1
    <3> QED
      BY <1>7, <3>1, <3>2
  <2>2. 1 .. size0 + n = (1 .. size0) \cup (size0 + 1 .. size0 + n)
    BY <1>1
  <2> HIDE DEF size0
  <2> QED
    BY <1>1, <1>6, <2>1, <2>2 DEF Own
<1> QED
  BY <1>1, <1>6, <1>7, <1>8

\* The units a context writes to its own connection continue what it has
\* written there.
LEMMA OwnAppended ==
    ASSUME IInv, NEW c \in Conn, InOrder(c), left[c] \in 1 .. RespUnits,
           NextDue(c, RespUnits - left[c] + 1), NEW n \in 1 .. left[c],
           out' = [out EXCEPT ![c] = @ \o NextUnits(c, n)],
           UNCHANGED script
    PROVE  LET last == Len(out[c]) + n IN
           /\ InOrder(c)'
           /\ last \in Own(c)' /\ Own(c)' \subseteq 1 .. last
           /\ Max(Own(c))' = last
           /\ out'[c][last].req = reqNo[c]
           /\ out'[c][last].unit = RespUnits - left[c] + n
<1> DEFINE size0 == Len(out[c])
           m == RespUnits - left[c]
<1>1. /\ size0 \in Nat /\ Own(c) \subseteq 1 .. size0 /\ RespUnits \in Nat
      /\ m \in Nat /\ n \in Nat \ {0} /\ n <= RespUnits - m
  BY OwnPlaces, SocketsAssumption
<1>2. /\ \A i \in 1 .. size0 : out'[c][i] = out[c][i]
      /\ \A j \in 1 .. n : out'[c][size0 + j].req = reqNo[c] /\ out'[c][size0 + j].unit = m + j
      /\ Own(c)' = Own(c) \cup (size0 + 1 .. size0 + n)
  <2>1. n \in Nat
    BY <1>1
  <2>2. /\ \A i \in 1 .. Len(out[c]) : out'[c][i] = out[c][i]
        /\ \A i \in 1 .. n : /\ out'[c][Len(out[c]) + i].req = reqNo[c]
                            /\ out'[c][Len(out[c]) + i].unit = RespUnits - left[c] + i
        /\ Own(c)' = IF c = c THEN Own(c) \cup (Len(out[c]) + 1 .. Len(out[c]) + n)
                     ELSE Own(c)
    BY <2>1, Appended, Zenon
  <2> QED
    BY <2>2
<1> HIDE DEF size0, m
<1>3. Own(c)' \subseteq 1 .. size0 + n /\ size0 + n \in Own(c)' /\ size0 + n \in Nat
  <2>1. size0 + n \in size0 + 1 .. size0 + n
    BY <1>1
  <2>2. 1 .. size0 \subseteq 1 .. size0 + n /\ size0 + 1 .. size0 + n \subseteq 1 .. size0 + n
    BY <1>1
  <2> QED
    BY <1>1, <1>2, <2>1, <2>2
<1>4. Max(Own(c))' = size0 + n
  <2>1. Max(Own(c)') = size0 + n
    BY <1>3, MaxIs
  <2> QED
    BY <2>1 DEF Max
<1>5. out'[c][size0 + n].req = reqNo[c] /\ out'[c][size0 + n].unit = m + n
  <2>1. n \in 1 .. n
    BY <1>1
  <2> QED
    BY <1>2, <2>1
<1>6. ASSUME NEW i \in Own(c)'
      PROVE  IF Before(c, i)' = {} THEN out'[c][i].req = 1 /\ out'[c][i].unit = 1
             ELSE Follows(c, out'[c][Max(Before(c, i)')], out'[c][i])
  <2>1. Before(c, i)' = {j \in Own(c)' : j < i}
    BY DEF Before
  <2>2. CASE i \in Own(c)
    <3>1. Before(c, i)' = Before(c, i)
      BY <1>1, <1>2, <2>1, <2>2 DEF Before
    <3>2. out'[c][i] = out[c][i]
      BY <1>1, <1>2, <2>2
    <3>3. CASE Before(c, i) = {}
      BY <2>2, <3>1, <3>2, <3>3 DEF InOrder
    <3>4. CASE Before(c, i) # {}
      <4>1. Before(c, i) \subseteq 1 .. size0
        BY <1>1 DEF Before
      <4>2. Max(Before(c, i)) \in 1 .. size0
        BY <1>1, <3>4, <4>1, MaxOf
      <4>3. out'[c][Max(Before(c, i))] = out[c][Max(Before(c, i))]
        BY <1>2, <4>2
      <4> QED
        BY <2>2, <3>1, <3>2, <3>4, <4>3 DEF InOrder
    <3> QED
      BY <3>3, <3>4
  <2>3. CASE i \notin Own(c)
    <3> DEFINE j == i - size0
    <3>1. j \in 1 .. n /\ i = size0 + j
      BY <1>1, <1>2, <2>3, SMTT(30)
    <3> HIDE DEF j
    <3>2. out'[c][i].req = reqNo[c] /\ out'[c][i].unit = m + j
      BY <1>2, <3>1
    <3>3. CASE j = 1
      <4>1. Before(c, i)' = Own(c)
        BY <1>1, <1>2, <2>1, <3>1, <3>3
      <4>2. CASE Own(c) = {}
        BY <1>1, <3>2, <3>3, <4>1, <4>2 DEF NextDue, m
      <4>3. CASE Own(c) # {}
        <5>1. Max(Own(c)) \in 1 .. size0
          BY <1>1, <4>3, MaxOf
        <5>2. Follows(c, out[c][Max(Own(c))], [req |-> reqNo[c], unit |-> m + 1])
          BY <4>3 DEF NextDue, m
        <5> QED
          BY <1>2, <3>2, <3>3, <4>1, <4>3, <5>1, <5>2 DEF Follows
      <4> QED
        BY <4>2, <4>3
    <3>4. CASE j # 1
      <4> DEFINE p == size0 + (j - 1)
      <4>1. j - 1 \in 1 .. n /\ p \in 1 .. p /\ p \in Nat /\ p < i
        BY <1>1, <3>1, <3>4
      <4>2. p \in Before(c, i)' /\ Before(c, i)' \subseteq 1 .. p
        <5>1. p \in Own(c)'
          BY <1>1, <1>2, <4>1
        <5>2. \A k \in Own(c)' : k < i => k \in 1 .. p
          BY <1>1, <1>3, <3>1
        <5> QED
          BY <2>1, <4>1, <5>1, <5>2
      <4>3. Max(Before(c, i)') = p
        <5> HIDE DEF p
        <5> QED
          BY <4>1, <4>2, MaxIs
      <4>4. out'[c][p].req = reqNo[c] /\ out'[c][p].unit = m + (j - 1)
        BY <1>2, <4>1
      <4>5. m + (j - 1) < RespUnits /\ m + j = m + (j - 1) + 1
        BY <1>1, <3>1
      <4> HIDE DEF p
      <4> QED
        BY <3>2, <4>2, <4>3, <4>4, <4>5 DEF Follows
    <3> QED
      BY <3>3, <3>4
  <2> QED
    BY <2>2, <2>3
<1>7. InOrder(c)'
  <2>1. \A i : Max(Before(c, i))' = Max(Before(c, i)')
    BY DEF Max
  <2> QED
    BY <1>6, <2>1 DEF InOrder, Follows, MayFollow
<1> QED
  BY <1>3, <1>4, <1>5, <1>7 DEF size0, m

LEMMA SendDataReply ==
    ASSUME IInv, ReplyInv, SendData
    PROVE  ReplyInv'
<1> USE DEF sockVars, ctxVars, flagVars, readVars, svcVars, callVars, localVars
<1> DEFINE c == ctx
<1>1. [Next]_vars
  BY DEF Next, HandlerNext
<1>2. PICK n \in 1 .. left[ctx], d \in Conn \ rst :
        /\ ctx \in Conn /\ left[ctx] \in 1 .. RespUnits /\ ctx \in writing
        /\ d = sock[ctxFd[ctx]]
        /\ out' = [out EXCEPT ![d] = @ \o NextUnits(ctx, n)]
        /\ left' = [left EXCEPT ![ctx] = @ - n]
        /\ at' = IF left[ctx] = n THEN "written" ELSE "send"
        /\ UNCHANGED <<script, opened, sock, rst, ctxVars, flagVars, readVars, ctx>>
  BY SendDataDoes
<1>3. /\ left'[c] = left[c] - n /\ left[c] - n \in 0 .. RespUnits
      /\ httpBodyOffset[c] # 0 /\ at = "send"
  <2>1. left'[c] = left[c] - n
    BY <1>2, ReadTypes
  <2>2. left[c] - n \in 0 .. RespUnits
    BY <1>2, SocketsAssumption
  <2> QED
    BY <1>2, <2>1, <2>2 DEF IInv, FlagsInv, Held, SendData
<1>4. c \in opened /\ (Alive(c) => d = c) /\ (d = c => Alive(c))
  <2>1. c \in opened /\ ctxFd[c] \in Fd
    BY <1>3, ThreadContext
  <2>2. Connected(c) => sock[ctxFd[c]] = c
    BY <1>2, SocketsAssumption DEF Connected, IInv, ClientsMatchSockets
  <2>3. sock[ctxFd[c]] = c => Connected(c)
    BY <2>1 DEF Connected
  <2> QED
    BY <1>2, <2>1, <2>2, <2>3 DEF Alive
<1>5. ASSUME NEW e \in Conn, e # c
      PROVE  WrittenInv(e)' /\ InOrder(e)'
  <2>1. CASE e # d
    <3>1. SameReply(e)
      BY <1>2, <1>5, <2>1, ReadTypes DEF SameReply, IInv, TypeOK, SockTypeOK
    <3> QED
      BY <1>1, <3>1, AliveBefore, SameWritten DEF ReplyInv, ResponsesInOrder
  <2>2. CASE e = d
    <3>1. /\ Own(e)' = Own(e) /\ Own(e) \subseteq 1 .. Len(out[e]) /\ Len(out[e]) \in Nat
          /\ \A i \in 1 .. Len(out[e]) : out'[e][i] = out[e][i]
      <4>1. n \in Nat /\ d \in Conn
        BY <1>2
      <4>2. /\ \A i \in 1 .. Len(out[d]) : out'[d][i] = out[d][i]
            /\ Own(d)' = IF c = d THEN Own(d) \cup (Len(out[d]) + 1 .. Len(out[d]) + n)
                         ELSE Own(d)
        <5>1. out' = [out EXCEPT ![d] = @ \o NextUnits(c, n)] /\ c \in Conn
          BY <1>2
        <5> HIDE DEF c
        <5> QED
          BY <4>1, <5>1, Appended, ZenonT(30)
      <4>3. Own(d) \subseteq 1 .. Len(out[d]) /\ Len(out[d]) \in Nat
        BY <4>1, OwnPlaces
      <4> QED
        BY <1>5, <2>2, <4>2, <4>3
    <3>2. \A i \in Own(e) : Before(e, i)' = Before(e, i)
      BY <3>1 DEF Before
    <3>3. InOrder(e)'
      <4>1. ASSUME NEW i \in Own(e), Before(e, i) # {}
            PROVE  out'[e][Max(Before(e, i))] = out[e][Max(Before(e, i))]
        <5>1. Before(e, i) \subseteq 1 .. Len(out[e])
          BY <3>1 DEF Before
        <5> QED
          BY <3>1, <4>1, <5>1, MaxOf
      <4>2. \A i \in Own(e) : out'[e][i] = out[e][i]
        BY <3>1
      <4>3. InOrder(e)
        BY DEF ReplyInv, ResponsesInOrder
      <4>4. ASSUME NEW i \in Own(e)
            PROVE  IF Before(e, i)' = {} THEN out'[e][i].req = 1 /\ out'[e][i].unit = 1
                   ELSE Follows(e, out'[e][Max(Before(e, i)')], out'[e][i])
        BY <3>2, <4>1, <4>2, <4>3 DEF InOrder
      <4>5. \A i : Max(Before(e, i))' = Max(Before(e, i)')
        BY DEF Max
      <4> QED
        BY <1>2, <3>1, <4>4, <4>5 DEF InOrder, Follows, MayFollow
    <3>4. Own(e) # {} => out'[e][Max(Own(e))] = out[e][Max(Own(e))]
      BY <3>1, OwnPlaces
    <3>5. AllWritten(e)' = AllWritten(e) /\ \A k : NextDue(e, k)' = NextDue(e, k)
      BY <1>2, <3>1, <3>4 DEF AllWritten, NextDue, Follows, MayFollow
    <3>6. left'[e] = left[e]
      BY <1>2, <1>5, ReadTypes
    <3>7. Alive(e)' => Alive(e)
      BY <1>1, AliveBefore
    <3> QED
      BY <1>2, <3>3, <3>5, <3>6, <3>7 DEF WrittenInv, ReplyInv
  <2> QED
    BY <2>1, <2>2
<1>6. WrittenInv(c)' /\ InOrder(c)'
  <2>1. CASE d # c
    <3>1. ~Alive(c)'
      BY <1>1, <1>2, <1>4, <2>1, AliveBefore
    <3>2. out'[c] = out[c] /\ Own(c)' = Own(c) /\ \A i : Before(c, i)' = Before(c, i)
      BY <1>2, <2>1 DEF IInv, TypeOK, SockTypeOK, Own, Before
    <3>3. InOrder(c)'
      <4>1. InOrder(c) /\ script' = script /\ ctx' = ctx
        BY <1>2 DEF ReplyInv, ResponsesInOrder
      <4> QED
        BY <3>2, <4>1 DEF InOrder, Follows, MayFollow
    <3> QED
      BY <3>1, <3>3 DEF WrittenInv
  <2>2. CASE d = c
    <3> DEFINE last == Len(out[c]) + n
    <3>1. NextDue(c, RespUnits - left[c] + 1) /\ InOrder(c)
      BY <1>2, <1>3, <1>4, <2>2 DEF ReplyInv, WrittenInv, ResponsesInOrder
    <3>2. /\ InOrder(c)'
          /\ last \in Own(c)' /\ Max(Own(c))' = last
          /\ out'[c][last].req = reqNo[c]
          /\ out'[c][last].unit = RespUnits - left[c] + n
      BY <1>2, <2>2, <3>1, OwnAppended
    <3> HIDE DEF last
    <3>3. CASE left'[c] = 0
      <4>1. RespUnits - left[c] + n = RespUnits
        BY <1>2, <1>3, <3>3, SocketsAssumption
      <4> QED
        BY <1>2, <3>2, <3>3, <4>1 DEF WrittenInv, AllWritten
    <3>4. CASE left'[c] # 0
      <4>1. /\ RespUnits - left[c] + n < RespUnits
            /\ RespUnits - left'[c] + 1 = RespUnits - left[c] + n + 1
        BY <1>2, <1>3, <3>4, SocketsAssumption
      <4>2. NextDue(c, RespUnits - left[c] + 1)'
        <5>1. ctx' = ctx /\ reqNo' = reqNo /\ left[c] \in Nat /\ n \in Nat /\ RespUnits \in Nat
          BY <1>2, SocketsAssumption
        <5> QED
          BY <3>2, <4>1, <5>1 DEF NextDue, Follows
      <4> QED
        BY <1>2, <1>3, <3>2, <3>4, <4>2 DEF WrittenInv
    <3> QED
      BY <3>2, <3>3, <3>4
  <2> QED
    BY <2>1, <2>2
<1>7. ASSUME NEW e \in Conn, Finished(e)', Alive(e)'
      PROVE  e \in writing' /\ left'[e] = 0
  <2>1. Alive(e)
    BY <1>1, <1>7, AliveBefore
  <2>2. CASE e \in needTryNext
    <3>1. e \in writing /\ left[e] = 0
      BY <2>1, <2>2 DEF ReplyInv, Finished
    <3> QED
      BY <1>2, <3>1, ReadTypes
  <2>3. CASE e \notin needTryNext
    BY <1>2, <1>3, <1>7, <2>3 DEF Finished
  <2> QED
    BY <2>2, <2>3
<1>8. at' # "respond" /\ (at' = "send" => ctx' \in writing')
  BY <1>2
<1>9. (\A e \in Conn : WrittenInv(e)' /\ InOrder(e)') /\ (rst \subseteq opened)'
  BY <1>2, <1>5, <1>6 DEF ReplyInv
<1> QED
  BY <1>7, <1>8, <1>9 DEF ReplyInv, ResponsesInOrder

------------------------------------------------------------------------------
(* The invariant of the server, and what it promises its peers.            *)

LEMMA InitReply == Init => ReplyInv
<1> SUFFICES ASSUME Init
             PROVE  ReplyInv
  OBVIOUS
<1> USE DEF Init, SockInit, HandlerInit
<1>1. \A c \in Conn : Own(c) = {}
  BY DEF Own
<1>2. \A c \in Conn : WrittenInv(c) /\ InOrder(c) /\ ~Finished(c)
  BY <1>1 DEF WrittenInv, AllWritten, InOrder, Finished
<1> QED
  BY <1>2 DEF ReplyInv, ResponsesInOrder

LEMMA ReplyStep ==
    ASSUME IInv, StreamInv, ReplyInv, [Next]_vars
    PROVE  ReplyInv'
<1>1. CASE HandlerNext
  BY <1>1, QuietReadReply, QuietWriteReply, QuietReturnReply, ParsedReply,
     ProcessResponseReply, SendDataReply, TryNextRequestReply
     DEF HandlerNext
<1>2. CASE ~HandlerNext
  BY <1>2, QuietEventReply DEF Next
<1> QED
  BY <1>1, <1>2

\* ServerInv is an invariant of the server: its contexts, their place in the
\* streams they read, and their place in the responses they write.
THEOREM ServerInvariant == Spec => []ServerInv
<1>1. Init => ServerInv
  BY InitInv, InitStream, InitReply DEF ServerInv
<1>2. ServerInv /\ [Next]_vars => ServerInv'
  BY InvStep, StreamStep, ReplyStep DEF ServerInv
<1> QED
  BY <1>1, <1>2, PTL DEF Spec

\* Whatever requests come over whatever connections, however the sends are cut
\* and whoever goes away meanwhile: a context writes its responses whole, one
\* behind the other, none twice and none passed over.
THEOREM WrittenInOrder == Spec => []ResponsesInOrder
<1>1. ServerInv => ResponsesInOrder
  BY DEF ServerInv, ReplyInv
<1> QED
  BY <1>1, ServerInvariant, PTL

------------------------------------------------------------------------------
(* The server implements Conversation: every step is one of its steps on   *)
(* one connection, or changes nothing it speaks of.                        *)

Bar == ConversationOf!vars

\* Phases change with descriptors and peers alone, one at a time.
LEMMA PhaseStep ==
    ASSUME IInv, rst \subseteq opened, [Next]_vars
    PROVE  \/ \A c \in Conn : Phase(c)' = Phase(c)
           \/ /\ UNCHANGED <<reqNo, out, script>>
              /\ \E c \in Conn :
                   /\ \/ Phase(c) = "new" /\ Phase(c)' = "open"
                      \/ Phase(c) = "open" /\ Phase(c)' = "gone"
                   /\ \A d \in Conn \ {c} : Phase(d)' = Phase(d)
<1>1. sock \in [Fd -> Conn \cup {None}] /\ None \notin Conn
  BY SocketsAssumption DEF IInv, TypeOK, SockTypeOK
<1>2. CASE UNCHANGED <<rst, opened, sock>>
  BY <1>2 DEF Phase, Connected
<1>3. ASSUME NEW f, CloseConnection(f), UNCHANGED reqNo
      PROVE  \/ \A c \in Conn : Phase(c)' = Phase(c)
             \/ /\ UNCHANGED <<reqNo, out, script>>
                /\ \E c \in Conn :
                     /\ Phase(c) = "open" /\ Phase(c)' = "gone"
                     /\ \A d \in Conn \ {c} : Phase(d)' = Phase(d)
  <2>1. /\ sock' = [sock EXCEPT ![f] = None]
        /\ UNCHANGED <<reqNo, out, script, opened, rst>>
    BY <1>3 DEF CloseConnection
  <2>2. \A d \in Conn : (f \in Fd => d # sock[f]) => (Connected(d)' <=> Connected(d))
    BY <1>1, <2>1 DEF Connected
  <2>3. CASE f \in Fd /\ sock[f] \in Conn
    <3> DEFINE c == sock[f]
    <3>1. Connected(c) /\ c \in opened
      BY <2>3, ConnectedOpened DEF Connected
    <3>2. \A g \in Fd : sock[g] = c => g = f
      BY <2>3, SocketsAssumption DEF IInv, ClientsMatchSockets
    <3>3. ~\E g \in Fd : sock'[g] = c
      BY <1>1, <2>1, <2>3, <3>2
    <3>4. \A d \in Conn \ {c} : Phase(d)' = Phase(d)
      BY <2>1, <2>2, <2>3 DEF Phase
    <3>5. PICK e \in Conn : e = c
      BY <2>3
    <3>6. /\ Phase(e) = IF e \in rst THEN "gone" ELSE "open"
          /\ Phase(e)' = "gone"
      BY <2>1, <3>1, <3>3, <3>5 DEF Phase, Connected
    <3> QED
      BY <2>1, <3>4, <3>5, <3>6
  <2>4. CASE ~(f \in Fd /\ sock[f] \in Conn)
    BY <2>1, <2>2, <2>4 DEF Phase
  <2> QED
    BY <2>3, <2>4
<1>4. ASSUME NEW f \in Fd, NEW c \in Conn, Accept(f, c)
      PROVE  /\ UNCHANGED <<reqNo, out, script>>
             /\ Phase(c) = "new" /\ Phase(c)' = "open"
             /\ \A d \in Conn \ {c} : Phase(d)' = Phase(d)
  <2>1. /\ c \notin opened /\ opened' = opened \cup {c}
        /\ sock[f] = None /\ sock' = [sock EXCEPT ![f] = c]
        /\ UNCHANGED <<reqNo, out, script, rst>>
    BY <1>4 DEF Accept, readVars
  <2>2. \A d \in Conn \ {c} : Connected(d)' <=> Connected(d)
    BY <1>1, <2>1 DEF Connected
  <2>3. Connected(c)'
    BY <1>1, <2>1 DEF Connected
  <2> QED
    BY <2>1, <2>2, <2>3 DEF Phase
<1>5. ASSUME NEW c \in Conn, PeerResets(c), UNCHANGED reqNo
      PROVE  /\ UNCHANGED <<reqNo, out, script>>
             /\ Phase(c) = "open" /\ Phase(c)' = "gone"
             /\ \A d \in Conn \ {c} : Phase(d)' = Phase(d)
  BY <1>5, ConnectedOpened DEF PeerResets, Phase, Connected
<1> QED
  BY <1>2, <1>3, <1>4, <1>5, SockSteps

\* What is left of a step that neither takes a request nor writes.
LEMMA PhaseOnly ==
    ASSUME IInv, ReplyInv, [Next]_vars, UNCHANGED <<reqNo, out, script>>
    PROVE  [ConversationOf!Next]_Bar
<1>1. /\ \A c \in Conn : LastAnswered(c)' = LastAnswered(c) /\ HeaderFailed(c)' = HeaderFailed(c)
      /\ reqNo' = reqNo
  BY DEF LastAnswered, Ends, Own, HeaderFailed, Current
<1>2. CASE \A c \in Conn : Phase(c)' = Phase(c)
  BY <1>1, <1>2 DEF Bar, ConversationOf!vars
<1>3. ASSUME NEW c \in Conn,
             \/ Phase(c) = "new" /\ Phase(c)' = "open"
             \/ Phase(c) = "open" /\ Phase(c)' = "gone",
             \A d \in Conn \ {c} : Phase(d)' = Phase(d)
      PROVE  ConversationOf!Next
  <2> DEFINE phase == [d \in Conn |-> Phase(d)]
             answered == [d \in Conn |-> LastAnswered(d)]
             refused == {d \in Conn : HeaderFailed(d)}
  <2>1. phase' = [phase EXCEPT ![c] = Phase(c)'] /\ phase[c] = Phase(c)
    BY <1>3
  <2>2. answered' = answered /\ refused' = refused
    BY <1>1
  <2>3. ConversationOf!Open(c) \/ ConversationOf!Leave(c)
    BY <1>1, <1>3, <2>1, <2>2 DEF ConversationOf!Open, ConversationOf!Leave
  <2> QED
    BY <2>3 DEF ConversationOf!Next
<1> QED
  BY <1>2, <1>3, PhaseStep DEF ReplyInv

\* A connection whose phase is "open" can be written to.
LEMMA OpenIsAlive ==
    ASSUME NEW c \in Conn, Phase(c) = "open"
    PROVE  Alive(c)
BY DEF Phase, Alive

LEMMA AllWrittenAnswered ==
    ASSUME IInv, NEW c \in Conn, AllWritten(c)
    PROVE  LastAnswered(c) = reqNo[c]
<1>1. CASE Own(c) = {}
  BY <1>1 DEF AllWritten, LastAnswered, Ends
<1>2. CASE Own(c) # {}
  <2> DEFINE m == Max(Own(c))
  <2>1. m \in Own(c) /\ \A i \in Own(c) : i <= m
    BY <1>2, OwnPlaces
  <2>2. out[c][m].req = reqNo[c] /\ out[c][m].unit = RespUnits
    BY <1>2 DEF AllWritten
  <2>3. m \in Ends(c) /\ \A i \in Ends(c) : i <= m
    BY <2>1, <2>2 DEF Ends
  <2>4. Max(Ends(c)) = m
    <3>1. Ends(c) \subseteq 1 .. Len(out[c]) /\ Len(out[c]) \in Nat
      BY OwnPlaces
    <3> HIDE DEF m
    <3> QED
      BY <2>3, <3>1, MaxIs
  <2> HIDE DEF m
  <2> QED
    BY <2>2, <2>3, <2>4 DEF LastAnswered
<1> QED
  BY <1>1, <1>2

\* A header has been found: the request is asked.
LEMMA ParsedAsks ==
    ASSUME IInv, StreamInv, ReplyInv, ParseRefused \/ ParseFailed \/ ParseDone
    PROVE  [ConversationOf!Next]_Bar
<1> USE DEF sockVars, callVars
<1>1. PICK k : /\ at = "parse" /\ Finds(ctx, k) /\ reqNo' = [reqNo EXCEPT ![ctx] = k]
  BY DEF ParseRefused, ParseFailed, ParseDone
<1>2. UNCHANGED <<script, out, rst, opened, sock>>
  BY DEF ParseRefused, ParseFailed, ParseDone
<1>3. PICK c \in Conn : c = ctx /\ c \in opened
  BY <1>1, ThreadContext
<1>4. k = reqNo[c] + 1 \/ (HeaderFailed(c) /\ k > reqNo[c])
  BY <1>1, <1>3, ParseFinds
<1> DEFINE phase == [d \in Conn |-> Phase(d)]
           answered == [d \in Conn |-> LastAnswered(d)]
           refused == {d \in Conn : HeaderFailed(d)}
<1>5. phase' = phase /\ answered' = answered
  BY <1>2 DEF Phase, Connected, LastAnswered, Ends, Own
<1>6. reqNo' = [reqNo EXCEPT ![c] = k] /\ reqNo'[c] = k
  BY <1>1, <1>3, ReadTypes
<1>7. refused' \in {refused \cup {c}, refused \ {c}}
  <2>1. \A d \in Conn \ {c} : HeaderFailed(d)' = HeaderFailed(d)
    BY <1>2, <1>6, ReadTypes DEF HeaderFailed, Current
  <2> QED
    BY <2>1
<1>8. Phase(c) = "gone" \/ (Phase(c) = "open" /\ LastAnswered(c) = reqNo[c])
  <2>1. Phase(c) \in {"open", "gone"}
    BY <1>3 DEF Phase
  <2>2. ASSUME Phase(c) = "open"
        PROVE  LastAnswered(c) = reqNo[c]
    <3>1. httpBodyOffset[c] = 0
      BY <1>1, <1>3 DEF IInv, CallInv
    <3>2. AllWritten(c)
      BY <2>2, <3>1, OpenIsAlive DEF ReplyInv, WrittenInv
    <3> QED
      BY <3>2, AllWrittenAnswered
  <2> QED
    BY <2>1, <2>2
<1>9. ConversationOf!Ask(c, reqNo'[c])
  <2>1. phase[c] = Phase(c) /\ answered[c] = LastAnswered(c)
    OBVIOUS
  <2>2. c \in refused <=> HeaderFailed(c)
    OBVIOUS
  <2> QED
    BY <1>4, <1>5, <1>6, <1>7, <1>8, <2>1, <2>2 DEF ConversationOf!Ask
<1> QED
  BY <1>9 DEF ConversationOf!Next

\* The last unit of a response is sent: the request is answered.  Before that,
\* and when the descriptor belongs to somebody else by now, nothing is.
LEMMA SendDataAnswers ==
    ASSUME IInv, ReplyInv, SendData
    PROVE  [ConversationOf!Next]_Bar
<1>1. PICK c \in Conn, n \in 1 .. left[ctx], d \in Conn \ rst :
         /\ c = ctx /\ left[c] \in 1 .. RespUnits /\ c \in writing /\ d = sock[ctxFd[c]]
         /\ out' = [out EXCEPT ![d] = @ \o NextUnits(c, n)]
         /\ UNCHANGED <<script, opened, sock, rst, reqNo>>
  BY SendDataDoes DEF readVars
<1>2. \A e \in Conn : /\ Phase(e)' = Phase(e)
                      /\ HeaderFailed(e)' = HeaderFailed(e)
  BY <1>1 DEF Phase, Connected, HeaderFailed, Current
<1>3. ASSUME NEW e \in Conn, e # c \/ d # c
      PROVE  LastAnswered(e)' = LastAnswered(e)
  <2>1. /\ Own(e)' = Own(e) /\ Own(e) \subseteq 1 .. Len(out[e]) /\ Len(out[e]) \in Nat
        /\ \A i \in Own(e) : out'[e][i] = out[e][i]
    <3>1. Own(e) \subseteq 1 .. Len(out[e]) /\ Len(out[e]) \in Nat
      BY OwnPlaces
    <3>2. CASE e = d
      <4>1. n \in Nat
        BY <1>1
      <4>2. /\ \A i \in 1 .. Len(out[d]) : out'[d][i] = out[d][i]
            /\ Own(d)' = IF c = d THEN Own(d) \cup (Len(out[d]) + 1 .. Len(out[d]) + n)
                         ELSE Own(d)
        <5>1. out' = [out EXCEPT ![d] = @ \o NextUnits(c, n)]
          BY <1>1
        <5> QED
          BY <4>1, <5>1, Appended, ZenonT(30)
      <4> QED
        BY <1>3, <3>1, <3>2, <4>2
    <3>3. CASE e # d
      BY <1>1, <3>1, <3>3 DEF Own, IInv, TypeOK, SockTypeOK
    <3> QED
      BY <3>2, <3>3
  <2>2. Ends(e)' = Ends(e) /\ Ends(e) \subseteq 1 .. Len(out[e])
    BY <2>1 DEF Ends
  <2>3. Ends(e) # {} => Max(Ends(e)) \in Own(e)
    BY <2>1, <2>2, MaxOf DEF Ends
  <2>4. Max(Ends(e))' = Max(Ends(e))
    BY <2>2
  <2> QED
    BY <2>1, <2>2, <2>3, <2>4 DEF LastAnswered
<1>4. CASE d # c
  BY <1>1, <1>2, <1>3, <1>4 DEF Bar, ConversationOf!vars
<1>5. CASE d = c
  <2> DEFINE last == Len(out[c]) + n
  <2>1. c \in opened /\ Connected(c) /\ Phase(c) = "open" /\ Alive(c)
    <3>1. c \in opened /\ ctxFd[c] \in Fd
      BY <1>1, ThreadContext DEF SendData
    <3> QED
      BY <1>1, <1>5, <3>1 DEF Connected, Phase, Alive
  <2>2. NextDue(c, RespUnits - left[c] + 1) /\ InOrder(c)
    <3>1. httpBodyOffset[c] # 0 /\ left[c] # 0
      BY <1>1 DEF IInv, FlagsInv, Held
    <3> QED
      BY <1>1, <2>1, <3>1 DEF ReplyInv, WrittenInv, ResponsesInOrder
  <2>3. /\ last \in Own(c)' /\ Own(c)' \subseteq 1 .. last
        /\ out'[c][last].req = reqNo[c]
        /\ out'[c][last].unit = RespUnits - left[c] + n
    BY <1>1, <1>5, <2>2, OwnAppended, ZenonT(30)
  <2>4. last \in Nat /\ Own(c) \subseteq 1 .. Len(out[c]) /\ Len(out[c]) \in Nat
    BY <1>1, OwnPlaces
  <2>5. \A i \in 1 .. Len(out[c]) : out'[c][i] = out[c][i]
    BY <1>1, <1>5, Appended
  <2>6. CASE n = left[c]
    <3>1. last \in Ends(c)' /\ Ends(c)' \subseteq 1 .. last
      <4>1. RespUnits - left[c] + n = RespUnits
        BY <1>1, <2>6, SocketsAssumption
      <4> HIDE DEF last
      <4> QED
        BY <2>3, <4>1 DEF Ends
    <3>2. Max(Ends(c)') = last
      <4>1. \A i \in Ends(c)' : i <= last
        BY <2>4, <3>1
      <4> QED
        BY <2>4, <3>1, <4>1, MaxIs
    <3>3. LastAnswered(c)' = reqNo[c]
      <4>1. Max(Ends(c))' = Max(Ends(c)')
        OBVIOUS
      <4> HIDE DEF last
      <4> QED
        BY <2>3, <3>1, <3>2, <4>1 DEF LastAnswered
    <3> DEFINE phase == [e \in Conn |-> Phase(e)]
               answered == [e \in Conn |-> LastAnswered(e)]
               refused == {e \in Conn : HeaderFailed(e)}
    <3>4. phase' = phase /\ refused' = refused /\ phase[c] = "open"
      BY <1>2, <2>1
    <3>5. answered' = [answered EXCEPT ![c] = reqNo[c]]
      BY <1>3, <3>3
    <3>6. CASE answered[c] # reqNo[c]
      <4>1. ConversationOf!Answer(c)
        BY <1>1, <3>4, <3>5, <3>6 DEF ConversationOf!Answer
      <4> QED
        BY <4>1 DEF ConversationOf!Next
    <3>7. CASE answered[c] = reqNo[c]
      <4>1. answered' = answered
        BY <3>5, <3>7
      <4> QED
        BY <1>1, <3>4, <4>1 DEF Bar, ConversationOf!vars
    <3> QED
      BY <3>6, <3>7
  <2>7. CASE n # left[c]
    <3>1. Ends(c)' = Ends(c)
      <4>1. n \in Nat /\ n < left[c] /\ RespUnits \in Nat /\ left[c] \in Nat
        BY <1>1, <2>7, SocketsAssumption
      <4>2. /\ Own(c)' = Own(c) \cup (Len(out[c]) + 1 .. Len(out[c]) + n)
            /\ \A i \in 1 .. n : out'[c][Len(out[c]) + i].unit = RespUnits - left[c] + i
        <5>1. out' = [out EXCEPT ![d] = @ \o NextUnits(c, n)]
          BY <1>1
        <5>2. /\ \A i \in 1 .. Len(out[d]) : out'[d][i] = out[d][i]
              /\ \A i \in 1 .. n : /\ out'[d][Len(out[d]) + i].req = reqNo[c]
                                   /\ out'[d][Len(out[d]) + i].unit = RespUnits - left[c] + i
              /\ Own(d)' = IF c = d THEN Own(d) \cup (Len(out[d]) + 1 .. Len(out[d]) + n)
                           ELSE Own(d)
          BY <4>1, <5>1, Appended, ZenonT(30)
        <5> QED
          BY <1>5, <5>2
      <4>3. \A i \in Len(out[c]) + 1 .. Len(out[c]) + n : out'[c][i].unit # RespUnits
        <5> SUFFICES ASSUME NEW i \in Len(out[c]) + 1 .. Len(out[c]) + n
                     PROVE  out'[c][i].unit # RespUnits
          OBVIOUS
        <5>1. i - Len(out[c]) \in 1 .. n /\ i = Len(out[c]) + (i - Len(out[c]))
          BY <2>4, <4>1
        <5>2. out'[c][i].unit = RespUnits - left[c] + (i - Len(out[c]))
          BY <4>2, <5>1
        <5> QED
          BY <2>4, <4>1, <5>1, <5>2
      <4> QED
        BY <2>4, <2>5, <4>2, <4>3 DEF Ends
    <3>2. Ends(c) # {} => Max(Ends(c)) \in 1 .. Len(out[c])
      BY <2>4, MaxOf DEF Ends
    <3>3. Max(Ends(c))' = Max(Ends(c))
      BY <3>1
    <3>4. LastAnswered(c)' = LastAnswered(c)
      BY <2>5, <3>1, <3>2, <3>3 DEF LastAnswered
    <3> QED
      BY <1>1, <1>2, <1>3, <3>4 DEF Bar, ConversationOf!vars
  <2> QED
    BY <2>6, <2>7
<1> QED
  BY <1>4, <1>5

\* Every step is one of Conversation, or none.
LEMMA ConversationStep ==
    ASSUME ServerInv, [Next]_vars
    PROVE  [ConversationOf!Next]_Bar
<1> USE DEF ServerInv
<1>1. CASE HandlerNext /\ (ParseRefused \/ ParseFailed \/ ParseDone)
  BY <1>1, ParsedAsks
<1>2. CASE HandlerNext /\ SendData
  BY <1>2, SendDataAnswers
<1>3. CASE HandlerNext /\ ~(ParseRefused \/ ParseFailed \/ ParseDone) /\ ~SendData
  <2>1. UNCHANGED <<reqNo, out, script>>
    BY <1>3 DEF HandlerNext, RecvError, RecvZero, RecvAgain, RecvData, ParseAgain,
       ParseAstray, ProcessRequest, ProcessResponse, SendNothing, SendAgain, SendError,
       ResponseWritten, TryNextRequest, LoopNext, ResponseDone, ReadReturns,
       ResetContext, CloseConnection, readVars, sockVars
  <2> QED
    BY <2>1, PhaseOnly
<1>4. CASE ~HandlerNext
  <2>1. UNCHANGED <<reqNo, out, script>>
    BY <1>4 DEF Next, EventNext, Accept, HangUpEvent, HandleRequest, ReadyWrite, RunTask,
       ServiceCompletes, CloseConnection, PeerNext, PeerSends, PeerReads, PeerCloses,
       PeerResets, vars, handlerVars, readVars, sockVars
  <2> QED
    BY <2>1, PhaseOnly
<1> QED
  BY <1>1, <1>2, <1>3, <1>4

\* The server implements Conversation: whatever buffers, descriptors, events
\* and completions do, each connection is taken one request at a time, and
\* each request is answered, once and in full, before the next is taken.
THEOREM Converses == Spec => AnswersEveryRequest
<1>1. Init => ConversationOf!Init
  <2> SUFFICES ASSUME Init
               PROVE  ConversationOf!Init
    OBVIOUS
  <2> USE DEF Init, SockInit, HandlerInit
  <2>1. \A c \in Conn : Phase(c) = "new" /\ LastAnswered(c) = 0 /\ ~HeaderFailed(c)
    BY DEF Phase, LastAnswered, Ends, Own, HeaderFailed
  <2> QED
    BY <2>1 DEF ConversationOf!Init
<1>2. ServerInv /\ [Next]_vars => [ConversationOf!Next]_Bar
  BY ConversationStep
<1> QED
  BY <1>1, <1>2, ServerInvariant, PTL DEF Spec, AnswersEveryRequest, ConversationOf!Spec, Bar
==============================================================================
