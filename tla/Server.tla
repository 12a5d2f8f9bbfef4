-------------------------------- MODULE Server --------------------------------
(***************************************************************************)
(* ngrest's own server (src/core/server/src/Server.cpp, built with epoll)  *)
(* around ClientHandler: accepting connections, handing the events of      *)
(* edge-triggered sockets to the handler, and running posted tasks.        *)
(* Everything but the peers and the services runs on one thread, so an     *)
(* event or a task is taken only when the previous one has been handled.   *)
(***************************************************************************)
EXTENDS ClientHandler

vars == <<sockVars, handlerVars>>

Init == SockInit /\ HandlerInit

ThreadStays == UNCHANGED <<at, callVars, site, ret, localVars>>

\* handleIncomingConnection, lines 428-475: a connection that has come in is
\* accepted and its socket put into the epoll set.
Accept(f, c) ==
    /\ at = "idle"
    /\ c \notin opened /\ sock[f] = None
    /\ opened' = opened \cup {c}
    /\ sock' = [sock EXCEPT ![f] = c]
    /\ edge' = edge \cup {c}
    /\ ConnectedCb(f, c)
    /\ UNCHANGED <<script, sent, rcvd, fin, rst, out, taken, nospace>>
    /\ UNCHANGED <<deleteLater, flagVars, readVars, left, svcVars>>
    /\ ThreadStays

\* EPOLLERR or EPOLLHUP, lines 201-211.
HangUpEvent(f) ==
    /\ at = "idle"
    /\ sock[f] \in edge /\ HangsUp(sock[f])
    /\ CloseConnection(f)
    /\ UNCHANGED <<flagVars, readVars, left, svcVars>>
    /\ ThreadStays

\* EPOLLIN: handleRequest, lines 477-497, and readyRead(fd), lines 232-244.
\* Without bytes to read the connection is closed.
HandleRequest(f) ==
    LET c == sock[f] IN
    /\ at = "idle"
    /\ c \in edge /\ ~HangsUp(c) /\ Readable(c)
    /\ IF Unread(c) = 0 \/ clients[f] = None
       THEN CloseConnection(f) /\ ThreadStays
       ELSE /\ Enter("recv", clients[f], "read", f)
            /\ edge' = edge \ {c}
            /\ UNCHANGED <<script, opened, sock, sent, rcvd, fin, rst, out, taken, nospace>>
            /\ UNCHANGED ctxVars
    /\ UNCHANGED <<flagVars, readVars, left, svcVars>>

\* Mutation of ReadyWrite: a request still processed is not written.
ReadyWriteWhenProcessed(f) ==
    LET c == sock[f] IN
    /\ at = "idle"
    /\ c \in edge /\ ~HangsUp(c) /\ ~Readable(c) /\ Writable(c)
    /\ edge' = edge \ {c}
    /\ IF clients[f] # None /\ clients[f] \in writing \ processing
       THEN Enter("send", clients[f], "write", f)
       ELSE ThreadStays
    /\ UNCHANGED <<script, opened, sock, sent, rcvd, fin, rst, out, taken, nospace>>
    /\ UNCHANGED <<ctxVars, flagVars, readVars, left, svcVars>>

\* EPOLLOUT without EPOLLIN: readyWrite, lines 381-403.
ReadyWrite(f) ==
    LET c == sock[f] IN
    /\ at = "idle"
    /\ c \in edge /\ ~HangsUp(c) /\ ~Readable(c) /\ Writable(c)
    /\ edge' = edge \ {c}
    /\ IF clients[f] # None /\ clients[f] \in writing
       THEN Enter("send", clients[f], "write", f)
       ELSE ThreadStays
    /\ UNCHANGED <<script, opened, sock, sent, rcvd, fin, rst, out, taken, nospace>>
    /\ UNCHANGED <<ctxVars, flagVars, readVars, left, svcVars>>

\* Mutation of RunTask: the completion for a client that is gone is dropped.
RunTaskOfConnected ==
    /\ at = "idle" /\ tasks # <<>>
    /\ tasks' = Tail(tasks)
    /\ IF Head(tasks).ctx \in deleteLater
       THEN ThreadStays
       ELSE Enter("respond", Head(tasks).ctx, "task", None)
    /\ UNCHANGED <<sockVars, ctxVars, flagVars, readVars, left, pending>>

\* A posted task, lines 299-303: the completion of an asynchronous operation
\* calls ClientHandlerCallback::success, or error.  processError rethrows the
\* exception being handled (line 664); in a task there is none.
RunTask ==
    /\ at = "idle" /\ tasks # <<>>
    /\ tasks' = Tail(tasks)
    /\ IF Head(tasks).ok
       THEN Enter("respond", Head(tasks).ctx, "task", None)
       ELSE GoTo("down")
    /\ UNCHANGED <<sockVars, ctxVars, flagVars, readVars, left, pending>>

\* Server::post, lines 335-347, called by a service that has finished.
ServiceCompletes(c) ==
    /\ c \in pending /\ at \notin {"down", "astray"}
    /\ pending' = pending \ {c}
    /\ tasks' = Append(tasks, [ctx |-> c, ok |-> script[c][reqNo[c]].svc = "async"])
    /\ UNCHANGED <<sockVars, ctxVars, flagVars, readVars, left>>
    /\ ThreadStays

EventNext ==
    \/ \E f \in Fd : \/ \E c \in Conn : Accept(f, c)
                     \/ HangUpEvent(f) \/ HandleRequest(f) \/ ReadyWrite(f)
    \/ RunTask

Next ==
    \/ PeerNext /\ UNCHANGED handlerVars
    \/ \E c \in Conn : ServiceCompletes(c)
    \/ EventNext
    \/ HandlerNext

Spec == Init /\ [][Next]_vars

(***************************************************************************)
(* The thread never stops between two calls, and neither a service nor a   *)
(* peer that has something to read or to send.  epoll_wait returns every   *)
(* ready socket and the loop handles all of them, and then all tasks,      *)
(* before it waits again (lines 197-306): an event or a task that is       *)
(* there whenever the loop gets to it is handled.                          *)
(***************************************************************************)
Fairness ==
    /\ WF_vars(HandlerNext)
    /\ SF_vars(RunTask)
    /\ \A f \in Fd : SF_vars(HangUpEvent(f)) /\ SF_vars(HandleRequest(f)) /\ SF_vars(ReadyWrite(f))
    /\ \A c \in Conn :
         /\ SF_vars(\E f \in Fd : Accept(f, c))
         /\ WF_vars(ServiceCompletes(c))
         /\ WF_vars(PeerSends(c) /\ UNCHANGED handlerVars)
         /\ WF_vars(PeerReads(c) /\ UNCHANGED handlerVars)

FairSpec == Spec /\ Fairness
==============================================================================
