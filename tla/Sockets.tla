------------------------------- MODULE Sockets -------------------------------
(***************************************************************************)
(* The kernel's side of ngrest's connections and the peers at their other  *)
(* end: descriptors, receive and send buffers, and epoll's edge-triggered  *)
(* ready list.  None of this is code of the repository; it is modelled     *)
(* from how Server.cpp and ClientHandler.cpp use it (accept, recv, send,   *)
(* close, ioctl(FIONREAD), epoll_ctl and epoll_wait with EPOLLET).         *)
(*                                                                         *)
(* A connection is named by an element of Conn and lives once; a file      *)
(* descriptor of Fd is reused as soon as it has been closed.  What a peer  *)
(* sends is a stream of abstract units, cut into requests by Scripts.      *)
(***************************************************************************)
EXTENDS Integers, Sequences, FiniteSets

CONSTANTS
    Conn,          \* connections that peers open, each of them once
    Fd,            \* file descriptors accept() can return
    None,          \* no connection, no descriptor
    MaxU64,        \* the largest uint64_t; also ngrest's INVALID_VALUE
    Scripts,       \* the request sequences a peer may send over a connection
    RespUnits,     \* units of a response (status line, headers and body)
    SndBuf,        \* units a socket's send buffer holds
    Pipelining,    \* connections that send without waiting for responses
    Closers,       \* connections whose peer may shut down its sending side
    Resetters      \* connections whose peer may reset the connection

\* ClientHandler.cpp:59
INVALID == MaxU64

(***************************************************************************)
(* A request occupies the units start+1 .. end of its stream: the header   *)
(* up to and with the empty line in start+1 .. body, the body after it.    *)
(* length is the value of Content-Length, INVALID when there is none.      *)
(*   keep   what the Connection header or the HTTP version asks for;       *)
(*   form   "good", or where its handling throws: "bad" in                 *)
(*          parseHttpHeader, "refused" in a Header-phase filter, "denied"  *)
(*          in a PreDispatch-phase filter;                                 *)
(*   svc    the operation answers before dispatchMessage returns ("sync"), *)
(*          or later from a posted task, with success ("async") or with    *)
(*          callback->error ("asyncError").                                *)
(***************************************************************************)
Request == [start : Nat, body : Nat, end : Nat, length : 0 .. MaxU64,
            keep : BOOLEAN,
            form : {"good", "bad", "refused", "denied"},
            svc : {"sync", "async", "asyncError"}]

WellFormed(s) ==
    /\ s # <<>> => s[1].start = 0
    /\ \A k \in DOMAIN s :
         /\ s[k].start < s[k].body
         /\ s[k].end = s[k].body + (IF s[k].length = INVALID THEN 0 ELSE s[k].length)
         /\ k + 1 \in DOMAIN s => s[k + 1].start = s[k].end
         /\ \A j \in 1 .. k - 1 : s[j].end <= s[k].start

ASSUME SocketsAssumption ==
    /\ None \notin Conn /\ None \notin Fd
    /\ MaxU64 \in Nat \ {0} /\ RespUnits \in Nat \ {0} /\ SndBuf \in Nat \ {0}
    /\ Scripts \subseteq Seq(Request)
    /\ \A s \in Scripts : WellFormed(s)
    /\ Pipelining \subseteq Conn /\ Closers \subseteq Conn /\ Resetters \subseteq Conn

VARIABLES
    script,    \* script[c]: the requests the peer of c will send
    opened,    \* connections that have been accepted
    sock,      \* sock[f]: the connection descriptor f refers to
    sent,      \* units the peer of c has sent
    rcvd,      \* units of them the server has received
    fin,       \* connections whose peer has shut down its sending side
    rst,       \* connections whose peer has reset them
    out,       \* out[c]: the response units written to connection c
    taken,     \* how many of them the peer has read
    nospace,   \* sockets a writer found full (SOCK_NOSPACE)
    edge       \* sockets on epoll's ready list

sockVars == <<script, opened, sock, sent, rcvd, fin, rst, out, taken, nospace, edge>>

\* One unit of a response: the context that wrote it, the request it answers
\* and its place in the response.
Unit == [by : Conn, req : Nat, unit : Nat]

SockTypeOK ==
    /\ script \in [Conn -> Scripts]
    /\ opened \subseteq Conn
    /\ sock \in [Fd -> Conn \cup {None}]
    /\ sent \in [Conn -> Nat]
    /\ rcvd \in [Conn -> Nat]
    /\ fin \subseteq Conn
    /\ rst \subseteq Conn
    /\ out \in [Conn -> Seq(Unit)]
    /\ taken \in [Conn -> Nat]
    /\ nospace \subseteq Conn
    /\ edge \subseteq Conn

SockInit ==
    /\ script \in [Conn -> Scripts]
    /\ opened = {}
    /\ sock = [f \in Fd |-> None]
    /\ sent = [c \in Conn |-> 0]
    /\ rcvd = [c \in Conn |-> 0]
    /\ fin = {}
    /\ rst = {}
    /\ out = [c \in Conn |-> <<>>]
    /\ taken = [c \in Conn |-> 0]
    /\ nospace = {}
    /\ edge = {}

\* The server still has a descriptor of connection c.
Connected(c) == \E f \in Fd : sock[f] = c

Unread(c) == sent[c] - rcvd[c]

Room(c) == SndBuf - (Len(out[c]) - taken[c])

\* The complete responses the peer of c has read.
Answers(c) == taken[c] \div RespUnits

\* The peer of c may send the next unit of its stream.  One that does not
\* pipeline starts a request after it has read the response to the last.
MaySend(c) ==
    \E k \in DOMAIN script[c] :
        /\ script[c][k].start <= sent[c] /\ sent[c] < script[c][k].end
        /\ c \in Pipelining \/ Answers(c) >= k - 1

PeerSends(c) ==
    /\ Connected(c) /\ c \notin fin \cup rst
    /\ MaySend(c)
    /\ sent' = [sent EXCEPT ![c] = @ + 1]
    /\ edge' = edge \cup {c}
    /\ UNCHANGED <<script, opened, sock, rcvd, fin, rst, out, taken, nospace>>

\* The peer reads all that was written to it; a writer waiting for space is
\* woken.
PeerReads(c) ==
    /\ c \notin rst /\ taken[c] < Len(out[c])
    /\ taken' = [taken EXCEPT ![c] = Len(out[c])]
    /\ edge' = IF c \in nospace /\ Connected(c) THEN edge \cup {c} ELSE edge
    /\ nospace' = nospace \ {c}
    /\ UNCHANGED <<script, opened, sock, sent, rcvd, fin, rst, out>>

PeerCloses(c) ==
    /\ c \in Closers /\ Connected(c) /\ c \notin fin \cup rst
    /\ fin' = fin \cup {c}
    /\ edge' = edge \cup {c}
    /\ UNCHANGED <<script, opened, sock, sent, rcvd, rst, out, taken, nospace>>

PeerResets(c) ==
    /\ c \in Resetters /\ Connected(c) /\ c \notin rst
    /\ rst' = rst \cup {c}
    /\ edge' = edge \cup {c}
    /\ UNCHANGED <<script, opened, sock, sent, rcvd, fin, out, taken, nospace>>

PeerNext == \E c \in Conn : PeerSends(c) \/ PeerReads(c) \/ PeerCloses(c) \/ PeerResets(c)

(***************************************************************************)
(* What epoll_wait reports for a socket on its ready list.  A socket with  *)
(* nothing to report stays listed until there is: asking a full socket for *)
(* EPOLLOUT arms the same wakeup as a failed send.                         *)
(***************************************************************************)
HangsUp(c) == c \in rst
Readable(c) == Unread(c) > 0 \/ c \in fin
Writable(c) == Room(c) > 0
==============================================================================
