------------------------------- MODULE ServerMC -------------------------------
(* Instances of the server for TLC.                                        *)
EXTENDS ServerProperties, SequencesExt

CONSTANTS c1, c2

\* A request by its shape: header units, Content-Length, Connection, handling.
Shape(head, length, keep, form, svc) ==
    [head |-> head, length |-> length, keep |-> keep, form |-> form, svc |-> svc]

\* Lays shapes one after the other over a stream.
Lay(shapes) ==
    LET Place(s, sh) ==
          LET start == IF s = <<>> THEN 0 ELSE s[Len(s)].end
              body  == start + sh.head
              rest  == IF sh.length = INVALID THEN 0 ELSE sh.length
          IN  Append(s, [start |-> start, body |-> body, end |-> body + rest,
                         length |-> sh.length, keep |-> sh.keep,
                         form |-> sh.form, svc |-> sh.svc])
    IN  FoldLeft(Place, <<>>, shapes)

Get(svc)  == Shape(1, INVALID, TRUE, "good", svc)
Long(svc) == Shape(2, INVALID, TRUE, "good", svc)
Final(svc) == Shape(1, INVALID, FALSE, "good", svc)
Post(n, svc) == Shape(1, n, TRUE, "good", svc)
Failing(form) == Shape(1, INVALID, TRUE, form, "sync")

MCConn == {c1, c2}
MCOne == {c1}
MCNone == {}
MCFd1 == {1}
MCFd2 == {1, 2}

\* Every handling and every error path, one request behind the other.
AllScripts ==
    {Lay(s) : s \in {
        <<Long("sync"), Get("async"), Get("sync")>>,
        <<Get("async"), Final("sync"), Get("async")>>,
        <<Post(0, "sync"), Get("sync")>>,
        <<Post(1, "sync"), Get("sync")>>,
        <<Post(4, "async"), Final("async")>>,
        <<Get("sync"), Failing("bad"), Get("sync")>>,
        <<Get("async"), Failing("bad")>>,
        <<Failing("refused"), Failing("bad")>>,
        <<Get("sync"), Failing("refused"), Get("async")>>,
        <<Failing("denied"), Get("async")>>,
        <<Get("async"), Failing("denied")>>,
        <<Failing("refused"), Long("sync"), Post(1, "async")>>,
        <<Get("asyncError"), Get("sync")>> }}

\* Scripts for two connections that share a descriptor.
ReuseScripts ==
    {Lay(s) : s \in {
        <<Get("async"), Get("sync")>>,
        <<Long("sync"), Final("async")>>,
        <<Get("sync"), Failing("bad")>> }}

\* Well-formed requests, the last one asking for the connection to be closed.
ClosingScripts ==
    {Lay(s) : s \in {
        <<Get("async"), Final("sync")>>,
        <<Get("sync"), Final("async")>> }}

GetScripts == {Lay(s) : s \in {<<Get("sync"), Get("async")>>, <<Get("async"), Get("sync")>>,
                               <<Long("async"), Get("async")>>}}
PostScripts == {Lay(<<Post(1, "sync"), Post(1, "sync")>>)}
ErrorScripts == {Lay(<<Get("sync"), Get("asyncError"), Get("sync")>>)}

\* Two connections that keep the server busy with each other's requests.
PoliteScripts == {Lay(<<Post(1, "async"), Long("sync")>>)}

\* One request each, for liveness with two connections.
ShortScripts == {Lay(<<Get("async")>>), Lay(<<Post(1, "sync")>>)}
==============================================================================
