------------------------------ MODULE DeploymentMC ------------------------------
(* Instances of the dispatcher and of the deployment for TLC.              *)
EXTENDS Deployment, TLC

CONSTANTS calc, admin, stats, deep, bad, side, extra, odd, twins

Oper(base, method, parametrized, arity) ==
    [base |-> base, method |-> method, parametrized |-> parametrized, arity |-> arity,
     valid |-> TRUE]
Broken == [Oper(<<"x">>, "GET", FALSE, 0) EXCEPT !.valid = FALSE]

Service(name, location, operations) ==
    [name |-> name, location |-> location, valid |-> TRUE, operations |-> operations]

ListOp == Oper(<<>>, "GET", FALSE, 0)
GetOp == Oper(<<"x">>, "GET", TRUE, 1)
PostOp == Oper(<<"x">>, "POST", TRUE, 1)

DispatchedWrapper == {calc, admin, stats, deep, bad, side, extra, odd, twins}

\* Locations above, below and beside each other, one that is taken twice and
\* one that is not valid; a service whose second operation is
\* broken, and one whose first and last operation collide.
MCDescr == (
    calc  :> Service("calc", <<"a">>, <<ListOp, GetOp>>) @@
    admin :> Service("admin", <<"a", "b">>, <<GetOp, PostOp>>) @@
    stats :> Service("stats", <<"a", "b">>, <<ListOp>>) @@
    deep  :> Service("deep", <<"a", "b", "c", "x">>, <<PostOp>>) @@
    bad   :> Service("bad", <<"a", "b", "c">>, <<GetOp, Broken>>) @@
    side  :> Service("side", <<"a", "x">>, <<ListOp>>) @@
    extra :> Service("extra", <<"x">>, <<PostOp>>) @@
    odd   :> [Service("odd", <<"c">>, <<ListOp>>) EXCEPT !.valid = FALSE] @@
    twins :> Service("twins", <<"a">>, <<GetOp, PostOp, GetOp>>))

MCName == {"calc", "admin", "stats", "deep", "bad", "side", "extra", "odd", "twins"}
MCPart == {"a", "b", "c", "x"}
MCMethod == {"GET", "POST"}

\* Only this service is registered.
TwinsWrapper == {twins}
TwinsDescr == [w \in TwinsWrapper |-> MCDescr[w]]
TwinsServices == ("twins" :> <<twins>>)
TwinsLibrary == DOMAIN TwinsServices
DispatchedDescr == [w \in DispatchedWrapper |-> MCDescr[w]]

MCRequests == UNION {[1 .. n -> MCPart] : n \in 1 .. 4}

------------------------------------------------------------------------------
\* The first two groups share no location with another; the others overlap,
\* are empty, or have a service that cannot be registered.
ApartServices == ("calc" :> <<calc>> @@ "tools" :> <<admin, deep>> @@ "empty" :> <<>> @@
                  "half" :> <<side, extra, bad>> @@ "alone" :> <<bad>> @@ "odd" :> <<side, odd>>)
ApartLibrary == DOMAIN ApartServices

\* A service of one group has the location of a service of the other.
CrossingServices == ("tools" :> <<admin>> @@ "more" :> <<side, stats>>)
CrossingLibrary == DOMAIN CrossingServices

\* The second service of the group cannot be registered.
BrokenServices == ("half" :> <<side, bad>>)
BrokenLibrary == DOMAIN BrokenServices

\* The only service of the group cannot be registered.
AloneServices == ("alone" :> <<bad>>)
AloneLibrary == DOMAIN AloneServices
==============================================================================
