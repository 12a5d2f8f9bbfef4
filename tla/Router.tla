-------------------------------- MODULE Router --------------------------------
(***************************************************************************)
(* What a ServiceDispatcher is for: a table of services, no two of them    *)
(* with one name or one location, that changes only as it is asked to, and *)
(* serves a path by the service with the longest location that leads to it.*)
(***************************************************************************)
EXTENDS Integers, Sequences

CONSTANTS Wrapper, Descr

VARIABLE routes      \* the services in the table

Leads(w, path) ==
    LET location == Descr[w].location IN
    Len(location) <= Len(path) /\ SubSeq(path, 1, Len(location)) = location

\* The services a path may be served by.
Serving(path) ==
    {w \in routes : /\ Leads(w, path)
                    /\ \A v \in routes : Leads(v, path) =>
                         Len(Descr[v].location) <= Len(Descr[w].location)}

Init == routes = {}

Add(w) ==
    /\ \A v \in routes : Descr[v].name # Descr[w].name /\ Descr[v].location # Descr[w].location
    /\ routes' = routes \cup {w}

Remove(w) ==
    /\ w \in routes
    /\ routes' = routes \ {w}

Next == \E w \in Wrapper : Add(w) \/ Remove(w)

Spec == Init /\ [][Next]_routes
==============================================================================
