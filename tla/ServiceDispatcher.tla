--------------------------- MODULE ServiceDispatcher ---------------------------
(***************************************************************************)
(* ngrest's ServiceDispatcher (src/core/engine/src/ServiceDispatcher.cpp): *)
(* the map of deployed services, the tree of resource paths that points    *)
(* into it, and the search for the operation of a request.                 *)
(*                                                                         *)
(* A path is a sequence of parts; a node of the tree is named by the path  *)
(* that leads to it, so the root is <<>>.  The exceptions registerService  *)
(* throws half-way leave what was done before them.                        *)
(***************************************************************************)
EXTENDS Integers, Sequences, FiniteSetsExt

CONSTANTS
    Wrapper,     \* the services' wrappers
    Name,        \* names of services
    Part,        \* parts of paths
    Method,      \* HTTP methods
    Descr,       \* Descr[w], the ServiceDescription of wrapper w
    None,        \* nullptr
    Dangling     \* a pointer to an erased DeployedService

\* base: the parts of the location, of a parametrized one those before the
\* first parameter (each ends with a slash then, so that only <<>> can be the
\* base of both kinds); arity: OperationDescription::parameters.size();
\* valid: the location can be parsed.
Operation == [base : Seq(Part), method : Method, parametrized : BOOLEAN,
              arity : Nat, valid : BOOLEAN]

Description == [name : Name, location : Seq(Part), valid : BOOLEAN,
                operations : Seq(Operation)]

ASSUME DispatcherAssumption ==
    /\ Descr \in [Wrapper -> Description]
    /\ \A w \in Wrapper : Descr[w].location # <<>>    \* find('/') yields a part
    /\ None \notin Wrapper \cup Name /\ Dangling \notin Name \cup {None}

VARIABLES
    deployedServices,   \* name to DeployedService: wrapper and resources
    resourcePath        \* node to the service it points to

vars == <<deployedServices, resourcePath>>

Resource == Wrapper \X Nat      \* the k-th operation of a wrapper

TypeOK ==
    /\ DOMAIN deployedServices \subseteq Name
    /\ \A n \in DOMAIN deployedServices :
         deployedServices[n] \in [wrapper : Wrapper \cup {None}, resources : SUBSET Resource]
    /\ DOMAIN resourcePath \subseteq Seq(Part)
    /\ \A p \in DOMAIN resourcePath : resourcePath[p] \in Name \cup {None, Dangling}

Init ==
    /\ deployedServices = [n \in {} |-> None]
    /\ resourcePath = [p \in {<<>>} |-> None]

Prefix(path, k) == SubSeq(path, 1, k)
NodesTo(path) == {Prefix(path, k) : k \in 0 .. Len(path)}

Op(r) == Descr[r[1]].operations[r[2]]

------------------------------------------------------------------------------
(* registerService, lines 250-326.                                         *)

\* deployedServices[name], which creates the entry.
Entry(n) == IF n \in DOMAIN deployedServices THEN deployedServices[n]
            ELSE [wrapper |-> None, resources |-> {}]

WithEntry(n, entry) ==
    [m \in DOMAIN deployedServices \cup {n} |-> IF m = n THEN entry ELSE deployedServices[m]]

\* getResourcePath, lines 157-186: the nodes that are missing are created.
Grown(path) ==
    [p \in DOMAIN resourcePath \cup NodesTo(path) |->
        IF p \in DOMAIN resourcePath THEN resourcePath[p] ELSE None]

\* Resources in one of the multimaps under the key of operation o.
SameKey(resources, o, parametrized) ==
    {r \in resources : /\ Op(r).parametrized = parametrized /\ Op(r).base = o.base
                       /\ parametrized = o.parametrized \/ o.base = <<>>}

Same(r, o) == Op(r).method = o.method /\ Op(r).arity = o.arity

\* find() returns one resource of the key, whichever the library likes, and
\* this one is compared (lines 299-313).
CollisionSeen(resources, o) ==
    \E q \in BOOLEAN : \E r \in SameKey(resources, o, q) : Same(r, o)
CollisionMissed(resources, o) ==
    \A q \in BOOLEAN : LET found == SameKey(resources, o, q) IN
        found = {} \/ \E r \in found : ~Same(r, o)

\* The resources after the first k operations of w.
Inserted(w, k) == Entry(Descr[w].name).resources \cup {<<w, i>> : i \in 1 .. k}

\* The first k operations of w can be inserted, the next, if any, throws.
Passes(w, k) ==
    \A i \in 1 .. k : LET o == Descr[w].operations[i] IN
        o.valid /\ CollisionMissed(Inserted(w, i - 1), o)
FailsAfter(w, k) ==
    LET o == Descr[w].operations[k + 1] IN
    k < Len(Descr[w].operations) /\ (~o.valid \/ CollisionSeen(Inserted(w, k), o))

\* Mutation of Occupant: the location is not tested.
OccupantIgnored(w) == None

Taken(w) == Entry(Descr[w].name).wrapper # None
Occupant(w) == Grown(Descr[w].location)[Descr[w].location]

RegisterSucceeds(w) ==
    LET d == Descr[w] IN
    /\ d.valid /\ ~Taken(w) /\ Occupant(w) = None
    /\ Passes(w, Len(d.operations))
    /\ deployedServices' = WithEntry(d.name, [wrapper |-> w,
                                              resources |-> Inserted(w, Len(d.operations))])
    /\ resourcePath' = [Grown(d.location) EXCEPT ![d.location] = d.name]

\* The location is not valid, or the name is taken.
RegisterRefused(w) ==
    /\ ~Descr[w].valid \/ Taken(w)
    /\ UNCHANGED vars

\* The location is taken by a service whose name can be put into the message.
RegisterOccupied(w) ==
    LET d == Descr[w] IN
    /\ d.valid /\ ~Taken(w)
    /\ Occupant(w) \notin {None, Dangling, d.name}
    /\ deployedServices[Occupant(w)].wrapper # None
    /\ deployedServices' = WithEntry(d.name, Entry(d.name))
    /\ resourcePath' = Grown(d.location)

\* An operation is not valid, or its path is taken.
RegisterHalf(w) ==
    LET d == Descr[w] IN
    /\ d.valid /\ ~Taken(w) /\ Occupant(w) = None
    /\ \E k \in 0 .. Len(d.operations) :
         /\ Passes(w, k) /\ FailsAfter(w, k)
         /\ deployedServices' = WithEntry(d.name, [wrapper |-> None, resources |-> Inserted(w, k)])
    /\ resourcePath' = [Grown(d.location) EXCEPT ![d.location] = d.name]

RegisterThrows(w) == RegisterRefused(w) \/ RegisterOccupied(w) \/ RegisterHalf(w)

\* The location is taken by a service without a wrapper, or one that is no
\* more: the message's name is read through a bad pointer.
RegisterCrashes(w) ==
    /\ Descr[w].valid /\ ~Taken(w) /\ Occupant(w) # None
    /\ Occupant(w) \in {Dangling, Descr[w].name} \/ deployedServices[Occupant(w)].wrapper = None

------------------------------------------------------------------------------
(* unregisterService, lines 328-353.                                       *)

\* The nodes from p downwards.
Below(p) == {q \in DOMAIN resourcePath : Len(p) <= Len(q) /\ Prefix(q, Len(p)) = p}

\* Mutation of Pruned: a node is deleted whatever is below it.
PrunedWithChildren(path) ==
    {Prefix(path, k) : k \in {k \in 1 .. Len(path) :
        \A j \in k .. Len(path) : resourcePath[Prefix(path, j - 1)] = None}}

\* deleteResourcePath, lines 188-200: from the node at path up to the first
\* whose parent has a service, or which has another child.
Pruned(path) ==
    {Prefix(path, k) : k \in {k \in 1 .. Len(path) :
        /\ \A j \in k .. Len(path) : resourcePath[Prefix(path, j - 1)] = None
        /\ Below(Prefix(path, k)) \subseteq NodesTo(path)}}

\* Mutation of Cut: the pointer to the service is not reset.
CutKeepsService(path, n) ==
    [p \in DOMAIN resourcePath \ Pruned(path) |->
        IF resourcePath[p] = n THEN Dangling ELSE resourcePath[p]]

\* What is left of the tree when the service at path and the entry of n go.
Cut(path, n) ==
    [p \in DOMAIN resourcePath \ Pruned(path) |->
        IF p = path THEN None ELSE IF resourcePath[p] = n THEN Dangling ELSE resourcePath[p]]

UnregisterSucceeds(w) ==
    LET d == Descr[w] IN
    /\ d.valid /\ d.location \in DOMAIN resourcePath
    /\ d.name \in DOMAIN deployedServices
    /\ resourcePath' = Cut(d.location, d.name)
    /\ deployedServices' = [n \in DOMAIN deployedServices \ {d.name} |-> deployedServices[n]]

\* There is no such path; or there is no such service, which is found only
\* after the path has been deleted.
UnregisterThrows(w) ==
    LET d == Descr[w] IN
    \/ ~d.valid /\ UNCHANGED vars
    \/ d.valid /\ d.location \notin DOMAIN resourcePath /\ UNCHANGED vars
    \/ /\ d.valid /\ d.location \in DOMAIN resourcePath
       /\ d.name \notin DOMAIN deployedServices
       /\ resourcePath' = Cut(d.location, d.name)
       /\ UNCHANGED deployedServices

------------------------------------------------------------------------------
(* dispatchMessage, lines 355-408.                                         *)

\* Mutation of Matched: the search stops at the first service.
MatchedFirst(path) ==
    LET hits == {k \in 1 .. Len(path) : /\ NodesTo(Prefix(path, k)) \subseteq DOMAIN resourcePath
                                        /\ resourcePath[Prefix(path, k)] # None}
    IN  IF hits = {} THEN 0 ELSE CHOOSE k \in hits : \A j \in hits : k <= j

\* How many parts of path findServiceByPath, lines 202-234, matches: down to
\* the deepest node with a service among those that exist; 0 when none has.
Matched(path) ==
    LET hits == {k \in 1 .. Len(path) : /\ NodesTo(Prefix(path, k)) \subseteq DOMAIN resourcePath
                                        /\ resourcePath[Prefix(path, k)] # None}
    IN  IF hits = {} THEN 0 ELSE Max(hits)

FindService(path) == IF Matched(path) = 0 THEN None ELSE resourcePath[Prefix(path, Matched(path))]

\* The operations that may be invoked for a request: those with exactly its
\* location, else the parametrized ones with the longest base.
Invoked(path, method) ==
    LET service == FindService(path)
        location == SubSeq(path, Matched(path) + 1, Len(path))
        candidates == {r \in deployedServices[service].resources : Op(r).method = method}
        static == {r \in candidates : ~Op(r).parametrized /\ Op(r).base = location}
        param == {r \in candidates :
                    LET base == Op(r).base IN
                    /\ Op(r).parametrized
                    /\ base = <<>> \/ Len(base) < Len(location)
                    /\ Prefix(location, Len(base)) = base}
    IN  IF service \notin DOMAIN deployedServices THEN {}
        ELSE IF static # {} THEN static
        ELSE {r \in param : \A q \in param : Len(Op(q).base) <= Len(Op(r).base)}

------------------------------------------------------------------------------
(* The dispatcher under a caller that unregisters a service only when its  *)
(* path is its own, that is when registerService had got as far as setting *)
(* it; as long as the process lives (RegisterCrashes ends it).             *)

Registered(w) == LET n == Descr[w].name IN
    n \in DOMAIN deployedServices /\ deployedServices[n].wrapper = w

OwnsPath(w) == LET location == Descr[w].location IN
    location \in DOMAIN resourcePath /\ resourcePath[location] = Descr[w].name

Next == \E w \in Wrapper :
    \/ RegisterSucceeds(w)
    \/ RegisterRefused(w) \/ RegisterOccupied(w) \/ RegisterHalf(w)
    \/ OwnsPath(w) /\ UnregisterSucceeds(w)

Spec == Init /\ [][Next]_vars
==============================================================================
