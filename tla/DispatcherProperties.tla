-------------------------- MODULE DispatcherProperties --------------------------
(***************************************************************************)
(* What the ServiceDispatcher promises, on the model of that name.         *)
(***************************************************************************)
EXTENDS ServiceDispatcher

CONSTANT Requests     \* the paths that are asked for

ASSUME RequestsAssumption == Requests \subseteq Seq(Part)

RouterOf == INSTANCE Router WITH routes <- {w \in Wrapper : Registered(w)}

\* Services have different names.  (registerService enforces it between
\* services that are registered, not for one whose registration failed.)
DistinctNames == \A v, w \in Wrapper : Descr[v].name = Descr[w].name => v = w

(***************************************************************************)
(* However services with shared and nested paths come, go and fail to      *)
(* come, pruning the tree never cuts off a registered service, and no node *)
(* points to a service that has been erased (deleteResourcePath; the       *)
(* pointers are those findServiceByPath follows).                          *)
(***************************************************************************)
RegisteredIsReachable ==
    /\ \A w \in Wrapper : Registered(w) =>
         /\ NodesTo(Descr[w].location) \subseteq DOMAIN resourcePath
         /\ resourcePath[Descr[w].location] = Descr[w].name
    /\ \A p \in DOMAIN resourcePath : resourcePath[p] # Dangling

(***************************************************************************)
(* findServiceByPath finds the service with the longest location that      *)
(* leads to the path; a deeper node can only hide it when it belongs to a  *)
(* service whose registration has failed.                                  *)
(***************************************************************************)
ServesMostSpecific ==
    \A path \in Requests :
        LET found == FindService(path)
            served == RouterOf!Serving(path)
        IN  \/ \E w \in served : found = Descr[w].name
            \/ served = {} /\ found = None
            \/ /\ found \in DOMAIN deployedServices
               /\ deployedServices[found].wrapper = None

(***************************************************************************)
(* The collision check of registerService leaves no request for which two  *)
(* operations with one number of parameters may be invoked.                *)
(***************************************************************************)
NoUnseenCollision ==
    \A path \in Requests, method \in Method :
        \A r, q \in Invoked(path, method) : Op(r).arity = Op(q).arity => r = q

(***************************************************************************)
(* The dispatcher implements module Router: a service leaves the table     *)
(* only when it is unregistered, and none comes in beside another of the   *)
(* same name or location.                                                  *)
(***************************************************************************)
KeepsTable == RouterOf!Spec

------------------------------------------------------------------------------
(* The inductive invariant behind RegisteredIsReachable.                   *)

\* The nodes form a tree: with a node there are those above it.
TreeInv ==
    /\ <<>> \in DOMAIN resourcePath /\ resourcePath[<<>>] = None
    /\ \A p \in DOMAIN resourcePath : NodesTo(p) \subseteq DOMAIN resourcePath

\* A node with a service is the location of a wrapper of that name.
PointerInv ==
    \A p \in DOMAIN resourcePath : resourcePath[p] # None =>
        /\ resourcePath[p] \in DOMAIN deployedServices
        /\ \E w \in Wrapper : Descr[w].name = resourcePath[p] /\ Descr[w].location = p

EntryInv ==
    \A n \in DOMAIN deployedServices : deployedServices[n].wrapper # None =>
        /\ Descr[deployedServices[n].wrapper].name = n
        /\ Descr[deployedServices[n].wrapper].valid
        /\ Descr[deployedServices[n].wrapper].location \in DOMAIN resourcePath
        /\ resourcePath[Descr[deployedServices[n].wrapper].location] = n

DispatcherInv == TypeOK /\ TreeInv /\ PointerInv /\ EntryInv
==============================================================================
