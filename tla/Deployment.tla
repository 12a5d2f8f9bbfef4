------------------------------ MODULE Deployment ------------------------------
(***************************************************************************)
(* ngrest's Deployment (src/core/engine/src/Deployment.cpp): groups of     *)
(* services, most of them in libraries, that are registered with a         *)
(* ServiceDispatcher together and undone together.  Each step is one call  *)
(* of the dispatcher, with what follows it.                                *)
(***************************************************************************)
EXTENDS DispatcherProperties

CONSTANTS
    Library,      \* service libraries, each with its ServiceGroup
    Services      \* Services[l], the wrappers of the group, in order

ASSUME DeploymentAssumption == Services \in [Library -> Seq(Wrapper)]

VARIABLES
    serviceLibs,  \* the libraries deploy() has kept
    at,           \* "idle", or the loop that runs; "down" after a crash
    group,        \* the library whose group it runs over
    index,        \* its iterator
    todo,         \* libraries that undeployAll has still to undo
    after         \* what is to be done with the library at the end

loopVars == <<at, group, index, todo, after>>
deployVars == <<vars, serviceLibs, loopVars>>

DeployTypeOK ==
    /\ TypeOK
    /\ serviceLibs \subseteq Library /\ todo \subseteq Library
    /\ at \in {"idle", "register", "rollback", "unregister", "down"}
    /\ group \in Library \cup {None} /\ index \in Nat
    /\ after \in {"keep", "forget", "nothing"}
    /\ at \in {"register", "rollback", "unregister"} =>
         group \in Library /\ index \in DOMAIN Services[group]

NothingDeployed ==
    serviceLibs = {} /\ todo = {} /\ group = None /\ index = 0 /\ after = "nothing"

DeployInit == Init /\ NothingDeployed /\ at = "idle"

Kept == IF after = "keep" THEN serviceLibs \cup {group}
        ELSE IF after = "forget" THEN serviceLibs \ {group} ELSE serviceLibs

\* A loop over the group of l starts.  An empty group is only logged.
Enter(loop, l, then) ==
    IF Services[l] = <<>>
    THEN /\ serviceLibs' = (IF then = "keep" THEN serviceLibs \cup {l}
                            ELSE IF then = "forget" THEN serviceLibs \ {l} ELSE serviceLibs)
         /\ UNCHANGED <<at, group, index, after>>
    ELSE /\ at' = loop /\ group' = l /\ index' = 1 /\ after' = then
         /\ UNCHANGED serviceLibs

Leave ==
    /\ at' = "idle" /\ group' = None /\ index' = 0 /\ after' = "nothing"
    /\ UNCHANGED todo

\* deploy, lines 81-95, once the library is loaded; and deployStatic alone.
Deploy(l) ==
    /\ at = "idle" /\ todo = {}
    /\ \E then \in {"keep", "nothing"} : Enter("register", l, then)
    /\ UNCHANGED <<vars, todo>>

\* The loop of deployStatic, lines 118-132.  On an exception the rollback
\* starts where the loop stopped, and is not entered at the first service.
Register ==
    LET w == Services[group][index] IN
    /\ at = "register"
    /\ \/ /\ RegisterSucceeds(w)
          /\ IF index < Len(Services[group])
             THEN index' = index + 1 /\ UNCHANGED <<serviceLibs, at, group, todo, after>>
             ELSE serviceLibs' = Kept /\ Leave
       \/ /\ RegisterThrows(w)
          /\ UNCHANGED serviceLibs
          /\ IF index > 1 THEN at' = "rollback" /\ UNCHANGED <<group, index, todo, after>> ELSE Leave
       \/ /\ RegisterCrashes(w)
          /\ at' = "down"
          /\ UNCHANGED <<vars, serviceLibs, group, index, todo, after>>

\* The handler of lines 133-144, which then rethrows.
Rollback ==
    LET w == Services[group][index] IN
    /\ at = "rollback"
    /\ UnregisterSucceeds(w) \/ UnregisterThrows(w)
    /\ IF index > 2 THEN index' = index - 1 /\ UNCHANGED <<at, group, todo, after>> ELSE Leave
    /\ UNCHANGED serviceLibs

\* undeploy, lines 97-109, and undeployStatic alone.
Undeploy(l) ==
    /\ at = "idle" /\ todo = {}
    /\ \E then \in {"forget", "nothing"} :
         /\ then = "forget" => l \in serviceLibs
         /\ Enter("unregister", l, then)
    /\ UNCHANGED <<vars, todo>>

\* undeployAll, lines 111-116, in the order of an unordered_map; the map is
\* not cleared.
UndeployAll ==
    /\ at = "idle" /\ todo = {}
    /\ todo' = serviceLibs
    /\ UNCHANGED <<vars, serviceLibs, at, group, index, after>>

UndeployNext(l) ==
    /\ at = "idle" /\ l \in todo
    /\ Enter("unregister", l, "nothing")
    /\ todo' = todo \ {l}
    /\ UNCHANGED vars

\* Mutation of LastOf: the loop ends before the last service.
AllButLast(l) == Len(Services[l]) - 1

LastOf(l) == Len(Services[l])

\* The loop of undeployStatic, lines 147-163; exceptions are caught.
Unregister ==
    LET w == Services[group][index] IN
    /\ at = "unregister"
    /\ UnregisterSucceeds(w) \/ UnregisterThrows(w)
    /\ IF index < LastOf(group)
       THEN index' = index + 1 /\ UNCHANGED <<serviceLibs, at, group, todo, after>>
       ELSE serviceLibs' = Kept /\ Leave

DeployNext ==
    \/ \E l \in Library : Deploy(l) \/ Undeploy(l) \/ UndeployNext(l)
    \/ UndeployAll \/ Register \/ Rollback \/ Unregister

DeploySpec == DeployInit /\ [][DeployNext]_deployVars

------------------------------------------------------------------------------
\* Every operation of the group of l can be registered.
Sound(l) ==
    \A i \in DOMAIN Services[l] : LET d == Descr[Services[l][i]] IN
        d.valid /\ \A k \in DOMAIN d.operations : d.operations[k].valid

WholeOrNot(l) ==
    \/ \A i \in DOMAIN Services[l] : Registered(Services[l][i])
    \/ \A i \in DOMAIN Services[l] : ~Registered(Services[l][i])

(***************************************************************************)
(* Between two calls a sound group is registered entirely or not at all,   *)
(* whatever has been deployed, undeployed, or has failed, before           *)
(* (deployStatic, undeployStatic, undeployAll).                            *)
(***************************************************************************)
WholeGroups == at = "idle" => \A l \in Library : Sound(l) => WholeOrNot(l)

(***************************************************************************)
(* A group that could not be deployed leaves none of its services.         *)
(***************************************************************************)
RolledBack == at = "idle" => \A l \in Library : WholeOrNot(l)

(***************************************************************************)
(* A group that could not be deployed takes no other group's service with  *)
(* it: undoing it leaves the paths of the others' services.                *)
(***************************************************************************)
RollsBackItsOwn ==
    [][at = "rollback" =>
        \A w \in Wrapper : (OwnsPath(w) /\ \A i \in DOMAIN Services[group] : Services[group][i] # w)
                            => OwnsPath(w)']_deployVars

(***************************************************************************)
(* A registration that cannot be carried out is refused with an exception, *)
(* whatever has failed before it (the assertions of registerService).      *)
(***************************************************************************)
DeployerStaysUp == at # "down"

------------------------------------------------------------------------------
(* The groups of which WholeGroups can be expected, and why it holds.      *)

\* No service is in a sound group and another one, nor twice in one, and none
\* has the location of a service of a sound group.
GroupsApart ==
    \A l, m \in Library : \A i \in DOMAIN Services[l], j \in DOMAIN Services[m] :
        Sound(l) /\ (l # m \/ i # j) =>
            /\ Services[l][i] # Services[m][j]
            /\ Descr[Services[l][i]].location # Descr[Services[m][j]].location

\* No two operations of a service of a sound group are taken for one another.
OperationsApart ==
    \A l \in Library : \A i \in DOMAIN Services[l] :
        LET w == Services[l][i] IN
        Sound(l) => \A k \in 0 .. Len(Descr[w].operations) - 1 :
            LET o == Descr[w].operations[k + 1] IN
            ~CollisionSeen({<<w, j>> : j \in 1 .. k}, o)

\* A service of a sound group has all of its path, or nothing at all.
ServiceInv(w) ==
    LET d == Descr[w] IN
    IF Registered(w)
    THEN d.location \in DOMAIN resourcePath /\ resourcePath[d.location] = d.name
    ELSE /\ d.name \notin DOMAIN deployedServices
         /\ d.location \in DOMAIN resourcePath => resourcePath[d.location] = None

\* The services of l from place i on are registered, or none of them.
WholeFrom(l, i) ==
    \/ \A j \in DOMAIN Services[l] : j >= i => Registered(Services[l][j])
    \/ \A j \in DOMAIN Services[l] : j >= i => ~Registered(Services[l][j])

\* How far a loop over the group of l has got: what it has done is behind it.
LoopInv(l) ==
    CASE at = "register" /\ group = l ->
           /\ index = 1 \/ \A j \in DOMAIN Services[l] : j >= index => ~Registered(Services[l][j])
           /\ \A j \in DOMAIN Services[l] : j < index => Registered(Services[l][j])
           /\ WholeFrom(l, index)
      [] at = "rollback" /\ group = l -> FALSE
      [] at = "unregister" /\ group = l ->
           /\ \A j \in DOMAIN Services[l] : j < index => ~Registered(Services[l][j])
           /\ WholeFrom(l, index)
      [] OTHER -> WholeOrNot(l)

DeployInv ==
    /\ DeployTypeOK /\ TreeInv
    /\ \A l \in Library : Sound(l) =>
         /\ \A i \in DOMAIN Services[l] : ServiceInv(Services[l][i])
         /\ at # "down" => LoopInv(l)
==============================================================================
