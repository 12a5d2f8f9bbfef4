------------------------------- MODULE EngineMC -------------------------------
(* The task queue, the filters and the dispatcher, which know nothing of   *)
(* each other, side by side for TLC: in a behaviour one of them is at      *)
(* work. The dispatcher is called by a program, for any of the services,   *)
(* or by the deployment, for the services of its libraries.                *)
EXTENDS TaskQueue, Filters, DeploymentMC

------------------------------------------------------------------------------
\* Tasks.
CONSTANTS w1, w2, once, again, relay

MCWorkers == {w1, w2}

\* One task that posts nothing, one that posts the first, one that posts itself.
MCTasks == {once, again, relay}
MCFollow == once :> NoTask @@ relay :> once @@ again :> again

MCSymmetry == Permutations(MCWorkers)

------------------------------------------------------------------------------
\* Filters.
CONSTANTS log, auth, acl, audit, gzip, first, last

MCFilter == {log, auth, acl, audit, gzip}
MCFilterName == [f \in MCFilter |-> f]

\* auth needs log, acl needs both; audit needs what no library has; gzip needs log.
MCDeps == [f \in MCFilter |->
              CASE f = log -> {} [] f = auth -> {log} [] f = acl -> {log, auth}
                [] f = audit -> {log, "nowhere"} [] f = gzip -> {log}]
MCPhase == {first, last}
MCGroup == {"main", "extra"}
MCPhasePart(ph, fs) == [phase |-> ph, filters |-> fs]
MCParts == [g \in MCGroup |->
               IF g = "main" THEN <<MCPhasePart(first, <<acl, auth, log>>), MCPhasePart(last, <<log>>)>>
               ELSE <<MCPhasePart(last, <<gzip, log>>), MCPhasePart(first, <<log, audit, gzip>>)>>]

------------------------------------------------------------------------------
\* All of them.
VARIABLE part

deploymentVars == <<serviceLibs, todo, at, group, index, after>>
engineVars == <<part, taskVars, filterVars, vars, deploymentVars>>

EngineInit ==
    /\ part \in {"tasks", "filters", "dispatcher", "deployment"}
    /\ part # "tasks" => build = CHOOSE b \in Build : TRUE
    /\ part # "tasks" => hasTasks = FALSE
    /\ at = IF part = "deployment" THEN "idle" ELSE "down"
    /\ TaskInit /\ FiltersInit /\ Init /\ NothingDeployed

EngineNext ==
    /\ UNCHANGED part
    /\ \/ part = "tasks" /\ TaskNext /\ UNCHANGED <<filterVars, vars, deploymentVars>>
       \/ part = "filters" /\ FiltersNext /\ UNCHANGED <<taskVars, vars, deploymentVars>>
       \/ part = "dispatcher" /\ Next /\ UNCHANGED <<taskVars, filterVars, deploymentVars>>
       \/ part = "deployment" /\ DeployNext /\ UNCHANGED <<taskVars, filterVars>>

\* TaskFairness, while the tasks are at work.
EngineFairness ==
    /\ WF_taskVars(part = "tasks" /\ LoopStep)
    /\ SF_taskVars(part = "tasks" /\ TakeLock)
    /\ \A th \in Thread : /\ WF_taskVars(part = "tasks" /\ PostStep(th))
                          /\ SF_taskVars(part = "tasks" /\ PostLock(th))

EngineSpec == EngineInit /\ [][EngineNext]_engineVars /\ EngineFairness

\* What the proofs assume of the names of services and filters, and of the groups.
ASSUME GroupsAssumption == DistinctNames /\ GroupsApart /\ OperationsApart /\ DistinctFilterNames
==============================================================================
