-------------------------------- MODULE Filters -------------------------------
(***************************************************************************)
(* The filters of messages: the lists kept by phase, FilterDispatcher.cpp, *)
(* and the groups of filters deployed from libraries, FilterDeployment.cpp *)
(* (both in src/core/engine/src).                                          *)
(***************************************************************************)
EXTENDS Naturals, Sequences, SequencesExt

CONSTANTS
    Phase,
    Filter,
    FilterName,        \* FilterName[f]: what getName returns
    Deps,        \* Deps[f]: the names that getDependencies returns
    Group,       \* groups of filters, each from a library of its own
    Parts        \* Parts[g]: its filters, as a sequence of [phase, filters]

ASSUME FiltersAssumption ==
    /\ DOMAIN FilterName = Filter /\ DOMAIN Deps = Filter
    /\ \A g \in Group :
        /\ Parts[g] \in Seq([phase : Phase, filters : Seq(Filter)])
        /\ \A i, j \in DOMAIN Parts[g] : Parts[g][i].phase = Parts[g][j].phase => i = j
        /\ \A i \in DOMAIN Parts[g] : IsInjective(Parts[g][i].filters)

VARIABLES
    filters,     \* filters[ph]: filtersByPhase
    filterLibs,  \* the groups that FilterDeployment keeps
    astray       \* an iterator has been dereferenced at the end of its list

filterVars == <<filters, filterLibs, astray>>

FiltersInit ==
    /\ filters = [ph \in Phase |-> <<>>]
    /\ filterLibs = {}
    /\ astray = FALSE

NamesIn(list) == {FilterName[list[i]] : i \in DOMAIN list}
InList(list, f) == \E i \in DOMAIN list : list[i] = f

-----------------------------------------------------------------------------
(* FilterDispatcher.                                                       *)

\* registerOneFilter, lines 41-66: all dependencies must be in the list,
CanRegister(list, f) == Deps[f] \subseteq NamesIn(list)

\* Mutation of WithFilter: every filter goes to the front.
WithFilterFirst(list, f) == <<f>> \o list

\* filters without dependencies go to its front, the others to its end.
WithFilter(list, f) == IF Deps[f] = {} THEN <<f>> \o list ELSE Append(list, f)

\* registerFilters for one filter: it is registered, or left for the next pass.
Tried(st, f) ==
    IF CanRegister(st.out, f) THEN [st EXCEPT !.out = WithFilter(@, f)]
                              ELSE [st EXCEPT !.left = Append(@, f)]

\* One pass over the filters that are left, lines 114-123.
RegisterPass(st) ==
    LET pass[i \in 0 .. Len(st.left)] ==
            IF i = 0 THEN [out |-> st.out, left |-> <<>>] ELSE Tried(pass[i - 1], st.left[i])
    IN  pass[Len(st.left)]

\* registerFilters, lines 108-135: passes until one changes nothing, which no
\* more of them than filters can.  What is left makes it throw.
RegisterAll(list, in) ==
    LET passes[i \in 0 .. Len(in)] ==
            IF i = 0 THEN [out |-> list, left |-> in] ELSE RegisterPass(passes[i - 1])
    IN  passes[Len(in)]

\* unregisterOneFilter, lines 68-96, for a filter without dependencies.
Without(list, f) ==
    IF Deps[f] = {} /\ InList(list, f)
    THEN RemoveAt(list, CHOOSE i \in DOMAIN list :
                            list[i] = f /\ \A j \in 1 .. i - 1 : list[j] # f)
    ELSE list

\* For a filter with dependencies it unregisters, for each filter that depends
\* on it, the one behind, which is a filter with dependencies as well and
\* stays; and behind the last one there is none (lines 84-93).
RunsPastEnd(list, f) ==
    LET runs[i \in DOMAIN list] ==
            \E j \in i..Len(list) :
                FilterName[list[i]] \in Deps[list[j]] /\ (j = Len(list) \/ runs[j + 1])
    IN  Deps[f] # {} /\ InList(list, f)
        /\ runs[CHOOSE i \in DOMAIN list : list[i] = f /\ \A j \in 1 .. i - 1 : list[j] # f]

\* registerFilter, lines 137-140.
RegisterFilter(ph, f) ==
    /\ CanRegister(filters[ph], f)
    /\ filters' = [filters EXCEPT ![ph] = WithFilter(@, f)]
    /\ UNCHANGED <<filterLibs, astray>>

\* unregisterFilter, lines 142-145; withDeps makes no difference.
UnregisterFilter(ph, f) ==
    /\ astray' = (astray \/ RunsPastEnd(filters[ph], f))
    /\ filters' = [filters EXCEPT ![ph] = Without(@, f)]
    /\ UNCHANGED filterLibs

-----------------------------------------------------------------------------
(* FilterDeployment.                                                       *)

\* The lists after the filters of the parts given have been unregistered one
\* by one, each filter only for the phase of its part.
WithoutAll(list, fs) ==
    LET rest[i \in 0 .. Len(fs)] == IF i = 0 THEN list ELSE Without(rest[i - 1], fs[i])
    IN  rest[Len(fs)]
WithoutPart(lists, part) == [lists EXCEPT ![part.phase] = WithoutAll(@, part.filters)]
WithoutParts(lists, parts) ==
    LET rest[i \in 0 .. Len(parts)] ==
            IF i = 0 THEN lists ELSE WithoutPart(rest[i - 1], parts[i])
    IN  rest[Len(parts)]

\* Does one of these calls run past the end?
UnregisterRunsPastEnd(lists, parts) ==
    \E i \in DOMAIN parts : \E f \in ToSet(parts[i].filters) :
        RunsPastEnd(WithoutParts(lists, parts)[parts[i].phase], f)

\* registerFilters for the first n phases of a group.
WithPart(lists, part) == [lists EXCEPT ![part.phase] = RegisterAll(@, part.filters).out]
WithParts(lists, parts, n) ==
    LET grown[i \in 0 .. n] ==
            IF i = 0 THEN lists ELSE WithPart(grown[i - 1], parts[i])
    IN  grown[n]

\* The phase whose filters have unmet dependencies, 0 if there is none.
FailingPart(lists, parts) ==
    LET unmet(i) == RegisterAll(WithParts(lists, parts, i - 1)[parts[i].phase],
                                parts[i].filters).left # <<>>
    IN  IF \E i \in DOMAIN parts : unmet(i)
        THEN CHOOSE i \in DOMAIN parts : unmet(i) /\ \A j \in 1 .. i - 1 : ~unmet(j)
        ELSE 0

\* deploy with deployStatic, lines 79-93 and 116-150, for a library whose
\* filters find their dependencies.
DeployFilters(g) ==
    /\ FailingPart(filters, Parts[g]) = 0
    /\ filters' = WithParts(filters, Parts[g], Len(Parts[g]))
    /\ filterLibs' = filterLibs \cup {g}
    /\ UNCHANGED astray

\* The same for a library of which a filter does not: the filters of the phases
\* up to the failing one are unregistered and the exception goes on.
DeployFiltersFails(g) ==
    LET n     == FailingPart(filters, Parts[g])
        upTo  == SubSeq(Parts[g], 1, n)
        lists == WithParts(filters, Parts[g], n)
    IN  /\ n # 0
        /\ filters' = WithoutParts(lists, upTo)
        /\ astray' = (astray \/ UnregisterRunsPastEnd(lists, upTo))
        /\ UNCHANGED filterLibs

\* undeploy with undeployStatic, lines 95-107 and 152-171.
UndeployFilters(g) ==
    /\ g \in filterLibs
    /\ filters' = WithoutParts(filters, Parts[g])
    /\ astray' = (astray \/ UnregisterRunsPastEnd(filters, Parts[g]))
    /\ filterLibs' = filterLibs \ {g}

\* A bound of the model: a filter is registered once for a phase.
Fits(g) ==
    \A i \in DOMAIN Parts[g] : \A f \in ToSet(Parts[g][i].filters) :
        ~InList(filters[Parts[g][i].phase], f)

\* What follows an access past the end is undefined: the model stops there.
FiltersNext ==
    /\ ~astray
    /\ \/ \E g \in Group : \/ Fits(g) /\ (DeployFilters(g) \/ DeployFiltersFails(g))
                           \/ UndeployFilters(g)
       \/ \E ph \in Phase, f \in Filter :
            \/ ~InList(filters[ph], f) /\ RegisterFilter(ph, f)
            \/ UnregisterFilter(ph, f)

\* Filters depend on each other by name: a name stands for one filter.
DistinctFilterNames == \A f, g \in Filter : FilterName[f] = FilterName[g] => f = g

FiltersSpec == FiltersInit /\ [][FiltersNext]_filterVars

-----------------------------------------------------------------------------
\* Types, and no filter is listed twice.
FiltersTypeOK ==
    /\ filters \in [Phase -> Seq(Filter)]
    /\ \A ph \in Phase : IsInjective(filters[ph])
    /\ filterLibs \subseteq Group
    /\ astray \in BOOLEAN

\* Messages pass a filter's dependencies before the filter, whatever order the
\* filters, and their groups, have come and gone in (registerOneFilter, lines
\* 45-65, and erase, line 78).
DependenciesFirst ==
    \A ph \in Phase : \A i \in DOMAIN filters[ph] : \A n \in Deps[filters[ph][i]] :
        n \in NamesIn(filters[ph]) => n \in NamesIn(SubSeq(filters[ph], 1, i - 1))

\* registerFilters leaves out a filter only if its dependencies cannot be met by
\* the filters that are registered and those it is given, in whatever order
\* they are listed (lines 111-123).
LeftOutForAReason ==
    \A g \in Group : \A k \in DOMAIN Parts[g] :
        LET part == Parts[g][k]
            st   == RegisterAll(filters[part.phase], part.filters)
        IN  \A f \in ToSet(st.left) :
                ~(Deps[f] \subseteq NamesIn(st.out))

\* A filter without dependencies is not left by a group that fails to deploy,
\* nor by one that is undeployed (lines 127-146 and 163-170).
RootsGoWithTheirGroup ==
    \A g \in Group : (Fits(g) /\ DeployFiltersFails(g)) \/ UndeployFilters(g) =>
        \A k \in DOMAIN Parts[g] : \A f \in ToSet(Parts[g][k].filters) :
            Deps[f] = {} => ~InList(filters'[Parts[g][k].phase], f)

\* What registration and removal, alone and by groups, keep of the lists that
\* messages are passed along.
FiltersKept ==
    /\ [](FiltersTypeOK /\ DependenciesFirst /\ LeftOutForAReason)
    /\ [][RootsGoWithTheirGroup]_filterVars

\* unregisterFilter with withDeps false is to "throw dependence exception if
\* other filters depends on this" (FilterDispatcher.h lines 62-67): no filter is
\* left without its dependencies.
DependenciesMet ==
    \A ph \in Phase : \A i \in DOMAIN filters[ph] :
        Deps[filters[ph][i]] \subseteq NamesIn(filters[ph])

\* "unregister filters in case of error", FilterDeployment.cpp line 132.
FailedGroupLeavesNothing ==
    [][\A g \in Group : DeployFiltersFails(g) =>
          \A ph \in Phase : ToSet(filters'[ph]) \subseteq ToSet(filters[ph])]_filterVars

\* unregisterOneFilter stays within its list, lines 84-93.
NeverAstray == ~astray
==============================================================================
