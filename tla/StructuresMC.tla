----------------------------- MODULE StructuresMC -----------------------------
(* The data structures the engine is built on, side by side for TLC: in a  *)
(* behaviour one of them is at work. They share nothing, so nothing is     *)
(* lost by letting the others rest.                                        *)
EXTENDS MemPooler, XmlTree, TLC

------------------------------------------------------------------------------
\* Pools.
CONSTANTS p1, p2, x

MCPuts == {<<>>, <<x>>, <<NUL, x>>}
MCSizes == {1, 2}
MCPools == {p1, p2}

\* One pool that is filled, and one that is only lent and returned.
MCBytes == [id \in MCPools |-> IF id = p1 THEN 3 ELSE 0]
MCChunks == [id \in MCPools |-> IF id = p1 THEN 4 ELSE 0]

------------------------------------------------------------------------------
\* Trees of nodes.
CONSTANTS a1, a2, b1, b2, t1, t2

MCNode == {a1, a2, b1, b2, t1, t2}
MCKind == [n \in MCNode |-> IF n \in {t1, t2} THEN "text" ELSE "element"]
MCLabel == [n \in MCNode |-> CASE n \in {a1, a2} -> "a" [] n \in {b1, b2} -> "b" [] OTHER -> ""]
MCSymmetry == Permutations({a1, a2}) \cup Permutations({b1, b2}) \cup Permutations({t1, t2})

------------------------------------------------------------------------------
\* All of them.
VARIABLE structure

structureVars == <<structure, poolVars, tree>>

StructuresInit ==
    /\ structure \in {"pools", "tree"}
    /\ PoolsInit /\ TreeInit

StructuresNext ==
    /\ UNCHANGED structure
    /\ \/ structure = "pools" /\ PoolsNext /\ UNCHANGED tree
       \/ structure = "tree" /\ TreeNext /\ UNCHANGED poolVars

StructuresSpec == StructuresInit /\ [][StructuresNext]_structureVars
==============================================================================
