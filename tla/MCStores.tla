------------------------------ MODULE MCStores ------------------------------
(* Two directories for Stores, and one that is named like an id.           *)
EXTENDS Stores

CONSTANTS p1, p2, pA, pB, pId, rel, abs, other, id1, short

MCReal  == [p \in Path |-> p]
MCAbsOf == [a \in Arg |-> CASE a \in {rel, abs} -> pA [] a = other -> pB [] OTHER -> pId]
(* A whole id, and a prefix that two of the ids share.                     *)
MCIdsOf == [a \in Arg |-> CASE a = id1 -> {1} [] a = short -> {2, 3} [] OTHER -> {}]

Documents == {<<rel, other, abs>>, <<id1>>, <<short>>}
=============================================================================
