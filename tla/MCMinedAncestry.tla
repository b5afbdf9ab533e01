-------------------------- MODULE MCMinedAncestry --------------------------
(***************************************************************************)
(* Instances of MinedAncestry for TLC.                                     *)
(***************************************************************************)
EXTENDS MinedAncestry, FiniteSets, TLC

Symmetry == Permutations(Witnesses)

\* Bound: the two witnesses are in blocks of their own.
OneEach == \A h \in DOMAIN chain : Cardinality(chain[h].txs) <= 1
=============================================================================
