------------------------------- MODULE MCHandoff -------------------------------
(***************************************************************************)
(* Model checking of Handoff.                                              *)
(***************************************************************************)
EXTENDS Handoff, TLC

CONSTANTS s1, s2, a1, a2, c1, c2, c3, c4, w1, w2

\* Every agent may take every session; s2 may be reserved to a2, or to nobody.
Anyone == [s \in Sessions |-> Agents]
GroupOfS2 == [s \in Sessions |-> IF s = s2 THEN {a2} ELSE Agents]

NobodyForS2 == [s \in Sessions |-> IF s = s2 THEN {} ELSE Agents]
NormalRank == [s \in Sessions |-> 2]
UrgentS2 == [s \in Sessions |-> IF s = s2 THEN 0 ELSE 2]

Interchangeable == Permutations(Callers) \cup Permutations(Workers)
=============================================================================
