-------------------------- MODULE MCCreditRequests --------------------------
(***************************************************************************)
(* Constants of CreditRequests for TLC.                                    *)
(***************************************************************************)
EXTENDS CreditRequests, TLC

CONSTANTS p1, p2, c1, c2, a1, a2, a3, w1, w2, r1, r2

MCDeveloper == [p \in Projects |-> IF p = p1 THEN c1 ELSE c2]
MCActivityProject == [a \in Activities |-> IF a = a2 THEN p2 ELSE p1]
MCBatches == {<<2>>, <<1, 3>>}
MCCreditEst == [p \in Projects |-> IF p = p1 THEN 5 ELSE 2]

\* Each worker serves the requests of one project, or every worker all.
OwnProject == [w \in Workers |-> IF w = w1 THEN {p1} ELSE {p2}]
AllProjects == [w \in Workers |-> Projects]

Symmetry == Permutations(RetireIds)
=============================================================================
