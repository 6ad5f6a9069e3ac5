--------------------------- MODULE MCCreditLedger ---------------------------
(***************************************************************************)
(* Constants of CreditLedger for TLC: a project of c1 with two activities  *)
(* and a project of c2 with one, issuances of one or two vintages, and two *)
(* retirement requests.  The estimates leave no room for every issuance,   *)
(* so the refusal happens as well.                                         *)
(***************************************************************************)
EXTENDS CreditLedger, TLC

CONSTANTS p1, p2, c1, c2, a1, a2, a3, r1, r2

MCDeveloper == [p \in Projects |-> IF p = p1 THEN c1 ELSE c2]
MCActivityProject == [a \in Activities |-> IF a = a2 THEN p2 ELSE p1]
MCBatches == {<<1>>, <<1, 3>>}
MCCreditEst == [p \in Projects |-> IF p = p1 THEN 4 ELSE 1]

\* The retirement ids are alike, and so are the activities of project p1.
Symmetry == Permutations(RetireIds) \cup Permutations(Activities \ {a2})
=============================================================================
