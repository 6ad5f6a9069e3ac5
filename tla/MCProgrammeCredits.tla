------------------------- MODULE MCProgrammeCredits -------------------------
(***************************************************************************)
(* Constants of ProgrammeCredits for TLC.                                  *)
(***************************************************************************)
EXTENDS ProgrammeCredits, TLC

\* Owners with equal percentages.
MCProponent == [o \in Owners |-> Whole \div Cardinality(Owners)]

\* Nine parts of fourteen, which no percentage of six decimals is exactly, and
\* the rest.
MCUneven ==
    LET major == CHOOSE o \in Owners : TRUE
    IN [o \in Owners |-> IF o = major THEN 64285714 ELSE Whole - 64285714]

SymmetryUneven == Permutations(Calls) \cup Permutations(Requests)

Symmetry == SymmetryUneven \cup Permutations(Owners)
=============================================================================
