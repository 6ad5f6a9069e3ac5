------------------------ MODULE MCCertificateIssuance ------------------------
(***************************************************************************)
(* Constants of CertificateIssuance for TLC.                               *)
(***************************************************************************)
EXTENDS CertificateIssuance, TLC

CONSTANTS m1, m2, o1, k1, k2, k3, x1

MCIssueKey == [r \in Requests |-> x1]

\* No two calls carry the same key: each manager numbers its own commands.
MCKeysOf == [c \in Callers |-> CASE c \in Officers -> {x1}
                                 [] c = m1 -> {k1}
                                 [] OTHER  -> {k3}]

Symmetry == Permutations(LotIds) \cup Permutations(Companies)
=============================================================================
