------------------------- MODULE MCCreditReplicator -------------------------
(***************************************************************************)
(* Constants of CreditReplicator for TLC.                                  *)
(***************************************************************************)
EXTENDS CreditReplicator, TLC

CONSTANTS b1, b2, r1, w1, w2

WriterSymmetry == Permutations(Writers)
=============================================================================
