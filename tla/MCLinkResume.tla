---------------------------- MODULE MCLinkResume ----------------------------
(* Small instances of LinkResume for TLC.                                  *)
EXTENDS LinkResume, TLC

\* Identifiers are only compared.
IdSymmetry == Permutations(Ids)
=============================================================================
