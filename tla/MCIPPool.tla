------------------------------ MODULE MCIPPool ------------------------------
(***************************************************************************)
(* Small instances of IPPool for TLC.                                      *)
(***************************************************************************)
EXTENDS IPPool, TLC

\* Addresses are interchangeable, and so are pods with the same labels; the
\* safety runs have no fairness, so the quotient is sound.
IPSymmetry == Permutations(IPs) \cup Permutations(Selected)
=============================================================================
