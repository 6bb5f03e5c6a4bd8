--------------------------- MODULE MCApprovalGate ---------------------------
(***************************************************************************)
(* Small instances of ApprovalGate.                                        *)
(***************************************************************************)
EXTENDS ApprovalGate, TLC

CONSTANTS s1, s2, p1, p2, a1, a2, c1, c2

Symmetry == Permutations(Sessions) \cup Permutations(Calls)
              \cup Permutations(Adapters)
=============================================================================
