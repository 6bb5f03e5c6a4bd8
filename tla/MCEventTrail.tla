---------------------------- MODULE MCEventTrail ----------------------------
(***************************************************************************)
(* A small instance of EventTrail.                                         *)
(***************************************************************************)
EXTENDS EventTrail

CONSTANTS a1, a2, p1, p2, w1, w2

MCHome == [p \in Proposals |-> IF p = p1 THEN a1 ELSE a2]

MCMaxDeliveries == [place \in Places |-> IF place = "sdk" THEN 5 ELSE 4]

\* The words may change places, and so may the two adapters, each with its proposal.
Exchange ==
  [x \in {a1, a2, p1, p2} |->
     CASE x = a1 -> a2 [] x = a2 -> a1 [] x = p1 -> p2 [] x = p2 -> p1]
MCSymmetry == Permutations(Words) \cup {Exchange}
=============================================================================
