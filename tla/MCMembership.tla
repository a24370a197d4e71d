---------------------------- MODULE MCMembership ----------------------------
(* The owner, who has no role, two moderators of equal rank, and a member.   *)
EXTENDS Membership, TLC

CONSTANTS owner, mod1, mod2, guest

MCStartRank == [a \in Account |-> IF a \in {mod1, mod2} THEN 1 ELSE 0]

MCSymmetry == Permutations(Request) \cup Permutations({mod1, mod2})
=============================================================================
