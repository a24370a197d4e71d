----------------------------- MODULE MCSessions -----------------------------
(* Two logins or verifications at a time, and one session more than the cap. *)
EXTENDS Sessions, TLC

MCSymmetry == Permutations(Session) \cup Permutations(Request)
=============================================================================
