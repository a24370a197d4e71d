------------------------------- MODULE MCRoles -------------------------------
(* An owner and a moderator who may manage roles.  The ids of new roles are  *)
(* interchangeable.                                                          *)
EXTENDS Roles, TLC

CONSTANTS moderator, everyone, mods, manage, New

MCStartPerms == [r \in {everyone, mods} |-> IF r = mods THEN {manage} ELSE {}]
MCStartPosition == [r \in Role |-> IF r = mods THEN 1 ELSE 0]
MCStartAssigned == [a \in Account |-> IF a = moderator THEN {mods} ELSE {}]
MCSymmetry == Permutations(New)
=============================================================================
