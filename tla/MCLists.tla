------------------------------ MODULE MCLists ------------------------------
(* One server: an owner, and a manager with the role that may be granted a   *)
(* restricted channel.  Both threads are in the first channel.               *)
EXTENDS Lists

CONSTANTS cx, cy, tx, ty, owner, manager, everyone, staff

MCParentOf == [t \in Thread |-> cx]
MCRolesOf == [a \in Account |-> IF a = manager THEN {staff} ELSE {}]
=============================================================================
