----------------------------- MODULE MCVoiceHub -----------------------------
(* Values for the constants of VoiceHub: the sockets and the request are all *)
(* about alice; channel cy is of server sy, the others are of server sx,     *)
(* where the request is made.                                                *)
EXTENDS VoiceHub

CONSTANTS alice, cy, sx, sy

MCOwner == [h \in Conn |-> alice]

MCServerOf == [c \in Channel |-> IF c = cy THEN sy ELSE sx]

MCTarget == [r \in Request |-> alice]

MCScope == [r \in Request |-> sx]
=============================================================================
