------------------------------ MODULE MCSocial ------------------------------
(* Two requests of two accounts at once. *)
EXTENDS Social
=============================================================================
