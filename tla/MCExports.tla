----------------------------- MODULE MCExports -----------------------------
(* An author, a moderator, three messages, two workers and one job. *)
EXTENDS Exports

MCAccount == {"ann", "mod"}
MCModerator == {"mod"}
=============================================================================
