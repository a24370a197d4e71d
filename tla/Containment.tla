----------------------------- MODULE Containment -----------------------------
(***************************************************************************)
(* The visibility of channels (domain/src/service.rs): an override narrows *)
(* what encloses it and never widens it.                                   *)
(***************************************************************************)
EXTENDS Integers

CONSTANT None  \* no override: NULL

Visibility == {"private", "unlisted", "public"}
Override == Visibility \cup {None}

Rank == [v \in Visibility |-> IF v = "public" THEN 2 ELSE IF v = "unlisted" THEN 1 ELSE 0]

Contained(own, enclosing) ==
  IF own # None /\ Rank[own] <= Rank[enclosing] THEN own ELSE enclosing

Effective(own, parent, server) == Contained(own, Contained(parent, server))

\* What a removed thread may leave behind: a trace for those it was public to.
TombstoneEligible(own, parent, parentRestricted, server) ==
  ~parentRestricted /\ Effective(own, parent, server) = "public"
=============================================================================
