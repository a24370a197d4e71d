------------------------------ MODULE Lifecycle ------------------------------
(***************************************************************************)
(* What delete_channel promises of the channels of a server: a channel is  *)
(* removed in one step, and in that step it is settled, once and for all,  *)
(* whether it and the threads below it were public.                        *)
(*                                                                         *)
(* The code takes a transaction of many statements for it; Channels shows  *)
(* that they amount to this.                                               *)
(***************************************************************************)
EXTENDS Containment

CONSTANTS
  Top,      \* the text and voice channels
  Thread,
  ParentOf  \* ParentOf[t]: the channel thread t is in

Channel == Top \cup Thread

VARIABLES
  serverVisibility,
  override,    \* override[c]: the visibility set on c itself
  restricted,  \* restricted[c]: only roles with a grant see c and its threads
  created,     \* the channels inserted so far
  deleted,     \* those with deleted_at set
  eligible     \* eligible[c]: public_tombstone_eligible, None until settled

lifecycleVars == <<serverVisibility, override, restricted, created, deleted, eligible>>

Present(c) == c \in created \ deleted

\* Present, and not below a channel that was removed.
Live(c) == Present(c) /\ (c \in Thread => ParentOf[c] \notin deleted)

Leaves(c) ==
  c \in Thread /\ TombstoneEligible(override[c], override[ParentOf[c]],
                                    restricted[ParentOf[c]], serverVisibility)

Family(c) == {c} \cup {t \in created \cap Thread : ParentOf[t] = c}

Init ==
  /\ serverVisibility \in Visibility
  /\ override = [c \in Channel |-> None]
  /\ restricted = [c \in Top |-> FALSE]
  /\ created \in SUBSET Channel
  /\ \A t \in created \cap Thread : ParentOf[t] \in created
  /\ deleted = {}
  /\ eligible = [c \in Channel |-> None]

Remove(c) ==
  /\ Live(c)
  /\ deleted' = deleted \cup {c}
  /\ eligible' = [d \in Channel |->
       IF d \in Family(c) /\ eligible[d] = None THEN Leaves(d) ELSE eligible[d]]
  /\ UNCHANGED <<serverVisibility, override, restricted, created>>

Insert(c) ==
  /\ created' = created \cup {c}
  /\ UNCHANGED <<serverVisibility, override, restricted, deleted, eligible>>

SetServer(v) ==
  /\ serverVisibility' = v
  /\ UNCHANGED <<override, restricted, created, deleted, eligible>>

SetOverride(c, v) ==
  /\ Present(c)
  /\ override' = [override EXCEPT ![c] = v]
  /\ UNCHANGED <<serverVisibility, restricted, created, deleted, eligible>>

SetRestricted(c, b) ==
  /\ Present(c)
  /\ restricted' = [restricted EXCEPT ![c] = b]
  /\ UNCHANGED <<serverVisibility, override, created, deleted, eligible>>

Next ==
  \/ \E c \in Channel :
       \/ Remove(c)
       \/ Insert(c)
       \/ \E v \in Override : SetOverride(c, v)
  \/ \E c \in Top, b \in BOOLEAN : SetRestricted(c, b)
  \/ \E v \in Visibility : SetServer(v)

Spec == Init /\ [][Next]_lifecycleVars
=============================================================================
