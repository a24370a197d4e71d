------------------------------ MODULE Profiles ------------------------------
(***************************************************************************)
(* What one account sees of another's profile                              *)
(* (domain/src/profile_visibility.rs and the mapping of api/src/dto.rs):   *)
(* pure, from the facts that get_profile_context gathers.                  *)
(***************************************************************************)

\* The settings of vis_bio, vis_communities and vis_friends.
Setting == {"public", "friends", "private"}

\* field_exposure.
Shows(relationship, setting) ==
  \/ relationship = "self" \/ setting = "public"
  \/ relationship = "friend" /\ setting = "friends"

Tombstone ==
  [identity |-> "tombstone", media |-> FALSE, bio |-> FALSE, communities |-> FALSE,
   friends |-> FALSE, customStatus |-> FALSE, presence |-> FALSE, serverContext |-> FALSE,
   relationship |-> "none"]

\* A deleted account comes before every other fact, a block before friendship,
\* and the block one has set oneself before the other's.
Decide(facts, settings) ==
  LET blocked == facts.callerBlocked \/ facts.ownerBlocked
      effective == IF blocked THEN "none" ELSE facts.relationship
  IN IF facts.deleted THEN Tombstone
     ELSE [identity |-> "visible", media |-> TRUE,
           bio |-> Shows(effective, settings.bio),
           communities |-> Shows(effective, settings.communities),
           friends |-> Shows(effective, settings.friends),
           customStatus |-> TRUE, presence |-> TRUE,
           serverContext |-> facts.shared,
           relationship |-> IF facts.callerBlocked THEN "blocked"
                            ELSE IF facts.ownerBlocked THEN "minimum"
                            ELSE facts.relationship]

\* presence_for_status: whoever is invisible looks offline to the others.
PresenceShown(decision, status) ==
  decision.presence /\ (decision.relationship = "self" \/ status # "invisible")

\* Slip: the block that the other has set is named.
NamedWord(decision) ==
  IF decision.relationship = "minimum" THEN "blocked" ELSE decision.relationship

\* The relationship as the response spells it.
Word(decision) ==
  IF decision.relationship = "minimum" THEN "none" ELSE decision.relationship

\* ProfileResponse::build; communities and friends are not part of it yet.
Response(facts, settings, status, online) ==
  LET decision == Decide(facts, settings)
      real == PresenceShown(decision, status)
  IN [identity |-> decision.identity, media |-> decision.media, bio |-> decision.bio,
      status |-> IF real THEN status ELSE "offline", online |-> real /\ online,
      customStatus |-> decision.customStatus, serverContext |-> decision.serverContext,
      relationship |-> Word(decision)]
=============================================================================
