------------------------------- MODULE Social -------------------------------
(***************************************************************************)
(* Two accounts: their friendship, their blocks, their direct channel and  *)
(* what they write in it (domain/src/service.rs, db/src/friendship.rs,     *)
(* block.rs, dm.rs, lock.rs).  Other pairs touch none of their rows.       *)
(*                                                                         *)
(* Every SQL statement is a step; a write of a transaction is done when it *)
(* commits, save that the row block_account deletes is locked until then.  *)
(* Group channels, which ask for blocks the same way, are left out.  What  *)
(* each sees of the other's profile is a function of the state.            *)
(***************************************************************************)
EXTENDS Integers, FiniteSets, Profiles

CONSTANTS
  Party,     \* the two accounts
  Request,
  Nobody,
  MaxCalls   \* bound: requests begun

ASSUME SocialAssumption ==
  /\ \E a, b \in Party : a # b /\ Party = {a, b}
  /\ Nobody \notin Request /\ Nobody \notin Party
  /\ MaxCalls \in Nat

VARIABLES
  blocks,      \* those of the two who have blocked the other
  status,      \* the friendship's status, "none" when there is no row
  requester,   \* its requested_by
  row,         \* its id: counts the rows there have been
  dms,         \* how many direct channels the two have
  messages,    \* how many messages are in them
  friendLock,  \* the request that holds the pair's advisory lock "friendship:.."
  dmLock,      \* and "dm:.."
  stage, actor,
  found,       \* found[q]: what q has found of the friendship or the channel
  foundRow,
  removing,    \* removing[q]: the row that q's transaction deletes
  calls,       \* how many requests have begun
  asked,       \* history: who has asked for the friendship since its row is there
  overtaken,   \* history: a block was set since q looked for one
  excused      \* history: the friendship's row was written beside a block being set

rowVars == <<status, requester, row>>
wordVars == <<dms, messages>>
lockVars == <<friendLock, dmLock>>
requestVars == <<stage, actor, found, foundRow, removing>>
vars == <<blocks, rowVars, wordVars, lockVars, requestVars, calls, asked, overtaken, excused>>

Init ==
  /\ blocks = {} /\ status = "none" /\ requester = Nobody /\ row = 0
  /\ dms = 0 /\ messages = 0
  /\ friendLock = Nobody /\ dmLock = Nobody
  /\ stage = [q \in Request |-> "idle"]
  /\ actor = [q \in Request |-> Nobody]
  /\ found = [q \in Request |-> "none"]
  /\ foundRow = [q \in Request |-> 0]
  /\ removing = [q \in Request |-> 0]
  /\ calls = 0
  /\ asked = {}
  /\ overtaken = [q \in Request |-> FALSE]
  /\ excused = FALSE

-----------------------------------------------------------------------------

Begin(q, p, next) ==
  /\ stage[q] = "idle" /\ calls < MaxCalls
  /\ calls' = calls + 1
  /\ stage' = [stage EXCEPT ![q] = next]
  /\ actor' = [actor EXCEPT ![q] = p]
  /\ UNCHANGED <<blocks, rowVars, wordVars, lockVars, found, foundRow, removing,
                 asked, overtaken, excused>>

\* What a step that only reads or locks leaves alone.
ReadsOnly == UNCHANGED <<blocks, rowVars, wordVars, actor, calls, asked, overtaken, excused>>

Advance(q, next) == stage' = [stage EXCEPT ![q] = next]

\* A definition commented as a slip is no part of Next: it is a bug that one of
\* the properties must notice when it takes the place of the next definition.
\* Slip: the locks belong to the connection and stay.
KeepLocks(q) == UNCHANGED lockVars

\* The transaction's advisory locks end with it.
Unlock(q) ==
  /\ friendLock' = IF friendLock = q THEN Nobody ELSE friendLock
  /\ dmLock' = IF dmLock = q THEN Nobody ELSE dmLock

\* Request q is over.
End(q) ==
  /\ Advance(q, "idle")
  /\ actor' = [actor EXCEPT ![q] = Nobody]
  /\ found' = [found EXCEPT ![q] = "none"]
  /\ foundRow' = [foundRow EXCEPT ![q] = 0]
  /\ removing' = [removing EXCEPT ![q] = 0]
  /\ Unlock(q)
  /\ UNCHANGED calls

Forget(q) == overtaken' = [overtaken EXCEPT ![q] = FALSE]

\* Refused, failed, or the client went away: the transaction is rolled back.
Stop(q) ==
  /\ stage[q] # "idle"
  /\ End(q) /\ Forget(q)
  /\ UNCHANGED <<blocks, rowVars, wordVars, asked, excused>>

\* The row is not being deleted by a transaction under way.
RowUnlocked == \A q \in Request : removing[q] = row => row = 0

-----------------------------------------------------------------------------
(* The block gate of create_dm, send_friend_request and send_message.        *)

AskFriend(q, p) == Begin(q, p, "befriending")

AskDm(q, p) == Begin(q, p, "opening")

AskSend(q, p) == dms > 0 /\ Begin(q, p, "sending")

Allowed == [befriending |-> "friend_allowed", opening |-> "dm_allowed", sending |-> "send_allowed"]

\* Slip: only the caller's own block is looked for.
CheckOwnBlock(q) ==
  /\ stage[q] \in DOMAIN Allowed /\ actor[q] \notin blocks
  /\ Advance(q, Allowed[stage[q]])
  /\ UNCHANGED <<lockVars, found, foundRow, removing>>
  /\ ReadsOnly

CheckBlock(q) ==
  /\ stage[q] \in DOMAIN Allowed /\ blocks = {}
  /\ Advance(q, Allowed[stage[q]])
  /\ UNCHANGED <<lockVars, found, foundRow, removing>>
  /\ ReadsOnly

-----------------------------------------------------------------------------
(* send_friend_request and remove_friendship.                                *)

LockFriendship(q) ==
  /\ stage[q] = "friend_allowed" /\ friendLock = Nobody
  /\ friendLock' = q
  /\ Advance(q, "friend_locked")
  /\ UNCHANGED <<dmLock, found, foundRow, removing>>
  /\ ReadsOnly

\* Slip: whoever asks accepts what is pending.
AcceptsAny(q) == status = "pending"

\* Only the other side accepts.
Accepts(q) == status = "pending" /\ requester # actor[q]

FindFriendship(q) ==
  /\ stage[q] = "friend_locked"
  /\ found' = [found EXCEPT ![q] = IF status = "none" THEN "none"
                                   ELSE IF Accepts(q) THEN "theirs" ELSE "settled"]
  /\ foundRow' = [foundRow EXCEPT ![q] = row]
  /\ Advance(q, "friend_found")
  /\ UNCHANGED <<lockVars, removing>>
  /\ ReadsOnly

InsertPending(q) ==
  /\ stage[q] = "friend_found" /\ found[q] = "none" /\ status = "none"
  /\ status' = "pending" /\ requester' = actor[q] /\ row' = row + 1
  /\ asked' = {actor[q]}
  /\ excused' = overtaken[q]
  /\ End(q) /\ Forget(q)
  /\ UNCHANGED <<blocks, wordVars>>

\* By the row's id: whether it is still there is seen when its lock is free.
AcceptFriendship(q) ==
  /\ stage[q] = "friend_found" /\ found[q] = "theirs"
  /\ RowUnlocked /\ status # "none" /\ row = foundRow[q]
  /\ status' = "accepted"
  /\ asked' = asked \cup {actor[q]}
  /\ excused' = (excused \/ overtaken[q])
  /\ End(q) /\ Forget(q)
  /\ UNCHANGED <<blocks, requester, row, wordVars>>

\* Pending from the same side, or accepted already.
LeaveFriendship(q) ==
  /\ stage[q] = "friend_found" /\ found[q] = "settled"
  /\ End(q) /\ Forget(q)
  /\ UNCHANGED <<blocks, rowVars, wordVars, asked, excused>>

\* One statement, by either side, whatever the status.
RemoveFriendship ==
  /\ calls < MaxCalls /\ status # "none" /\ RowUnlocked
  /\ status' = "none" /\ requester' = Nobody
  /\ calls' = calls + 1
  /\ asked' = {} /\ excused' = FALSE
  /\ UNCHANGED <<blocks, row, wordVars, lockVars, requestVars, overtaken>>

-----------------------------------------------------------------------------
(* block_account and unblock_account.                                        *)

\* The row is inserted unless it is there, which another transaction of the
\* same account may yet decide; nobody sees it before the commit.
AskBlock(q, p) ==
  /\ \A r \in Request : actor[r] = p => stage[r] \notin {"block_inserted", "pair_deleted"}
  /\ Begin(q, p, "block_inserted")

DeletePair(q) ==
  /\ stage[q] = "block_inserted" /\ RowUnlocked
  /\ removing' = [removing EXCEPT ![q] = IF status = "none" THEN 0 ELSE row]
  /\ Advance(q, "pair_deleted")
  /\ UNCHANGED <<lockVars, found, foundRow>>
  /\ ReadsOnly

\* Slip: the friendship's row is left to the client to remove.
KeepsRow(q) == TRUE

\* A friendship that came after the DELETE stays.
Spares(q) == removing[q] = 0

Gated == {"friend_allowed", "friend_locked", "friend_found", "dm_allowed", "dm_locked",
          "dm_found", "send_allowed"}

CommitBlock(q) ==
  /\ stage[q] = "pair_deleted"
  /\ blocks' = blocks \cup {actor[q]}
  /\ status' = IF Spares(q) THEN status ELSE "none"
  /\ requester' = IF Spares(q) THEN requester ELSE Nobody
  /\ asked' = IF Spares(q) THEN asked ELSE {}
  /\ excused' = (removing[q] = 0 /\ status # "none")
  /\ overtaken' = [r \in Request |-> overtaken[r] \/ stage[r] \in Gated]
  /\ End(q)
  /\ UNCHANGED <<row, wordVars>>

Unblock(p) ==
  /\ calls < MaxCalls /\ p \in blocks
  /\ blocks' = blocks \ {p}
  /\ calls' = calls + 1
  /\ UNCHANGED <<rowVars, wordVars, lockVars, requestVars, asked, overtaken, excused>>

-----------------------------------------------------------------------------
(* create_dm and send_message.                                               *)

\* Slip: the channel is looked for without the pair's lock.
LockNothing(q) ==
  /\ stage[q] = "dm_allowed"
  /\ Advance(q, "dm_locked")
  /\ UNCHANGED <<lockVars, found, foundRow, removing>>
  /\ ReadsOnly

LockDm(q) ==
  /\ stage[q] = "dm_allowed" /\ dmLock = Nobody
  /\ dmLock' = q
  /\ Advance(q, "dm_locked")
  /\ UNCHANGED <<friendLock, found, foundRow, removing>>
  /\ ReadsOnly

FindDm(q) ==
  /\ stage[q] = "dm_locked"
  /\ found' = [found EXCEPT ![q] = IF dms = 0 THEN "none" ELSE "settled"]
  /\ Advance(q, "dm_found")
  /\ UNCHANGED <<lockVars, foundRow, removing>>
  /\ ReadsOnly

CommitDm(q) ==
  /\ stage[q] = "dm_found"
  /\ dms' = IF found[q] = "none" THEN dms + 1 ELSE dms
  /\ End(q) /\ Forget(q)
  /\ UNCHANGED <<blocks, rowVars, messages, asked, excused>>

InsertMessage(q) ==
  /\ stage[q] = "send_allowed"
  /\ messages' = messages + 1
  /\ End(q) /\ Forget(q)
  /\ UNCHANGED <<blocks, rowVars, dms, asked, excused>>

-----------------------------------------------------------------------------
(* What v gets when it asks for o's profile, if nothing changes meanwhile.   *)

\* get_profile_context: the pair's friendship, then the two blocks.
Facts(v, o) ==
  [relationship |-> IF v = o THEN "self" ELSE IF status = "accepted" THEN "friend" ELSE "none",
   callerBlocked |-> v # o /\ v \in blocks, ownerBlocked |-> v # o /\ o \in blocks,
   shared |-> FALSE, deleted |-> FALSE]

FriendsOf(v) == {p \in Party \ {v} : status = "accepted"}
BlockedBy(v) == IF v \in blocks THEN Party \ {v} ELSE {}

\* get_profile_contexts_bulk: v's friends and blocks, once for all profiles.
FactsInBulk(v, o) ==
  [relationship |-> IF v = o THEN "self" ELSE IF o \in FriendsOf(v) THEN "friend" ELSE "none",
   callerBlocked |-> o \in BlockedBy(v), ownerBlocked |-> v \in BlockedBy(o),
   shared |-> FALSE, deleted |-> FALSE]

Stranger ==
  [relationship |-> "none", callerBlocked |-> FALSE, ownerBlocked |-> FALSE,
   shared |-> FALSE, deleted |-> FALSE]

\* build_profile_response, with the same setting for every field.
Profile(v, o, setting) ==
  Response(Facts(v, o), [bio |-> setting, communities |-> setting, friends |-> setting],
           "online", TRUE)

-----------------------------------------------------------------------------

Call(q) ==
  \E p \in Party : AskFriend(q, p) \/ AskDm(q, p) \/ AskSend(q, p) \/ AskBlock(q, p)

Step(q) ==
  \/ CheckBlock(q)
  \/ LockFriendship(q) \/ FindFriendship(q)
  \/ InsertPending(q) \/ AcceptFriendship(q) \/ LeaveFriendship(q)
  \/ DeletePair(q) \/ CommitBlock(q)
  \/ LockDm(q) \/ FindDm(q) \/ CommitDm(q)
  \/ InsertMessage(q)

Next ==
  \/ \E q \in Request : Call(q) \/ Step(q) \/ Stop(q)
  \/ RemoveFriendship
  \/ \E p \in Party : Unblock(p)

Spec == Init /\ [][Next]_vars

\* A step that the gate or a lost row refuses ends in an error instead.
Refused(q) ==
  /\ \/ stage[q] \in DOMAIN Allowed /\ blocks # {}
     \/ stage[q] = "friend_found" /\ found[q] = "theirs" /\ RowUnlocked
        /\ (status = "none" \/ row # foundRow[q])
  /\ Stop(q)

\* The runtime polls every handler, and the database hands a lock to each of
\* those that wait for it in turn.
FairSpec ==
  Spec /\ \A q \in Request :
            WF_vars(Step(q) \/ Refused(q)) /\ SF_vars(LockFriendship(q)) /\ SF_vars(LockDm(q))

-----------------------------------------------------------------------------

Stage == Gated \cup DOMAIN Allowed \cup {"idle", "block_inserted", "pair_deleted"}

\* Types, and whom the locks belong to.
TypeOK ==
  /\ blocks \in SUBSET Party
  /\ status \in {"none", "pending", "accepted"}
  /\ requester \in Party \cup {Nobody}
  /\ (status = "none") = (requester = Nobody)
  /\ row \in Nat /\ (status # "none" => row > 0)
  /\ dms \in Nat /\ messages \in Nat
  /\ friendLock \in Request \cup {Nobody}
  /\ dmLock \in Request \cup {Nobody}
  /\ friendLock # Nobody => stage[friendLock] \in {"friend_locked", "friend_found"}
  /\ dmLock # Nobody => stage[dmLock] \in {"dm_locked", "dm_found"}
  /\ stage \in [Request -> Stage]
  /\ actor \in [Request -> Party \cup {Nobody}]
  /\ found \in [Request -> {"none", "theirs", "settled"}]
  /\ foundRow \in [Request -> Nat]
  /\ removing \in [Request -> Nat]
  /\ calls \in 0..MaxCalls
  /\ asked \in SUBSET Party
  /\ overtaken \in [Request -> BOOLEAN]
  /\ excused \in BOOLEAN

\* Nobody has a friend who did not ask for it, or whom it did not ask: a
\* friendship is accepted by the side that did not request that very row, and
\* a row removed in between is not accepted (send_friend_request).
FriendshipIsMutual == status = "accepted" => asked = Party

\* However often, and from whichever side, a direct channel is opened, the two
\* have one (create_dm's advisory lock, service.rs:1505-1517).
OneDm == dms <= 1

\* Where one has blocked the other there is no friendship and no request,
\* unless a request was under way when the block was set: block_account takes
\* no lock that send_friend_request takes (service.rs:1713-1720, 1736-1740).
OnlyRacedFriends == blocks # {} /\ status # "none" => excused

\* Where one has blocked the other, no message is written between the two and
\* no channel opened, unless the gate was passed before the block was set.
OnlyRacedWords ==
  [][\A q \in Request :
       /\ stage'[q] # stage[q] /\ blocks # {}
       /\ dms' # dms \/ messages' # messages
       => overtaken[q]]_vars

\* Being blocked does not show: whom the other has blocked gets the profile a
\* stranger gets, even as a friend whose friendship came through a race; and
\* both ways of gathering the facts find the same.
BlocksAreSilent ==
  \A v, o \in Party : v # o =>
    /\ FactsInBulk(v, o) = Facts(v, o)
    /\ o \in blocks /\ v \notin blocks =>
         \A s \in Setting :
           Profile(v, o, s) = Response(Stranger, [bio |-> s, communities |-> s, friends |-> s],
                                       "online", TRUE)

\* Every request comes to its end: the advisory locks and the locks of the
\* friendship's row are handed on.
RequestsEnd == \A q \in Request : stage[q] # "idle" ~> stage[q] = "idle"
=============================================================================
