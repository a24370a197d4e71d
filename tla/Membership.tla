----------------------------- MODULE Membership -----------------------------
(***************************************************************************)
(* Who belongs to a server: joins, leaves, kicks, bans, timeouts and the   *)
(* server's deletion (domain/src/service.rs, db/src/channel.rs,            *)
(* db/src/server_role.rs, api/src/handlers.rs).                            *)
(*                                                                         *)
(* Every statement is a transaction of its own, so that requests           *)
(* interleave at each, and a request may stop after any.  A role above the *)
(* default one carries all the moderator permissions, the default one      *)
(* none; roles are lost with the membership, and given and taken in one    *)
(* step of somebody who may (Roles has what that takes).  Invite codes,    *)
(* nicknames and the orders of spaces are left out.                        *)
(***************************************************************************)
EXTENDS Integers, FiniteSets

CONSTANTS
  Account,
  Owner,
  StartMembers,
  StartRank,   \* StartRank[a]: the position of a's highest role
  Request,
  MaxRank,     \* bound: the highest position a role may have
  MaxCalls     \* bound: requests begun, changes of roles included

ASSUME MembershipAssumption ==
  /\ Owner \in StartMembers /\ StartMembers \subseteq Account
  /\ MaxRank \in Nat
  /\ StartRank \in [Account -> 0..MaxRank]
  /\ MaxCalls \in Nat

VARIABLES
  alive,       \* the server's row is there
  members,     \* the accounts with a row in membership
  banned,      \* those with a row in server_ban
  timedOut,    \* the members whose timeout_until is ahead
  rank,        \* rank[a]: the highest position among a's roles
  stage, op,   \* what request q has done, and of what operation
  actor, target,
  top,         \* the caller's rank when its permission was checked
  recipients,  \* who is to hear of it
  calls,       \* how many requests have begun
  newcomers,   \* history: who joined since q resolved its recipients
  audience,    \* history: the members when q removed one, or them all
  risen,       \* history: q's target has gained rank since q looked at it
  overtaken,   \* history: the joiner has been banned since q asked
  excused      \* history: the members whose ban was raced or broken off

serverVars == <<alive, members, banned, timedOut, rank>>
requestVars == <<stage, op, actor, target, top, recipients>>
historyVars == <<newcomers, audience, risen, overtaken, excused>>
vars == <<serverVars, requestVars, calls, historyVars>>

Init ==
  /\ alive = TRUE
  /\ members = StartMembers
  /\ banned = {}
  /\ timedOut = {}
  /\ rank = [a \in Account |-> IF a \in StartMembers THEN StartRank[a] ELSE 0]
  /\ stage = [q \in Request |-> "idle"]
  /\ op = [q \in Request |-> "none"]
  /\ actor = [q \in Request |-> Owner]
  /\ target = [q \in Request |-> Owner]
  /\ top = [q \in Request |-> 0]
  /\ recipients = [q \in Request |-> {}]
  /\ calls = 0
  /\ newcomers = [q \in Request |-> {}]
  /\ audience = [q \in Request |-> {}]
  /\ risen = [q \in Request |-> FALSE]
  /\ overtaken = [q \in Request |-> FALSE]
  /\ excused = {}

-----------------------------------------------------------------------------
(* Requests.                                                                 *)

Begin(q, o, a, t, next) ==
  /\ stage[q] = "idle" /\ calls < MaxCalls
  /\ calls' = calls + 1
  /\ stage' = [stage EXCEPT ![q] = next]
  /\ op' = [op EXCEPT ![q] = o]
  /\ actor' = [actor EXCEPT ![q] = a]
  /\ target' = [target EXCEPT ![q] = t]
  /\ top' = [top EXCEPT ![q] = rank[a]]
  /\ UNCHANGED serverVars

\* Only the stage moves on.
Advance(q, next) ==
  /\ stage' = [stage EXCEPT ![q] = next]
  /\ UNCHANGED <<serverVars, op, actor, target, top, recipients, calls, historyVars>>

\* Request q is over.
End(q) ==
  /\ stage' = [stage EXCEPT ![q] = "idle"]
  /\ op' = [op EXCEPT ![q] = "none"]
  /\ actor' = [actor EXCEPT ![q] = Owner]
  /\ target' = [target EXCEPT ![q] = Owner]
  /\ top' = [top EXCEPT ![q] = 0]
  /\ recipients' = [recipients EXCEPT ![q] = {}]
  /\ audience' = [audience EXCEPT ![q] = {}]
  /\ risen' = [risen EXCEPT ![q] = FALSE]
  /\ UNCHANGED calls

Forget(q) == newcomers' = [newcomers EXCEPT ![q] = {}]

\* Banned, and not removed yet.
Banning(q) == op[q] = "ban" /\ stage[q] \in {"banned", "resolved"}

\* Refused, failed, or the client went away: what is written stays.
Stop(q) ==
  /\ stage[q] # "idle"
  /\ End(q) /\ Forget(q)
  /\ excused' = IF Banning(q) THEN excused \cup {target[q]} ELSE excused
  /\ overtaken' = [overtaken EXCEPT ![q] = FALSE]
  /\ UNCHANGED serverVars

-----------------------------------------------------------------------------
(* join_via_invite.  A definition commented as a slip is no part of Next: it *)
(* is a bug that one of the properties must notice when it takes the place   *)
(* of the definition after it.                                               *)

\* The code leads to the server.
AskJoin(q, a) ==
  /\ alive
  /\ Begin(q, "join", a, a, "invited")
  /\ UNCHANGED <<recipients, historyVars>>

CheckMember(q) ==
  /\ stage[q] = "invited" /\ actor[q] \notin members
  /\ Advance(q, "stranger")

\* Slip: the ban is not looked for.
CheckNothing(q) == stage[q] = "stranger" /\ Advance(q, "admitted")

CheckBan(q) ==
  /\ stage[q] = "stranger" /\ actor[q] \notin banned
  /\ Advance(q, "admitted")

\* UNIQUE (server_id, account_id), and the server must be there.
InsertMembership(q) ==
  /\ stage[q] = "admitted" /\ alive /\ actor[q] \notin members
  /\ members' = members \cup {actor[q]}
  /\ excused' = IF overtaken[q] THEN excused \cup {actor[q]} ELSE excused
  /\ End(q)
  /\ newcomers' = [p \in Request |->
       IF stage[p] \in {"resolved", "announcing"} THEN newcomers[p] \cup {actor[q]}
       ELSE newcomers[p]]
  /\ overtaken' = [overtaken EXCEPT ![q] = FALSE]
  /\ UNCHANGED <<alive, banned, timedOut, rank>>

-----------------------------------------------------------------------------
(* Moderation.                                                               *)

Targeted == {"kick", "ban", "timeout", "clear"}

\* require_permission: the owner, or a role with the bit.  Only who removes or
\* silences may not name itself.
AskModerate(q, o, a, t) ==
  /\ o \in {"kick", "ban", "timeout"} => a # t
  /\ a \in members /\ (a = Owner \/ rank[a] > 0)
  /\ Begin(q, o, a, t, "permitted")
  /\ UNCHANGED <<recipients, historyVars>>

\* require_not_timed_out.
CheckTimeout(q) ==
  /\ stage[q] = "permitted"
  /\ actor[q] \in members \ timedOut
  /\ Advance(q, IF op[q] = "ban" THEN "banning" ELSE "awake")

CheckNotBanned(q) ==
  /\ stage[q] = "banning" /\ target[q] \notin banned
  /\ Advance(q, "awake")

\* The owner may well have no role above the default one.
FindTarget(q) ==
  /\ stage[q] = "awake" /\ op[q] \in Targeted
  /\ target[q] \in members
  /\ op[q] # "clear" => target[q] # Owner
  /\ Advance(q, "found")

\* Slip: an equal rank will do.
OutranksOrEquals(q, a) == actor[q] = Owner \/ rank[a] <= top[q]

Outranks(q, a) == actor[q] = Owner \/ rank[a] < top[q]

\* check_hierarchy.
CheckRank(q) ==
  /\ stage[q] = "found" /\ Outranks(q, target[q])
  /\ Advance(q, "outranked")

InsertBan(q) ==
  /\ stage[q] = "outranked" /\ op[q] = "ban"
  /\ alive /\ target[q] \notin banned
  /\ banned' = banned \cup {target[q]}
  /\ stage' = [stage EXCEPT ![q] = "banned"]
  /\ overtaken' = [p \in Request |->
       overtaken[p] \/ (stage[p] = "admitted" /\ actor[p] = target[q])]
  /\ UNCHANGED <<alive, members, timedOut, rank, op, actor, target, top, recipients, calls,
                 newcomers, audience, risen, excused>>

DeleteBan(q) ==
  /\ stage[q] = "awake" /\ op[q] = "unban" /\ target[q] \in banned
  /\ banned' = banned \ {target[q]}
  /\ End(q) /\ Forget(q)
  /\ UNCHANGED <<alive, members, timedOut, rank, overtaken, excused>>

SetTimeout(q) ==
  /\ stage[q] = "outranked" /\ op[q] \in {"timeout", "clear"} /\ target[q] \in members
  /\ timedOut' = IF op[q] = "timeout" THEN timedOut \cup {target[q]} ELSE timedOut \ {target[q]}
  /\ End(q) /\ Forget(q)
  /\ UNCHANGED <<alive, members, banned, rank, overtaken, excused>>

Compared(q) == stage[q] \in {"outranked", "banned", "resolved"}

\* set_member_roles, or reorder_roles about a role of the member's: the roles are
\* replaced in one transaction, whatever others have read of them.
ChangeRank(a, n) ==
  /\ calls < MaxCalls /\ calls' = calls + 1
  /\ a \in members /\ n # rank[a]
  /\ rank' = [rank EXCEPT ![a] = n]
  /\ risen' = [q \in Request |-> risen[q] \/ (Compared(q) /\ target[q] = a /\ n > rank[a])]
  /\ UNCHANGED <<alive, members, banned, timedOut, requestVars, newcomers, audience, overtaken,
                 excused>>

\* timeout_until passes.
Expire(a) ==
  /\ a \in timedOut
  /\ timedOut' = timedOut \ {a}
  /\ UNCHANGED <<alive, members, banned, rank, requestVars, calls, historyVars>>

-----------------------------------------------------------------------------
(* Removal.                                                                  *)

AskLeave(q, a) ==
  /\ a \in members \ {Owner}
  /\ Begin(q, "leave", a, a, "leaving")
  /\ UNCHANGED <<recipients, historyVars>>

\* Slip: whoever is removed is not told.
TheOthers(q) == members \ {target[q]}

\* The members, and whoever is removed.
Hearers(q) == members \cup {target[q]}

\* remove_member resolves who is to hear of it first ..
ResolveRecipients(q) ==
  /\ \/ stage[q] = "leaving"
     \/ stage[q] = "outranked" /\ op[q] = "kick"
     \/ stage[q] = "banned"
  /\ stage' = [stage EXCEPT ![q] = "resolved"]
  /\ recipients' = [recipients EXCEPT ![q] = Hearers(q)]
  /\ UNCHANGED <<serverVars, op, actor, target, top, calls, historyVars>>

\* .. and then deletes.  The roles and the timeout go with the row.
DeleteMembership(q) ==
  /\ stage[q] = "resolved" /\ op[q] # "delete" /\ target[q] \in members
  /\ members' = members \ {target[q]}
  /\ timedOut' = timedOut \ {target[q]}
  /\ rank' = [rank EXCEPT ![target[q]] = 0]
  /\ stage' = [stage EXCEPT ![q] = "announcing"]
  /\ audience' = [audience EXCEPT ![q] = members]
  /\ excused' = excused \ {target[q]}
  /\ UNCHANGED <<alive, banned, op, actor, target, top, recipients, calls, newcomers, risen,
                 overtaken>>

\* The recipients are resolved before it is asked whose server it is.
AskDeleteServer(q, a) ==
  /\ Begin(q, "delete", a, a, "resolved")
  /\ recipients' = [recipients EXCEPT ![q] = members]
  /\ UNCHANGED historyVars

\* Everything cascades.
DeleteServer(q) ==
  /\ stage[q] = "resolved" /\ op[q] = "delete"
  /\ actor[q] = Owner /\ Owner \in members
  /\ alive' = FALSE
  /\ members' = {} /\ banned' = {} /\ timedOut' = {} /\ excused' = {}
  /\ rank' = [a \in Account |-> 0]
  /\ stage' = [stage EXCEPT ![q] = "announcing"]
  /\ audience' = [audience EXCEPT ![q] = members]
  /\ UNCHANGED <<op, actor, target, top, recipients, calls, newcomers, risen, overtaken>>

\* announce_member_leave or announce_server_delete.
Announce(q) ==
  /\ stage[q] = "announcing"
  /\ End(q) /\ Forget(q)
  /\ UNCHANGED <<serverVars, overtaken, excused>>

-----------------------------------------------------------------------------

Call(q) ==
  \E a \in Account :
    \/ AskJoin(q, a) \/ AskLeave(q, a) \/ AskDeleteServer(q, a)
    \/ \E t \in Account, o \in Targeted \cup {"unban"} : AskModerate(q, o, a, t)

Step(q) ==
  \/ CheckMember(q) \/ CheckBan(q) \/ InsertMembership(q)
  \/ CheckTimeout(q) \/ CheckNotBanned(q) \/ FindTarget(q) \/ CheckRank(q)
  \/ InsertBan(q) \/ DeleteBan(q) \/ SetTimeout(q)
  \/ ResolveRecipients(q) \/ DeleteMembership(q) \/ DeleteServer(q) \/ Announce(q)

Next ==
  \/ \E q \in Request : Call(q) \/ Step(q) \/ Stop(q)
  \/ \E a \in Account : Expire(a) \/ \E n \in 0..MaxRank : ChangeRank(a, n)

Spec == Init /\ [][Next]_vars

-----------------------------------------------------------------------------

Op == Targeted \cup {"none", "join", "leave", "unban", "delete"}

Stage == {"idle", "invited", "stranger", "admitted", "permitted", "banning", "awake", "found",
          "outranked", "banned", "leaving", "resolved", "announcing"}

\* Types, and what the foreign keys keep.
TypeOK ==
  /\ alive \in BOOLEAN
  /\ members \in SUBSET Account
  /\ banned \in SUBSET Account
  /\ timedOut \in SUBSET members
  /\ rank \in [Account -> 0..MaxRank]
  /\ \A a \in Account : rank[a] > 0 => a \in members
  /\ ~alive => members = {} /\ banned = {}
  /\ stage \in [Request -> Stage]
  /\ op \in [Request -> Op]
  /\ actor \in [Request -> Account]
  /\ target \in [Request -> Account]
  /\ top \in [Request -> 0..MaxRank]
  /\ recipients \in [Request -> SUBSET Account]
  /\ calls \in 0..MaxCalls
  /\ newcomers \in [Request -> SUBSET Account]
  /\ audience \in [Request -> SUBSET Account]
  /\ risen \in [Request -> BOOLEAN]
  /\ overtaken \in [Request -> BOOLEAN]
  /\ excused \in SUBSET Account

\* A member is removed by itself, by the owner, or by a moderator who ranked
\* above it when the request was permitted, unless its roles were raised after
\* the request had looked at them and before it deleted the row
\* (service.rs:2253-2256 and 2343): the ban, the recipients and whatever others
\* do come in between.  The owner, whose rank may be the lowest, is removed by
\* nobody (CannotActOnOwner, OwnerCannotLeave).  Deleting the server removes
\* everybody.
RankRespected ==
  [][\A m \in members \ members' :
       alive' => \E q \in Request :
                   /\ stage[q] = "resolved" /\ target[q] = m /\ m # Owner
                   /\ \/ op[q] = "leave" \/ actor[q] = Owner
                      \/ rank[m] < top[q] \/ risen[q]]_vars

\* A banned account is a member only while its ban is being carried out, when
\* that was broken off in the middle, or when it was joining as the ban was
\* set (service.rs:1822 and 2302-2312): ban and removal, and check and insert,
\* are two statements each.
OnlyRacedBans ==
  \A a \in members \cap banned :
    a \in excused \/ \E q \in Request : Banning(q) /\ target[q] = a

\* All the members a removal concerns are among those who hear of it, and the
\* one removed, unless they joined after the recipients were resolved
\* (remove_member, service.rs:2316-2350, and the delete_server handler).
RemovalsAreHeard ==
  \A q \in Request :
    stage[q] = "announcing" => audience[q] \subseteq recipients[q] \cup newcomers[q]
=============================================================================
