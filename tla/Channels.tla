------------------------------ MODULE Channels ------------------------------
(***************************************************************************)
(* The channels of one server: who sees them, how their visibility is set, *)
(* and how they are inserted, ordered and removed (domain/src/service.rs,  *)
(* db/src/channel.rs).                                                     *)
(*                                                                         *)
(* Requests run side by side, and every SQL statement is a step.  It needs *)
(* one of the pool's connections, which a transaction keeps and a          *)
(* statement keeps while it waits for a row lock.  Statements run READ     *)
(* COMMITTED: an UPDATE or SELECT FOR UPDATE waits for the locks on its    *)
(* rows and then sees what is committed.  What delete_channel writes is    *)
(* applied when it commits; the positions reorder_channels writes are put  *)
(* back when it does not.                                                  *)
(*                                                                         *)
(* Members and their roles do not change here.                             *)
(***************************************************************************)
EXTENDS Containment, Sequences, FiniteSets

CONSTANTS
  Top,          \* the text and voice channels
  Thread,
  ParentOf,     \* ParentOf[t]: the channel thread t is in
  Server,       \* the server's own row
  Account,      \* the members
  Owner,
  Role,
  Everyone,     \* the default role
  RolesOf,      \* RolesOf[a]: the roles assigned to a
  AdminRoles,   \* the roles with ADMIN
  Managers,     \* the members with MANAGE_CHANNELS and MANAGE_VISIBILITY
  Request,
  Connections,  \* the size of the pool
  MaxChannels,  \* MAX_CHANNELS_PER_SERVER
  Existing,     \* the channels at the start, when the server is public already
  MaxCalls      \* bound: requests begun

Channel == Top \cup Thread
Row == Channel \cup {Server}

\* The orders a client may ask for: every listed channel once.
Order == {s \in UNION {[1..n -> Top] : n \in 0..Cardinality(Top)} :
            \A i, j \in DOMAIN s : i # j => s[i] # s[j]}

ASSUME ChannelsAssumption ==
  /\ Top \cap Thread = {} /\ Server \notin Channel
  /\ ParentOf \in [Thread -> Top]
  /\ IsFiniteSet(Top) /\ None \notin Request \cup Account \cup BOOLEAN
  /\ Owner \in Account /\ Everyone \in Role
  /\ RolesOf \in [Account -> SUBSET (Role \ {Everyone})] /\ AdminRoles \subseteq Role
  /\ Managers \subseteq Account
  /\ Existing \subseteq Channel /\ \A t \in Existing \cap Thread : ParentOf[t] \in Existing
  /\ Connections \in Nat /\ MaxChannels \in Nat /\ MaxCalls \in Nat

VARIABLES
  serverVisibility, override, restricted, created, deleted, eligible, \* as in Lifecycle
  grants,         \* grants[c]: the roles with VIEW_CHANNEL on c
  position,       \* position[c]: the place of c in the list
  lock,           \* lock[x]: the request whose transaction holds row x
  connected,      \* the requests that hold a connection
  stage,          \* stage[q]: what request q has done
  actor, target,  \* the caller and the channel of request q
  wish,           \* wish[q]: the value it is to set
  order,          \* order[q]: the order it is to set
  seenServer, seenOverride, seenRestricted, \* what q read of the rows it locked
  before,         \* before[q]: the positions q has overwritten
  calls,          \* how many requests have begun
  lastOrder       \* history: the last order committed

lifecycleVars == <<serverVisibility, override, restricted, created, deleted, eligible>>
seenVars == <<seenServer, seenOverride, seenRestricted>>
argVars == <<actor, target, wish, order>>
orderVars == <<position, before, lastOrder>>
requestVars == <<lock, connected, stage, argVars, seenVars, calls>>
vars == <<lifecycleVars, grants, orderVars, requestVars>>

\* What the channels promise: the same six variables, and none of the requests'.
Lifecycle == INSTANCE Lifecycle WITH
  serverVisibility <- serverVisibility, override <- override, restricted <- restricted,
  created <- created, deleted <- deleted, eligible <- eligible

-----------------------------------------------------------------------------
(* Who sees what.  Lists has the places that make a list of it.              *)

\* Not deleted, nor below a channel that is (find_access_by_id).
Live(c) == c \in created \ deleted /\ (c \in Thread => ParentOf[c] \notin deleted)

\* The channel whose restriction and grants count for c.
Source(c) == IF c \in Thread THEN ParentOf[c] ELSE c

\* A thread's own restricted column stays false.
EffectiveRestricted(c) == restricted[Source(c)]

RolesHeld(a) == RolesOf[a] \cup {Everyone}

Bypasses(a) == a = Owner \/ RolesHeld(a) \cap AdminRoles # {}

CanView(a, source) == Bypasses(a) \/ RolesHeld(a) \cap grants[source] # {}

\* require_channel_access, which nearly every other operation calls.
Admits(a, c) == Live(c) /\ (EffectiveRestricted(c) => CanView(a, Source(c)))

OverrideAbove(c) == IF c \in Thread THEN override[ParentOf[c]] ELSE None

EffectiveNow(c) == Effective(override[c], OverrideAbove(c), serverVisibility)

\* What resolve_read_access answers a member, or nobody in particular (None).
ReadAccess(a, c) ==
  IF ~Live(c) THEN "not_found"
  ELSE IF EffectiveRestricted(c)
       THEN IF a # None /\ CanView(a, Source(c)) THEN "member" ELSE "not_found"
  ELSE IF a # None THEN "member"
  ELSE IF EffectiveNow(c) \in {"public", "unlisted"} THEN "public" ELSE "not_found"

\* The retained trace of a thread that was public when it was removed.
HasTombstone(t) ==
  t \in created /\ eligible[t] = TRUE /\ (t \in deleted \/ ParentOf[t] \in deleted)

\* The page of thread t, for anyone who has its address, as one read.  The code
\* asks for access, for the tombstone and for the thread one after another:
\* while t is being removed it may also answer not_found, once.
PublicThread(t) ==
  IF ReadAccess(None, t) = "public" THEN "page"
  ELSE IF HasTombstone(t) THEN "gone" ELSE "not_found"

\* The threads of the sitemap.
PublicThreads ==
  {t \in Thread : Live(t) /\ EffectiveNow(t) = "public" /\ ReadAccess(None, t) = "public"}

-----------------------------------------------------------------------------

Init ==
  /\ serverVisibility = "public"
  /\ override = [c \in Channel |-> None]
  /\ restricted = [c \in Top |-> FALSE]
  /\ created = Existing
  /\ deleted = {}
  /\ eligible = [c \in Channel |-> None]
  /\ grants = [c \in Top |-> {}]
  /\ position = [c \in Top |-> None]
  /\ lock = [x \in Row |-> None]
  /\ connected = {}
  /\ stage = [q \in Request |-> "idle"]
  /\ actor = [q \in Request |-> None]
  /\ target = [q \in Request |-> None]
  /\ wish = [q \in Request |-> None]
  /\ order = [q \in Request |-> <<>>]
  /\ seenServer = [q \in Request |-> None]
  /\ seenOverride = [q \in Request |-> [c \in Channel |-> None]]
  /\ seenRestricted = [q \in Request |-> [c \in Top |-> FALSE]]
  /\ before = [q \in Request |-> [c \in Top |-> None]]
  /\ calls = 0
  /\ lastOrder = <<>>

Free == Cardinality(connected) < Connections

Advance(q, next) == stage' = [stage EXCEPT ![q] = next]

\* A request begins: its first queries have passed, on connections given back.
\* The caller is kept where it is asked for again.
Begin(q, a, c, v, next) ==
  /\ stage[q] = "idle" /\ Free /\ calls < MaxCalls
  /\ calls' = calls + 1
  /\ Advance(q, next)
  /\ actor' = [actor EXCEPT ![q] = a]
  /\ target' = [target EXCEPT ![q] = c]
  /\ wish' = [wish EXCEPT ![q] = v]
  /\ UNCHANGED <<lifecycleVars, grants, orderVars, lock, connected, seenVars>>

\* Request q is over: its locks and its connection are free.
End(q) ==
  /\ Advance(q, "idle")
  /\ lock' = [x \in Row |-> IF lock[x] = q THEN None ELSE lock[x]]
  /\ connected' = connected \ {q}
  /\ actor' = [actor EXCEPT ![q] = None]
  /\ target' = [target EXCEPT ![q] = None]
  /\ wish' = [wish EXCEPT ![q] = None]
  /\ order' = [order EXCEPT ![q] = <<>>]
  /\ seenServer' = [seenServer EXCEPT ![q] = None]
  /\ seenOverride' = [seenOverride EXCEPT ![q] = [c \in Channel |-> None]]
  /\ seenRestricted' = [seenRestricted EXCEPT ![q] = [c \in Top |-> FALSE]]
  /\ before' = [before EXCEPT ![q] = [c \in Top |-> None]]
  /\ UNCHANGED calls

\* Slip: the positions are written on the pool, outside the transaction.
RestoreNothing(q) == position' = position

\* A transaction in the middle of reorder_channels puts the positions back.
Restore(q) ==
  position' = IF stage[q] = "placing"
              THEN [c \in Top |-> IF lock[c] = q THEN before[q][c] ELSE position[c]]
              ELSE position

\* Request q fails: what it had not committed is gone.
Abort(q) == End(q) /\ Restore(q) /\ UNCHANGED <<lifecycleVars, grants, lastOrder>>

Unlocked(x) == lock[x] = None

\* Stages whose next statement still has to get its connection.
Waiting == {"deleting", "allowed", "opening", "restricting", "threading", "creating", "ordering"}

NeedsConnection(q) == (stage[q] \in Waiting /\ q \notin connected) \/ stage[q] = "target_locked"

Connect(q) ==
  /\ stage[q] \in Waiting /\ q \notin connected /\ Free
  /\ connected' = connected \cup {q}
  /\ UNCHANGED <<lifecycleVars, grants, orderVars, lock, stage, argVars, seenVars, calls>>

Ready(q, s) == stage[q] = s /\ q \in connected

\* Slip: a request waits for a connection as long as it takes.
PoolPatience(q) == FALSE /\ Abort(q)

\* acquire_timeout has passed and no connection came free.
PoolTimeout(q) == NeedsConnection(q) /\ ~Free /\ Abort(q)

-----------------------------------------------------------------------------
(* delete_channel.  A definition commented as a slip is no part of Next: it  *)
(* is a bug that one of the properties must notice when it takes the place   *)
(* of the definition after it.                                               *)

AskDelete(q, a, c) ==
  /\ a \in Managers /\ c \in created
  /\ Begin(q, a, c, None, "deleting")
  /\ UNCHANGED order

\* What a step of delete_channel leaves alone.
DeleteKeeps == UNCHANGED <<lifecycleVars, grants, orderVars, connected, argVars, calls>>

Hold(q, rows) == lock' = [x \in Row |-> IF x \in rows THEN q ELSE lock[x]]

\* SELECT .. FOR UPDATE of the live channel c.
LockLive(q, c, next) ==
  /\ Unlocked(c) /\ c \in created \ deleted
  /\ Hold(q, {c}) /\ Advance(q, next)
  /\ seenOverride' = [seenOverride EXCEPT
       ![q] = [d \in Channel |-> IF d = c THEN override[c] ELSE seenOverride[q][d]]]
  /\ seenRestricted' = [seenRestricted EXCEPT
       ![q] = [d \in Top |-> IF d = c THEN restricted[c] ELSE seenRestricted[q][d]]]
  /\ UNCHANGED seenServer
  /\ DeleteKeeps

\* Slip: the server's row is read without FOR UPDATE.
ReadServer(q) ==
  /\ Ready(q, "deleting") /\ Unlocked(Server)
  /\ UNCHANGED lock /\ Advance(q, "server_locked")
  /\ seenServer' = [seenServer EXCEPT ![q] = serverVisibility]
  /\ UNCHANGED <<seenOverride, seenRestricted>>
  /\ DeleteKeeps

LockServer(q) ==
  /\ Ready(q, "deleting") /\ Unlocked(Server)
  /\ Hold(q, {Server}) /\ Advance(q, "server_locked")
  /\ seenServer' = [seenServer EXCEPT ![q] = serverVisibility]
  /\ UNCHANGED <<seenOverride, seenRestricted>>
  /\ DeleteKeeps

LockParent(q) ==
  /\ stage[q] = "server_locked" /\ target[q] \in Thread
  /\ LockLive(q, ParentOf[target[q]], "parent_locked")

LockTarget(q) ==
  /\ stage[q] = "parent_locked" \/ (stage[q] = "server_locked" /\ target[q] \in Top)
  /\ LockLive(q, target[q], "target_locked")

\* The row it waits for turns out to be deleted.
FindDeleted(q) ==
  /\ \/ stage[q] = "server_locked" /\ Source(target[q]) \in deleted
        /\ Unlocked(Source(target[q]))
     \/ stage[q] = "parent_locked" /\ target[q] \in deleted /\ Unlocked(target[q])
  /\ Abort(q)

\* Asked on a second connection, while the first holds the locks.
CheckAccess(q) ==
  /\ stage[q] = "target_locked" /\ Free
  /\ Admits(actor[q], target[q])
  /\ Advance(q, "admitted")
  /\ UNCHANGED <<lock, seenVars>>
  /\ DeleteKeeps

AccessDenied(q) ==
  /\ stage[q] = "target_locked" /\ Free
  /\ ~Admits(actor[q], target[q])
  /\ Abort(q)

\* Deleted ones included; the database takes the rows one by one.
LockDescendants(q) ==
  LET family == {t \in created \cap Thread : ParentOf[t] = target[q]}
  IN /\ stage[q] = "admitted"
     /\ \A t \in family : Unlocked(t)
     /\ Hold(q, family) /\ Advance(q, "family_locked")
     /\ seenOverride' = [seenOverride EXCEPT
          ![q] = [d \in Channel |-> IF d \in family THEN override[d] ELSE seenOverride[q][d]]]
     /\ UNCHANGED <<seenServer, seenRestricted>>
     /\ DeleteKeeps

\* The rows whose eligibility is settled with q's target.
Settled(q) == {target[q]} \cup {t \in Thread : lock[t] = q}

SnapshotOf(q, c) ==
  c \in Thread /\ TombstoneEligible(seenOverride[q][c], seenOverride[q][ParentOf[c]],
                                    seenRestricted[q][ParentOf[c]], seenServer[q])

\* Slip: a later removal settles again what was settled.
SnapshotAgain(q) ==
  eligible' = [c \in Channel |-> IF c \in Settled(q) THEN SnapshotOf(q, c) ELSE eligible[c]]

\* Only what is still NULL.
Snapshot(q) ==
  eligible' = [c \in Channel |->
    IF c \in Settled(q) /\ eligible[c] = None THEN SnapshotOf(q, c) ELSE eligible[c]]

CommitDelete(q) ==
  /\ stage[q] = "family_locked"
  /\ Snapshot(q)
  /\ deleted' = deleted \cup {target[q]}
  /\ End(q)
  /\ UNCHANGED <<serverVisibility, override, restricted, created, grants, position, lastOrder>>

-----------------------------------------------------------------------------
(* Visibility, restriction and grants.                                       *)

\* The ceiling is read before the override is written.
AskVisibility(q, c, v) ==
  /\ Managers # {} /\ c \in created
  /\ v # None => Rank[v] <= Rank[serverVisibility]
  /\ Begin(q, None, c, v, "allowed")
  /\ UNCHANGED order

\* A thread below a removed channel can still be written to.
WriteVisibility(q) ==
  /\ Ready(q, "allowed") /\ Unlocked(target[q])
  /\ override' = IF target[q] \in deleted THEN override
                 ELSE [override EXCEPT ![target[q]] = wish[q]]
  /\ End(q)
  /\ UNCHANGED <<serverVisibility, restricted, created, deleted, eligible, grants, orderVars>>

AskServerVisibility(q, v) ==
  /\ Begin(q, None, None, v, "opening")
  /\ UNCHANGED order

\* Overrides broader than v stay stored.
WriteServerVisibility(q) ==
  /\ Ready(q, "opening") /\ Unlocked(Server)
  /\ serverVisibility' = wish[q]
  /\ End(q)
  /\ UNCHANGED <<override, restricted, created, deleted, eligible, grants, orderVars>>

\* Threads are rejected.
AskRestricted(q, c, b) ==
  /\ Managers # {} /\ c \in Top /\ Live(c)
  /\ Begin(q, None, c, b, "restricting")
  /\ UNCHANGED order

WriteRestricted(q) ==
  /\ Ready(q, "restricting") /\ Unlocked(target[q])
  /\ restricted' = IF target[q] \in deleted THEN restricted
                   ELSE [restricted EXCEPT ![target[q]] = wish[q] = "restricted"]
  /\ End(q)
  /\ UNCHANGED <<serverVisibility, override, created, deleted, eligible, grants, orderVars>>

\* One upsert.  On a channel deleted since its lookup nobody reads it.
SetGrant(q, c, r, viewing) ==
  /\ stage[q] = "idle" /\ Free /\ calls < MaxCalls
  /\ Managers # {} /\ c \in Top /\ Live(c)
  /\ grants' = [grants EXCEPT ![c] = IF viewing THEN grants[c] \cup {r} ELSE grants[c] \ {r}]
  /\ calls' = calls + 1
  /\ UNCHANGED <<lifecycleVars, orderVars, lock, connected, stage, argVars, seenVars>>

-----------------------------------------------------------------------------
(* New channels and threads: ids are fresh.                                  *)

Fresh(c) ==
  c \notin created /\ \A q \in Request : stage[q] \in {"threading", "creating"} => target[q] # c

AskThread(q, a, t) ==
  /\ t \in Thread /\ Fresh(t)
  /\ Admits(a, ParentOf[t])
  /\ Begin(q, None, t, None, "threading")
  /\ UNCHANGED order

\* The parent may have been deleted meanwhile.  The foreign keys wait for its
\* lock and the server's.
InsertThread(q) ==
  /\ Ready(q, "threading") /\ Unlocked(Server) /\ Unlocked(ParentOf[target[q]])
  /\ created' = created \cup {target[q]}
  /\ End(q)
  /\ UNCHANGED <<serverVisibility, override, restricted, deleted, eligible, grants, orderVars>>

AskChannel(q, c) ==
  /\ Managers # {} /\ c \in Top /\ Fresh(c)
  /\ Cardinality((created \ deleted) \cap Top) < MaxChannels
  /\ Begin(q, None, c, None, "creating")
  /\ UNCHANGED order

InsertChannel(q) ==
  /\ Ready(q, "creating") /\ Unlocked(Server)
  /\ created' = created \cup {target[q]}
  /\ End(q)
  /\ UNCHANGED <<serverVisibility, override, restricted, deleted, eligible, grants, orderVars>>

-----------------------------------------------------------------------------
(* reorder_channels: one UPDATE per channel, in the order asked for.         *)

\* The restricted channels must be visible to the caller.
MayOrder(a, listed) ==
  Bypasses(a) \/ \A c \in listed : restricted[c] => grants[c] \cap RolesHeld(a) # {}

AskOrder(q, a, s) ==
  LET listed == (created \ deleted) \cap Top
  IN /\ a \in Managers
     /\ {s[i] : i \in DOMAIN s} = listed /\ s # <<>>
     /\ MayOrder(a, listed)
     /\ Begin(q, a, None, None, "ordering")
     /\ order' = [order EXCEPT ![q] = s]

Placed(q) == Cardinality({c \in Top : lock[c] = q})

Following(q) == order[q][Placed(q) + 1]

Placing(q) ==
  /\ Ready(q, "ordering") \/ stage[q] = "placing"
  /\ Placed(q) < Len(order[q])

Place(q) ==
  /\ Placing(q) /\ Unlocked(Following(q)) /\ Following(q) \notin deleted
  /\ position' = [position EXCEPT ![Following(q)] = Placed(q)]
  /\ before' = [before EXCEPT ![q] =
       [c \in Top |-> IF c = Following(q) THEN position[c] ELSE before[q][c]]]
  /\ Hold(q, {Following(q)}) /\ Advance(q, "placing")
  /\ UNCHANGED <<lifecycleVars, grants, lastOrder, connected, argVars, seenVars, calls>>

\* A channel deleted since the list was read takes the whole order back.
PlaceFails(q) ==
  /\ Placing(q) /\ Unlocked(Following(q)) /\ Following(q) \in deleted
  /\ Abort(q)

\* Requests each waiting for a row that another of them holds: the database
\* fails one.
Deadlocked(q) ==
  \E S \in SUBSET Request :
    /\ q \in S
    /\ \A p \in S : Placing(p) /\ lock[Following(p)] \in S

BreakDeadlock(q) == Deadlocked(q) /\ Abort(q)

CommitOrder(q) ==
  /\ stage[q] = "placing" /\ Placed(q) = Len(order[q])
  /\ lastOrder' = order[q]
  /\ End(q)
  /\ UNCHANGED <<lifecycleVars, grants, position>>

-----------------------------------------------------------------------------

\* The client goes away, or the database: the handler is dropped.
HangUp(q) == stage[q] # "idle" /\ Abort(q)

Call(q) ==
  \/ \E c \in Channel :
       \/ \E a \in Account : AskDelete(q, a, c) \/ AskThread(q, a, c)
       \/ \E v \in Override : AskVisibility(q, c, v)
       \/ \E b \in {"restricted", "open"} : AskRestricted(q, c, b)
       \/ \E r \in Role, viewing \in BOOLEAN : SetGrant(q, c, r, viewing)
       \/ AskChannel(q, c)
  \/ \E v \in Visibility : AskServerVisibility(q, v)
  \/ \E a \in Account, s \in Order : AskOrder(q, a, s)

Deletion(q) ==
  \/ LockServer(q) \/ LockParent(q) \/ LockTarget(q) \/ FindDeleted(q)
  \/ CheckAccess(q) \/ AccessDenied(q) \/ LockDescendants(q) \/ CommitDelete(q)

Step(q) ==
  \/ Connect(q) \/ PoolTimeout(q)
  \/ Deletion(q)
  \/ WriteVisibility(q) \/ WriteServerVisibility(q) \/ WriteRestricted(q)
  \/ InsertThread(q) \/ InsertChannel(q)
  \/ Place(q) \/ PlaceFails(q) \/ BreakDeadlock(q) \/ CommitOrder(q)

Next == \E q \in Request : Call(q) \/ Step(q) \/ HangUp(q)

Spec == Init /\ [][Next]_vars

\* The runtime polls every handler, and the database grants the locks it can.
FairSpec == Spec /\ \A q \in Request : WF_vars(Step(q))

-----------------------------------------------------------------------------

Stage ==
  Waiting \cup {"idle", "server_locked", "parent_locked", "target_locked", "admitted",
                "family_locked", "placing"}

\* Types.
TypeOK ==
  /\ serverVisibility \in Visibility
  /\ override \in [Channel -> Override]
  /\ restricted \in [Top -> BOOLEAN]
  /\ created \in SUBSET Channel /\ deleted \in SUBSET created
  /\ eligible \in [Channel -> BOOLEAN \cup {None}]
  /\ grants \in [Top -> SUBSET Role]
  /\ position \in [Top -> Nat \cup {None}]
  /\ lock \in [Row -> Request \cup {None}]
  /\ connected \in SUBSET Request
  /\ stage \in [Request -> Stage]
  /\ actor \in [Request -> Account \cup {None}]
  /\ target \in [Request -> Channel \cup {None}]
  /\ wish \in [Request -> Override \cup {"restricted", "open"}]
  /\ order \in [Request -> Order]
  /\ seenServer \in [Request -> Override]
  /\ seenOverride \in [Request -> [Channel -> Override]]
  /\ seenRestricted \in [Request -> [Top -> BOOLEAN]]
  /\ before \in [Request -> [Top -> Nat \cup {None}]]
  /\ calls \in 0..MaxCalls
  /\ lastOrder \in Order

\* The transaction of delete_channel amounts to one step: nothing it has read
\* under its locks (service.rs:756-796) has changed when it commits.
RemovalIsAtomic == Lifecycle!Spec

\* A thread of the sitemap that is removed, itself or with its channel,
\* answers 410 from then on, whatever becomes of the server; and a thread that
\* answers 404 never comes to answer 410 (get_public_thread).
TombstonesTell ==
  [][\A t \in Thread :
       /\ t \in PublicThreads /\ ~Live(t)' => PublicThread(t)' = "gone"
       /\ PublicThread(t) = "gone" => PublicThread(t)' = "gone"
       /\ PublicThread(t) = "not_found" => PublicThread(t)' # "gone"]_vars

\* The channels no reorder is at work on stand where the last committed order
\* put them: orders are taken over whole or not at all.
OrderIsWhole ==
  \A i \in DOMAIN lastOrder :
    \/ position[lastOrder[i]] = i - 1
    \/ \E q \in Request : stage[q] = "placing" /\ lock[lastOrder[i]] = q

\* Requests come to an end, though deletions hold one connection of the pool
\* and ask it for another (service.rs:777), and reorders lock the same rows in
\* different orders: with MaxCalls of them, all are over in the end.
RequestsEnd == []<>(\A q \in Request : stage[q] = "idle")
=============================================================================
