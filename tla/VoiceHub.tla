------------------------------ MODULE VoiceHub ------------------------------
(***************************************************************************)
(* The in-process hub of the realtime crate: the registry of live sockets, *)
(* the voice rooms, and the tasks that change them.                        *)
(*                                                                         *)
(* One gateway task per socket handles that socket's frames one at a time  *)
(* (api/src/gateway.rs).  Request tasks remove a member from a server or   *)
(* time it out and then evict it from its call (api/src/handlers.rs), and  *)
(* may be broken off at any await in between: the server drops a handler   *)
(* whose client is gone.                                                   *)
(* Every section of realtime/src/hub.rs under one lock is one step, and so *)
(* is every awaited database read: steps of other tasks come in between.   *)
(*                                                                         *)
(* An observer is a member that may see every channel and stays connected: *)
(* roster and net are what the frames it received add up to.  The query    *)
(* that resolves a frame's recipients is taken to succeed: when it fails   *)
(* the frame is dropped, best effort by the code's own account.            *)
(***************************************************************************)
EXTENDS Integers, FiniteSets

CONSTANTS
  Account,
  Conn,       \* the ConnectionHandles, each given out by one register call
  Channel,    \* the voice channels
  Server,
  Request,    \* the moderation requests (kick, ban, leave, timeout)
  Owner,      \* Owner[h]: the account whose socket h is
  Target,     \* Target[r]: the account request r is about
  Scope,      \* Scope[r]: the server request r is made on
  ServerOf,   \* ServerOf[c]: the server of channel c
  Restrictable, \* bound: the channels whose visibility changes
  ManyTabs,   \* whether an account may have two sockets open at once
  NoConn,
  NoChannel

ASSUME ConstantsAssumption ==
  /\ IsFiniteSet(Conn)
  /\ Owner \in [Conn -> Account]
  /\ ServerOf \in [Channel -> Server]
  /\ Target \in [Request -> Account]
  /\ Scope \in [Request -> Server]
  /\ Restrictable \subseteq Channel
  /\ ManyTabs \in BOOLEAN
  /\ NoConn \notin Conn
  /\ NoChannel \notin Channel

VARIABLES
  connections, \* connections[a]: the registered sockets of account a
  voice,       \* voice[c][a]: the socket holding a's place in c's call
  at,          \* at[h]: where the gateway task of socket h is
  joining,     \* joining[h]: the channel whose call it is joining
  left,        \* left[h]: the channel it has left and not yet announced
  stage,       \* stage[r]: where moderation request r is
  found,       \* found[r]: the channel voice_channel_of gave it
  members,     \* members[s]: the membership rows of server s
  timedOut,    \* timedOut[s]: members whose timeout has not passed
  live,        \* the channels not deleted
  hidden,      \* <<a, c>>: c is restricted and a holds no VIEW_CHANNEL on it
  roster,      \* roster[c]: who is in c's call, going by the frames received
  net,         \* net[a]: online frames minus offline frames received
  raced,       \* history: <<a, c>> entered after the place there was forfeited
  brokenOff    \* history: <<a, s>> whose eviction was broken off, and none begun since

hubVars == <<connections, voice>>
taskVars == <<at, joining, left>>
requestVars == <<stage, found, brokenOff>>
dbVars == <<members, timedOut, live, hidden>>
observerVars == <<roster, net>>
vars == <<hubVars, taskVars, requestVars, dbVars, observerVars, raced>>

TaskState ==
  {"unopened", "going_online", "ready", "authorized", "moving", "entered",
   "hung_up", "closing", "going_offline", "closed"}

RequestState ==
  {"idle", "silenced", "evicting", "found", "confirmed", "unconfirmed", "removed", "done"}

-----------------------------------------------------------------------------

\* The calls a is in through one of the sockets hs.
Held(a, hs) == {c \in Channel : voice[c][a] \in hs}

InCall(a, c) == voice[c][a] # NoConn

Open(h) == at[h] \notin {"unopened", "closed"}

\* A member with no timeout: what a kick, a ban, a leave or a timeout takes away.
InGoodStanding(a, s) == a \in members[s] \ timedOut[s]

\* can_join_voice: a live channel of a server joined, shown to the account if it
\* is restricted, and no timeout.
CanJoinVoice(a, c) ==
  /\ c \in live
  /\ <<a, c>> \notin hidden
  /\ InGoodStanding(a, ServerOf[c])

\* The frame reaches the observer: publish finds nobody for a deleted channel.
Announce(c, there) ==
  roster' = IF c \in live THEN [roster EXCEPT ![c] = there] ELSE roster

Init ==
  /\ connections = [a \in Account |-> {}]
  /\ voice = [c \in Channel |-> [a \in Account |-> NoConn]]
  /\ at = [h \in Conn |-> "unopened"]
  /\ joining = [h \in Conn |-> NoChannel]
  /\ left = [h \in Conn |-> NoChannel]
  /\ stage = [r \in Request |-> "idle"]
  /\ found = [r \in Request |-> NoChannel]
  /\ members = [s \in Server |-> Account]
  /\ timedOut = [s \in Server |-> {}]
  /\ live = Channel
  /\ hidden = {}
  /\ roster = [c \in Channel |-> {}]
  /\ net = [a \in Account |-> 0]
  /\ raced = {}
  /\ brokenOff = {}

-----------------------------------------------------------------------------
(* The gateway task of one socket.  A definition commented as a slip is no   *)
(* part of Next: it is a bug that one of the properties must notice when it   *)
(* takes the place of the definition after it.                               *)

\* Slip: every socket announces its account online.
RegisterEveryOnline(h) ==
  LET a == Owner[h] IN
  /\ at[h] = "unopened"
  /\ ManyTabs \/ \A k \in Conn : Owner[k] = a => ~Open(k)
  /\ connections' = [connections EXCEPT ![a] = @ \cup {h}]
  /\ at' = [at EXCEPT ![h] = "going_online"]
  /\ UNCHANGED <<voice, joining, left, requestVars, dbVars, observerVars, raced>>

\* Hub::register, up to the end of its write-lock section.
Register(h) ==
  LET a == Owner[h] IN
  /\ at[h] = "unopened"
  /\ ManyTabs \/ \A k \in Conn : Owner[k] = a => ~Open(k)
  /\ connections' = [connections EXCEPT ![a] = @ \cup {h}]
  /\ at' = [at EXCEPT ![h] = IF connections[a] = {} THEN "going_online" ELSE "ready"]
  /\ UNCHANGED <<voice, joining, left, requestVars, dbVars, observerVars, raced>>

\* publish_presence(Online), after the lock.
PublishOnline(h) ==
  /\ at[h] = "going_online"
  /\ net' = [net EXCEPT ![Owner[h]] = @ + 1]
  /\ at' = [at EXCEPT ![h] = "ready"]
  /\ UNCHANGED <<hubVars, joining, left, requestVars, dbVars, roster, raced>>

\* A voice.join frame passes its authorization read.
AuthorizeJoin(h, c) ==
  /\ at[h] = "ready"
  /\ CanJoinVoice(Owner[h], c)
  /\ at' = [at EXCEPT ![h] = "authorized"]
  /\ joining' = [joining EXCEPT ![h] = c]
  /\ UNCHANGED <<hubVars, left, requestVars, dbVars, observerVars, raced>>

\* The lock section of voice_leave(account, only_handle), hs being Conn when
\* only_handle is None: the first matching room, in no particular order.
VoiceLeave(h, hs, next) ==
  LET a == Owner[h] IN
  \/ /\ Held(a, hs) = {}
     /\ at' = [at EXCEPT ![h] = next]
     /\ UNCHANGED <<voice, left>>
  \/ \E c \in Held(a, hs) :
       /\ voice' = [voice EXCEPT ![c][a] = NoConn]
       /\ at' = [at EXCEPT ![h] = next]
       /\ left' = [left EXCEPT ![h] = c]

\* Slip: entering a call without leaving the one before.
LeaveFirstNot(h) ==
  /\ at[h] = "authorized"
  /\ at' = [at EXCEPT ![h] = "moving"]
  /\ UNCHANGED <<hubVars, joining, left, requestVars, dbVars, observerVars, raced>>

\* voice_join first leaves whatever call the account is in ...
LeaveFirst(h) ==
  /\ at[h] = "authorized"
  /\ VoiceLeave(h, Conn, "moving")
  /\ UNCHANGED <<connections, joining, requestVars, dbVars, observerVars, raced>>

\* ... and then, in a lock section of its own, enters the new one.
Enter(h) ==
  LET a == Owner[h]
      c == joining[h]
  IN
  /\ at[h] = "moving"
  /\ left[h] = NoChannel
  /\ voice' = [voice EXCEPT ![c][a] = h]
  /\ at' = [at EXCEPT ![h] = "entered"]
  /\ raced' = IF InGoodStanding(a, ServerOf[c]) THEN raced \ {<<a, c>>}
                                                ELSE raced \cup {<<a, c>>}
  /\ UNCHANGED <<connections, joining, left, requestVars, dbVars, observerVars>>

AnnounceJoin(h) ==
  LET c == joining[h] IN
  /\ at[h] = "entered"
  /\ Announce(c, roster[c] \cup {Owner[h]})
  /\ at' = [at EXCEPT ![h] = "ready"]
  /\ joining' = [joining EXCEPT ![h] = NoChannel]
  /\ UNCHANGED <<hubVars, left, requestVars, dbVars, net, raced>>

\* Slip: leaving is not announced.
HangUpSilently(h) ==
  /\ at[h] = "ready"
  /\ \E c \in Held(Owner[h], Conn) :
       voice' = [voice EXCEPT ![c][Owner[h]] = NoConn]
  /\ UNCHANGED <<connections, taskVars, requestVars, dbVars, observerVars, raced>>

\* A voice.leave frame; with no call to leave the frame changes nothing.
HangUp(h) ==
  /\ at[h] = "ready"
  /\ Held(Owner[h], Conn) # {}
  /\ VoiceLeave(h, Conn, "hung_up")
  /\ UNCHANGED <<connections, joining, requestVars, dbVars, observerVars, raced>>

\* announce_voice_leave, awaited before the task goes on.
AnnounceLeave(h) ==
  LET c == left[h] IN
  /\ c # NoChannel
  /\ Announce(c, roster[c] \ {Owner[h]})
  /\ left' = [left EXCEPT ![h] = NoChannel]
  /\ at' = [at EXCEPT ![h] = IF @ = "hung_up" THEN "ready" ELSE @]
  /\ UNCHANGED <<hubVars, joining, requestVars, dbVars, net, raced>>

\* Slip: a closing socket stays in its call.
CloseInCall(h) ==
  /\ at[h] = "ready"
  /\ at' = [at EXCEPT ![h] = "closing"]
  /\ UNCHANGED <<hubVars, joining, left, requestVars, dbVars, observerVars, raced>>

\* Slip: a closing socket ends the account's call, whichever socket holds it.
CloseAnyCall(h) ==
  /\ at[h] = "ready"
  /\ VoiceLeave(h, Conn, "closing")
  /\ UNCHANGED <<connections, joining, requestVars, dbVars, observerVars, raced>>

\* The socket is gone: unregister first leaves the call this socket holds ...
Close(h) ==
  /\ at[h] = "ready"
  /\ VoiceLeave(h, {h}, "closing")
  /\ UNCHANGED <<connections, joining, requestVars, dbVars, observerVars, raced>>

\* Slip: the registry keeps the closed socket instead of the others.
DeregisterOthers(h) ==
  LET a == Owner[h] IN
  /\ at[h] = "closing"
  /\ left[h] = NoChannel
  /\ connections' = [connections EXCEPT ![a] = @ \cap {h}]
  /\ at' = [at EXCEPT ![h] = "closed"]
  /\ UNCHANGED <<voice, joining, left, requestVars, dbVars, observerVars, raced>>

\* ... and then drops the socket from the registry.
Deregister(h) ==
  LET a == Owner[h] IN
  /\ at[h] = "closing"
  /\ left[h] = NoChannel
  /\ connections' = [connections EXCEPT ![a] = @ \ {h}]
  /\ at' = [at EXCEPT ![h] = IF connections[a] \ {h} = {} THEN "going_offline" ELSE "closed"]
  /\ UNCHANGED <<voice, joining, left, requestVars, dbVars, observerVars, raced>>

PublishOffline(h) ==
  /\ at[h] = "going_offline"
  /\ net' = [net EXCEPT ![Owner[h]] = @ - 1]
  /\ at' = [at EXCEPT ![h] = "closed"]
  /\ UNCHANGED <<hubVars, joining, left, requestVars, dbVars, roster, raced>>

-----------------------------------------------------------------------------
(* Moderation requests, and the rest of what changes the database. *)

\* kick_member, ban_member, leave_server: the membership row is deleted.
RemoveMember(r) ==
  LET a == Target[r]
      s == Scope[r]
  IN
  /\ stage[r] \in {"idle", "done"}
  /\ a \in members[s]
  /\ members' = [members EXCEPT ![s] = @ \ {a}]
  /\ timedOut' = [timedOut EXCEPT ![s] = @ \ {a}]
  /\ stage' = [stage EXCEPT ![r] = "evicting"]
  /\ brokenOff' = brokenOff \ {<<a, s>>}
  /\ UNCHANGED <<hubVars, taskVars, found, live, hidden, observerVars, raced>>

\* timeout_member with a moment still to come.
TimeoutMember(r) ==
  LET a == Target[r]
      s == Scope[r]
  IN
  /\ stage[r] \in {"idle", "done"}
  /\ a \in members[s]
  /\ timedOut' = [timedOut EXCEPT ![s] = @ \cup {a}]
  /\ stage' = [stage EXCEPT ![r] = "silenced"]
  /\ brokenOff' = brokenOff \ {<<a, s>>}
  /\ UNCHANGED <<hubVars, taskVars, found, members, live, hidden, observerVars, raced>>

\* publish_member_timeout_update: nobody is evicted for a timeout over already.
CheckUntil(r) ==
  /\ stage[r] = "silenced"
  /\ \/ stage' = [stage EXCEPT ![r] = "evicting"]
     \/ /\ Target[r] \notin timedOut[Scope[r]]
        /\ stage' = [stage EXCEPT ![r] = "done"]
  /\ UNCHANGED <<hubVars, taskVars, found, brokenOff, dbVars, observerVars, raced>>

\* voice_leave_if_in_server: voice_channel_of, under the read lock.
FindCall(r) ==
  LET calls == Held(Target[r], Conn) IN
  /\ stage[r] = "evicting"
  /\ \/ /\ calls = {}
        /\ stage' = [stage EXCEPT ![r] = "done"]
        /\ UNCHANGED found
     \/ \E c \in calls :
          /\ stage' = [stage EXCEPT ![r] = "found"]
          /\ found' = [found EXCEPT ![r] = c]
  /\ UNCHANGED <<hubVars, taskVars, brokenOff, dbVars, observerVars, raced>>

\* channel_belongs_to_server answers: a deleted channel belongs to no server.
ConfirmServer(r) ==
  LET c == found[r]
      inServer == c \in live /\ ServerOf[c] = Scope[r]
  IN
  /\ stage[r] = "found"
  /\ stage' = [stage EXCEPT ![r] = IF inServer THEN "confirmed" ELSE "done"]
  /\ UNCHANGED <<hubVars, taskVars, found, brokenOff, dbVars, observerVars, raced>>

\* Slip: a failed query is taken for a no.
ConfirmFailsOpen(r) ==
  /\ stage[r] = "found"
  /\ stage' = [stage EXCEPT ![r] = "done"]
  /\ UNCHANGED <<hubVars, taskVars, found, brokenOff, dbVars, observerVars, raced>>

\* The query fails, and the eviction goes on all the same.
ConfirmFails(r) ==
  /\ stage[r] = "found"
  /\ stage' = [stage EXCEPT ![r] = "unconfirmed"]
  /\ UNCHANGED <<hubVars, taskVars, found, brokenOff, dbVars, observerVars, raced>>

\* Slip: the eviction ends whatever call the account is in by now.
LeaveAnyChannel(r) ==
  LET calls == Held(Target[r], Conn) IN
  /\ stage[r] \in {"confirmed", "unconfirmed"}
  /\ \/ calls = {} /\ voice' = voice
     \/ \E c \in calls : voice' = [voice EXCEPT ![c][Target[r]] = NoConn]
  /\ stage' = [stage EXCEPT ![r] = IF calls = {} THEN "done" ELSE "removed"]
  /\ UNCHANGED <<connections, taskVars, found, brokenOff, dbVars, observerVars, raced>>

\* voice_leave_from_channel: the account leaves this very call, or none.
LeaveFromChannel(r) ==
  LET a == Target[r]
      c == found[r]
  IN
  /\ stage[r] \in {"confirmed", "unconfirmed"}
  /\ voice' = [voice EXCEPT ![c][a] = NoConn]
  /\ stage' = [stage EXCEPT ![r] = IF InCall(a, c) THEN "removed" ELSE "done"]
  /\ UNCHANGED <<connections, taskVars, found, brokenOff, dbVars, observerVars, raced>>

AnnounceEviction(r) ==
  LET c == found[r] IN
  /\ stage[r] = "removed"
  /\ Announce(c, roster[c] \ {Target[r]})
  /\ stage' = [stage EXCEPT ![r] = "done"]
  /\ UNCHANGED <<hubVars, taskVars, found, brokenOff, dbVars, net, raced>>

\* The moderator's client is gone: the handler is dropped at the await it is in,
\* and with it what it had still to do, the eviction or only its announcement.
BreakOff(r) ==
  /\ stage[r] \notin {"idle", "done"}
  /\ stage' = [stage EXCEPT ![r] = "done"]
  /\ brokenOff' = IF stage[r] = "removed" THEN brokenOff
                  ELSE brokenOff \cup {<<Target[r], Scope[r]>>}
  /\ UNCHANGED <<hubVars, taskVars, found, dbVars, observerVars, raced>>

\* join_via_invite.
Rejoin(a, s) ==
  /\ a \notin members[s]
  /\ members' = [members EXCEPT ![s] = @ \cup {a}]
  /\ UNCHANGED <<hubVars, taskVars, requestVars, timedOut, live, hidden, observerVars, raced>>

\* The timeout passes, or a moderator clears it.
EndTimeout(a, s) ==
  /\ a \in timedOut[s]
  /\ timedOut' = [timedOut EXCEPT ![s] = @ \ {a}]
  /\ UNCHANGED <<hubVars, taskVars, requestVars, members, live, hidden, observerVars, raced>>

\* delete_channel: the row goes, whoever is in the call stays in it.
DeleteChannel(c) ==
  /\ c \in live
  /\ live' = live \ {c}
  /\ UNCHANGED <<hubVars, taskVars, requestVars, members, timedOut, hidden, observerVars, raced>>

\* The channel is restricted or opened, or a VIEW_CHANNEL grant of one of the
\* account's roles comes or goes.  Nobody leaves a call for it.
ChangeView(a, c) ==
  /\ \/ hidden' = hidden \cup {<<a, c>>}
     \/ hidden' = hidden \ {<<a, c>>}
  /\ UNCHANGED <<hubVars, taskVars, requestVars, members, timedOut, live, observerVars, raced>>

-----------------------------------------------------------------------------

\* What a running gateway task does without waiting for its client.
GatewayStep(h) ==
  \/ PublishOnline(h) \/ LeaveFirst(h) \/ Enter(h) \/ AnnounceJoin(h)
  \/ AnnounceLeave(h) \/ Deregister(h) \/ PublishOffline(h)

ClientStep(h) ==
  \/ Register(h) \/ HangUp(h) \/ Close(h)
  \/ \E c \in Channel : AuthorizeJoin(h, c)

\* What a moderation request does once it has changed the database.
EvictionStep(r) ==
  \/ CheckUntil(r) \/ FindCall(r) \/ ConfirmServer(r) \/ ConfirmFails(r)
  \/ LeaveFromChannel(r) \/ AnnounceEviction(r)

ModerationStep(r) == RemoveMember(r) \/ TimeoutMember(r)

DatabaseStep ==
  \/ \E a \in Account, s \in Server : Rejoin(a, s) \/ EndTimeout(a, s)
  \/ \E c \in Channel : DeleteChannel(c)
  \/ \E a \in Account, c \in Restrictable : ChangeView(a, c)

Next ==
  \/ \E h \in Conn : GatewayStep(h) \/ ClientStep(h)
  \/ \E r \in Request : EvictionStep(r) \/ BreakOff(r) \/ ModerationStep(r)
  \/ DatabaseStep

Spec == Init /\ [][Next]_vars

\* tokio runs every task that can go on, and no query waits for ever.  A gateway
\* task is spawned and nobody's to drop; a moderation handler is not, and so has
\* no fairness.
Fairness == \A h \in Conn : WF_vars(GatewayStep(h))

FairSpec == Spec /\ Fairness

-----------------------------------------------------------------------------
(* Properties. *)

\* Every variable holds a value of its type.
TypeOK ==
  /\ connections \in [Account -> SUBSET Conn]
  /\ voice \in [Channel -> [Account -> Conn \cup {NoConn}]]
  /\ at \in [Conn -> TaskState]
  /\ joining \in [Conn -> Channel \cup {NoChannel}]
  /\ left \in [Conn -> Channel \cup {NoChannel}]
  /\ \A h \in Conn :
       at[h] \in {"authorized", "moving", "entered"} => joining[h] \in Channel
  /\ stage \in [Request -> RequestState]
  /\ found \in [Request -> Channel \cup {NoChannel}]
  /\ \A r \in Request :
       stage[r] \notin {"idle", "silenced", "evicting", "done"} => found[r] \in Channel
  /\ members \in [Server -> SUBSET Account]
  /\ timedOut \in [Server -> SUBSET Account]
  /\ live \subseteq Channel
  /\ hidden \subseteq Account \X Channel
  /\ roster \in [Channel -> SUBSET Account]
  /\ net \in [Account -> Int]
  /\ raced \subseteq Account \X Channel
  /\ brokenOff \subseteq Account \X Server

\* No ghost participant: a place in a call is held by a socket its account
\* still has registered (hub.rs, unregister: "closing a tab mid-call leaves a
\* ghost participant").  Holds while an account has one socket open at a time.
NoGhost ==
  \A c \in Channel, a \in Account :
    InCall(a, c) => voice[c][a] \in connections[a]

\* The places of an account in calls, each with the socket that holds it.
Places == [a \in Account |-> {<<c, voice[c][a]>> : c \in {d \in Channel : InCall(a, d)}}]

Calls == INSTANCE Calls WITH sockets <- connections, place <- Places

\* While an account has one socket open at a time, the hub's lock sections,
\* however tasks interleave between them, add up to the calls of Calls: an
\* account is in one call at most, holds it through the socket it has
\* registered, and leaves it before it enters another and before that socket
\* is dropped (hub.rs, voice_join and unregister).
HubKeepsCalls == Calls!Spec

Quiet ==
  /\ \A h \in Conn : at[h] \in {"unopened", "ready", "closed"}
  /\ \A r \in Request : stage[r] \in {"idle", "done"}

\* Once nothing is in flight, the joins and leaves an observer has received
\* add up to the calls as they are, as long as nobody has been evicted: the
\* announcements follow each lock section and may not overtake one another.
ObserverConverges ==
  Quiet /\ (\A r \in Request : stage[r] = "idle") =>
    \A c \in live : roster[c] = {a \in Account : InCall(a, c)}

\* An account that forfeited its place in a server's calls, by removal or by
\* timeout, is in none of them once nothing is in flight, whatever the reads of
\* the eviction returned, but for two windows: it was authorized before it lost
\* the right and entered after, or the handler that was to evict it was dropped
\* first and nobody has moderated the account since (hub.rs,
\* voice_leave_if_in_server).  An eviction that runs to its end, its query failed
\* or not, leaves no other.
OnlyRacedJoinsSurvive ==
  Quiet =>
    \A c \in live, a \in Account :
      InCall(a, c) /\ ~InGoodStanding(a, ServerOf[c]) =>
        <<a, c>> \in raced \/ <<a, ServerOf[c]>> \in brokenOff

\* What voice_leave_if_in_server says of itself: once a removal or a timeout
\* has run its course, the account is out of that server's calls.
EvictedOutOfCalls ==
  Quiet =>
    \A c \in live, a \in Account :
      InCall(a, c) /\ <<a, ServerOf[c]>> \notin brokenOff => InGoodStanding(a, ServerOf[c])

\* The sockets whose frame about a is still to be published.
ComingOnline(a) == {h \in Conn : Owner[h] = a /\ at[h] = "going_online"}
GoingOffline(a) == {h \in Conn : Owner[h] = a /\ at[h] = "going_offline"}

\* Online and offline frames pair up with the sockets, whatever the order in
\* which concurrent register and unregister publish them: counting those on
\* their way, an account with a socket is one online frame ahead, and one with
\* none is even.  A second tab closing sends no offline frame.
PresenceBalanced ==
  \A a \in Account :
    net[a] + Cardinality(ComingOnline(a)) - Cardinality(GoingOffline(a))
      = IF connections[a] = {} THEN 0 ELSE 1

\* An eviction for one server never ends a call on another, however the
\* account moves between the reads (hub.rs, voice_leave_from_channel), unless
\* the query that was to tell them apart failed.
EvictionIsScoped ==
  \A r \in Request, c \in Channel, a \in Account :
    /\ stage[r] = "confirmed" /\ stage'[r] # "confirmed"
    /\ InCall(a, c) /\ ~InCall(a, c)'
    => a = Target[r] /\ ServerOf[c] = Scope[r]

EvictionsAreScoped == [][EvictionIsScoped]_vars

\* A socket that closes ends no call held by another socket of its account
\* (hub.rs, voice_leave: "closing a second tab cannot hang up the tab holding
\* the call").
CloseKeepsOtherCalls ==
  \A h \in Conn, c \in Channel, a \in Account :
    at[h] = "ready" /\ at'[h] = "closing" /\ voice[c][a] # h
      => voice'[c][a] = voice[c][a]

ClosingKeepsOtherCalls == [][CloseKeepsOtherCalls]_vars

\* A socket that is gone is in the end neither registered nor in a call.
ClosedSocketsLeave ==
  \A h \in Conn :
    at[h] = "closing" ~>
      /\ h \notin connections[Owner[h]]
      /\ \A c \in Channel : voice[c][Owner[h]] # h
=============================================================================
