# A TLA+ model of r4chii-backend

r4chii-backend is the server of a chat application: accounts, servers with
channels and roles, messages, direct messages and voice calls. It is one Rust
process (axum on tokio) in front of Postgres. Two things make it hard to get
right and are what this project is about:

- **tasks that interleave at every `await`.** A socket's gateway task, an HTTP
  request and an eviction read shared state, wait, and act on what they read;
- **transactions that interleave at every statement.** sqlx runs Postgres at
  its default level, READ COMMITTED: a check in one statement says nothing about
  the next one unless a row lock or a constraint holds it.

Paths below are relative to `src/crates/`.

## The parts of the system

| part | code | state it keeps | operations | modelled in |
|---|---|---|---|---|
| voice calls, sockets, presence | `realtime/src/hub.rs`, `api/src/gateway.rs`, moderation handlers of `api/src/handlers.rs` | `Inner.connections`, `Inner.voice`, under one `RwLock` | register, unregister, voice_join, voice_leave, evictions | `Calls`, `VoiceHub` |
| registration by mailed code | `auth/src/service.rs`, `auth/src/verification.rs` | tables `pending_registration`, `account` | register, resend, verify, rename | `Claims`, `Registration` |
| sessions, login lockout | `auth/src/service.rs` | `session`, `account.failed_login_attempts`, `locked_until` | login, verify_session, revoke_session, revoke_all_sessions | `Sessions` |
| membership, bans, timeouts | `domain/src/service.rs`, `db/src/server_role.rs` | `membership`, `server_ban`, `server` | join_via_invite, leave, kick, ban, unban, timeout, delete_server | `Membership` |
| roles, permissions, hierarchy | `domain/src/service.rs`, `domain/src/permissions.rs` | `server_role`, `membership_role` | create, update, delete, reorder, set_member_roles | `Roles` |
| channels, visibility, tombstones | `domain/src/service.rs`, `db/src/channel.rs` | `channel`, `server.visibility`, grants, the pool of connections | create, thread, delete, reorder, visibility, restriction, grants, and the lists made of who sees what | `Containment`, `Lifecycle`, `Channels`, `Lists` |
| friendships, blocks, direct messages | `domain/src/service.rs`, `db/src/{friendship,block,dm,lock}.rs` | `friendship`, `account_block`, direct channels, advisory locks | request, accept, remove, block, unblock, create_dm, send | `Social` |
| what a profile shows | `domain/src/profile_visibility.rs`, `api/src/dto.rs` | none | decide, build | `Profiles`, inside `Social` |
| messages, pins, search, paging | `domain/src/service.rs`, `db/src/message.rs`, `realtime/src/publish.rs` | `message` | send, edit, delete, pin, unpin, announce, read pages | `Messages` |
| exports | `domain/src/service.rs`, `db/src/export.rs`, `server/src/lib.rs` | `export_job` | request, claim, dump, finish, fail | `Exports`, on top of `Messages` |
| TURN credential cache; validation; media; HTTP, DTOs, mailer, start-up | see `PROJECT.json` | | | no, see *Not modelled* |

How they interact. A gateway task asks the domain service whether an account may
join a call (`can_join_voice`) and then tells the hub; a moderation request
changes membership or a timeout in the database and then asks the hub to evict;
the hub asks the domain service who may see a channel before it announces, and
which server a channel belongs to before it evicts: `VoiceHub` has the hub with
the database's changes as steps of its own. Registration and login share the
`account` table, but registration inserts the row that login reads and neither
changes what the other relies on, so each has a module. Membership, roles and
channels read each other's tables. Each module fixes what it only reads:
`Membership` takes a role to be a position, and to change in one step, `Roles` and
`Channels` keep the members, `Messages` takes a channel that is not restricted. `Exports` EXTENDS
`Messages`, for what a dump holds depends on what is written while it is taken;
`Social` EXTENDS `Profiles`, for the facts a profile is decided by are its state;
`Channels` and `Lifecycle` share `Containment`; and `Lists` EXTENDS `Channels`, for a
list is read beside everything that happens to the channels.

Three parts have an abstract specification of what they promise, and the detailed
module is shown to implement it, by TLC on the run's instance and by `tlapm` for
every one:

| abstract | detailed | through | property | theorem |
|---|---|---|---|---|
| `Calls`: a socket comes, enters a call, leaves it, goes | `VoiceHub`, one open socket per account | `sockets <- connections`, `place <- Places` | `HubKeepsCalls` | `ImplementsCalls` |
| `Claims`: a claim on a name is made, renewed, guessed at, proven | `Registration` | `claim <- pending`, the committed rows | `RequestsAreSerial` | `ImplementsClaims` |
| `Lifecycle`: a channel is removed with what it leaves behind | `Channels` | the six variables they share | `RemovalIsAtomic` | `RemovalCorrect` |

What is hard, and what makes each part correct:

- **calls**: joins are two lock sections with an announcement awaited between
  them; authorization and eviction straddle awaits, and the handler that evicts is
  dropped when its client goes away. Correct: nobody stays in a
  call without a socket; one call per account; a removed member is out; an
  eviction touches only its own server's call; what observers were told adds up
  to what is; presence frames balance.
- **registration**: the checks come before the locks; the mail is sent before the
  commit; codes rotate while others are being guessed. Correct: a claim is not
  taken over; the attempts limit holds under concurrency; an account is made only
  by the code its row holds; a stored code was mailed; expired rows strand no
  name; two mails are a cooldown apart.
- **sessions**: whether an account is locked is read before the password is hashed
  and used after; the cap is counted and then filled; a verification reads a
  session and later touches it by id. Correct: the cap holds, no failure is lost,
  only a login that read the account before a lock gets past it, or lifts or shortens
  it, and the dead stay dead.
- **membership**: a ban is an insert and a removal, a join a check and an insert,
  and who hears of a removal is resolved before it. Correct: nobody is banned and
  a member but through that race; removals are heard; rank, which may change between
  the comparison and the removal, is respected as of the comparison.
- **roles**: authority, and what it is used on, are read and used in different
  statements, and nothing is locked. Correct: nothing is granted that the owner
  did not grant, and whom nobody overtook acted within its rank.
- **channels**: a deletion locks server, parent, channel and threads, then asks
  the pool for a second connection; a reorder writes a row at a time; one rule is
  written again for every list of channels or hearers, each read in several
  statements. Correct: a deletion is as good as one step, tombstones do not lie, a
  list is true of the time it took, orders are whole, everything ends.
- **social**: pairs of accounts, advisory locks on some paths only. Correct: both
  sides want a friendship, one direct channel per pair, blocks hold but for races
  and do not show.
- **messages**: each check is a read of its own, the write asks for none of them
  again, and the announcement comes after the commit. Correct: all readers agree
  on what a message shows, members hold what is so, or are about to, unless an
  announcement was lost or two crossed, words are
  their author's and allowed, and a reader misses nothing that was there.
- **exports**: claim and result are two transactions. Correct: one worker at a
  job, an archive of the right messages, an end to every job.

`PROJECT.json` lists the hazards one by one, each at its line, with the
properties that would catch it.

## How the modules are built

A step is what the code does without another task seeing it half done: one lock
section of the hub, one SQL statement, one commit. A request is a slot `q` of
`Request` with a `stage`; an operation begins with `Ask..` (a request arrives and
passes the checks that read nothing anyone changes), each further statement is an
action, and the last calls `End`. Slots are used again. `Stop` (`Abort`, `Fail`)
ends a request at any stage: a refusal, an error of the database, or axum
dropping the handler because the client went away. What a transaction has not
committed is gone then; what separate statements have written stays.

READ COMMITTED decides the rest. A check in one statement says nothing of the
next. `SELECT .. FOR UPDATE`, `UPDATE` and `DELETE` wait for a locked row and then
see what is committed. `lock`, `accountLock`, `friendLock` and `dmLock` are those
locks where they matter; a statement that cannot be stopped half-way and locks
nothing anybody waits for has none.

Variables commented *history* are read by properties only, with one duty: to say
which request overtook which. Several promises of this code hold "unless somebody
was faster" and are stated that way, because the exception is what the statement
order really permits: `tardy`, `outrun`, `overtaken`, `excused`, `newcomers`,
`moved`, `revived`, `blurred`, `late`, `raced`, `brokenOff`, `risen`, `lifted`,
`removed` and `starved` each name one race and nothing wider.
Properties would be false without their exception, and the slips show
that they are not empty with it.

A definition commented as a *slip* is a plausible mistake (a dropped lock, a check
that is too weak, an off-by-one), is used nowhere, and takes the place of the
definition after it to show that a property notices.

## VoiceHub

| model | code |
|---|---|
| `connections`, `voice` | `Inner.connections`, `Inner.voice`: `voice[c][a]` is the handle holding a's place, `NoConn` for none |
| `at[h]`, `joining[h]`, `left[h]` | where the gateway task of socket h is: one frame at a time, one lock section or await per step |
| `Register`, `PublishOnline` | `Hub::register` and the presence frame after its lock |
| `AuthorizeJoin`, `LeaveFirst`, `Enter`, `AnnounceJoin` | a `voice.join` frame: `can_join_voice`, `voice_leave`, the insertion, the announcement |
| `HangUp`, `AnnounceLeave` | a `voice.leave` frame |
| `Close`, `Deregister`, `PublishOffline` | `Hub::unregister` |
| `RemoveMember`, `TimeoutMember`, `CheckUntil` | the request's database change, and the check that the timeout is still on |
| `BreakOff` | axum drops the handler, at any await after the database change |
| `FindCall`, `ConfirmServer`, `ConfirmFails`, `LeaveFromChannel`, `AnnounceEviction` | `voice_leave_if_in_server`: find, ask, leave that call, announce |
| `Rejoin`, `EndTimeout`, `DeleteChannel`, `ChangeView` | the changes of the database that other requests make; `hidden` is who lacks VIEW_CHANNEL on which restricted channel, and `can_join_voice` asks |
| `roster`, `net` | what one observer, who sees everything and never disconnects, has been told |

The `HashMap` of rooms has no order, so "the first room that matches" is a choice
of `\E`. The constant `ManyTabs` says whether one account may have two sockets
open; some promises hold only without.

`Calls` is what is left of the hub without locks, tasks and announcements: four
actions on who has a socket registered (`sockets`) and who is in which call through
which socket (`place`). Its guards are the promise: a call is entered from outside
any other, through a registered socket, and only a socket in no call is dropped.
`Places` maps the hub's rooms to it. `HubKeepsCalls` says that no interleaving of
gateway tasks, closings and evictions shows at that level.

Assumed: the queries that resolve who receives a frame succeed (when they fail the
code drops the frame), while the query of an eviction may fail. Not modelled:
relaying signals, declared status, and the fan-out of other events; they change no
state of the hub.

### Runs

All have one account, two sockets, two channels on two servers and one moderation
request: a second socket is what makes two tabs or a reconnection, a second server
what makes an eviction able to hit the wrong call, and one request, made as often as
it likes, what removes, or silences, the account in the middle of anything else. Two
accounts do not touch each other's places, and the theorems cover any number.
`Restrictable` bounds the channels whose visibility changes: the call the request is
about in `voice_one_tab`, none in the other three, whose properties do not ask who may
see; the theorems cover any. Deadlock is not checked: each socket lives once, so the
model may end.

| run | question | answer |
|---|---|---|
| `voice_one_tab` | one socket open at a time per account: `HubKeepsCalls`, `ObserverConverges`, `OnlyRacedJoinsSurvive`, `ClosedSocketsLeave` | hold |
| `voice_many_tabs` | two tabs: `PresenceBalanced`, `EvictionsAreScoped`, `ClosingKeepsOtherCalls` | hold |
| `voice_ghost` | two tabs: `NoGhost`, which `HubKeepsCalls` implies for one | violated |
| `voice_evicted` | after an eviction, `EvictedOutOfCalls` | violated |

`ObserverConverges` is stated for runs of tasks without an eviction: an eviction's
announcement may overtake the account's next join, and nothing in the code says
otherwise; the property does not catch that overtaking. `OnlyRacedJoinsSurvive` bounds
the gap that `voice_evicted` shows: the only accounts left in a call are those
authorized before the removal that entered after it, and those whose eviction was
dropped with its handler (`brokenOff`), until somebody moderates them again. A query
that fails during the eviction opens no third way. Losing the right to see a channel
ends nobody's call, in the code and here: both properties speak of removals and
timeouts.

Fairness: `FairSpec` gives each gateway task weak fairness on the steps it takes
without waiting for its client. Tokio polls every task that can go on and the locks are
fair, and a query ends, if only by an error; a client is under no obligation to send or
to close, so `ClientStep` has none. Nor has `EvictionStep`: it runs inside the
moderator's request, which is dropped when the moderator goes away, so that an eviction
need not end and no property says it does.

## Registration

Time is in ticks. Every SQL statement is a step; `lock[e]` is the row lock of
address e's pending row, `row[r]` and `deleting[r]` are what request r has read or
is about to commit, and they vanish when it is rolled back. A request that
conflicts with another's uncommitted row waits, as a unique index makes it wait.

| model | code (`auth/src/service.rs`) |
|---|---|
| `CheckUsername`, `CheckEmail` | the two checks before register's transaction |
| `BeginRegister`, `CheckClaim`, `CheckCooldown`, `ClearExpired`, `Insert` | its transaction, one statement each |
| `SendCode`, `Commit` | the mail inside the transaction (register and resend), and the commit |
| `BeginResend`, `CheckResend`, `Rotate` | `resend_verification_code` |
| `BeginVerify`, `LockPending`, `Reject`, `Promote` | `verify_registration` and `promote_pending` |
| `Rename` | `update_account` taking a username |
| `Abort` | a client that hangs up, or a failure, at any point: rollback |
| `Tick` | time; it may not pass `MaxOpen` ticks after an open transaction began |

`MaxOpen < TTL` is the one assumption about the outside: a transaction, its mail
included, ends before a code's fifteen minutes do. The mail transport gives up
after a minute by default. Names are taken as already normalized: the code compares
`pending_registration`'s usernames as they were typed (service.rs:318, migration
0005:26), so that two spellings of a name are two names there.
`purge_expired_registrations` is not modelled: only a test calls it. The histories
`mailed`, `wrong`, `unsent` and `lastMail` are read by properties only.

A `guess` ranges over the codes stored so far, 0 being a wrong one. Guessing a
code that is not stored yet is the same as guessing 0 unless two random codes
agree, which the model leaves out: codes are numbered, so they never do.

### Runs

Two addresses, two names and two concurrent requests: enough for one request to be
in another's way by address, by name, or by both through different rows. `TTL = 2`,
`Cooldown = 1`, `MaxOpen = 1` and three ticks let a row expire and be replaced while
another is fresh; two attempts make one wrong guess short of the limit possible;
two codes allow one to replace another. Requests, addresses and names are
symmetric in `registration_safe`, whose `VIEW` leaves out `lastMail`: a history that no
guard and none of its properties reads.

| run | question | answer |
|---|---|---|
| `registration_safe` | `GuessesBounded`, `StoredCodesMailed`, `NoStrandedNames`, `RequestsAreSerial`, `AccountsAreProven` | hold |
| `registration_mail_gap` | two mails are a cooldown apart (`MailGap`) | violated |

`Claims` is registration with one step per request: `Claim`, `Renew`, `Mistake`,
`Prove`, `Rename`. It has no locks, reads, mails or rollbacks, only the committed
rows. A claim is made when no live one holds its address or its name, the expired
ones in its way go with the same step, and it ends by proof, by burning or by giving
way after its time. `RequestsAreSerial` says that every interleaving of the
statements of `Registration` is such a history: a commit is one of these steps and
everything else none. One thing does show from outside: a request dates its
effect by its beginning (`now()` is the transaction's), so that a deadline may lie up
to `MaxOpen` ticks earlier than the step would put it, and a verification may prove
a claim up to `MaxOpen` ticks after its deadline. `Fresh` and `Provable` say so.

`StoredCodesMailed` has an exception, which the code really reaches: a register
finds the address unclaimed, another request stores and mails a code, the first
is told that the address was mailed a moment ago, and the other's row is gone again
(burned by wrong guesses, or promoted) when the first inserts its own. It stores a
code that nobody is sent.

## Membership

| model | code (`domain/src/service.rs`) |
|---|---|
| `members`, `timedOut`, `rank`, `banned`, `alive` | `membership`, its `timeout_until` and its highest role, `server_ban`, the server's row |
| `AskJoin`, `CheckMember`, `CheckBan`, `InsertMembership` | `join_via_invite` |
| `AskModerate`, `CheckTimeout`, `CheckNotBanned`, `FindTarget`, `CheckRank` | what `kick_member`, `ban_member`, `timeout_member`, `clear_timeout` and `unban_member` check, in their order |
| `InsertBan`, `ResolveRecipients`, `DeleteMembership`, `Announce` | the ban, and `remove_member` with its announcement |
| `AskLeave`, `AskDeleteServer`, `DeleteServer` | `leave_server`, and the `delete_server` handler, which resolves its recipients before it asks whose the server is |
| `SetTimeout`, `DeleteBan`, `Expire` | the single-statement ends, and a timeout that runs out |
| `ChangeRank` | `set_member_roles`, and `reorder_roles` about a role of the member's: a member's rank rises or falls at any moment |

The caller's rank `top[q]` is what `member_context` read at the start; the target's
is read at `CheckRank`, and may change between that and the removal. Roles above the default one moderate, and positions decide:
enough for the hierarchy, whose algebra is in `Roles`.

Run `membership_safe`: an owner without a role, two moderators of one rank, a
guest; two requests at once, three in all, changes of rank included; positions up to
`MaxRank`, which is 1. The two moderators, and the two requests, are interchangeable
(`MCSymmetry`; no liveness is checked). Three is the least that makes a ban, a
join and an unban meet. `OnlyRacedBans` is the promise "a banned account cannot
rejoin via any invite" as far as it goes: the check of the ban and the insertion
are two statements (service.rs:1819-1822), and so are the ban and the removal
(2302-2312). `RemovalsAreHeard` holds as stated. `RankRespected` has one
exception: a target promoted after its roles were read and before its row was deleted
(`risen`) is removed all the same.

## Roles

| model | code (`domain/src/service.rs`) |
|---|---|
| `exists`, `perms`, `position`, `assigned` | `server_role` and `membership_role` |
| `Begin` | `require_permission`: `member_context` reads the caller's roles, kept in `top` and `bits` |
| `CountRoles`, `ReadPosition`, `InsertRole` | `create_role`, whose limit is counted without a lock |
| `FindToUpdate`, `UpdateRole` | `update_role`: the mask, and the write of the whole row by what was read |
| `FindToDelete`, `DeleteRole` | `delete_role` and the cascade to `membership_role` |
| `FindToReorder`, `ReorderRoles` | `reorder_roles` |
| `ReadMemberRoles`, `CheckMemberRoles`, `StartClear`, `ClearRoles`, `InsertRoles` | `set_member_roles`: its checks, and a DELETE that sees the rows of its own start |

Run `roles_safe`: an owner, a moderator who may manage roles, two roles at the start
and up to three new ones (interchangeable), three permission bits of which one is
not known, two requests at once, three in all. `NoEscalation` is one invariant over
everything requests do with authority that may be gone when they use it.
`OverrunBounded` is what becomes of `MAX_ROLES_PER_SERVER`, which is counted in one
statement and relied on in another: with two requests at once a server may have one
role more than the limit, and never two, however often they come. `NoEscalation` bounds
what a write of stale permissions can do, and does not exclude it.
`AuthorityHolds` is the two-axis rule of `permissions.rs`, at the moment of the
write, for requests no other write overtook.

Three consequences of what is not locked are in the model and contradict no
promise of the code: the limit on roles may be passed by as many as the requests
under way less one (service.rs:1920), two role lists set at once may merge, and an `update_role` that
gives only a name writes back the permissions it has read.

## Sessions

One account, two requests at once. `FindAccount` reads the account, `Decide` uses
what it read after the hash, `RecordFailure` and `ResetFailures` are its two single
`UPDATE`s, and `BeginTransaction` to `InsertSession` are the transaction that locks
the account, counts and inserts. `began[q]` is that transaction's `now()`, which
dates its rows and its count. `FindSession` and `Touch` are `verify_session`.

Run `sessions`: a cap of 2 with three session ids, so that the cap can be broken;
a threshold of 2, so that one failure is short of it; lock and idle window of 2
ticks and a lifetime of 3 in a clock of 4, so that each can run out while the
others have not; six calls, which are two more than it takes to fill the cap and
to lock the account. `SessionCap` excepts sessions touched just after their idle
window closed (`revived`): the `UPDATE` at service.rs:1051 goes by id.
`OnlyRacedLoginsPass` speaks of every step of every request: none lifts a lock, brings
its end forward or opens a session beside it, but a login that read the account
before it was locked; a failed attempt only ever extends.
`GuessesAreFew` allows one guess per login at work beyond the threshold, for that
many have read "not locked" already.

## Social and Profiles

| model | code |
|---|---|
| `status`, `requester`, `row` | the pair's row of `friendship`; `row` counts rows, because `accept` goes by id |
| `friendLock`, `dmLock` | `pg_advisory_xact_lock` on the pair (`db/src/lock.rs`) |
| `CheckBlock` | the block gate of `send_friend_request`, `create_dm` and `send_message` |
| `LockFriendship`, `FindFriendship`, `InsertPending`, `AcceptFriendship`, `LeaveFriendship` | `send_friend_request` |
| `AskBlock`, `DeletePair`, `CommitBlock` | `block_account`, one transaction without the advisory lock; the row it deletes stays locked to its commit |
| `LockDm`, `FindDm`, `CommitDm`, `InsertMessage` | `create_dm`, `send_message` |
| `Facts`, `FactsInBulk`, `Decide`, `Response` | `get_profile_context`, `get_profile_contexts_bulk`, `decide_profile_visibility`, `ProfileResponse::build` |

Run `social`: two accounts, two requests at once, six calls. A block set, a
friendship asked for and accepted, the block lifted and set again fit in six. One
pair is enough, for no row belongs to two pairs. `BlocksAreSilent` asks, in every
reachable state and for every setting, whether the profile of somebody who has
blocked the reader is a stranger's, including the friendships that survive a block
by a race.

`FairSpec`: weak fairness of each request's steps, for tokio polls every handler;
strong fairness of taking an advisory lock, for Postgres queues those that wait for
one, and a request could else be passed over for ever.

## Channels, Lists, Lifecycle, Containment

`Containment` is the visibility of a channel below its parent and server.
`Lifecycle` is the abstract specification of removal: one step that deletes a
channel and settles, for it and the threads below it, whether they were public.
`Channels` is the code: every statement a step, row locks, a pool of connections,
transactions that roll back. `RemovalIsAtomic` says that `Channels` implements
`Lifecycle` (the identity on the six variables they share): `delete_channel` reads
server, parent, channel and threads in four statements and commits later, and
nothing it has read may have changed by then.

| model | code |
|---|---|
| `connected`, `Connect`, `PoolTimeout` | `PgPoolOptions` (`db/src/lib.rs:35-42`): a limit and `acquire_timeout` |
| `AskDelete`, `LockServer`, `LockParent`, `LockTarget`, `CheckAccess`, `LockDescendants`, `CommitDelete` | `delete_channel`; `CheckAccess` is the second connection |
| `AskOrder`, `Place`, `PlaceFails`, `BreakDeadlock`, `CommitOrder` | `reorder_channels`: one `UPDATE` per row in the order asked for, and Postgres's deadlock detector |
| `AskVisibility`, `WriteVisibility`, `AskServerVisibility`, `WriteServerVisibility`, `AskRestricted`, `WriteRestricted`, `SetGrant` | the settings |
| `AskThread`, `InsertThread`, `AskChannel`, `InsertChannel` | `create_thread`, `create_channel`, with the waits of their foreign keys |
| `Admits`, `ReadAccess`, `PublicThread`, `PublicThreads` | the rule itself (`require_channel_access`), and what the public pages ask |
| `Lists`: `ListIds`, `LookUp`, `ReadGrant`, `LookUpFails`, `ReadyFails`, `SendReady` | the gateway's ready event: `accessible_channel_ids` looks up one id after another, and one that is gone fails them all |
| `Lists`: `ListRows`, `ReadFlags`, `ReadGrants` | the sidebar, `list_channels`, which `reorder_channels` repeats for its reply |
| `Lists`: `ReadAccessRow`, `NoAccessRow`, `ReadHearers`, `Search` | `channel_viewer_account_ids`, and the channels of a search |
| `Lists`: `Starve`, `Leave` | `acquire_timeout`, and a client that goes away |

Run `channels`: two channels, two threads of the first, an owner and a manager with
a role; a pool of two with two requests, where two deletions exhaust it as five do
a pool of five; three calls, of which one may be a list for the manager. The first channel and one thread are there from the
start, so that three calls may remove a thread and its channel and change what
encloses them. `FairSpec` is weak fairness of each request's steps: a row lock is
always given on, as the transaction that has it goes on, times out, or is broken;
of two that wait for one row one is refused or served and, calls being bounded,
the other is next. `RequestsEnd` is that all requests are at rest again and again.

A list is read in several statements outside any transaction, so that it need not be
what anybody saw at one moment. `ListsAreTruthful` says what it is: whatever it names
could be seen at some moment while it was read, or was removed meanwhile, and whatever
could be seen all that time is named. It has two exceptions, both the code's. A
restriction lifted between the reading of a channel's flag and of its grants leaves
the channel out of that list. And a ready event fails whole when a channel is deleted
between the listing and its lookup (service.rs:2974), or the pool is used up, and the
gateway sends an empty one (gateway.rs:68-83); nothing else makes it empty. One list is
made at a time, because lists write nothing and hold no connection from one statement
to the next.

`PublicThread` is one step; the code resolves access and then finds the thread, two
reads (service.rs:1394, 1403), so that a public thread that is being removed may answer
"not found" once. `TombstonesTell` is about what is answered from then on, and about
servers that stay: a deleted server takes its tombstones with it.

## Messages and Exports

| model | code |
|---|---|
| `row` | `message`: author, text, `content_tsv`, `deleted_at`, `pinned_at` |
| `AskSend` .. `AskUnpin`, `Check` | the requests, and their checks one read after another (`SendChecks`, `EditChecks`, ..) |
| `DrawId`, `Insert` | a UUIDv7 is drawn, then the row is inserted: ids are ordered by drawing, not by insertion |
| `UpdateContent`, `SoftDelete`, `Pin`, `Unpin` | the one statement of each, with what its `WHERE` asks and does not ask |
| `Event`, `Publish`, `Stop` | what is announced after the commit, and its loss; `message.delete` names the message and tells nothing of it |
| `Summary`, `Found`, `PinnedList`, `NewerPage`, `OlderPage`, `Dump` | how the chat, search, list of pins, public page, chat's page and export read the table |
| `Leave`, `Join`, `Timeout`, `Unmute` | what other requests change of the caller |
| `ReadNewer`, `ReadOlder` | a client that pages up the public thread, or down the chat |
| `RequestExport`, `ClaimNextPending`, `ReadMessages`, `MarkDone`, `MarkFailed`, `Crash` | an export job; `Worker` is the set of processes that share the queue (`FOR UPDATE SKIP LOCKED`) |

Run `exports`: an author and a moderator, three messages of which one is there
already, pages of one message (so that a reader has a place between two), two
requests or changes of membership, two workers, one job, one crash. An edit and a
deletion of the same message, with their announcements in either order, fit, and so
do two senders whose ids and insertions cross. More than one job adds only the
order of claims, which the theorem `ArchivesCorrect` covers for any number.
`JobsEnd` has the exception the code has: a worker that stops, or whose last
`UPDATE` fails, between claim and result leaves the job running for good. `FairSpec`
is weak fairness of each worker's step: `server/src/lib.rs` polls for the life of the
process and goes on after an error. That presupposes a worker: a deployment without
storage configured starts none (`server/src/lib.rs:105-123`), and its jobs stay
pending. `Worker` may be empty for the theorems; `JobsEnd` is checked with two.

An edit is let through after a deletion (the `UPDATE` asks for neither `deleted_at`
nor author again); nothing of its text shows, which is part of `ViewsAgree` and
`ToldIsCurrent`. A deleted message keeps its pin: `Summary` takes away the text alone,
as `From<MessageRow>` does, so the chat goes on handing out `pinned_at` of a message
that `list_pinned` leaves out. `ViewsAgree` says so: the list of pins is what is pinned
in the chat and still has a text. `ToldIsCurrent` compares what was told with the row's
text, and with its pin while the message is not deleted; a message is `blurred`, and
excepted, from the loss of an announcement, or a write beside another's announcement,
to its next write alone.

In every run but the two of `Registration`, deadlock is not checked: the bounds on
calls make each system end.

## Findings

1. **Ghosts with two tabs** (`voice_ghost`). `voice_join` leaves and enters in two
   lock sections. Two tabs of an account that join at once both leave before either
   enters; the account is then in two rooms, possibly both through a socket whose
   `unregister` takes it out of one only.
2. **A join may outrun its eviction** (`voice_evicted`). The join is authorized, the
   account is removed and evicted, and the join enters.
3. **Mails less than a cooldown apart** (`registration_mail_gap`). The cooldown is
   read without a lock and not asked again by the `UPDATE`.

Each quotes the promise it breaks in `PROJECT.json`.

## Proofs

All hold for every value of the constants that the named assumption of the module
admits (`ConstantsAssumption`, `RegistrationAssumption`, `MembershipAssumption`, ..):
any number of accounts, sockets, channels, requests, roles, messages, workers. Every
module has `TypeCorrect`; the runs leave its `TypeOK` to the theorem.

**`VoiceHub_proofs`**

- `TypeCorrect`. Its type invariant also says that a task about to enter has named
  a channel and that an eviction about to act has found one.
- `RegisteredCorrect`: from `register` to the end of `unregister` a socket is in
  the registry, because no other task touches its entry.
- `OneTabCorrect`, and from it `NoGhostOneTab`. That a place is held by a registered socket is not inductive: when a tab closes, its `voice_leave`
  frees one call only. The invariant adds that a place is held by a socket still
  open, that an account is in one call, and that between leaving and entering it is
  in none; the last needs that no other socket of the account is open.
- `ImplementsCalls`, the refinement, on the same invariant. Each lock section is
  mapped on its own: `register` to `Connect`, the first half of a join and every
  other leave to `Leave` or a stutter, the second half to `Enter`, `unregister`'s two
  sections to `Leave` and `Disconnect`. `PlacesKept` and `OnePlaceChanges` say once what a
  change of `voice` is in terms of `Places`. `Enter` from outside any other call is
  what the gap between the two halves of a join puts at risk, `Disconnect` outside
  any call what the gap between the two of a closing does.
- `ConfirmedCorrect`, and from it `EvictionsScoped`: a confirmed eviction acts on the
  channel it asked about, and a channel never changes server.
- `SurvivorsOwedCorrect`, and from it `OnlyRacedSurvive`, for one open socket per
  account. Excused are the accounts whose join raced the change (`raced`) and those
  whose moderation handler was dropped before its eviction (`brokenOff`). `Owes` says
  which request has still to take an account out of a call: one
  that has not looked for the call yet, or has found that very call. It is not
  inductive without `OneCall` (with two calls a request may find the other one) nor
  without `TimeoutsOfMembers` (a timeout that ends must give the right back, or a
  request that finds it over would drop what it owed).
- `ToldCorrect`, and from it `ObserversConverge`, for one open socket per account: the
  roster is the accounts in the call past their announced join, and those out of it
  whose leave is still to be announced. It rests on a task announcing its leave before
  it goes on (`LeftInFlight`), and on nobody taking a place away from a task that is
  about to announce it (`EnteredHeld`), which is where evictions would break it.
- `ClosingKeeps`: from what `voice_leave` can take out at most.
- `PresenceCorrect`: the counting argument, one step per change of the two sets of
  frames on their way; it needs finitely many sockets.

**`Registration_proofs`**

- `TypeCorrect`. `TypeOK` is not inductive: what a request commits is a row only
  because of the stages it has passed, which `Shape` says.
- `InvCorrect`, the inductive invariant. `Locks` is its heart: a verification holds
  the lock of the row it has read, a draft that of the row it will replace, and the
  rows about to be deleted are locked and expired. `StepKeepsOthers` shows once, for
  all actions, that a request's step changes nothing another has locked; every
  other part then concerns the acting request alone. `Drafts` says what a draft
  may replace, `Clock` and `Expiries` that it is committed before it expires,
  `Mails` that its code is on its way, `Codes` that a code is one row's and that
  attempts count the wrong guesses at it.
- `GuessesAreBounded`, `StoredCodesAreMailed`, `NamesAreNotStranded` and
  `AccountsProven` follow.
- `ImplementsClaims`, the refinement. Only commits change what is mapped, so all
  turns on what a request knows when it commits. Two parts of the invariant are there
  for it: `Names`, that no two committed rows hold one name, no two drafts either, and
  that the rows in a draft's way are among those it deletes; and `Timely`, that the
  row a verification has locked was live when it began. `DraftIsFresh` bounds how far
  a draft's deadline lies behind. `CommitClaims` and
  `CommitRenews` map the two kinds of commit, `VerdictImplements` the end of a
  verification; every other step leaves the mapped variables alone.
- `NamesAreUnique` and `LiveClaimsStay` are proved of `Claims`, whose steps are whole
  requests, and hold of `Registration` through the refinement.

**`Membership_proofs`**: `InvCorrect` says what each stage of a request implies:
whose rank was compared, who resolved the recipients, and that a member who is
banned is being removed, or excused. `OnlyRacedBansCorrect`, `RemovalsHeardCorrect`
and `RankRespectedCorrect` follow from it.

**`Roles_proofs`**: `NoEscalation` alone is not inductive. What is about to be
written must be granted already, and so must what a caller remembers of its own
permissions; permissions come from roles and wishes from permissions, so the
three are proved together (`EscalationImpossible`). `AuthorityCorrect` needs that
what a request has read of its caller and of its roles is still so unless `moved`.
`OverrunIsBounded` counts: `OverrunBounded` is not inductive, but the roles there are,
with the requests past their count (`Past`), exceed the limit by no more than the
requests less one (`Counted`): who gets past the count found the roles below the limit, and an
insertion turns a request past the count into a role.

**`Sessions_proofs`**: `CapCorrect` counts: the lock's holder has counted fewer than
the cap as of `began`, and no session becomes eligible since but its own, or one
that was `revived`. `GuessesCorrect` counts too: failures recorded and logins that
found the account unlocked. `RacedLogins` and `DeadStaysDeadCorrect` are about steps.

**`Social_proofs`**: while a request holds the pair's lock, what it found is still
so, or the row is gone and its id with it; `OneDmCorrect`, `FriendshipCorrect`,
`RacedFriendsCorrect`, `RacedWordsCorrect` follow. `BlocksSilent` is about
`Profiles`: decided case by case.

**`Channels_proofs`**

- `ListsTell`, on `ListInv`: what a list has found could be seen when it was read
  (`Sound`), what could be seen all along is named, pending, lifted or still to be looked
  up (`Whole`), and the ready event fails for a reason (`Causes`). `ChangeKeeps` shows
  it of everything that may happen to the channels between two reads.
  `ListsChangeNothing` says that lists leave `Spec` as it is, so that the theorems below
  hold beside them.
- `RemovalCorrect`, the refinement. `Locked` says, for each stage of a deletion,
  which rows it holds (`Holds`, `Secures`) and that what it has read of them is
  what they say (`Sees`). `Frame` shows once that no other request's step changes
  a row that is held. `CommitDelete` then maps to `Lifecycle!Remove`, and every
  other step to a setting, an insertion, or a stutter.
- `TombstonesCorrect`, on `Settling`: eligibility is settled with the removal and
  never again.
- `OrderCorrect`, on `Ordered`: the rows a reorder holds are the beginning of its
  order, stand where it put them, and are remembered as they stood.
- `NobodyIsStuck`, on `Locked`: while there are requests, one of them can go on. `Moves`
  is the guard of `Step` written out (what `ENABLED` says, which cannot be proved
  about; TLC, asked for `Moves(q) = ENABLED Step(q)`, finds them equal in every state of
  run `channels`). Were nobody able to go on, the requests at work would make a
  `Circle`, each waiting for a row that one of them holds. A deletion holds the
  server's row before any other, so there is one at most that holds anything; in a
  circle it can hold no more than that row, and whoever waits for that row
  holds nothing. What is left are reorders, which the database breaks.

**`Exports_proofs`** (for `Messages` and `Exports`)

- `Typed` is the common ground: what each request knows of its message, that an id
  is drawn for one message, and that vectors are of their texts; from it
  `ViewsCorrect`.
- `ToldCorrect`: `ToldIsCurrent` is not inductive; `ToldInv` adds that of a message
  that is not blurred one announcement at most is under way, and that it tells what
  the row holds (`Clear`), so that publishing it leaves nothing untold.
- `WordsCorrect`, on `Gated`: what each number of passed checks vouches for.
- `PagesCorrect`: a page leaves out nothing between its ends (`PageWhole`), and a
  page that is not full is the rest (`PageLast`), by counting; the invariant adds
  that the public cursor is a stored message, or else one drawn earlier might be
  stored at it. `Ends`, that a set of ids has a first and a last, is by a smallest
  counterexample.
- `ArchivesCorrect`, on `Jobbed` (a worker's job is running and its own) and
  `Dumped` (a dump is right from the moment it is read and stays so, because
  deletions are for good).

Every safety and action property of the passing runs is proved. Only model-checked: the
liveness properties `ClosedSocketsLeave`, both `RequestsEnd` and `JobsEnd`
(liveness under fairness is out of this prover's reach). The three violated
properties have their counterexamples from TLC.

## Not modelled

- **The TURN credential cache** (`api/src/voice.rs`): one value behind one mutex that
  is held across the mint, so that callers are served in turn.
- **Validation** (`auth`, `domain`): pure checks of strings, tested by tables.
- **Media, object storage, HTTP, DTOs, rate limits, mailer, start-up**: I/O, routing and
  configuration. The mailer and the storage are steps that succeed or fail.
- **In `VoiceHub`**: relayed signals, declared status, fan-out of other events.
- **In `Registration`**: case folding; `purge_expired_registrations`, which only a test
  calls.
- **In `Membership`**: the order of spaces, nicknames, `regenerate_invite_code`: single
  columns none of these operations reads.
- **In `Channels`**: names, topics, slugs, `rename_channel`; changes of members and
  roles, which `Membership` and `Roles` have.
- **In `Social`**: group channels, whose gate is the same.
- **In `Messages`**: restricted channels (`Channels` has them), replies and
  attachments, and a server deleted under its messages and jobs, which go with it.
- **In `Exports`**: members, channels and roles of the dump; the address that expires.

## Running it

    tlc -workers 2 -config RegistrationSafe.cfg MCRegistration   # 1,209,077 states, over a minute
    tlc -workers 2 -config ExportsSafe.cfg MCExports             # 585,802 states, two minutes
    tlc -workers 2 -config ChannelsSafe.cfg MCLists              # 245,404 states, two minutes
    tlapm Channels_proofs.tla

The other runs take about a minute or less: `voice_many_tabs` has 1,659,459 distinct
states, `sessions` 789,374, `roles_safe` 500,967, `voice_one_tab` 252,206,
`membership_safe` 250,646 (with symmetry) and `social` 95,430. Every proof module takes a few minutes at most.
