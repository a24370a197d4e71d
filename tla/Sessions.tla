------------------------------ MODULE Sessions ------------------------------
(***************************************************************************)
(* One account's logins, its lockout and its sessions (auth/src/           *)
(* service.rs); other accounts touch none of its rows.                     *)
(*                                                                         *)
(* Every SQL statement is a step; the transaction of a login writes when   *)
(* it commits.  Logins and verifications run side by side.  A token that   *)
(* names no session is refused at once and left out.                       *)
(***************************************************************************)
EXTENDS Integers, FiniteSets

CONSTANTS
  Session, Request,
  Nobody,       \* no request, or no session
  Cap,          \* MAX_CONCURRENT_SESSIONS
  Threshold,    \* LOGIN_LOCKOUT_THRESHOLD
  LockPeriod,   \* LOGIN_LOCKOUT_MINUTES
  Idle,         \* IDLE_TIMEOUT_DAYS
  Lifetime,     \* ABSOLUTE_LIFETIME_DAYS
  Tolerance,    \* LAST_USED_TOUCH_TOLERANCE_MINUTES
  MaxTime,      \* bound: the clock
  MaxCalls      \* bound: logins and verifications begun

ASSUME SessionsAssumption ==
  /\ Nobody \notin Session /\ Nobody \notin Request
  /\ {Cap, Threshold, LockPeriod, Idle, Lifetime} \subseteq Nat \ {0}
  /\ {Tolerance, MaxTime, MaxCalls} \subseteq Nat /\ Tolerance < Idle
  /\ IsFiniteSet(Session) /\ IsFiniteSet(Request)

VARIABLES
  now,          \* the clock, of the database and of the server
  failed,       \* failed_login_attempts
  lockedUntil,  \* locked_until, 0 for NULL
  accountLock,  \* the login that has the account's row FOR UPDATE
  rows,         \* the sessions there are
  lastUsed, expires, revoked,  \* their columns
  stage,        \* stage[q]: what q is about to do
  right,        \* right[q]: the login has the right password
  seenUntil,    \* seenUntil[q]: locked_until when the login read it
  began,        \* began[q]: when its transaction began, that is its now()
  subject,      \* subject[q]: the session that q verifies
  calls,        \* how many logins and verifications have begun
  unlocked,     \* history: q found the account unlocked
  free,         \* history: the wrong guesses of those since a login or a lock's end
  overtaken,    \* history: the account was locked since login q read it
  revived       \* history: sessions touched when their idle window had closed

accountVars == <<failed, lockedUntil, free>>
sessionVars == <<rows, lastUsed, expires, revoked, revived>>
requestVars == <<stage, right, seenUntil, began, subject, unlocked, overtaken>>
vars == <<now, accountVars, accountLock, sessionVars, requestVars, calls>>

Init ==
  /\ now = 1
  /\ failed = 0 /\ lockedUntil = 0 /\ accountLock = Nobody
  /\ rows = {}
  /\ lastUsed = [s \in Session |-> 0]
  /\ expires = [s \in Session |-> 0]
  /\ revoked = {}
  /\ stage = [q \in Request |-> "idle"]
  /\ right = [q \in Request |-> FALSE]
  /\ seenUntil = [q \in Request |-> 0]
  /\ began = [q \in Request |-> 0]
  /\ subject = [q \in Request |-> Nobody]
  /\ calls = 0
  /\ unlocked = [q \in Request |-> FALSE]
  /\ free = 0
  /\ overtaken = [q \in Request |-> FALSE]
  /\ revived = {}

-----------------------------------------------------------------------------

Locked == lockedUntil > now

\* session_eligibility_sql, by the clock t.
Eligible(s, t) == s \in rows \ revoked /\ expires[s] > t /\ lastUsed[s] + Idle > t

Alive(s) == Eligible(s, now)

Begin(q, next) ==
  /\ stage[q] = "idle" /\ calls < MaxCalls
  /\ calls' = calls + 1
  /\ stage' = [stage EXCEPT ![q] = next]
  /\ UNCHANGED <<now, accountVars, accountLock, sessionVars, began, overtaken>>

Advance(q, next) ==
  /\ stage' = [stage EXCEPT ![q] = next]
  /\ UNCHANGED <<now, sessionVars, right, seenUntil, subject, unlocked, calls>>

Unlock(q) == accountLock' = IF accountLock = q THEN Nobody ELSE accountLock

\* Request q is over.
End(q) ==
  /\ stage' = [stage EXCEPT ![q] = "idle"]
  /\ right' = [right EXCEPT ![q] = FALSE]
  /\ seenUntil' = [seenUntil EXCEPT ![q] = 0]
  /\ began' = [began EXCEPT ![q] = 0]
  /\ subject' = [subject EXCEPT ![q] = Nobody]
  /\ unlocked' = [unlocked EXCEPT ![q] = FALSE]
  /\ Unlock(q)
  /\ UNCHANGED <<now, calls>>

Forget(q) == overtaken' = [overtaken EXCEPT ![q] = FALSE]

\* Refused, failed, or the client went away: the transaction is rolled back.
Stop(q) ==
  /\ stage[q] # "idle"
  /\ End(q) /\ Forget(q)
  /\ UNCHANGED <<accountVars, sessionVars>>

-----------------------------------------------------------------------------
(* login.                                                                    *)

\* The account and its hash are read, then the password is hashed.
FindAccount(q, r) ==
  /\ Begin(q, "hashed")
  /\ right' = [right EXCEPT ![q] = r]
  /\ seenUntil' = [seenUntil EXCEPT ![q] = lockedUntil]
  /\ unlocked' = [unlocked EXCEPT ![q] = ~Locked]
  /\ UNCHANGED subject

\* A definition commented as a slip is no part of Next: it is a bug that one of
\* the properties must notice when it takes the place of the next definition.
\* Slip: the right password opens a locked account.
DecideByPassword(q) ==
  /\ stage[q] = "hashed"
  /\ Advance(q, IF right[q] THEN "resetting" ELSE "failing")
  /\ UNCHANGED <<accountVars, accountLock, began, overtaken>>

\* Whether the account is locked is decided by what was read before the hash.
Decide(q) ==
  /\ stage[q] = "hashed"
  /\ Advance(q, IF right[q] /\ seenUntil[q] <= now THEN "resetting" ELSE "failing")
  /\ UNCHANGED <<accountVars, accountLock, began, overtaken>>

\* Slip: the attempt being recorded is not counted.
RecordLate(q) ==
  /\ stage[q] = "failing" /\ accountLock = Nobody
  /\ failed' = failed + 1
  /\ lockedUntil' = IF failed >= Threshold THEN now + LockPeriod ELSE lockedUntil
  /\ overtaken' = [p \in Request |->
       p # q /\ (overtaken[p] \/ (failed >= Threshold /\ stage[p] # "idle"))]
  /\ free' = IF unlocked[q] /\ ~right[q] THEN free + 1 ELSE free
  /\ End(q)
  /\ UNCHANGED sessionVars

\* Slip: the count starts afresh with each lock, and short of it there is none.
RecordAfresh(q) ==
  /\ stage[q] = "failing" /\ accountLock = Nobody
  /\ failed' = IF failed + 1 >= Threshold THEN 0 ELSE failed + 1
  /\ lockedUntil' = IF failed + 1 >= Threshold THEN now + LockPeriod ELSE 0
  /\ overtaken' = [p \in Request |->
       p # q /\ (overtaken[p] \/ (failed + 1 >= Threshold /\ stage[p] # "idle"))]
  /\ free' = IF unlocked[q] /\ ~right[q] THEN free + 1 ELSE free
  /\ End(q)
  /\ UNCHANGED sessionVars

\* Recorded, locked or not: guessing on extends the lock.
RecordFailure(q) ==
  /\ stage[q] = "failing" /\ accountLock = Nobody
  /\ failed' = failed + 1
  /\ lockedUntil' = IF failed + 1 >= Threshold THEN now + LockPeriod ELSE lockedUntil
  /\ overtaken' = [p \in Request |->
       p # q /\ (overtaken[p] \/ (failed + 1 >= Threshold /\ stage[p] # "idle"))]
  /\ free' = IF unlocked[q] /\ ~right[q] THEN free + 1 ELSE free
  /\ End(q)
  /\ UNCHANGED sessionVars

ResetFailures(q) ==
  /\ stage[q] = "resetting" /\ accountLock = Nobody
  /\ failed' = 0 /\ lockedUntil' = 0 /\ free' = 0
  /\ Advance(q, "beginning")
  /\ UNCHANGED <<accountLock, began, overtaken>>

BeginTransaction(q) ==
  /\ stage[q] = "beginning"
  /\ began' = [began EXCEPT ![q] = now]
  /\ Advance(q, "locking")
  /\ UNCHANGED <<accountVars, accountLock, overtaken>>

\* Slip: the sessions are counted without a lock.
LockNothing(q) ==
  /\ stage[q] = "locking"
  /\ Advance(q, "counting")
  /\ UNCHANGED <<accountVars, accountLock, began, overtaken>>

LockAccount(q) ==
  /\ stage[q] = "locking" /\ accountLock = Nobody
  /\ accountLock' = q
  /\ Advance(q, "counting")
  /\ UNCHANGED <<accountVars, began, overtaken>>

CountSessions(q) ==
  /\ stage[q] = "counting"
  /\ Cardinality({s \in Session : Eligible(s, began[q])}) < Cap
  /\ Advance(q, "inserting")
  /\ UNCHANGED <<accountVars, accountLock, began, overtaken>>

\* Everything in a transaction is dated from its beginning.
InsertSession(q, s) ==
  /\ stage[q] = "inserting" /\ s \notin rows
  /\ rows' = rows \cup {s}
  /\ lastUsed' = [lastUsed EXCEPT ![s] = began[q]]
  /\ expires' = [expires EXCEPT ![s] = began[q] + Lifetime]
  /\ End(q) /\ Forget(q)
  /\ UNCHANGED <<accountVars, revoked, revived>>

-----------------------------------------------------------------------------
(* verify_session, revoke_session and revoke_all_sessions.                   *)

FindSession(q, s) ==
  /\ Alive(s)
  /\ Begin(q, "touching")
  /\ subject' = [subject EXCEPT ![q] = s]
  /\ UNCHANGED <<right, seenUntil, unlocked>>

\* Slip: a session in use is renewed as a whole.
TouchRenews(q) ==
  LET s == subject[q]
  IN /\ stage[q] = "touching"
     /\ lastUsed' = [lastUsed EXCEPT ![s] = now]
     /\ expires' = [expires EXCEPT ![s] = now + Lifetime]
     /\ revived' = IF Alive(s) THEN revived ELSE revived \cup {s}
     /\ End(q) /\ Forget(q)
     /\ UNCHANGED <<accountVars, rows, revoked>>

\* By id alone, when the last use is old enough.
Touch(q) ==
  LET s == subject[q]
  IN /\ stage[q] = "touching"
     /\ lastUsed' =
          [lastUsed EXCEPT ![s] = IF @ < now - Tolerance THEN now ELSE @]
     /\ revived' = IF Alive(s) THEN revived ELSE revived \cup {s}
     /\ End(q) /\ Forget(q)
     /\ UNCHANGED <<accountVars, rows, expires, revoked>>

RevokeSession(s) ==
  /\ s \in rows \ revoked
  /\ revoked' = revoked \cup {s}
  /\ UNCHANGED <<now, accountVars, accountLock, rows, lastUsed, expires, revived, requestVars, calls>>

RevokeAllSessions ==
  /\ rows # revoked
  /\ revoked' = rows
  /\ UNCHANGED <<now, accountVars, accountLock, rows, lastUsed, expires, revived, requestVars, calls>>

\* Time passes.
Tick ==
  /\ now < MaxTime
  /\ now' = now + 1
  /\ free' = IF lockedUntil = now + 1 THEN 0 ELSE free
  /\ UNCHANGED <<failed, lockedUntil, accountLock, sessionVars, requestVars, calls>>

-----------------------------------------------------------------------------

LoginStep(q) ==
  \/ Decide(q) \/ RecordFailure(q)
  \/ ResetFailures(q) \/ BeginTransaction(q) \/ LockAccount(q) \/ CountSessions(q)
  \/ \E s \in Session : InsertSession(q, s)

Next ==
  \/ \E q \in Request :
       \/ \E r \in BOOLEAN : FindAccount(q, r)
       \/ LoginStep(q)
       \/ \E s \in Session : FindSession(q, s)
       \/ Touch(q)
       \/ Stop(q)
  \/ \E s \in Session : RevokeSession(s)
  \/ RevokeAllSessions
  \/ Tick

Spec == Init /\ [][Next]_vars

-----------------------------------------------------------------------------

Stage == {"idle", "hashed", "failing", "resetting", "beginning", "locking", "counting",
          "inserting", "touching"}

\* Types, and whom the lock belongs to.
TypeOK ==
  /\ now \in 1..(MaxTime + 1)
  /\ failed \in Nat /\ lockedUntil \in Nat
  /\ accountLock \in Request \cup {Nobody}
  /\ accountLock # Nobody => stage[accountLock] \in {"counting", "inserting"}
  /\ rows \in SUBSET Session /\ revoked \in SUBSET rows /\ revived \in SUBSET rows
  /\ lastUsed \in [Session -> Nat]
  /\ expires \in [Session -> Nat]
  /\ stage \in [Request -> Stage]
  /\ right \in [Request -> BOOLEAN]
  /\ seenUntil \in [Request -> Nat]
  /\ began \in [Request -> Nat]
  /\ subject \in [Request -> Session \cup {Nobody}]
  /\ calls \in 0..MaxCalls
  /\ unlocked \in [Request -> BOOLEAN]
  /\ free \in Nat
  /\ overtaken \in [Request -> BOOLEAN]

\* However many log in at once, no more than MAX_CONCURRENT_SESSIONS sessions
\* are alive (service.rs:970-975), save those that a verification found alive
\* and touched when their idle window had just closed: verify_session's UPDATE
\* does not ask again (service.rs:1051-1055).
SessionCap == Cardinality({s \in rows \ revived : Alive(s)}) <= Cap

\* A session that is revoked or past its lifetime is dead for good, and one
\* that was idle too long comes back only by a verification that found it alive.
DeadStaysDead ==
  [][\A s \in rows : ~Alive(s) /\ Alive(s)' =>
       /\ s \notin revoked /\ expires[s] > now
       /\ \E q \in Request : stage[q] = "touching" /\ subject[q] = s]_vars

\* While the account is locked no step shortens or lifts the lock, and none opens
\* a session, but of a login that had read the account before it was locked:
\* neither a failed attempt, however late it is recorded, nor whoever else is at
\* work does.  So guessing on extends the lock or leaves it, and a lock ends by
\* time or by a raced login (service.rs:929-934, 941-950, 962-967).
OnlyRacedLoginsPass ==
  [][Locked /\ (lockedUntil' < lockedUntil \/ rows' # rows) =>
       \E q \in Request :
         /\ stage[q] \in {"resetting", "inserting"} /\ stage'[q] # stage[q]
         /\ overtaken[q]]_vars

\* From a login, or the end of a lock, to the end of the next lock, however it
\* is extended, no more wrong guesses find the account unlocked than the
\* threshold and the logins then at work: no failure is lost to another recorded
\* beside it (the UPDATE at service.rs:941-950).
GuessesAreFew == free < Threshold + Cardinality(Request)
=============================================================================
