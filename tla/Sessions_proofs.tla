-------------------------- MODULE Sessions_proofs --------------------------
(***************************************************************************)
(* Theorems about Sessions, for any number of logins and verifications     *)
(* side by side and every value of the limits.  The cap rests on the       *)
(* account's row lock: what a login has counted only shrinks while it has  *)
(* the lock.  The lockout has no lock, and rests on what a login read.     *)
(***************************************************************************)
EXTENDS Sessions, FiniteSetTheorems, TLAPS

-----------------------------------------------------------------------------
(* Types.                                                                    *)

\* What a request verifies is there; what it dates its session from is past.
Shape ==
  \A q \in Request :
    /\ stage[q] = "touching" => subject[q] \in rows
    /\ stage[q] \in {"locking", "counting", "inserting"} => began[q] <= now

Typed == TypeOK /\ Shape

LEMMA TypedInit == Init => Typed
BY SessionsAssumption DEF Init, Typed, TypeOK, Shape, Stage

\* A request that ends leaves its arguments in their types.
LEMMA EndTypes ==
  ASSUME Typed, NEW q \in Request, End(q)
  PROVE  /\ now' = now /\ calls' \in 0..MaxCalls
         /\ accountLock' \in Request \cup {Nobody}
         /\ accountLock' # Nobody => stage'[accountLock'] \in {"counting", "inserting"}
         /\ stage' \in [Request -> Stage]
         /\ right' \in [Request -> BOOLEAN]
         /\ seenUntil' \in [Request -> Nat]
         /\ began' \in [Request -> Nat]
         /\ subject' \in [Request -> Session \cup {Nobody}]
         /\ unlocked' \in [Request -> BOOLEAN]
<1>1. /\ stage' \in [Request -> Stage]
      /\ right' \in [Request -> BOOLEAN]
      /\ seenUntil' \in [Request -> Nat]
      /\ began' \in [Request -> Nat]
      /\ subject' \in [Request -> Session \cup {Nobody}]
      /\ unlocked' \in [Request -> BOOLEAN]
  BY DEF Typed, TypeOK, End, Stage
<1>2. /\ accountLock' \in Request \cup {Nobody}
      /\ accountLock' # Nobody => stage'[accountLock'] \in {"counting", "inserting"}
  BY DEF Typed, TypeOK, End, Unlock
<1>3. QED
  BY <1>1, <1>2 DEF Typed, TypeOK, End

LEMMA EndShape ==
  ASSUME Typed, NEW q \in Request, End(q), rows \subseteq rows'
  PROVE  Shape'
BY DEF Typed, TypeOK, Shape, End

LEMMA TypedNext == Typed /\ [Next]_vars => Typed'
<1> SUFFICES ASSUME Typed, [Next]_vars PROVE Typed'
  OBVIOUS
<1>0. CASE UNCHANGED vars
  BY <1>0 DEF vars, accountVars, sessionVars, requestVars, Typed, TypeOK, Shape, Eligible
<1>1. ASSUME NEW q \in Request, NEW r \in BOOLEAN, FindAccount(q, r) PROVE Typed'
  <2>1. /\ stage' \in [Request -> Stage] /\ right' \in [Request -> BOOLEAN]
        /\ seenUntil' \in [Request -> Nat] /\ unlocked' \in [Request -> BOOLEAN]
        /\ calls' \in 0..MaxCalls
    BY <1>1, SessionsAssumption DEF FindAccount, Begin, Locked, Typed, TypeOK, Stage
  <2>2. QED
    BY <1>1, <2>1
    DEF FindAccount, Begin, accountVars, sessionVars, Typed, TypeOK, Shape
<1>2. ASSUME NEW q \in Request, NEW s \in Session, FindSession(q, s) PROVE Typed'
  <2>1. /\ stage' \in [Request -> Stage] /\ subject' \in [Request -> Session \cup {Nobody}]
        /\ calls' \in 0..MaxCalls /\ s \in rows
    BY <1>2, SessionsAssumption
    DEF FindSession, Begin, Alive, Eligible, Typed, TypeOK, Stage
  <2>2. QED
    BY <1>2, <2>1
    DEF FindSession, Begin, accountVars, sessionVars, Typed, TypeOK, Shape
<1>3. ASSUME NEW q \in Request, Decide(q) \/ CountSessions(q) PROVE Typed'
  <2>1. stage' \in [Request -> Stage]
    BY <1>3 DEF Decide, CountSessions, Advance, Typed, TypeOK, Stage
  <2>2. QED
    BY <1>3, <2>1
    DEF Decide, CountSessions, Advance, accountVars, sessionVars, Typed, TypeOK, Shape
<1>4. ASSUME NEW q \in Request, RecordFailure(q) PROVE Typed'
  <2>1. failed' \in Nat /\ lockedUntil' \in Nat /\ free' \in Nat
    BY <1>4, SessionsAssumption DEF RecordFailure, Typed, TypeOK
  <2>2. overtaken' \in [Request -> BOOLEAN]
    BY <1>4 DEF RecordFailure, Typed, TypeOK
  <2>3. End(q) /\ UNCHANGED sessionVars
    BY <1>4 DEF RecordFailure
  <2>4. QED
    BY <2>1, <2>2, <2>3, EndTypes, EndShape DEF sessionVars, Typed, TypeOK
<1>5. ASSUME NEW q \in Request, ResetFailures(q) PROVE Typed'
  BY <1>5 DEF ResetFailures, Advance, sessionVars, Typed, TypeOK, Shape, Stage
<1>6. ASSUME NEW q \in Request, BeginTransaction(q) PROVE Typed'
  BY <1>6 DEF BeginTransaction, Advance, accountVars, sessionVars, Typed, TypeOK, Shape, Stage
<1>7. ASSUME NEW q \in Request, LockAccount(q) PROVE Typed'
  BY <1>7 DEF LockAccount, Advance, accountVars, sessionVars, Typed, TypeOK, Shape, Stage
<1>8. ASSUME NEW q \in Request, NEW s \in Session, InsertSession(q, s) PROVE Typed'
  <2>1. lastUsed' \in [Session -> Nat] /\ expires' \in [Session -> Nat]
    BY <1>8, SessionsAssumption DEF InsertSession, Typed, TypeOK
  <2>2. End(q) /\ rows' = rows \cup {s}
    BY <1>8 DEF InsertSession
  <2>3. overtaken' \in [Request -> BOOLEAN]
    BY <1>8 DEF InsertSession, Forget, Typed, TypeOK
  <2>4. QED
    BY <1>8, <2>1, <2>2, <2>3, EndTypes, EndShape DEF InsertSession, accountVars, Typed, TypeOK
<1>9. ASSUME NEW q \in Request, Touch(q) PROVE Typed'
  <2>1. subject[q] \in rows
    BY <1>9 DEF Touch, Typed, Shape
  <2>2. lastUsed' \in [Session -> Nat] /\ revived' \subseteq rows
    BY <1>9, <2>1, SessionsAssumption DEF Touch, Typed, TypeOK
  <2>3. overtaken' \in [Request -> BOOLEAN] /\ End(q)
    BY <1>9 DEF Touch, Forget, Typed, TypeOK
  <2>4. QED
    BY <1>9, <2>2, <2>3, EndTypes, EndShape DEF Touch, accountVars, Typed, TypeOK
<1>10. ASSUME NEW q \in Request, Stop(q) PROVE Typed'
  BY <1>10, EndTypes, EndShape DEF Stop, Forget, accountVars, sessionVars, Typed, TypeOK
<1>11. ASSUME NEW s \in Session, RevokeSession(s) PROVE Typed'
  BY <1>11 DEF RevokeSession, accountVars, requestVars, Typed, TypeOK, Shape
<1>12. CASE RevokeAllSessions
  BY <1>12 DEF RevokeAllSessions, accountVars, requestVars, Typed, TypeOK, Shape
<1>13. CASE Tick
  BY <1>13, SessionsAssumption DEF Tick, sessionVars, requestVars, Typed, TypeOK, Shape
<1>14. QED
  BY <1>0, <1>1, <1>2, <1>3, <1>4, <1>5, <1>6, <1>7, <1>8, <1>9, <1>10, <1>11, <1>12, <1>13
  DEF Next, LoginStep

\* Every variable keeps its type, and the account's lock belongs to a login
\* that is counting or inserting.
THEOREM TypeCorrect == Spec => []TypeOK
<1>1. Typed => TypeOK
  BY DEF Typed
<1>2. QED
  BY <1>1, TypedInit, TypedNext, PTL DEF Spec

-----------------------------------------------------------------------------
(* The lockout: what a login may do about the account's lock depends on what *)
(* it read, and a lock set since is noted.                                   *)

Deciding == {"hashed", "failing", "resetting", "beginning", "locking", "counting", "inserting"}

Passed == {"resetting", "beginning", "locking", "counting", "inserting"}

Noted(q) ==
  /\ stage[q] \in Deciding /\ ~overtaken[q] => lockedUntil <= seenUntil[q]
  /\ stage[q] \in Passed => seenUntil[q] <= now

AllNoted == \A q \in Request : Noted(q)

LEMMA NotedNext == Typed /\ AllNoted /\ [Next]_vars => AllNoted'
<1> SUFFICES ASSUME Typed, AllNoted, [Next]_vars, NEW p \in Request PROVE Noted(p)'
  BY DEF AllNoted
<1> USE DEF Typed, TypeOK
<1>0. CASE UNCHANGED vars
  BY <1>0 DEF vars, accountVars, requestVars, AllNoted, Noted
<1>1. ASSUME NEW q \in Request, NEW r \in BOOLEAN, FindAccount(q, r) PROVE Noted(p)'
  BY <1>1 DEF FindAccount, Begin, accountVars, AllNoted, Noted, Deciding, Passed
<1>2. ASSUME NEW q \in Request, NEW s \in Session, FindSession(q, s) PROVE Noted(p)'
  BY <1>2 DEF FindSession, Begin, accountVars, AllNoted, Noted, Deciding, Passed
<1>3. ASSUME NEW q \in Request, Decide(q) PROVE Noted(p)'
  BY <1>3 DEF Decide, Advance, accountVars, AllNoted, Noted, Deciding, Passed
<1>4. ASSUME NEW q \in Request, RecordFailure(q) PROVE Noted(p)'
  <2>1. CASE p = q
    BY <1>4, <2>1 DEF RecordFailure, End, Noted, Deciding, Passed
  <2>2. CASE p # q /\ failed + 1 >= Threshold /\ stage[p] # "idle"
    BY <1>4, <2>2, SessionsAssumption
    DEF RecordFailure, End, AllNoted, Noted, Deciding, Passed
  <2>3. CASE p # q /\ stage[p] = "idle"
    BY <1>4, <2>3 DEF RecordFailure, End, Noted, Deciding, Passed
  <2>4. CASE p # q /\ ~(failed + 1 >= Threshold)
    BY <1>4, <2>4 DEF RecordFailure, End, AllNoted, Noted, Deciding, Passed
  <2>5. QED
    BY <2>1, <2>2, <2>3, <2>4
<1>5. ASSUME NEW q \in Request, ResetFailures(q) PROVE Noted(p)'
  BY <1>5 DEF ResetFailures, Advance, AllNoted, Noted, Deciding, Passed
<1>6. ASSUME NEW q \in Request, BeginTransaction(q) \/ LockAccount(q) \/ CountSessions(q)
      PROVE  Noted(p)'
  BY <1>6 DEF BeginTransaction, LockAccount, CountSessions, Advance, accountVars,
     AllNoted, Noted, Deciding, Passed
<1>7. ASSUME NEW q \in Request, NEW s \in Session, InsertSession(q, s) PROVE Noted(p)'
  BY <1>7 DEF InsertSession, End, Forget, accountVars, AllNoted, Noted, Deciding, Passed
<1>8. ASSUME NEW q \in Request, Touch(q) \/ Stop(q) PROVE Noted(p)'
  BY <1>8 DEF Touch, Stop, End, Forget, accountVars, AllNoted, Noted, Deciding, Passed
<1>9. ASSUME NEW s \in Session, RevokeSession(s) PROVE Noted(p)'
  BY <1>9 DEF RevokeSession, accountVars, requestVars, AllNoted, Noted
<1>10. CASE RevokeAllSessions
  BY <1>10 DEF RevokeAllSessions, accountVars, requestVars, AllNoted, Noted
<1>11. CASE Tick
  BY <1>11 DEF Tick, requestVars, AllNoted, Noted
<1>12. QED
  BY <1>0, <1>1, <1>2, <1>3, <1>4, <1>5, <1>6, <1>7, <1>8, <1>9, <1>10, <1>11
  DEF Next, LoginStep

\* No lock reaches further than a lock set now would, so that a failure recorded
\* beside it cannot bring it forward.
LockInReach == lockedUntil <= now + LockPeriod

LEMMA ReachNext == Typed /\ LockInReach /\ [Next]_vars => LockInReach'
<1> SUFFICES ASSUME Typed, LockInReach, [Next]_vars PROVE LockInReach'
  OBVIOUS
<1>0. now \in Nat /\ lockedUntil \in Nat /\ LockPeriod \in Nat
  BY SessionsAssumption DEF Typed, TypeOK
<1>1. ASSUME NEW q \in Request, RecordFailure(q) PROVE LockInReach'
  BY <1>0, <1>1 DEF RecordFailure, End, LockInReach
<1>2. ASSUME NEW q \in Request, ResetFailures(q) PROVE LockInReach'
  BY <1>0, <1>2 DEF ResetFailures, Advance, LockInReach
<1>3. CASE Tick
  BY <1>0, <1>3 DEF Tick, LockInReach
<1>4. ASSUME NEW q \in Request,
             \/ \E r \in BOOLEAN : FindAccount(q, r)
             \/ \E s \in Session : FindSession(q, s) \/ InsertSession(q, s)
             \/ Decide(q) \/ BeginTransaction(q) \/ LockAccount(q) \/ CountSessions(q)
             \/ Touch(q) \/ Stop(q)
      PROVE  UNCHANGED <<now, lockedUntil>>
  BY <1>4 DEF FindAccount, FindSession, InsertSession, Decide, BeginTransaction, LockAccount,
     CountSessions, Touch, Stop, Begin, Advance, End, accountVars
<1>5. (\E s \in Session : RevokeSession(s)) \/ RevokeAllSessions \/ UNCHANGED vars
        => UNCHANGED <<now, lockedUntil>>
  BY DEF RevokeSession, RevokeAllSessions, vars, accountVars
<1>6. UNCHANGED <<now, lockedUntil>> => LockInReach'
  BY DEF LockInReach
<1>7. QED
  BY <1>1, <1>2, <1>3, <1>4, <1>5, <1>6 DEF Next, LoginStep

\* No step of any request brings a lock in force forward or opens a session
\* beside it, but a login's that had read the account before the lock was set.
THEOREM RacedLogins == Spec => OnlyRacedLoginsPass
<1> DEFINE Raced ==
      Locked /\ (lockedUntil' < lockedUntil \/ rows' # rows) =>
        \E q \in Request :
          /\ stage[q] \in {"resetting", "inserting"} /\ stage'[q] # stage[q]
          /\ overtaken[q]
<1>1. Typed /\ AllNoted => \A q \in Request : stage[q] \in Passed /\ Locked => overtaken[q]
  BY DEF Typed, TypeOK, AllNoted, Noted, Locked, Deciding, Passed
<1>2. Typed /\ AllNoted /\ LockInReach /\ [Next]_vars => Raced
  <2> SUFFICES ASSUME Typed, AllNoted, LockInReach, [Next]_vars, Locked,
                      lockedUntil' < lockedUntil \/ rows' # rows
               PROVE  \E q \in Request :
                        /\ stage[q] \in {"resetting", "inserting"} /\ stage'[q] # stage[q]
                        /\ overtaken[q]
    OBVIOUS
  <2>0. now \in Nat /\ lockedUntil \in Nat /\ LockPeriod \in Nat /\ stage \in [Request -> Stage]
    BY SessionsAssumption DEF Typed, TypeOK
  <2>1. ASSUME NEW q \in Request, ResetFailures(q) \/ \E s \in Session : InsertSession(q, s)
        PROVE  /\ stage[q] \in {"resetting", "inserting"} /\ stage'[q] # stage[q]
               /\ overtaken[q]
    <3>1. stage[q] \in {"resetting", "inserting"} /\ stage'[q] # stage[q]
      BY <2>0, <2>1 DEF ResetFailures, InsertSession, Advance, End
    <3>2. QED
      BY <1>1, <3>1 DEF Passed
  <2>2. ASSUME NEW q \in Request, RecordFailure(q) PROVE FALSE
    BY <2>0, <2>2 DEF RecordFailure, LockInReach, sessionVars
  <2>3. ASSUME NEW q \in Request,
               \/ \E r \in BOOLEAN : FindAccount(q, r)
               \/ \E s \in Session : FindSession(q, s)
               \/ Decide(q) \/ BeginTransaction(q) \/ LockAccount(q) \/ CountSessions(q)
               \/ Touch(q) \/ Stop(q)
        PROVE  UNCHANGED <<lockedUntil, rows>>
    BY <2>3 DEF FindAccount, FindSession, Decide, BeginTransaction, LockAccount, CountSessions,
       Touch, Stop, Begin, Advance, accountVars, sessionVars
  <2>4. (\E s \in Session : RevokeSession(s)) \/ RevokeAllSessions \/ Tick \/ UNCHANGED vars
          => UNCHANGED <<lockedUntil, rows>>
    BY DEF RevokeSession, RevokeAllSessions, Tick, vars, accountVars, sessionVars
  <2>5. ~UNCHANGED <<lockedUntil, rows>>
    BY <2>0
  <2>6. QED
    BY <2>1, <2>2, <2>3, <2>4, <2>5 DEF Next, LoginStep
<1>3. Init => AllNoted /\ LockInReach
  BY SessionsAssumption DEF Init, AllNoted, Noted, Deciding, Passed, LockInReach
<1>4. QED
  BY <1>2, <1>3, TypedInit, TypedNext, NotedNext, ReachNext, PTL DEF Spec, OnlyRacedLoginsPass

-----------------------------------------------------------------------------
(* The cap: who is counting or inserting has the lock, and what it counted   *)
(* only shrinks, but for its own insertion.                                  *)

\* The sessions that are eligible at time t and have not been revived.
OpenAt(t) == {s \in rows \ revived : Eligible(s, t)}

Counted(q) ==
  /\ stage[q] \in {"counting", "inserting"} => accountLock = q
  /\ stage[q] = "inserting" => Cardinality(OpenAt(began[q])) < Cap

CapInv == (\A q \in Request : Counted(q)) /\ SessionCap

\* Every step but an insertion takes sessions away, at any time up to now.
LEMMA Shrinks ==
  ASSUME Typed, [Next]_vars, NEW t \in Nat, t <= now,
         ~\E q \in Request, s \in Session : InsertSession(q, s)
  PROVE  OpenAt(t)' \subseteq OpenAt(t)
<1>1. CASE \E q \in Request : Touch(q)
  <2>1. PICK q \in Request : Touch(q)
    BY <1>1
  <2> DEFINE u == subject[q]
  <2>2. u \in rows /\ rows' = rows /\ expires' = expires /\ revoked' = revoked
        /\ lastUsed' \in [Session -> Nat]
    BY <2>1, TypedNext DEF Touch, Typed, TypeOK, Shape
  <2>3. \A s \in rows : s # u => lastUsed'[s] = lastUsed[s]
    BY <2>1, <2>2 DEF Touch, Typed, TypeOK
  <2>4. u \notin revived' => Eligible(u, now)
    BY <2>1 DEF Touch, Alive
  <2>5. u \notin revived' => Eligible(u, t)
    BY <2>2, <2>4, SessionsAssumption DEF Eligible, Typed, TypeOK
  <2>6. revived \subseteq revived'
    BY <2>1 DEF Touch
  <2>7. QED
    BY <2>2, <2>3, <2>5, <2>6 DEF OpenAt, Eligible
<1>2. CASE ~\E q \in Request : Touch(q)
  <2>1. rows' = rows /\ lastUsed' = lastUsed /\ expires' = expires
        /\ revoked \subseteq revoked' /\ revived' = revived
    BY <1>2 DEF Next, LoginStep, FindAccount, FindSession, Begin, Decide, RecordFailure,
       ResetFailures, BeginTransaction, LockAccount, CountSessions, Stop, RevokeSession,
       RevokeAllSessions, Tick, Advance, vars, sessionVars, Typed, TypeOK
  <2>2. QED
    BY <2>1 DEF OpenAt, Eligible
<1>3. QED
  BY <1>1, <1>2

LEMMA OpenFinite ==
  ASSUME Typed, NEW t \in Nat
  PROVE  IsFiniteSet(OpenAt(t)) /\ Cardinality(OpenAt(t)) \in Nat
<1>1. OpenAt(t) \in SUBSET Session
  BY DEF OpenAt, Typed, TypeOK
<1>2. IsFiniteSet(OpenAt(t))
  BY <1>1, FS_Subset, SessionsAssumption
<1>3. QED
  BY <1>2, FS_CardinalityType

\* Those alive now were eligible at any time before.
LEMMA AliveWereOpen ==
  ASSUME Typed, NEW t \in Nat, t <= now
  PROVE  {s \in rows \ revived : Alive(s)} \subseteq OpenAt(t)
BY SessionsAssumption DEF OpenAt, Alive, Eligible, Typed, TypeOK

LEMMA CountedNext ==
  ASSUME Typed, CapInv, [Next]_vars, NEW p \in Request
  PROVE  Counted(p)'
<1>1. ASSUME stage'[p] \in {"counting", "inserting"} PROVE accountLock' = p
  <2>1. ASSUME NEW q \in Request, NEW r \in BOOLEAN, FindAccount(q, r) PROVE accountLock' = p
    BY <1>1, <2>1 DEF FindAccount, Begin, CapInv, Counted, Typed, TypeOK
  <2>2. ASSUME NEW q \in Request, NEW s \in Session, FindSession(q, s) PROVE accountLock' = p
    BY <1>1, <2>2 DEF FindSession, Begin, CapInv, Counted, Typed, TypeOK
  <2>3. ASSUME NEW q \in Request,
               Decide(q) \/ ResetFailures(q) \/ BeginTransaction(q) \/ CountSessions(q)
        PROVE  accountLock' = p
    BY <1>1, <2>3 DEF Decide, ResetFailures, BeginTransaction, CountSessions, Advance, CapInv,
       Counted, Typed, TypeOK
  <2>4. ASSUME NEW q \in Request, LockAccount(q) PROVE accountLock' = p
    <3>1. p # q => accountLock = p /\ p # Nobody
      BY <1>1, <2>4, SessionsAssumption DEF LockAccount, Advance, CapInv, Counted, Typed, TypeOK
    <3>2. QED
      BY <2>4, <3>1 DEF LockAccount
  <2>5. ASSUME NEW q \in Request, End(q) PROVE accountLock' = p
    <3>1. p # q /\ stage[p] = stage'[p]
      BY <1>1, <2>5 DEF End, Typed, TypeOK
    <3>2. QED
      BY <1>1, <2>5, <3>1 DEF End, Unlock, CapInv, Counted
  <2>6. ASSUME NEW s \in Session, RevokeSession(s) PROVE accountLock' = p
    BY <1>1, <2>6 DEF RevokeSession, requestVars, CapInv, Counted
  <2>7. CASE RevokeAllSessions \/ Tick \/ UNCHANGED vars
    BY <1>1, <2>7 DEF RevokeAllSessions, Tick, vars, requestVars, CapInv, Counted
  <2>8. QED
    BY <2>1, <2>2, <2>3, <2>4, <2>5, <2>6, <2>7
    DEF Next, LoginStep, RecordFailure, InsertSession, Touch, Stop
<1>2. ASSUME stage'[p] = "inserting" PROVE Cardinality(OpenAt(began[p])') < Cap
  <2>1. began[p] \in Nat /\ began'[p] = began[p] /\ began[p] <= now
        /\ Cardinality(OpenAt(began[p])) < Cap
    <3>1. CASE CountSessions(p)
      <4>1. began[p] \in Nat /\ began[p] <= now /\ began' = began
        BY <3>1 DEF CountSessions, Typed, TypeOK, Shape
      <4>2. OpenAt(began[p]) \in SUBSET {s \in Session : Eligible(s, began[p])}
        BY DEF OpenAt, Typed, TypeOK
      <4>3. {s \in Session : Eligible(s, began[p])} \in SUBSET Session
        OBVIOUS
      <4>4. IsFiniteSet({s \in Session : Eligible(s, began[p])})
        BY <4>3, FS_Subset, SessionsAssumption
      <4>5. Cardinality(OpenAt(began[p])) <= Cardinality({s \in Session : Eligible(s, began[p])})
        BY <4>2, <4>4, FS_Subset
      <4>6. /\ Cardinality({s \in Session : Eligible(s, began[p])}) \in Nat
            /\ Cardinality(OpenAt(began[p])) \in Nat
        BY <4>1, <4>4, FS_CardinalityType, OpenFinite
      <4>7. QED
        BY <3>1, <4>1, <4>5, <4>6, SessionsAssumption DEF CountSessions
    <3>2. CASE ~CountSessions(p)
      <4>1. stage[p] = "inserting" /\ began'[p] = began[p]
        <5>1. ASSUME NEW q \in Request, End(q) PROVE stage[p] = "inserting" /\ began'[p] = began[p]
          BY <1>2, <5>1 DEF End, Typed, TypeOK
        <5>2. ASSUME NEW q \in Request,
                     \/ \E r \in BOOLEAN : FindAccount(q, r)
                     \/ \E s \in Session : FindSession(q, s)
              PROVE  stage[p] = "inserting" /\ began'[p] = began[p]
          BY <1>2, <5>2 DEF FindAccount, FindSession, Begin, Typed, TypeOK
        <5>3. ASSUME NEW q \in Request,
                     \/ Decide(q) \/ ResetFailures(q) \/ BeginTransaction(q) \/ LockAccount(q)
                     \/ CountSessions(q)
              PROVE  stage[p] = "inserting" /\ began'[p] = began[p]
          BY <1>2, <3>2, <5>3 DEF Decide, ResetFailures, BeginTransaction, LockAccount,
             CountSessions, Advance, Typed, TypeOK
        <5>4. ASSUME NEW s \in Session, RevokeSession(s)
              PROVE  stage[p] = "inserting" /\ began'[p] = began[p]
          BY <1>2, <5>4 DEF RevokeSession, requestVars
        <5>5. CASE RevokeAllSessions \/ Tick \/ UNCHANGED vars
          BY <1>2, <5>5 DEF RevokeAllSessions, Tick, vars, requestVars
        <5>6. QED
          BY <5>1, <5>2, <5>3, <5>4, <5>5
          DEF Next, LoginStep, RecordFailure, InsertSession, Touch, Stop
      <4>2. QED
        BY <4>1 DEF CapInv, Counted, Typed, TypeOK, Shape
    <3>3. QED
      BY <3>1, <3>2
  <2>2. ASSUME NEW q \in Request, NEW s \in Session, InsertSession(q, s) PROVE FALSE
    <3>1. p # q /\ stage[p] = "inserting" /\ stage[q] = "inserting"
      BY <1>2, <2>2 DEF InsertSession, End, Typed, TypeOK
    <3>2. QED
      BY <3>1 DEF CapInv, Counted
  <2>3. PICK t \in Nat : t = began[p] /\ t <= now
    BY <2>1
  <2>4. OpenAt(t)' \in SUBSET OpenAt(t)
    BY <2>2, <2>3, Shrinks
  <2>5. IsFiniteSet(OpenAt(t)) /\ Cardinality(OpenAt(t)) \in Nat
    BY OpenFinite
  <2>6. /\ Cardinality(OpenAt(t)') <= Cardinality(OpenAt(t))
        /\ Cardinality(OpenAt(t)') \in Nat
    BY <2>4, <2>5, FS_Subset, FS_CardinalityType
  <2>7. OpenAt(began[p])' = OpenAt(t)'
    BY <2>1, <2>3
  <2>8. QED
    BY <2>1, <2>3, <2>5, <2>6, <2>7, SessionsAssumption
<1>3. QED
  BY <1>1, <1>2 DEF Counted

LEMMA TimePasses ==
  ASSUME Typed, [Next]_vars
  PROVE  now \in Nat /\ now' \in Nat /\ now <= now'
<1>1. now' = now \/ now' = now + 1
  BY DEF Next, LoginStep, FindAccount, FindSession, Begin, Decide, RecordFailure, ResetFailures,
     BeginTransaction, LockAccount, CountSessions, InsertSession, Touch, Stop, End,
     RevokeSession, RevokeAllSessions, Tick, Advance, vars
<1>2. now \in Nat
  BY DEF Typed, TypeOK
<1>3. QED
  BY <1>1, <1>2

LEMMA CapNext ==
  ASSUME Typed, CapInv, [Next]_vars
  PROVE  SessionCap'
<1> DEFINE Living == {s \in rows \ revived : Alive(s)}
<1>0. now \in Nat /\ now <= now'
  BY TimePasses
<1>1. CASE \E q \in Request, s \in Session : InsertSession(q, s)
  <2>1. PICK q \in Request, s \in Session : InsertSession(q, s)
    BY <1>1
  <2>2. PICK t \in Nat : t = began[q] /\ t <= now
    BY <2>1 DEF InsertSession, Typed, TypeOK, Shape
  <2>3. Cardinality(OpenAt(t)) < Cap
    BY <2>1, <2>2 DEF InsertSession, CapInv, Counted
  <2>4. Living' \in SUBSET (OpenAt(t) \cup {s})
    <3>1. /\ rows' = rows \cup {s} /\ revived' = revived /\ revoked' = revoked /\ now' = now
          /\ \A x \in rows : lastUsed'[x] = lastUsed[x] /\ expires'[x] = expires[x]
      BY <2>1 DEF InsertSession, End, Typed, TypeOK
    <3>2. \A x \in rows : Alive(x)' => Alive(x)
      BY <3>1 DEF Alive, Eligible
    <3>3. QED
      BY <2>2, <3>1, <3>2, AliveWereOpen
  <2>5. /\ IsFiniteSet(OpenAt(t)) /\ Cardinality(OpenAt(t)) \in Nat
        /\ IsFiniteSet(OpenAt(t) \cup {s})
        /\ Cardinality(OpenAt(t) \cup {s}) <= Cardinality(OpenAt(t)) + 1
        /\ Cardinality(OpenAt(t) \cup {s}) \in Nat
    <3>1. IsFiniteSet(OpenAt(t)) /\ Cardinality(OpenAt(t)) \in Nat
      BY OpenFinite
    <3>2. /\ IsFiniteSet(OpenAt(t) \cup {s})
          /\ \/ Cardinality(OpenAt(t) \cup {s}) = Cardinality(OpenAt(t))
             \/ Cardinality(OpenAt(t) \cup {s}) = Cardinality(OpenAt(t)) + 1
      BY <3>1, FS_AddElement
    <3>3. QED
      BY <3>1, <3>2
  <2>6. Cardinality(Living') <= Cardinality(OpenAt(t) \cup {s}) /\ Cardinality(Living') \in Nat
    BY <2>4, <2>5, FS_Subset, FS_CardinalityType
  <2>7. QED
    BY <2>3, <2>5, <2>6, SessionsAssumption DEF SessionCap
<1>2. CASE ~\E q \in Request, s \in Session : InsertSession(q, s)
  <2>1. PICK t \in Nat : t = now
    BY <1>0
  <2>2. OpenAt(t)' \in SUBSET OpenAt(t) /\ OpenAt(t) = Living
    BY <1>2, <2>1, Shrinks DEF OpenAt, Alive
  <2>3. Living' \in SUBSET OpenAt(t)'
    <3>1. Typed' /\ t <= now'
      BY <1>0, <2>1, TypedNext
    <3>2. QED
      BY <3>1, SessionsAssumption DEF OpenAt, Alive, Eligible, Typed, TypeOK
  <2>4. IsFiniteSet(Living) /\ Cardinality(Living) \in Nat
    BY <2>2, OpenFinite
  <2>5. Cardinality(Living') <= Cardinality(Living) /\ Cardinality(Living') \in Nat
    BY <2>2, <2>3, <2>4, FS_Subset, FS_CardinalityType
  <2>6. QED
    BY <2>4, <2>5, SessionsAssumption DEF CapInv, SessionCap
<1>3. QED
  BY <1>1, <1>2

\* However many log in at once, and whatever they find, the account has no more
\* sessions alive than the cap, save revived ones.
THEOREM CapCorrect == Spec => []SessionCap
<1>1. Init => CapInv
  <2>1. ASSUME Init PROVE {s \in rows \ revived : Alive(s)} = {}
    BY <2>1 DEF Init
  <2>2. QED
    BY <2>1, FS_EmptySet, SessionsAssumption DEF Init, CapInv, Counted, SessionCap
<1>2. Typed /\ CapInv /\ [Next]_vars => CapInv'
  BY CountedNext, CapNext DEF CapInv
<1>3. CapInv => SessionCap
  BY DEF CapInv
<1>4. QED
  BY <1>1, <1>2, <1>3, TypedInit, TypedNext, PTL DEF Spec

-----------------------------------------------------------------------------

\* A session that is dead comes back only by the verification that found it
\* alive, and never when it is revoked or past its lifetime.
THEOREM DeadStaysDeadCorrect == Spec => DeadStaysDead
<1> DEFINE Dies ==
      \A s \in rows : ~Alive(s) /\ Alive(s)' =>
        /\ s \notin revoked /\ expires[s] > now
        /\ \E q \in Request : stage[q] = "touching" /\ subject[q] = s
<1>1. Typed /\ [Next]_vars => Dies
  <2> SUFFICES ASSUME Typed, [Next]_vars, NEW s \in rows, ~Alive(s), Alive(s)'
               PROVE  /\ s \notin revoked /\ expires[s] > now
                      /\ \E q \in Request : stage[q] = "touching" /\ subject[q] = s
    OBVIOUS
  <2>0. now \in Nat /\ now' \in Nat /\ now <= now' /\ s \in Session
        /\ lastUsed[s] \in Nat /\ expires[s] \in Nat
    BY TimePasses DEF Typed, TypeOK
  <2>1. expires'[s] = expires[s] /\ revoked \subseteq revoked'
    BY <2>0 DEF Next, LoginStep, FindAccount, FindSession, Begin, Decide, RecordFailure,
       ResetFailures, BeginTransaction, LockAccount, CountSessions, InsertSession, Touch, Stop,
       RevokeSession, RevokeAllSessions, Tick, Advance, vars, sessionVars, Typed, TypeOK
  <2>2. s \notin revoked /\ expires[s] > now
    BY <2>0, <2>1 DEF Alive, Eligible
  <2>3. lastUsed'[s] # lastUsed[s]
    BY <2>0, <2>2, SessionsAssumption DEF Alive, Eligible
  <2>4. PICK q \in Request : Touch(q) /\ subject[q] = s
    BY <2>0, <2>3 DEF Next, LoginStep, FindAccount, FindSession, Begin, Decide, RecordFailure,
       ResetFailures, BeginTransaction, LockAccount, CountSessions, InsertSession, Touch, Stop,
       RevokeSession, RevokeAllSessions, Tick, Advance, vars, sessionVars, Typed, TypeOK
  <2>5. QED
    BY <2>2, <2>4 DEF Touch
<1>2. QED
  BY <1>1, TypedInit, TypedNext, PTL DEF Spec, DeadStaysDead

-----------------------------------------------------------------------------
(* The guesses that are free: while the account is locked, every one more of *)
(* them takes a login out of those that found it unlocked.                   *)

\* The logins at work that found the account unlocked.
Early == {q \in Request : stage[q] \in {"hashed", "failing"} /\ unlocked[q]}

FreeInv ==
  /\ free <= failed
  /\ Locked => failed >= Threshold
               /\ free + Cardinality(Early) < Threshold + Cardinality(Request)
  /\ ~Locked /\ failed >= Threshold => free = 0

LEMMA EarlyFinite ==
  /\ IsFiniteSet(Early) /\ Cardinality(Early) \in Nat
  /\ IsFiniteSet(Request) /\ Cardinality(Request) \in Nat
<1>1. Early \in SUBSET Request
  BY DEF Early
<1>2. QED
  BY <1>1, FS_Subset, FS_CardinalityType, SessionsAssumption

\* A step that leaves the counter and the lock alone, and lets no login more in
\* while the account is locked.
LEMMA FreeKept ==
  ASSUME Typed, FreeInv, UNCHANGED <<now, accountVars>>, Locked => Early' \subseteq Early
  PROVE  FreeInv'
<1>1. Locked' = Locked
  BY DEF Locked, accountVars
<1>2. Locked => Cardinality(Early') <= Cardinality(Early) /\ Cardinality(Early') \in Nat
  <2>1. Locked => Early' \in SUBSET Early
    OBVIOUS
  <2>2. QED
    BY <2>1, EarlyFinite, FS_Subset, FS_CardinalityType
<1>3. QED
  BY <1>1, <1>2, EarlyFinite, SessionsAssumption DEF FreeInv, accountVars, Typed, TypeOK

LEMMA FreeNext == Typed /\ FreeInv /\ [Next]_vars => FreeInv'
<1> SUFFICES ASSUME Typed, FreeInv, [Next]_vars PROVE FreeInv'
  OBVIOUS
<1>0. CASE UNCHANGED vars
  <2>1. Early' = Early
    BY <1>0 DEF vars, requestVars, Early
  <2>2. QED
    BY <1>0, <2>1, FreeKept DEF vars
<1>1. ASSUME NEW q \in Request, NEW r \in BOOLEAN, FindAccount(q, r) PROVE FreeInv'
  <2>1. Locked => Early' \subseteq Early
    BY <1>1 DEF FindAccount, Begin, Early, Typed, TypeOK
  <2>2. QED
    BY <1>1, <2>1, FreeKept DEF FindAccount, Begin
<1>2. ASSUME NEW q \in Request, NEW s \in Session, FindSession(q, s) PROVE FreeInv'
  <2>1. Early' \subseteq Early
    BY <1>2 DEF FindSession, Begin, Early, Typed, TypeOK
  <2>2. QED
    BY <1>2, <2>1, FreeKept DEF FindSession, Begin
<1>3. ASSUME NEW q \in Request,
             Decide(q) \/ BeginTransaction(q) \/ LockAccount(q) \/ CountSessions(q)
      PROVE  FreeInv'
  <2>1. Early' \subseteq Early
    BY <1>3 DEF Decide, BeginTransaction, LockAccount, CountSessions, Advance, Early, Typed,
       TypeOK
  <2>2. QED
    BY <1>3, <2>1, FreeKept
    DEF Decide, BeginTransaction, LockAccount, CountSessions, Advance
<1>4. ASSUME NEW q \in Request, RecordFailure(q) PROVE FreeInv'
  <2>1. /\ now' = now /\ failed' = failed + 1 /\ failed \in Nat /\ free \in Nat /\ now \in Nat
        /\ lockedUntil \in Nat
    BY <1>4 DEF RecordFailure, End, Typed, TypeOK
  <2>2. Early' = Early \ {q}
    BY <1>4 DEF RecordFailure, End, Early, Typed, TypeOK
  <2>3. /\ free' \in {free, free + 1}
        /\ free' = free + 1 => q \in Early
    BY <1>4, <2>1 DEF RecordFailure, Early
  <2>4. /\ Cardinality(Early') \in Nat
        /\ q \in Early => Cardinality(Early') = Cardinality(Early) - 1
        /\ q \notin Early => Cardinality(Early') = Cardinality(Early)
    BY <2>2, EarlyFinite, FS_RemoveElement, FS_CardinalityType
  <2>5. Cardinality(Early') < Cardinality(Request)
    <3>1. Early' \in SUBSET (Request \ {q})
      BY <2>2 DEF Early
    <3>2. /\ IsFiniteSet(Request \ {q})
          /\ Cardinality(Request \ {q}) = Cardinality(Request) - 1
      BY EarlyFinite, FS_RemoveElement
    <3>3. Cardinality(Early') <= Cardinality(Request \ {q})
      BY <3>1, <3>2, FS_Subset
    <3>4. QED
      BY <2>4, <3>2, <3>3, EarlyFinite
  <2>6. CASE failed + 1 >= Threshold
    <3>1. Locked'
      BY <1>4, <2>1, <2>6, SessionsAssumption DEF RecordFailure, Locked
    <3>2. CASE Locked
      BY <2>1, <2>3, <2>4, <2>6, <3>1, <3>2, EarlyFinite, SessionsAssumption DEF FreeInv
    <3>3. CASE ~Locked
      <4>1. free < Threshold
        BY <2>1, <3>3, SessionsAssumption DEF FreeInv
      <4>2. QED
        BY <2>1, <2>3, <2>4, <2>5, <2>6, <3>1, <4>1, EarlyFinite, SessionsAssumption
        DEF FreeInv
    <3>4. QED
      BY <3>2, <3>3
  <2>7. CASE ~(failed + 1 >= Threshold)
    <3>1. ~Locked /\ lockedUntil' = lockedUntil
      BY <1>4, <2>1, <2>7, SessionsAssumption DEF RecordFailure, FreeInv
    <3>2. ~Locked'
      BY <2>1, <3>1 DEF Locked
    <3>3. QED
      BY <2>1, <2>3, <2>7, <3>2, SessionsAssumption DEF FreeInv
  <2>8. QED
    BY <2>6, <2>7
<1>5. ASSUME NEW q \in Request, ResetFailures(q) PROVE FreeInv'
  <2>1. ~Locked'
    BY <1>5 DEF ResetFailures, Advance, Locked, Typed, TypeOK
  <2>2. QED
    BY <1>5, <2>1, SessionsAssumption DEF ResetFailures, FreeInv
<1>6. ASSUME NEW q \in Request, End(q), UNCHANGED accountVars PROVE FreeInv'
  <2>1. Early' \subseteq Early
    BY <1>6 DEF End, Early, Typed, TypeOK
  <2>2. QED
    BY <1>6, <2>1, FreeKept DEF End
<1>7. ASSUME NEW s \in Session, RevokeSession(s) PROVE FreeInv'
  <2>1. Early' = Early
    BY <1>7 DEF RevokeSession, requestVars, Early
  <2>2. QED
    BY <1>7, <2>1, FreeKept DEF RevokeSession
<1>8. CASE RevokeAllSessions
  <2>1. Early' = Early
    BY <1>8 DEF RevokeAllSessions, requestVars, Early
  <2>2. QED
    BY <1>8, <2>1, FreeKept DEF RevokeAllSessions
<1>9. CASE Tick
  <2>1. Early' = Early
    BY <1>9 DEF Tick, requestVars, Early
  <2>2. /\ now' = now + 1 /\ failed' = failed /\ lockedUntil' = lockedUntil
        /\ now \in Nat /\ lockedUntil \in Nat /\ failed \in Nat /\ free \in Nat
        /\ free' = IF lockedUntil = now + 1 THEN 0 ELSE free
    BY <1>9 DEF Tick, Typed, TypeOK
  <2>3. CASE lockedUntil = now + 1
    <3>1. ~Locked' /\ free' = 0
      BY <2>2, <2>3 DEF Locked
    <3>2. QED
      BY <2>2, <3>1 DEF FreeInv
  <2>4. CASE lockedUntil # now + 1
    <3>1. Locked' = Locked /\ free' = free
      BY <2>2, <2>4 DEF Locked
    <3>2. QED
      BY <2>1, <2>2, <3>1 DEF FreeInv
  <2>5. QED
    BY <2>3, <2>4
<1>10. QED
  BY <1>0, <1>1, <1>2, <1>3, <1>4, <1>5, <1>6, <1>7, <1>8, <1>9
  DEF Next, LoginStep, InsertSession, Touch, Stop

\* Between two ends of locks, the wrong guesses that find the account unlocked
\* stay below the threshold and the logins at work, for any number of both.
THEOREM GuessesCorrect == Spec => []GuessesAreFew
<1>1. Init => FreeInv
  BY SessionsAssumption DEF Init, FreeInv, Locked
<1>2. Typed /\ FreeInv => GuessesAreFew
  <2>1. Typed => free \in Nat /\ failed \in Nat
    BY DEF Typed, TypeOK
  <2>2. CASE Locked
    BY <2>1, <2>2, EarlyFinite, SessionsAssumption DEF FreeInv, GuessesAreFew
  <2>3. CASE ~Locked
    BY <2>1, <2>3, EarlyFinite, SessionsAssumption DEF FreeInv, GuessesAreFew
  <2>4. QED
    BY <2>2, <2>3
<1>3. QED
  BY <1>1, <1>2, FreeNext, TypedInit, TypedNext, PTL DEF Spec
=============================================================================
