------------------------ MODULE Registration_proofs ------------------------
(***************************************************************************)
(* Theorems about Registration, for every set of addresses, names and      *)
(* requests and every value of the numbers.  The argument is one of row    *)
(* locks: what a request has read from a row, or is about to commit to it, *)
(* stays true because nobody else may write the row before it ends.        *)
(***************************************************************************)
EXTENDS Registration, TLAPS

\* Next, one action at a time, for the case splits below.
LEMMA NextCases ==
  ASSUME Next
  PROVE  \/ \E r \in Request :
              \/ \E e \in Email, u \in Username : CheckUsername(r, e, u)
              \/ CheckEmail(r) \/ BeginRegister(r) \/ CheckClaim(r) \/ CheckCooldown(r)
              \/ ClearExpired(r) \/ Insert(r) \/ SendCode(r) \/ Commit(r)
              \/ \E e \in Email : BeginResend(r, e)
              \/ CheckResend(r) \/ Rotate(r)
              \/ \E e \in Email, g \in 0..issued : BeginVerify(r, e, g)
              \/ LockPending(r) \/ Reject(r) \/ Promote(r) \/ Abort(r)
         \/ \E e \in Email, u \in Username : Rename(e, u)
         \/ Tick
BY DEF Next, RequestStep

-----------------------------------------------------------------------------
(* Types.  TypeOK alone is not inductive: what a request commits or mails   *)
(* has its type only because of the stages the request has gone through.    *)

Registering == {"name_free", "unregistered", "claiming", "unclaimed", "checked", "cleared"}

\* The arguments and the row that a request at its stage is sure to have.
Shape ==
  \A r \in Request :
    /\ stage[r] # "idle" => email[r] \in Email
    /\ stage[r] \in Registering => username[r] \in Username
    /\ stage[r] \in {"written", "sent", "locked"} => row[r] \in Row

Typed == TypeOK /\ Shape

\* A request that ends leaves every variable in its type.
LEMMA EndTypes ==
  ASSUME Typed, NEW r \in Request, End(r)
  PROVE  /\ stage' \in [Request -> Stage]
         /\ lock' \in [Email -> Request \cup {None}]
         /\ email' \in [Request -> Email \cup {None}]
         /\ username' \in [Request -> Username \cup {None}]
         /\ guess' \in [Request -> Code \cup {0}]
         /\ started' \in [Request -> Nat]
         /\ recent' \in [Request -> BOOLEAN]
         /\ row' \in [Request -> Row \cup {None}]
         /\ deleting' \in [Request -> SUBSET Email]
         /\ Shape'
BY DEF Typed, TypeOK, Shape, End, Stage, Open, Registering

LEMMA TypedInit == Init => Typed
BY RegistrationAssumption DEF Init, Typed, TypeOK, Shape, Stage, Open, Registering, Code

LEMMA TypedNext == Typed /\ [Next]_vars => Typed'
<1> SUFFICES ASSUME Typed, [Next]_vars PROVE Typed'
  OBVIOUS
<1>0. CASE UNCHANGED vars
  BY <1>0 DEF vars, dbVars, argVars, readVars, historyVars, mailVars, Typed, TypeOK, Shape
<1>1. ASSUME NEW r \in Request, NEW e \in Email, NEW u \in Username, CheckUsername(r, e, u)
      PROVE  Typed'
  BY <1>1 DEF CheckUsername, Advance, dbVars, readVars, historyVars, mailVars,
     Typed, TypeOK, Shape, Stage, Registering
<1>2. ASSUME NEW r \in Request, CheckEmail(r) PROVE Typed'
  <2>1. CASE End(r)
    BY <1>2, <2>1, EndTypes DEF CheckEmail, dbVars, historyVars, mailVars, Typed, TypeOK
  <2>2. CASE Advance(r, "unregistered") /\ UNCHANGED <<lock, argVars, started, readVars>>
    BY <1>2, <2>2 DEF CheckEmail, Advance, dbVars, argVars, readVars, historyVars, mailVars,
       Typed, TypeOK, Shape, Stage, Registering
  <2>3. QED
    BY <1>2, <2>1, <2>2 DEF CheckEmail
<1>3. ASSUME NEW r \in Request, BeginRegister(r) PROVE Typed'
  BY <1>3 DEF BeginRegister, Advance, dbVars, argVars, readVars, historyVars, mailVars,
     Typed, TypeOK, Shape, Stage, Open, Registering
<1>4. ASSUME NEW r \in Request, CheckClaim(r) PROVE Typed'
  <2>1. CASE End(r)
    BY <1>4, <2>1, EndTypes DEF CheckClaim, dbVars, historyVars, mailVars, Typed, TypeOK
  <2>2. CASE Advance(r, "unclaimed") /\ UNCHANGED <<lock, argVars, started, readVars>>
    BY <1>4, <2>2 DEF CheckClaim, Advance, dbVars, argVars, readVars, historyVars, mailVars,
       Typed, TypeOK, Shape, Stage, Open, Registering
  <2>3. QED
    BY <1>4, <2>1, <2>2 DEF CheckClaim
<1>5. ASSUME NEW r \in Request, CheckCooldown(r) PROVE Typed'
  <2>1. MailedWithinCooldown(email[r], started[r]) \in BOOLEAN
    BY DEF MailedWithinCooldown, Live
  <2>2. QED
    BY <1>5, <2>1 DEF CheckCooldown, Advance, dbVars, argVars, historyVars, mailVars,
       Typed, TypeOK, Shape, Stage, Open, Registering
<1>6. ASSUME NEW r \in Request, ClearExpired(r) PROVE Typed'
  <2>1. InTheWay(r) \subseteq Email
    BY DEF InTheWay
  <2>2. QED
    BY <1>6, <2>1 DEF ClearExpired, Advance, dbVars, argVars, historyVars, mailVars,
       Typed, TypeOK, Shape, Stage, Open, Registering
<1>7. ASSUME NEW r \in Request, Insert(r) PROVE Typed'
  <2>1. CASE End(r) /\ UNCHANGED <<issued, unsent>>
    BY <1>7, <2>1, EndTypes DEF Insert, dbVars, mailVars, Typed, TypeOK
  <2>2. ASSUME issued < MaxCodes, issued' = issued + 1,
               row' = [row EXCEPT ![r] = [username |-> username[r], code |-> issued + 1,
                                      attempts |-> 0, expires |-> started[r] + TTL]],
               unsent' = IF recent[r] THEN unsent \cup {issued + 1} ELSE unsent,
               lock' = [lock EXCEPT ![email[r]] = r],
               Advance(r, "written"),
               UNCHANGED <<argVars, started, recent, deleting>>
        PROVE  Typed'
    <3>1. issued + 1 \in Code /\ issued' \in 0..MaxCodes
      BY <2>2, RegistrationAssumption DEF Typed, TypeOK, Code
    <3>2. username[r] \in Username
      BY <1>7 DEF Insert, Typed, Shape, Registering
    <3>3. [username |-> username[r], code |-> issued + 1,
           attempts |-> 0, expires |-> started[r] + TTL] \in Row
      BY <3>1, <3>2, RegistrationAssumption DEF Row, Typed, TypeOK
    <3>4. row' \in [Request -> Row \cup {None}] /\ row'[r] \in Row
      BY <2>2, <3>3 DEF Typed, TypeOK
    <3>5. unsent' \subseteq Code
      BY <2>2, <3>1 DEF Typed, TypeOK
    <3>6. Shape'
      BY <1>7, <2>2, <3>4 DEF Insert, Advance, argVars, Typed, TypeOK, Shape, Registering
    <3>7. QED
      BY <1>7, <2>2, <3>1, <3>4, <3>5, <3>6 DEF Insert, Advance, dbVars, argVars, mailVars,
         Typed, TypeOK, Stage, Open
  <2>3. QED
    BY <1>7, <2>1, <2>2 DEF Insert
<1>8. ASSUME NEW r \in Request, SendCode(r) PROVE Typed'
  <2>1. CASE End(r) /\ UNCHANGED mailVars
    BY <1>8, <2>1, EndTypes DEF SendCode, dbVars, historyVars, mailVars, Typed, TypeOK
  <2>2. CASE /\ Advance(r, "sent")
             /\ mailed' = mailed \cup {<<email[r], row[r].code>>}
             /\ lastMail' = [lastMail EXCEPT ![email[r]] = now]
             /\ UNCHANGED <<lock, argVars, started, readVars>>
    <3>1. email[r] \in Email /\ row[r].code \in Code
      BY <1>8 DEF SendCode, Typed, Shape, Row
    <3>2. QED
      BY <1>8, <2>2, <3>1 DEF SendCode, Advance, dbVars, argVars, readVars, historyVars,
         Typed, TypeOK, Shape, Stage, Open, Registering
  <2>3. QED
    BY <1>8, <2>1, <2>2 DEF SendCode
<1>9. ASSUME NEW r \in Request, Commit(r) PROVE Typed'
  <2>1. pending' \in [Email -> Row \cup {None}]
    BY <1>9 DEF Commit, Typed, TypeOK
  <2>2. QED
    BY <1>9, <2>1, EndTypes DEF Commit, historyVars, mailVars, Typed, TypeOK
<1>10. ASSUME NEW r \in Request, NEW e \in Email, BeginResend(r, e) PROVE Typed'
  BY <1>10 DEF BeginResend, Advance, dbVars, readVars, historyVars, mailVars,
     Typed, TypeOK, Shape, Stage, Open, Registering
<1>11. ASSUME NEW r \in Request, CheckResend(r) PROVE Typed'
  <2>1. CASE End(r)
    BY <1>11, <2>1, EndTypes DEF CheckResend, dbVars, historyVars, mailVars, Typed, TypeOK
  <2>2. CASE Advance(r, "cool") /\ UNCHANGED <<lock, argVars, started, readVars>>
    BY <1>11, <2>2 DEF CheckResend, Advance, dbVars, argVars, readVars, historyVars, mailVars,
       Typed, TypeOK, Shape, Stage, Open, Registering
  <2>3. QED
    BY <1>11, <2>1, <2>2 DEF CheckResend
<1>12. ASSUME NEW r \in Request, Rotate(r) PROVE Typed'
  <2>1. CASE End(r) /\ UNCHANGED issued
    BY <1>12, <2>1, EndTypes DEF Rotate, dbVars, historyVars, mailVars, Typed, TypeOK
  <2>2. ASSUME pending[email[r]] # None, issued < MaxCodes, issued' = issued + 1,
               row' = [row EXCEPT ![r] = [username |-> pending[email[r]].username,
                                      code |-> issued + 1,
                                      attempts |-> 0, expires |-> started[r] + TTL]],
               lock' = [lock EXCEPT ![email[r]] = r],
               Advance(r, "written"),
               UNCHANGED <<argVars, started, recent, deleting>>
        PROVE  Typed'
    <3>1. issued + 1 \in Code /\ issued' \in 0..MaxCodes
      BY <2>2, RegistrationAssumption DEF Typed, TypeOK, Code
    <3>2. pending[email[r]] \in Row
      BY <1>12, <2>2 DEF Rotate, Typed, TypeOK, Shape
    <3>3. [username |-> pending[email[r]].username, code |-> issued + 1,
           attempts |-> 0, expires |-> started[r] + TTL] \in Row
      BY <3>1, <3>2, RegistrationAssumption DEF Row, Typed, TypeOK
    <3>4. row' \in [Request -> Row \cup {None}] /\ row'[r] \in Row
      BY <2>2, <3>3 DEF Typed, TypeOK
    <3>5. Shape'
      BY <1>12, <2>2, <3>4 DEF Rotate, Advance, argVars, Typed, TypeOK, Shape, Registering
    <3>6. QED
      BY <1>12, <2>2, <3>1, <3>4, <3>5 DEF Rotate, Advance, dbVars, argVars, historyVars,
         mailVars, Typed, TypeOK, Stage, Open
  <2>3. QED
    BY <1>12, <2>1, <2>2 DEF Rotate
<1>13. ASSUME NEW r \in Request, NEW e \in Email, NEW g \in 0..issued, BeginVerify(r, e, g)
       PROVE  Typed'
  <2>1. g \in Code \cup {0}
    BY RegistrationAssumption DEF Typed, TypeOK, Code
  <2>2. QED
    BY <1>13, <2>1 DEF BeginVerify, Advance, dbVars, readVars, historyVars, mailVars,
       Typed, TypeOK, Shape, Stage, Open, Registering
<1>14. ASSUME NEW r \in Request, LockPending(r) PROVE Typed'
  <2>1. CASE End(r)
    BY <1>14, <2>1, EndTypes DEF LockPending, dbVars, historyVars, mailVars, Typed, TypeOK
  <2>2. CASE /\ Live(email[r], started[r])
             /\ row' = [row EXCEPT ![r] = pending[email[r]]]
             /\ lock' = [lock EXCEPT ![email[r]] = r]
             /\ Advance(r, "locked")
             /\ UNCHANGED <<argVars, started, recent, deleting>>
    <3>1. pending[email[r]] \in Row
      BY <1>14, <2>2 DEF LockPending, Live, Typed, TypeOK, Shape
    <3>2. row' \in [Request -> Row \cup {None}] /\ row'[r] \in Row
      BY <2>2, <3>1 DEF Typed, TypeOK
    <3>3. Shape'
      BY <1>14, <2>2, <3>2 DEF LockPending, Advance, argVars, Typed, TypeOK, Shape, Registering
    <3>4. QED
      BY <1>14, <2>2, <3>2, <3>3 DEF LockPending, Advance, dbVars, argVars, historyVars,
         mailVars, Typed, TypeOK, Stage, Open
  <2>3. QED
    BY <1>14, <2>1, <2>2 DEF LockPending
<1>15. ASSUME NEW r \in Request, Reject(r) PROVE Typed'
  <2>1. email[r] \in Email /\ row[r] \in Row
    BY <1>15 DEF Reject, Typed, Shape
  <2>2. wrong' \in [Code -> Nat]
    BY <1>15, <2>1 DEF Reject, Typed, TypeOK, Row
  <2>3. row[r].attempts + 1 < MaxAttempts =>
          [username |-> row[r].username, code |-> row[r].code,
           attempts |-> row[r].attempts + 1, expires |-> row[r].expires] \in Row
    BY <2>1, RegistrationAssumption DEF Row
  <2>4. row[r].attempts + 1 >= MaxAttempts \/ row[r].attempts + 1 < MaxAttempts
    BY <2>1, RegistrationAssumption DEF Row
  <2>5. pending' \in [Email -> Row \cup {None}]
    BY <1>15, <2>1, <2>3, <2>4 DEF Reject, Typed, TypeOK
  <2>6. QED
    BY <1>15, <2>2, <2>5, EndTypes DEF Reject, mailVars, Typed, TypeOK
<1>16. ASSUME NEW r \in Request, Promote(r) PROVE Typed'
  <2>1. email[r] \in Email /\ row[r].username \in Username
    BY <1>16 DEF Promote, Typed, Shape, Row
  <2>2. /\ account' \in [Email -> Username \cup {None}]
        /\ pending' \in [Email -> Row \cup {None}]
    BY <1>16, <2>1 DEF Promote, dbVars, Typed, TypeOK
  <2>3. QED
    BY <1>16, <2>2, EndTypes DEF Promote, historyVars, mailVars, Typed, TypeOK
<1>17. ASSUME NEW r \in Request, Abort(r) PROVE Typed'
  BY <1>17, EndTypes DEF Abort, dbVars, historyVars, mailVars, Typed, TypeOK
<1>18. ASSUME NEW e \in Email, NEW u \in Username, Rename(e, u) PROVE Typed'
  BY <1>18 DEF Rename, argVars, readVars, historyVars, mailVars, Typed, TypeOK, Shape
<1>19. CASE Tick
  BY <1>19, RegistrationAssumption DEF Tick, dbVars, argVars, readVars, historyVars, mailVars,
     Typed, TypeOK, Shape
<1>20. QED
  BY <1>0, <1>1, <1>2, <1>3, <1>4, <1>5, <1>6, <1>7, <1>8, <1>9, <1>10, <1>11, <1>12, <1>13,
     <1>14, <1>15, <1>16, <1>17, <1>18, <1>19, NextCases

\* The variables keep their types, however the requests interleave.  A row
\* never holds MAX_ATTEMPTS attempts: the last wrong guess has burned it.
THEOREM TypeCorrect == Spec => []TypeOK
<1>1. Spec => []Typed
  BY TypedInit, TypedNext, PTL DEF Spec
<1>2. Typed => TypeOK
  BY DEF Typed
<1>3. QED
  BY <1>1, <1>2, PTL

-----------------------------------------------------------------------------
(* The inductive invariant.                                                 *)

\* No transaction began in the future or stays open too long.
Clock ==
  \A r \in Request :
    /\ started[r] <= now
    /\ stage[r] \in Open => now <= started[r] + MaxOpen

\* A verification holds the lock of the row it has read, and a transaction
\* that of the row it will write; the rows it is about to delete are its own,
\* and expired.
Locks ==
  \A r \in Request :
    /\ stage[r] = "locked" => lock[email[r]] = r /\ pending[email[r]] = row[r]
    /\ stage[r] \in {"written", "sent"} => lock[email[r]] = r
    /\ deleting[r] # {} => stage[r] \in {"cleared", "written", "sent"}
    /\ \A e \in deleting[r] :
         lock[e] = r /\ pending[e] # None /\ pending[e].expires <= started[r]

\* A row about to be committed replaces none, an expired one, or one of the
\* same username.
Drafts ==
  \A r \in Request :
    stage[r] \in {"written", "sent"} =>
      \/ pending[email[r]] = None
      \/ email[r] \in deleting[r]
      \/ pending[email[r]].username = row[r].username

\* A row is about to be committed only after its code has been mailed, or by
\* a register that was told not to mail it.
Mails ==
  \A r \in Request :
    /\ stage[r] \in {"idle", "resending", "cool"} => ~recent[r]
    /\ stage[r] = "sent" => <<email[r], row[r].code>> \in mailed
    /\ stage[r] = "written" /\ recent[r] => row[r].code \in unsent

\* A row is committed before it expires.
Expiries ==
  \A r \in Request :
    stage[r] \in {"written", "sent"} => row[r].expires = started[r] + TTL

\* No two rows, committed or about to be, have the same code; attempts count
\* the wrong guesses at it.
Codes ==
  /\ \A c \in Code : c > issued => wrong[c] = 0
  /\ \A e \in Email :
       pending[e] # None =>
         pending[e].code <= issued /\ wrong[pending[e].code] = pending[e].attempts
  /\ \A d, e \in Email :
       pending[d] # None /\ pending[e] # None /\ pending[d].code = pending[e].code => d = e
  /\ \A r \in Request :
       stage[r] \in {"written", "sent"} =>
         /\ row[r].code <= issued /\ row[r].attempts = 0 /\ wrong[row[r].code] = 0
         /\ \A e \in Email : pending[e] # None => pending[e].code # row[r].code
         /\ \A q \in Request :
              stage[q] \in {"written", "sent"} /\ row[q].code = row[r].code => q = r

-----------------------------------------------------------------------------
(* What one request's step leaves alone.                                    *)

\* The other requests, and the rows they have locked, are as they were; no
\* time has passed, and no mail is taken back.
OthersKept(r) ==
  /\ now' = now /\ mailed \subseteq mailed' /\ unsent \subseteq unsent'
  /\ \A q \in Request \ {r} :
       /\ stage'[q] = stage[q] /\ email'[q] = email[q] /\ username'[q] = username[q]
       /\ started'[q] = started[q] /\ recent'[q] = recent[q]
       /\ row'[q] = row[q] /\ deleting'[q] = deleting[q]
  /\ \A q \in Request \ {r}, e \in Email :
       lock[e] = q => lock'[e] = q /\ pending'[e] = pending[e]

\* Row locks do their work: a request's step keeps what the others hold.
LEMMA StepKeepsOthers ==
  ASSUME Typed, Locks, NEW r \in Request, RequestStep(r)
  PROVE  OthersKept(r)
<1> USE RegistrationAssumption DEF Typed, TypeOK, Shape, OthersKept, End, Advance, dbVars,
   argVars, readVars, historyVars, mailVars
<1>1. ASSUME NEW e \in Email, NEW u \in Username, CheckUsername(r, e, u) PROVE OthersKept(r)
  BY <1>1 DEF CheckUsername
<1>2. ASSUME CheckEmail(r) PROVE OthersKept(r)
  BY <1>2 DEF CheckEmail
<1>3. ASSUME BeginRegister(r) PROVE OthersKept(r)
  BY <1>3 DEF BeginRegister
<1>4. ASSUME CheckClaim(r) PROVE OthersKept(r)
  BY <1>4 DEF CheckClaim
<1>5. ASSUME CheckCooldown(r) PROVE OthersKept(r)
  BY <1>5 DEF CheckCooldown
<1>6. ASSUME ClearExpired(r) PROVE OthersKept(r)
  BY <1>6 DEF ClearExpired, InTheWay, Free
<1>7. ASSUME Insert(r) PROVE OthersKept(r)
  BY <1>7 DEF Insert, Free
<1>8. ASSUME SendCode(r) PROVE OthersKept(r)
  BY <1>8 DEF SendCode
<1>9. ASSUME Commit(r) PROVE OthersKept(r)
  BY <1>9 DEF Commit, Locks
<1>10. ASSUME NEW e \in Email, BeginResend(r, e) PROVE OthersKept(r)
  BY <1>10 DEF BeginResend
<1>11. ASSUME CheckResend(r) PROVE OthersKept(r)
  BY <1>11 DEF CheckResend
<1>12. ASSUME Rotate(r) PROVE OthersKept(r)
  BY <1>12 DEF Rotate, Free
<1>13. ASSUME NEW e \in Email, NEW g \in 0..issued, BeginVerify(r, e, g) PROVE OthersKept(r)
  BY <1>13 DEF BeginVerify
<1>14. ASSUME LockPending(r) PROVE OthersKept(r)
  BY <1>14 DEF LockPending, Free
<1>15. ASSUME Reject(r) PROVE OthersKept(r)
  BY <1>15 DEF Reject, Locks
<1>16. ASSUME Promote(r) PROVE OthersKept(r)
  BY <1>16 DEF Promote, Locks
<1>17. ASSUME Abort(r) PROVE OthersKept(r)
  BY <1>17 DEF Abort
<1>18. QED
  BY <1>1, <1>2, <1>3, <1>4, <1>5, <1>6, <1>7, <1>8, <1>9, <1>10, <1>11, <1>12, <1>13, <1>14,
     <1>15, <1>16, <1>17 DEF RequestStep

\* Between requests: a rename changes no row, and a tick nothing but the time.
LEMMA OtherStepsKeep ==
  ASSUME \/ \E e \in Email, u \in Username : Rename(e, u)
         \/ Tick
         \/ UNCHANGED vars
  PROVE  UNCHANGED <<pending, lock, stage, argVars, started, readVars, issued, historyVars,
                     mailVars>>
BY DEF Rename, Tick, vars, dbVars, argVars, readVars, historyVars, mailVars

LEMMA LocksInit == Init => Locks
BY DEF Init, Locks

\* What a request has locked stays as it read it.
LEMMA LocksNext == Typed /\ Locks /\ [Next]_vars => Locks'
<1> SUFFICES ASSUME Typed, Locks, [Next]_vars PROVE Locks'
  OBVIOUS
<1>1. CASE \/ \E e \in Email, u \in Username : Rename(e, u)
           \/ Tick
           \/ UNCHANGED vars
  BY <1>1, OtherStepsKeep DEF Locks, argVars, readVars
<1>2. ASSUME NEW r \in Request, RequestStep(r) PROVE Locks'
  <2> DEFINE L(q) ==
        /\ stage[q] = "locked" => lock[email[q]] = q /\ pending[email[q]] = row[q]
        /\ stage[q] \in {"written", "sent"} => lock[email[q]] = q
        /\ deleting[q] # {} => stage[q] \in {"cleared", "written", "sent"}
        /\ \A e \in deleting[q] :
             lock[e] = q /\ pending[e] # None /\ pending[e].expires <= started[q]
  <2>1. ASSUME NEW q \in Request \ {r} PROVE L(q)'
    <3>1. OthersKept(r) /\ L(q)
      BY <1>2, StepKeepsOthers DEF Locks
    <3>2. deleting[q] \subseteq Email /\ (stage[q] # "idle" => email[q] \in Email)
      BY DEF Typed, TypeOK, Shape
    <3>3. QED
      BY <3>1, <3>2 DEF OthersKept
  <2>2. L(r)'
    <3> USE RegistrationAssumption DEF Typed, TypeOK, Shape, Locks, End, Advance, dbVars,
       argVars, readVars, historyVars, mailVars
    <3>1. ASSUME NEW e \in Email, NEW u \in Username, CheckUsername(r, e, u) PROVE L(r)'
          BY <3>1 DEF CheckUsername
    <3>2. ASSUME CheckEmail(r) PROVE L(r)'
          BY <3>2 DEF CheckEmail
    <3>3. ASSUME BeginRegister(r) PROVE L(r)'
          BY <3>3 DEF BeginRegister
    <3>4. ASSUME CheckClaim(r) PROVE L(r)'
          BY <3>4 DEF CheckClaim
    <3>5. ASSUME CheckCooldown(r) PROVE L(r)'
          BY <3>5 DEF CheckCooldown
    <3>6. ASSUME ClearExpired(r) PROVE L(r)'
          BY <3>6 DEF ClearExpired, InTheWay, Live, Row
    <3>7. ASSUME Insert(r) PROVE L(r)'
          BY <3>7 DEF Insert, Free
    <3>8. ASSUME SendCode(r) PROVE L(r)'
          BY <3>8 DEF SendCode
    <3>9. ASSUME Commit(r) PROVE L(r)'
          BY <3>9 DEF Commit
    <3>10. ASSUME NEW e \in Email, BeginResend(r, e) PROVE L(r)'
          BY <3>10 DEF BeginResend
    <3>11. ASSUME CheckResend(r) PROVE L(r)'
          BY <3>11 DEF CheckResend
    <3>12. ASSUME Rotate(r) PROVE L(r)'
          BY <3>12 DEF Rotate
    <3>13. ASSUME NEW e \in Email, NEW g \in 0..issued, BeginVerify(r, e, g) PROVE L(r)'
          BY <3>13 DEF BeginVerify
    <3>14. ASSUME LockPending(r) PROVE L(r)'
          BY <3>14 DEF LockPending, Live
    <3>15. ASSUME Reject(r) PROVE L(r)'
          BY <3>15 DEF Reject
    <3>16. ASSUME Promote(r) PROVE L(r)'
          BY <3>16 DEF Promote
    <3>17. ASSUME Abort(r) PROVE L(r)'
          BY <3>17 DEF Abort
    <3>18. QED
      BY <1>2, <3>1, <3>2, <3>3, <3>4, <3>5, <3>6, <3>7, <3>8, <3>9, <3>10, <3>11, <3>12,
         <3>13, <3>14, <3>15, <3>16, <3>17 DEF RequestStep
  <2>3. QED
    BY <2>1, <2>2 DEF Locks
<1>3. QED
  BY <1>1, <1>2 DEF Next

LEMMA DraftsInit == Init => Drafts
BY RegistrationAssumption DEF Init, Drafts, Open

\* The row that a draft will replace stays of the draft's username: it is locked.
LEMMA DraftsNext == Typed /\ Locks /\ Drafts /\ [Next]_vars => Drafts'
<1> SUFFICES ASSUME Typed, Locks, Drafts, [Next]_vars PROVE Drafts'
  OBVIOUS
<1>1. CASE \/ \E e \in Email, u \in Username : Rename(e, u)
           \/ Tick
           \/ UNCHANGED vars
  BY <1>1, OtherStepsKeep DEF Drafts, argVars, readVars, historyVars, mailVars
<1>2. ASSUME NEW r \in Request, RequestStep(r) PROVE Drafts'
  <2> DEFINE P(q) == 
        stage[q] \in {"written", "sent"} =>
          \/ pending[email[q]] = None
          \/ email[q] \in deleting[q]
          \/ pending[email[q]].username = row[q].username
  <2>1. ASSUME NEW q \in Request \ {r} PROVE P(q)'
    <3>1. OthersKept(r) /\ P(q)
      BY <1>2, StepKeepsOthers DEF Drafts
    <3>2. deleting[q] \subseteq Email /\ (stage[q] # "idle" => email[q] \in Email)
      BY DEF Typed, TypeOK, Shape
    <3>3. QED
      BY <3>1, <3>2 DEF Locks, OthersKept
  <2>2. P(r)'
    <3> USE RegistrationAssumption DEF Typed, TypeOK, Shape, Drafts, End, Advance, dbVars,
       argVars, readVars, historyVars, mailVars
    <3>1. ASSUME NEW e \in Email, NEW u \in Username, CheckUsername(r, e, u) PROVE P(r)'
      BY <3>1 DEF CheckUsername
    <3>2. ASSUME CheckEmail(r) PROVE P(r)'
      BY <3>2 DEF CheckEmail
    <3>3. ASSUME BeginRegister(r) PROVE P(r)'
      BY <3>3 DEF BeginRegister
    <3>4. ASSUME CheckClaim(r) PROVE P(r)'
      BY <3>4 DEF CheckClaim
    <3>5. ASSUME CheckCooldown(r) PROVE P(r)'
      BY <3>5 DEF CheckCooldown
    <3>6. ASSUME ClearExpired(r) PROVE P(r)'
      BY <3>6 DEF ClearExpired
    <3>7. ASSUME Insert(r) PROVE P(r)'
      BY <3>7 DEF Insert, Conflicting
    <3>8. ASSUME SendCode(r) PROVE P(r)'
      BY <3>8 DEF SendCode
    <3>9. ASSUME Commit(r) PROVE P(r)'
      BY <3>9 DEF Commit
    <3>10. ASSUME NEW e \in Email, BeginResend(r, e) PROVE P(r)'
      BY <3>10 DEF BeginResend
    <3>11. ASSUME CheckResend(r) PROVE P(r)'
      BY <3>11 DEF CheckResend
    <3>12. ASSUME Rotate(r) PROVE P(r)'
      BY <3>12 DEF Rotate
    <3>13. ASSUME NEW e \in Email, NEW g \in 0..issued, BeginVerify(r, e, g) PROVE P(r)'
      BY <3>13 DEF BeginVerify
    <3>14. ASSUME LockPending(r) PROVE P(r)'
      BY <3>14 DEF LockPending
    <3>15. ASSUME Reject(r) PROVE P(r)'
      BY <3>15 DEF Reject
    <3>16. ASSUME Promote(r) PROVE P(r)'
      BY <3>16 DEF Promote
    <3>17. ASSUME Abort(r) PROVE P(r)'
      BY <3>17 DEF Abort
    <3>18. QED
      BY <1>2, <3>1, <3>2, <3>3, <3>4, <3>5, <3>6, <3>7, <3>8, <3>9, <3>10, <3>11, <3>12,
         <3>13, <3>14, <3>15, <3>16, <3>17 DEF RequestStep
  <2>3. QED
    BY <2>1, <2>2 DEF Drafts
<1>3. QED
  BY <1>1, <1>2 DEF Next

LEMMA MailsInit == Init => Mails
BY RegistrationAssumption DEF Init, Mails, Open

\* Whoever stores a code mails it next, unless told not to.
LEMMA MailsNext == Typed /\ Locks /\ Mails /\ [Next]_vars => Mails'
<1> SUFFICES ASSUME Typed, Locks, Mails, [Next]_vars PROVE Mails'
  OBVIOUS
<1>1. CASE \/ \E e \in Email, u \in Username : Rename(e, u)
           \/ Tick
           \/ UNCHANGED vars
  BY <1>1, OtherStepsKeep DEF Mails, argVars, readVars, historyVars, mailVars
<1>2. ASSUME NEW r \in Request, RequestStep(r) PROVE Mails'
  <2> DEFINE P(q) == 
        /\ stage[q] \in {"idle", "resending", "cool"} => ~recent[q]
        /\ stage[q] = "sent" => <<email[q], row[q].code>> \in mailed
        /\ stage[q] = "written" /\ recent[q] => row[q].code \in unsent
  <2>1. ASSUME NEW q \in Request \ {r} PROVE P(q)'
    <3>1. OthersKept(r) /\ P(q)
      BY <1>2, StepKeepsOthers DEF Mails
    <3>2. deleting[q] \subseteq Email /\ (stage[q] # "idle" => email[q] \in Email)
      BY DEF Typed, TypeOK, Shape
    <3>3. QED
      BY <3>1, <3>2 DEF OthersKept
  <2>2. P(r)'
    <3> USE RegistrationAssumption DEF Typed, TypeOK, Shape, Mails, End, Advance, dbVars,
       argVars, readVars, historyVars, mailVars
    <3>1. ASSUME NEW e \in Email, NEW u \in Username, CheckUsername(r, e, u) PROVE P(r)'
      BY <3>1 DEF CheckUsername
    <3>2. ASSUME CheckEmail(r) PROVE P(r)'
      BY <3>2 DEF CheckEmail
    <3>3. ASSUME BeginRegister(r) PROVE P(r)'
      BY <3>3 DEF BeginRegister
    <3>4. ASSUME CheckClaim(r) PROVE P(r)'
      BY <3>4 DEF CheckClaim
    <3>5. ASSUME CheckCooldown(r) PROVE P(r)'
      BY <3>5 DEF CheckCooldown
    <3>6. ASSUME ClearExpired(r) PROVE P(r)'
      BY <3>6 DEF ClearExpired
    <3>7. ASSUME Insert(r) PROVE P(r)'
      BY <3>7 DEF Insert
    <3>8. ASSUME SendCode(r) PROVE P(r)'
      BY <3>8 DEF SendCode
    <3>9. ASSUME Commit(r) PROVE P(r)'
      BY <3>9 DEF Commit
    <3>10. ASSUME NEW e \in Email, BeginResend(r, e) PROVE P(r)'
      BY <3>10 DEF BeginResend
    <3>11. ASSUME CheckResend(r) PROVE P(r)'
      BY <3>11 DEF CheckResend
    <3>12. ASSUME Rotate(r) PROVE P(r)'
      <4>1. CASE End(r)
        BY <4>1
      <4>2. CASE Advance(r, "written") /\ UNCHANGED recent
        <5>1. stage[r] = "cool" /\ ~recent[r]
          BY <3>12 DEF Rotate
        <5>2. stage'[r] = "written" /\ ~recent'[r]
          BY <4>2, <5>1
        <5>3. QED
          BY <5>2
      <4>3. QED
        BY <3>12, <4>1, <4>2 DEF Rotate
    <3>13. ASSUME NEW e \in Email, NEW g \in 0..issued, BeginVerify(r, e, g) PROVE P(r)'
      BY <3>13 DEF BeginVerify
    <3>14. ASSUME LockPending(r) PROVE P(r)'
      BY <3>14 DEF LockPending
    <3>15. ASSUME Reject(r) PROVE P(r)'
      BY <3>15 DEF Reject
    <3>16. ASSUME Promote(r) PROVE P(r)'
      BY <3>16 DEF Promote
    <3>17. ASSUME Abort(r) PROVE P(r)'
      BY <3>17 DEF Abort
    <3>18. QED
      BY <1>2, <3>1, <3>2, <3>3, <3>4, <3>5, <3>6, <3>7, <3>8, <3>9, <3>10, <3>11, <3>12,
         <3>13, <3>14, <3>15, <3>16, <3>17 DEF RequestStep
  <2>3. QED
    BY <2>1, <2>2 DEF Mails
<1>3. QED
  BY <1>1, <1>2 DEF Next

LEMMA ExpiriesInit == Init => Expiries
BY RegistrationAssumption DEF Init, Expiries, Open

\* A draft keeps the expiry it was given.
LEMMA ExpiriesNext == Typed /\ Locks /\ Expiries /\ [Next]_vars => Expiries'
<1> SUFFICES ASSUME Typed, Locks, Expiries, [Next]_vars PROVE Expiries'
  OBVIOUS
<1>1. CASE \/ \E e \in Email, u \in Username : Rename(e, u)
           \/ Tick
           \/ UNCHANGED vars
  BY <1>1, OtherStepsKeep DEF Expiries, argVars, readVars, historyVars, mailVars
<1>2. ASSUME NEW r \in Request, RequestStep(r) PROVE Expiries'
  <2> DEFINE P(q) == 
        stage[q] \in {"written", "sent"} => row[q].expires = started[q] + TTL
  <2>1. ASSUME NEW q \in Request \ {r} PROVE P(q)'
    <3>1. OthersKept(r) /\ P(q)
      BY <1>2, StepKeepsOthers DEF Expiries
    <3>2. deleting[q] \subseteq Email /\ (stage[q] # "idle" => email[q] \in Email)
      BY DEF Typed, TypeOK, Shape
    <3>3. QED
      BY <3>1, <3>2 DEF OthersKept
  <2>2. P(r)'
    <3> USE RegistrationAssumption DEF Typed, TypeOK, Shape, Expiries, End, Advance, dbVars,
       argVars, readVars, historyVars, mailVars
    <3>1. ASSUME NEW e \in Email, NEW u \in Username, CheckUsername(r, e, u) PROVE P(r)'
      BY <3>1 DEF CheckUsername
    <3>2. ASSUME CheckEmail(r) PROVE P(r)'
      BY <3>2 DEF CheckEmail
    <3>3. ASSUME BeginRegister(r) PROVE P(r)'
      BY <3>3 DEF BeginRegister
    <3>4. ASSUME CheckClaim(r) PROVE P(r)'
      BY <3>4 DEF CheckClaim
    <3>5. ASSUME CheckCooldown(r) PROVE P(r)'
      BY <3>5 DEF CheckCooldown
    <3>6. ASSUME ClearExpired(r) PROVE P(r)'
      BY <3>6 DEF ClearExpired
    <3>7. ASSUME Insert(r) PROVE P(r)'
      BY <3>7 DEF Insert
    <3>8. ASSUME SendCode(r) PROVE P(r)'
      BY <3>8 DEF SendCode
    <3>9. ASSUME Commit(r) PROVE P(r)'
      BY <3>9 DEF Commit
    <3>10. ASSUME NEW e \in Email, BeginResend(r, e) PROVE P(r)'
      BY <3>10 DEF BeginResend
    <3>11. ASSUME CheckResend(r) PROVE P(r)'
      BY <3>11 DEF CheckResend
    <3>12. ASSUME Rotate(r) PROVE P(r)'
      BY <3>12 DEF Rotate
    <3>13. ASSUME NEW e \in Email, NEW g \in 0..issued, BeginVerify(r, e, g) PROVE P(r)'
      BY <3>13 DEF BeginVerify
    <3>14. ASSUME LockPending(r) PROVE P(r)'
      BY <3>14 DEF LockPending
    <3>15. ASSUME Reject(r) PROVE P(r)'
      BY <3>15 DEF Reject
    <3>16. ASSUME Promote(r) PROVE P(r)'
      BY <3>16 DEF Promote
    <3>17. ASSUME Abort(r) PROVE P(r)'
      BY <3>17 DEF Abort
    <3>18. QED
      BY <1>2, <3>1, <3>2, <3>3, <3>4, <3>5, <3>6, <3>7, <3>8, <3>9, <3>10, <3>11, <3>12,
         <3>13, <3>14, <3>15, <3>16, <3>17 DEF RequestStep
  <2>3. QED
    BY <2>1, <2>2 DEF Expiries
<1>3. QED
  BY <1>1, <1>2 DEF Next

LEMMA ClockInit == Init => Clock
BY RegistrationAssumption DEF Init, Clock, Open

\* Time does not pass the bound of an open transaction.
LEMMA ClockNext == Typed /\ Locks /\ Clock /\ [Next]_vars => Clock'
<1> SUFFICES ASSUME Typed, Locks, Clock, [Next]_vars PROVE Clock'
  OBVIOUS
<1>1. CASE \/ \E e \in Email, u \in Username : Rename(e, u)
           \/ Tick
           \/ UNCHANGED vars
  BY <1>1, OtherStepsKeep, RegistrationAssumption DEF Clock, argVars, readVars, historyVars,
     mailVars,
     Rename, Tick, vars, Typed, TypeOK
<1>2. ASSUME NEW r \in Request, RequestStep(r) PROVE Clock'
  <2> DEFINE P(q) == 
        /\ started[q] <= now
        /\ stage[q] \in Open => now <= started[q] + MaxOpen
  <2>1. ASSUME NEW q \in Request \ {r} PROVE P(q)'
    <3>1. OthersKept(r) /\ P(q)
      BY <1>2, StepKeepsOthers DEF Clock
    <3>2. deleting[q] \subseteq Email /\ (stage[q] # "idle" => email[q] \in Email)
      BY DEF Typed, TypeOK, Shape
    <3>3. QED
      BY <3>1, <3>2 DEF OthersKept
  <2>2. P(r)'
    <3> USE RegistrationAssumption DEF Typed, TypeOK, Shape, Clock, Open, End, Advance,
       dbVars, argVars, readVars, historyVars, mailVars
    <3>1. ASSUME NEW e \in Email, NEW u \in Username, CheckUsername(r, e, u) PROVE P(r)'
      BY <3>1 DEF CheckUsername
    <3>2. ASSUME CheckEmail(r) PROVE P(r)'
      BY <3>2 DEF CheckEmail
    <3>3. ASSUME BeginRegister(r) PROVE P(r)'
      BY <3>3 DEF BeginRegister
    <3>4. ASSUME CheckClaim(r) PROVE P(r)'
      BY <3>4 DEF CheckClaim
    <3>5. ASSUME CheckCooldown(r) PROVE P(r)'
      BY <3>5 DEF CheckCooldown
    <3>6. ASSUME ClearExpired(r) PROVE P(r)'
      BY <3>6 DEF ClearExpired
    <3>7. ASSUME Insert(r) PROVE P(r)'
      BY <3>7 DEF Insert
    <3>8. ASSUME SendCode(r) PROVE P(r)'
      BY <3>8 DEF SendCode
    <3>9. ASSUME Commit(r) PROVE P(r)'
      BY <3>9 DEF Commit
    <3>10. ASSUME NEW e \in Email, BeginResend(r, e) PROVE P(r)'
      BY <3>10 DEF BeginResend
    <3>11. ASSUME CheckResend(r) PROVE P(r)'
      BY <3>11 DEF CheckResend
    <3>12. ASSUME Rotate(r) PROVE P(r)'
      BY <3>12 DEF Rotate
    <3>13. ASSUME NEW e \in Email, NEW g \in 0..issued, BeginVerify(r, e, g) PROVE P(r)'
      BY <3>13 DEF BeginVerify
    <3>14. ASSUME LockPending(r) PROVE P(r)'
      BY <3>14 DEF LockPending
    <3>15. ASSUME Reject(r) PROVE P(r)'
      BY <3>15 DEF Reject
    <3>16. ASSUME Promote(r) PROVE P(r)'
      BY <3>16 DEF Promote
    <3>17. ASSUME Abort(r) PROVE P(r)'
      BY <3>17 DEF Abort
    <3>18. QED
      BY <1>2, <3>1, <3>2, <3>3, <3>4, <3>5, <3>6, <3>7, <3>8, <3>9, <3>10, <3>11, <3>12,
         <3>13, <3>14, <3>15, <3>16, <3>17 DEF RequestStep
  <2>3. QED
    BY <2>1, <2>2 DEF Clock
<1>3. QED
  BY <1>1, <1>2 DEF Next

-----------------------------------------------------------------------------
(* How the committed rows change.                                           *)

\* A row changes as a transaction ends: it is replaced or deleted by a commit,
\* or counted, burned or promoted by the verification that has locked it.
LEMMA PendingChanges ==
  ASSUME Typed, Locks, NEW r \in Request, RequestStep(r),
         NEW d \in Email, pending'[d] # pending[d]
  PROVE  /\ stage'[r] = "idle"
         /\ \/ /\ stage[r] = "sent" \/ (stage[r] = "written" /\ recent[r])
               /\ \/ d = email[r] /\ pending'[d] = row[r]
                  \/ d \in deleting[r] /\ pending'[d] = None
            \/ /\ stage[r] = "locked" /\ d = email[r] /\ pending[d] = row[r]
               /\ \/ pending'[d] = None
                  \/ /\ pending[d] # None
                     /\ pending'[d].username = pending[d].username
                     /\ pending'[d].code = pending[d].code
                     /\ pending'[d].expires = pending[d].expires
<1>1. CASE Commit(r)
  BY <1>1 DEF Commit, End, Typed, TypeOK
<1>2. CASE Reject(r)
  <2>1. email[r] \in Email /\ row[r] \in Row /\ pending[email[r]] = row[r]
    BY <1>2 DEF Reject, Typed, Shape, Locks
  <2>2. d = email[r]
    BY <1>2 DEF Reject, Typed, TypeOK
  <2>3. \/ pending'[d] = None
        \/ pending'[d] = [username |-> row[r].username, code |-> row[r].code,
                          attempts |-> row[r].attempts + 1, expires |-> row[r].expires]
    BY <1>2, <2>2 DEF Reject, Typed, TypeOK
  <2>4. row[r] # None
    BY <2>1, RegistrationAssumption
  <2>5. QED
    BY <1>2, <2>1, <2>2, <2>3, <2>4 DEF Reject, End, Typed, TypeOK
<1>3. CASE Promote(r)
  BY <1>3 DEF Promote, End, dbVars, Typed, TypeOK, Shape, Locks
<1>4. ASSUME ~Commit(r), ~Reject(r), ~Promote(r) PROVE FALSE
  BY <1>4 DEF RequestStep, dbVars, CheckUsername, CheckEmail, BeginRegister, CheckClaim,
     CheckCooldown, ClearExpired, Insert, SendCode, BeginResend, CheckResend, Rotate,
     BeginVerify, LockPending, Abort
<1>5. QED
  BY <1>1, <1>2, <1>3, <1>4

Drafting == {"written", "sent"}

\* Codes come from one counter: a step either leaves rows and drafts alone, or
\* makes one draft with a code nobody has, or ends a transaction.
LEMMA CodeEffects ==
  ASSUME Typed, NEW r \in Request, RequestStep(r)
  PROVE  \/ /\ UNCHANGED <<pending, issued, wrong>>
            /\ stage'[r] \in Drafting => stage[r] \in Drafting /\ row'[r] = row[r]
         \/ /\ UNCHANGED <<pending, wrong>>
            /\ issued < MaxCodes /\ issued' = issued + 1
            /\ row'[r].code = issued + 1 /\ row'[r].attempts = 0
         \/ Commit(r) \/ Reject(r) \/ Promote(r)
<1> DEFINE Quiet ==
      /\ UNCHANGED <<pending, issued, wrong>>
      /\ stage'[r] \in Drafting => stage[r] \in Drafting /\ row'[r] = row[r]
<1> DEFINE Stores ==
      /\ UNCHANGED <<pending, wrong>>
      /\ issued < MaxCodes /\ issued' = issued + 1
      /\ row'[r].code = issued + 1 /\ row'[r].attempts = 0
<1>0. CASE Commit(r) \/ Reject(r) \/ Promote(r)
  BY <1>0
<1>1. CASE Insert(r)
  BY <1>1 DEF Insert, End, dbVars, Drafting, Typed, TypeOK
<1>2. CASE Rotate(r)
  BY <1>2 DEF Rotate, End, dbVars, historyVars, Drafting, Typed, TypeOK
<1>3. CASE SendCode(r)
  BY <1>3 DEF SendCode, End, Advance, dbVars, readVars, historyVars, Drafting, Typed, TypeOK
<1>4. ASSUME ~Insert(r), ~Rotate(r), ~SendCode(r), ~Commit(r), ~Reject(r), ~Promote(r)
      PROVE  Quiet
  <2> USE DEF End, Advance, dbVars, readVars, historyVars, Drafting, Typed, TypeOK
  <2>1. CASE \/ \E e \in Email, u \in Username : CheckUsername(r, e, u)
             \/ \E e \in Email : BeginResend(r, e)
             \/ \E e \in Email, g \in 0..issued : BeginVerify(r, e, g)
    BY <2>1 DEF CheckUsername, BeginResend, BeginVerify
  <2>2. CASE CheckEmail(r) \/ BeginRegister(r) \/ CheckClaim(r) \/ CheckCooldown(r)
    BY <2>2 DEF CheckEmail, BeginRegister, CheckClaim, CheckCooldown
  <2>3. CASE ClearExpired(r) \/ CheckResend(r) \/ LockPending(r) \/ Abort(r)
    BY <2>3 DEF ClearExpired, CheckResend, LockPending, Abort
  <2>4. QED
    BY <1>4, <2>1, <2>2, <2>3 DEF RequestStep
<1>5. QED
  BY <1>0, <1>1, <1>2, <1>3, <1>4

LEMMA CodesInit == Init => Codes /\ GuessesBounded
BY RegistrationAssumption DEF Init, Codes, GuessesBounded, Code

\* A code stays with one row, and the row counts the wrong guesses at it.
LEMMA CodesNext ==
  Typed /\ Locks /\ Codes /\ GuessesBounded /\ [Next]_vars => Codes' /\ GuessesBounded'
<1> SUFFICES ASSUME Typed, Locks, Codes, GuessesBounded, [Next]_vars
             PROVE  Codes' /\ GuessesBounded'
  OBVIOUS
<1>1. CASE \/ \E e \in Email, u \in Username : Rename(e, u)
           \/ Tick
           \/ UNCHANGED vars
  BY <1>1, OtherStepsKeep DEF Codes, GuessesBounded, readVars, historyVars
<1>2. ASSUME NEW r \in Request, RequestStep(r) PROVE Codes' /\ GuessesBounded'
  <2>1. OthersKept(r)
    BY <1>2, StepKeepsOthers
  <2>2. /\ issued \in Nat /\ wrong \in [Code -> Nat] /\ stage' \in [Request -> Stage]
        /\ \A e \in Email : pending[e] # None => pending[e] \in Row
        /\ \A q \in Request : stage[q] \in Drafting => row[q] \in Row
    BY RegistrationAssumption, TypedNext DEF Typed, TypeOK, Shape, Drafting
  <2> USE DEF Drafting
  <2>3. CASE /\ UNCHANGED <<pending, issued, wrong>>
             /\ stage'[r] \in Drafting => stage[r] \in Drafting /\ row'[r] = row[r]
    BY <2>1, <2>2, <2>3 DEF OthersKept, Codes, GuessesBounded
  <2>4. CASE /\ UNCHANGED <<pending, wrong>>
             /\ issued < MaxCodes /\ issued' = issued + 1
             /\ row'[r].code = issued + 1 /\ row'[r].attempts = 0
    <3>1. issued + 1 \in Code
      BY <2>2, <2>4, RegistrationAssumption DEF Code
    <3>2. QED
      BY <2>1, <2>2, <2>4, <3>1 DEF OthersKept, Codes, GuessesBounded, Code, Row
  <2>5. CASE Commit(r)
    BY <2>1, <2>2, <2>5, RegistrationAssumption
       DEF Commit, End, historyVars, OthersKept, Codes, GuessesBounded, Typed, TypeOK, Shape
  <2>6. CASE Reject(r)
    <3>1. /\ email[r] \in Email /\ row[r] \in Row /\ pending[email[r]] = row[r]
          /\ row[r] # None /\ row[r].code \in Code
      BY <2>6, RegistrationAssumption DEF Reject, Typed, Shape, Locks, Row
    <3>2. /\ wrong'[row[r].code] = row[r].attempts + 1
          /\ \A c \in Code \ {row[r].code} : wrong'[c] = wrong[c]
      BY <2>2, <2>6, <3>1 DEF Reject, Codes
    <3>3. /\ \A e \in Email \ {email[r]} : pending'[e] = pending[e]
          /\ \/ pending'[email[r]] = None
             \/ /\ pending'[email[r]].code = row[r].code
                /\ pending'[email[r]].attempts = row[r].attempts + 1
      BY <2>6, <3>1 DEF Reject, Typed, TypeOK
    <3>4. stage'[r] = "idle" /\ issued' = issued
      BY <2>6 DEF Reject, End, Typed, TypeOK
    <3>5. GuessesBounded'
      BY <2>2, <3>1, <3>2, RegistrationAssumption DEF GuessesBounded, Row
    <3>6. row[r].code <= issued
      BY <3>1 DEF Codes
    <3>7. Codes'
      <4>1. \A e \in Email :
              pending'[e] # None => pending[e] # None /\ pending'[e].code = pending[e].code
        BY <3>1, <3>3
      <4>2. \A e \in Email \ {email[r]} :
              pending[e] # None => pending[e].code # row[r].code /\ pending[e].code \in Code
        BY <2>2, <3>1 DEF Codes, Row
      <4>3. \A e \in Email :
              pending'[e] # None => wrong'[pending'[e].code] = pending'[e].attempts
        BY <3>1, <3>2, <3>3, <4>1, <4>2 DEF Codes
      <4>4. \A q \in Request :
              stage'[q] \in Drafting =>
                q # r /\ stage[q] \in Drafting /\ row'[q] = row[q] /\ row[q].code # row[r].code
        BY <2>1, <3>1, <3>4 DEF OthersKept, Codes
      <4>5. \A c \in Code : c > issued' => wrong'[c] = 0
        BY <2>2, <3>1, <3>2, <3>4, <3>6 DEF Codes, Code
      <4>6. \A q \in Request : stage'[q] \in Drafting => wrong'[row'[q].code] = 0
        BY <2>2, <3>2, <4>4 DEF Codes, Row
      <4>7. QED
        BY <3>4, <4>1, <4>3, <4>4, <4>5, <4>6 DEF Codes
    <3>8. QED
      BY <3>5, <3>7
  <2>7. CASE Promote(r)
    <3>1. /\ \A e \in Email : pending'[e] = pending[e] \/ pending'[e] = None
          /\ stage'[r] = "idle" /\ UNCHANGED <<issued, wrong>>
      BY <2>7 DEF Promote, End, dbVars, historyVars, Typed, TypeOK
    <3>2. QED
      BY <2>1, <2>2, <3>1 DEF OthersKept, Codes, GuessesBounded
  <2>8. QED
    BY <1>2, <2>3, <2>4, <2>5, <2>6, <2>7, CodeEffects
<1>3. QED
  BY <1>1, <1>2 DEF Next

-----------------------------------------------------------------------------
(* Names.  A draft stands for a name as a committed row does, and what it   *)
(* will delete is all that holds the name besides.                          *)

\* No two rows, committed or about to be, hold one name, except those that the
\* draft of a register is about to delete; and it deletes no others.
Names ==
  /\ \A d, e \in Email :
       pending[d] # None /\ pending[e] # None /\ pending[d].username = pending[e].username
         => d = e
  /\ \A r \in Request :
       stage[r] \in Drafting =>
         /\ \A d \in Email :
              pending[d] # None /\ pending[d].username = row[r].username
                => d \in deleting[r] \/ d = email[r]
         /\ \A q \in Request :
              stage[q] \in Drafting /\ row[q].username = row[r].username => q = r
         /\ \A d \in deleting[r] : d = email[r] \/ pending[d].username = row[r].username
  /\ \A r \in Request :
       stage[r] = "cleared" =>
         \A d \in deleting[r] : d = email[r] \/ pending[d].username = username[r]

\* What one step of a request does to drafts and to what it means to delete.
LEMMA NameEffects ==
  ASSUME Typed, NEW r \in Request, RequestStep(r)
  PROVE  \/ /\ UNCHANGED pending
            /\ stage'[r] # "cleared"
            /\ stage'[r] \in Drafting =>
                 /\ stage[r] \in Drafting
                 /\ row'[r] = row[r] /\ email'[r] = email[r] /\ deleting'[r] = deleting[r]
         \/ ClearExpired(r) \/ Insert(r) \/ Rotate(r)
         \/ Commit(r) \/ Reject(r) \/ Promote(r)
<1> USE DEF End, Advance, dbVars, argVars, readVars, historyVars, Drafting, Typed, TypeOK
<1>1. CASE SendCode(r)
  BY <1>1 DEF SendCode
<1>2. CASE \/ \E e \in Email, u \in Username : CheckUsername(r, e, u)
           \/ \E e \in Email : BeginResend(r, e)
           \/ \E e \in Email, g \in 0..issued : BeginVerify(r, e, g)
  BY <1>2 DEF CheckUsername, BeginResend, BeginVerify
<1>3. CASE CheckEmail(r) \/ BeginRegister(r) \/ CheckClaim(r) \/ CheckCooldown(r)
  BY <1>3 DEF CheckEmail, BeginRegister, CheckClaim, CheckCooldown
<1>4. CASE CheckResend(r) \/ LockPending(r) \/ Abort(r)
  BY <1>4 DEF CheckResend, LockPending, Abort
<1>5. QED
  BY <1>1, <1>2, <1>3, <1>4 DEF RequestStep

LEMMA NamesInit == Init => Names
BY DEF Init, Names, Drafting

\* A new draft takes a name that nobody holds or that its own row holds, and
\* keeps it because every other INSERT waits for it.
LEMMA NamesNext == Typed /\ Locks /\ Names /\ [Next]_vars => Names'
<1> SUFFICES ASSUME Typed, Locks, Names, [Next]_vars PROVE Names'
  OBVIOUS
<1>1. CASE \/ \E e \in Email, u \in Username : Rename(e, u)
           \/ Tick
           \/ UNCHANGED vars
  BY <1>1, OtherStepsKeep DEF Names, argVars, readVars
<1>2. ASSUME NEW r \in Request, RequestStep(r) PROVE Names'
  <2>1. OthersKept(r)
    BY <1>2, StepKeepsOthers
  <2>2. /\ stage' \in [Request -> Stage]
        /\ \A e \in Email : pending[e] # None => pending[e] \in Row
        /\ \A q \in Request : stage[q] # "idle" => email[q] \in Email
        /\ \A q \in Request : stage[q] \in Drafting => row[q] \in Row
        /\ \A q \in Request : deleting[q] \subseteq Email
    BY TypedNext DEF Typed, TypeOK, Shape, Drafting
  <2>3. \A q \in Request \ {r} : \A d \in deleting[q] : pending'[d] = pending[d]
    BY <2>1, <2>2 DEF OthersKept, Locks
  <2> USE DEF Drafting
  <2>4. CASE /\ UNCHANGED pending
             /\ stage'[r] # "cleared"
             /\ stage'[r] \in Drafting =>
                  /\ stage[r] \in Drafting
                  /\ row'[r] = row[r] /\ email'[r] = email[r] /\ deleting'[r] = deleting[r]
    BY <2>1, <2>4 DEF OthersKept, Names
  <2>5. CASE ClearExpired(r)
    <3>1. UNCHANGED pending /\ stage'[r] = "cleared" /\ deleting'[r] = InTheWay(r)
          /\ email'[r] = email[r] /\ username'[r] = username[r]
      BY <2>5 DEF ClearExpired, Advance, dbVars, argVars, Typed, TypeOK
    <3>2. QED
      BY <2>1, <3>1 DEF OthersKept, Names, InTheWay
  <2>6. CASE Insert(r)
    <3>1. CASE End(r)
      <4>1. UNCHANGED pending /\ stage'[r] = "idle"
        BY <2>6, <3>1 DEF Insert, End, dbVars, Typed, TypeOK
      <4>2. QED
        BY <2>1, <4>1 DEF OthersKept, Names
    <3>2. CASE ~End(r)
      <4>1. /\ UNCHANGED pending /\ stage[r] = "cleared" /\ stage'[r] = "written"
            /\ row'[r].username = username[r]
            /\ email'[r] = email[r] /\ deleting'[r] = deleting[r]
            /\ Conflicting(r) = {} /\ ~ConflictPending(r)
        BY <2>6, <3>2 DEF Insert, Advance, dbVars, argVars, Typed, TypeOK
      <4>2. \A d \in Email :
              pending[d] # None /\ pending[d].username = username[r] => d \in deleting[r]
        BY <4>1 DEF Conflicting
      <4>3. \A q \in Request \ {r} :
              stage[q] \in Drafting => row[q].username # username[r]
        BY <4>1 DEF ConflictPending
      <4>4. \A d \in deleting[r] : d = email[r] \/ pending[d].username = username[r]
        BY <4>1 DEF Names
      <4>5. QED
        BY <2>1, <4>1, <4>2, <4>3, <4>4 DEF OthersKept, Names
    <3>3. QED
      BY <3>1, <3>2
  <2>7. CASE Rotate(r)
    <3>1. CASE End(r)
      <4>1. UNCHANGED pending /\ stage'[r] = "idle"
        BY <2>7, <3>1 DEF Rotate, End, dbVars, Typed, TypeOK
      <4>2. QED
        BY <2>1, <4>1 DEF OthersKept, Names
    <3>2. CASE ~End(r)
      <4> DEFINE e == email[r]
      <4>1. /\ UNCHANGED pending /\ stage[r] = "cool" /\ stage'[r] = "written"
            /\ e \in Email /\ pending[e] # None /\ Free(e, r)
            /\ row'[r].username = pending[e].username
            /\ email'[r] = e /\ deleting'[r] = deleting[r]
        BY <2>2, <2>7, <3>2 DEF Rotate, Advance, dbVars, argVars, Typed, TypeOK
      <4>2. deleting[r] = {}
        BY <4>1 DEF Locks
      <4>3. \A q \in Request \ {r} :
              stage[q] \in Drafting => row[q].username # pending[e].username
        <5> SUFFICES ASSUME NEW q \in Request \ {r}, stage[q] \in Drafting,
                            row[q].username = pending[e].username
                     PROVE  FALSE
          OBVIOUS
        <5>1. e \in deleting[q] \/ e = email[q]
          BY <4>1 DEF Names
        <5>2. lock[e] = q
          BY <5>1 DEF Locks
        <5>3. QED
          BY <4>1, <5>2, RegistrationAssumption DEF Free
      <4>4. \A d \in Email :
              pending[d] # None /\ pending[d].username = pending[e].username => d = e
        BY <4>1 DEF Names
      <4>5. QED
        BY <2>1, <4>1, <4>2, <4>3, <4>4 DEF OthersKept, Names
    <3>3. QED
      BY <3>1, <3>2
  <2>8. CASE Commit(r)
    <3>1. /\ stage[r] \in Drafting /\ stage'[r] = "idle" /\ email[r] \in Email
          /\ pending'[email[r]] = row[r]
          /\ \A d \in Email \ {email[r]} :
               pending'[d] = IF d \in deleting[r] THEN None ELSE pending[d]
      BY <2>2, <2>8 DEF Commit, End, Typed, TypeOK
    <3>2. \A d \in Email :
            pending'[d] # None /\ pending'[d].username = row[r].username => d = email[r]
      BY <3>1 DEF Names
    <3>3. \A d \in Email \ {email[r]} : pending'[d] # None => pending'[d] = pending[d]
      BY <3>1
    <3>4. \A q \in Request \ {r} : stage[q] \in Drafting => row[q].username # row[r].username
      BY <3>1 DEF Names
    <3>5. QED
      BY <2>1, <2>3, <3>1, <3>2, <3>3, <3>4 DEF OthersKept, Names
  <2>9. CASE Reject(r) \/ Promote(r)
    <3>1. stage'[r] = "idle"
      BY <2>9 DEF Reject, Promote, End, Typed, TypeOK
    <3>2. ASSUME NEW d \in Email, pending'[d] # None
          PROVE  pending[d] # None /\ pending'[d].username = pending[d].username
      <4>1. stage[r] = "locked"
        BY <2>9 DEF Reject, Promote
      <4>2. QED
        BY <1>2, <3>2, <4>1, PendingChanges
    <3>3. QED
      BY <2>1, <2>3, <3>1, <3>2 DEF OthersKept, Names
  <2>10. QED
    BY <1>2, <2>4, <2>5, <2>6, <2>7, <2>8, <2>9, NameEffects
<1>3. QED
  BY <1>1, <1>2 DEF Next

\* A verification works on a row that was live when its transaction began.
Timely == \A r \in Request : stage[r] = "locked" => row[r].expires > started[r]

LEMMA TimelyInit == Init => Timely
BY DEF Init, Timely

LEMMA TimelyNext == Typed /\ Locks /\ Timely /\ [Next]_vars => Timely'
<1> SUFFICES ASSUME Typed, Locks, Timely, [Next]_vars PROVE Timely'
  OBVIOUS
<1>1. CASE \/ \E e \in Email, u \in Username : Rename(e, u)
           \/ Tick
           \/ UNCHANGED vars
  BY <1>1, OtherStepsKeep DEF Timely, readVars
<1>2. ASSUME NEW r \in Request, RequestStep(r) PROVE Timely'
  <2>1. stage'[r] = "locked" => LockPending(r)
    BY <1>2 DEF RequestStep, CheckUsername, CheckEmail, BeginRegister, CheckClaim, CheckCooldown,
       ClearExpired, Insert, SendCode, Commit, BeginResend, CheckResend, Rotate, BeginVerify,
       Reject, Promote, Abort, End, Advance, Typed, TypeOK
  <2>2. LockPending(r) => stage'[r] # "locked" \/ row'[r].expires > started'[r]
    BY DEF LockPending, Live, End, Typed, TypeOK
  <2>3. QED
    BY <1>2, <2>1, <2>2, StepKeepsOthers DEF OthersKept, Timely
<1>3. QED
  BY <1>1, <1>2 DEF Next

-----------------------------------------------------------------------------
(* The properties.                                                          *)

LEMMA StoredInit == Init => StoredCodesMailed
BY DEF Init, StoredCodesMailed

LEMMA StoredNext ==
  Typed /\ Locks /\ Mails /\ StoredCodesMailed /\ [Next]_vars => StoredCodesMailed'
<1> SUFFICES ASSUME Typed, Locks, Mails, StoredCodesMailed, [Next]_vars,
                    NEW e \in Email, pending'[e] # None
             PROVE  <<e, pending'[e].code>> \in mailed' \/ pending'[e].code \in unsent'
  BY DEF StoredCodesMailed
<1>1. CASE \/ \E d \in Email, u \in Username : Rename(d, u)
           \/ Tick
           \/ UNCHANGED vars
  BY <1>1, OtherStepsKeep DEF StoredCodesMailed, historyVars, mailVars
<1>2. ASSUME NEW r \in Request, RequestStep(r)
      PROVE  <<e, pending'[e].code>> \in mailed' \/ pending'[e].code \in unsent'
  <2>1. mailed \subseteq mailed' /\ unsent \subseteq unsent'
    BY <1>2, StepKeepsOthers DEF OthersKept
  <2>2. CASE pending'[e] = pending[e]
    BY <2>1, <2>2 DEF StoredCodesMailed
  <2>3. CASE pending'[e] # pending[e]
    BY <1>2, <2>1, <2>3, PendingChanges DEF StoredCodesMailed, Mails
  <2>4. QED
    BY <2>2, <2>3
<1>3. QED
  BY <1>1, <1>2 DEF Next

LEMMA StrandedInit == Init => NoStrandedNames
BY DEF Init, NoStrandedNames

LEMMA StrandedNext ==
  Typed /\ Clock /\ Locks /\ Expiries /\ NoStrandedNames /\ [Next]_vars => NoStrandedNames'
<1> SUFFICES ASSUME Typed, Clock, Locks, Expiries, NoStrandedNames, [Next]_vars,
                    NEW q \in Request, stage'[q] = "cleared",
                    NEW e \in Email, pending'[e] # None, e \notin deleting'[q],
                    e = email'[q] \/ pending'[e].username = username'[q]
             PROVE  pending'[e].expires > started'[q]
  BY DEF NoStrandedNames, Conflicting, Live
<1>1. CASE \/ \E d \in Email, u \in Username : Rename(d, u)
           \/ Tick
           \/ UNCHANGED vars
  BY <1>1, OtherStepsKeep DEF NoStrandedNames, Conflicting, Live, argVars, readVars
<1>2. ASSUME NEW r \in Request, RequestStep(r) PROVE pending'[e].expires > started'[q]
  <2>1. CASE q # r
    <3>1. /\ stage[q] = "cleared" /\ email[q] = email'[q] /\ username[q] = username'[q]
          /\ started'[q] = started[q] /\ deleting'[q] = deleting[q]
      BY <1>2, <2>1, StepKeepsOthers DEF OthersKept
    <3>2. CASE pending'[e] = pending[e]
      BY <3>1, <3>2 DEF NoStrandedNames, Conflicting, Live
    <3>3. CASE pending'[e] # pending[e]
      <4>1. CASE stage[r] \in {"written", "sent"} /\ pending'[e] = row[r]
        <5>1. pending'[e].expires = started[r] + TTL /\ now <= started[r] + MaxOpen
          BY <4>1 DEF Expiries, Clock, Open
        <5>2. started[q] <= now /\ now \in Nat /\ started[r] \in Nat /\ started[q] \in Nat
          BY DEF Clock, Typed, TypeOK
        <5>3. QED
          BY <3>1, <5>1, <5>2, RegistrationAssumption
      <4>2. CASE /\ pending[e] # None
                 /\ pending'[e].username = pending[e].username
                 /\ pending'[e].expires = pending[e].expires
        BY <3>1, <4>2 DEF NoStrandedNames, Conflicting, Live
      <4>3. QED
        BY <1>2, <3>3, <4>1, <4>2, PendingChanges
    <3>4. QED
      BY <3>2, <3>3
  <2>2. CASE q = r
    <3>1. ClearExpired(r)
      BY <1>2, <2>2 DEF RequestStep, CheckUsername, CheckEmail, BeginRegister, CheckClaim,
         CheckCooldown, Insert, SendCode, Commit, BeginResend, CheckResend, Rotate,
         BeginVerify, LockPending, Reject, Promote, Abort, End, Advance, Typed, TypeOK
    <3>2. /\ pending'[e] = pending[e] /\ started'[q] = started[q]
          /\ email'[q] = email[q] /\ username'[q] = username[q] /\ deleting'[q] = InTheWay(q)
      BY <2>2, <3>1 DEF ClearExpired, dbVars, argVars, Typed, TypeOK
    <3>3. QED
      BY <3>2 DEF InTheWay, Live
  <2>3. QED
    BY <2>1, <2>2
<1>3. QED
  BY <1>1, <1>2 DEF Next

\* The inductive invariant.
Inv ==
  /\ Typed /\ Clock /\ Locks /\ Drafts /\ Mails /\ Expiries /\ Codes /\ Names /\ Timely
  /\ GuessesBounded /\ StoredCodesMailed /\ NoStrandedNames

\* Requests may interleave as they like: rows are written by those who have
\* locked them, codes are each one row's, and drafts expire in the future.
THEOREM InvCorrect == Spec => []Inv
<1>1. Init => Inv
  BY TypedInit, ClockInit, LocksInit, DraftsInit, MailsInit, ExpiriesInit, CodesInit,
     NamesInit, TimelyInit, StoredInit, StrandedInit DEF Inv
<1>2. Inv /\ [Next]_vars => Inv'
  BY TypedNext, ClockNext, LocksNext, DraftsNext, MailsNext, ExpiriesNext, CodesNext,
     NamesNext, TimelyNext, StoredNext, StrandedNext DEF Inv
<1>3. QED
  BY <1>1, <1>2, PTL DEF Spec

\* No code is guessed wrong more than MAX_ATTEMPTS times: verifications of one
\* address queue up for its row, and each sees the attempts before it.
THEOREM GuessesAreBounded == Spec => []GuessesBounded
<1>1. Inv => GuessesBounded
  BY DEF Inv
<1>2. QED
  BY <1>1, InvCorrect, PTL

\* Every committed row's code was mailed to its address, or withheld by a
\* register that found the address mailed a moment ago.
THEOREM StoredCodesAreMailed == Spec => []StoredCodesMailed
<1>1. Inv => StoredCodesMailed
  BY DEF Inv
<1>2. QED
  BY <1>1, InvCorrect, PTL

\* When register comes to its INSERT, only live rows can be in its way: those
\* that expired are deleted, and those committed since cannot have expired.
THEOREM NamesAreNotStranded == Spec => []NoStrandedNames
<1>1. Inv => NoStrandedNames
  BY DEF Inv
<1>2. QED
  BY <1>1, InvCorrect, PTL

\* An account appears only by the code that its row holds when it appears.
THEOREM AccountsProven == Spec => AccountsAreProven
<1>1. Inv /\ [Next]_vars => ProvenByCurrentCode
  <2> SUFFICES ASSUME Inv, [Next]_vars, NEW e \in Email, account[e] = None, account'[e] # None
               PROVE  /\ pending[e] # None /\ account'[e] = pending[e].username
                      /\ \E r \in Request :
                           stage[r] = "locked" /\ email[r] = e /\ guess[r] = pending[e].code
    BY DEF ProvenByCurrentCode
  <2>1. ASSUME NEW d \in Email, NEW u \in Username, Rename(d, u) PROVE FALSE
    BY <2>1 DEF Rename, Inv, Typed, TypeOK
  <2>2. account' # account
    OBVIOUS
  <2>3. PICK r \in Request : RequestStep(r)
    BY <2>1, <2>2 DEF Next, Tick, vars, dbVars
  <2>4. Promote(r)
    BY <2>2, <2>3 DEF RequestStep, dbVars, CheckUsername, CheckEmail, BeginRegister, CheckClaim,
       CheckCooldown, ClearExpired, Insert, SendCode, Commit, BeginResend, CheckResend, Rotate,
       BeginVerify, LockPending, Reject, Abort
  <2>5. /\ stage[r] = "locked" /\ email[r] \in Email /\ row[r] \in Row
        /\ pending[email[r]] = row[r]
    BY <2>4 DEF Promote, Inv, Typed, Shape, Locks
  <2>6. e = email[r] /\ account'[e] = row[r].username /\ guess[r] = row[r].code
    BY <2>2, <2>4, <2>5 DEF Promote, dbVars, Inv, Typed, TypeOK
  <2>7. QED
    BY <2>5, <2>6, RegistrationAssumption
<1>2. QED
  BY <1>1, InvCorrect, PTL DEF Spec, AccountsAreProven

-----------------------------------------------------------------------------
(* The requests implement Claims.                                           *)

\* The row a request is about to commit is what Claims takes for a new claim.
LEMMA DraftIsFresh ==
  ASSUME Inv, NEW r \in Request, stage[r] \in Drafting
  PROVE  row[r] \in Claims!Fresh
<1>1. row[r] \in Row /\ row[r].attempts = 0 /\ row[r].expires = started[r] + TTL
  BY DEF Inv, Typed, Shape, Codes, Expiries, Drafting
<1>2. started[r] <= now /\ now <= started[r] + MaxOpen
  BY DEF Inv, Clock, Open, Drafting
<1>3. started[r] \in Nat /\ now \in Nat /\ row[r].expires \in (now + TTL - MaxOpen)..(now + TTL)
  BY <1>1, <1>2, RegistrationAssumption DEF Inv, Typed, TypeOK
<1>4. QED
  BY <1>1, <1>3 DEF Claims!Fresh, Row

\* A commit over a row that is not to be deleted renews the claim: it is the
\* commit of a resend, which deletes nothing.
LEMMA CommitRenews ==
  ASSUME Inv, NEW r \in Request, Commit(r), pending[email[r]] # None,
         email[r] \notin deleting[r]
  PROVE  Claims!Renew(email[r])
<1> DEFINE e == email[r]
<1>1. /\ stage[r] \in Drafting /\ e \in Email /\ UNCHANGED <<now, account>>
      /\ pending \in [Email -> Row \cup {None}] /\ deleting[r] \subseteq Email
      /\ pending' = [d \in Email |-> IF d = e THEN row[r]
                                     ELSE IF d \in deleting[r] THEN None ELSE pending[d]]
  BY DEF Commit, Drafting, Inv, Typed, TypeOK, Shape
<1>2. row[r] \in Claims!Fresh
  BY <1>1, DraftIsFresh
<1>3. pending[e].username = row[r].username
  BY <1>1 DEF Inv, Drafts, Drafting
<1>4. deleting[r] = {}
  <2> SUFFICES ASSUME NEW d \in deleting[r] PROVE FALSE
    OBVIOUS
  <2>1. pending[d].username = row[r].username /\ pending[d] # None
    BY <1>1 DEF Inv, Names, Locks
  <2>2. d = e
    BY <1>1, <1>3, <2>1 DEF Inv, Names
  <2>3. QED
    BY <2>2
<1>5. pending' = [pending EXCEPT ![e] = row[r]] /\ pending'[e] = row[r]
  BY <1>1, <1>4
<1>6. QED
  BY <1>1, <1>2, <1>3, <1>5 DEF Claims!Renew

\* Any other commit is a claim of its own: whatever else holds the address or
\* the name has expired, and goes with it.
LEMMA CommitClaims ==
  ASSUME Inv, NEW r \in Request, Commit(r),
         pending[email[r]] = None \/ email[r] \in deleting[r]
  PROVE  Claims!Claim(email[r])
<1> DEFINE e == email[r]  rivals == Claims!Rivals(e, row[r].username)
<1>1. /\ stage[r] \in Drafting /\ e \in Email /\ UNCHANGED <<now, account>>
      /\ pending \in [Email -> Row \cup {None}] /\ deleting[r] \subseteq Email
      /\ pending' = [d \in Email |-> IF d = e THEN row[r]
                                     ELSE IF d \in deleting[r] THEN None ELSE pending[d]]
  BY DEF Commit, Drafting, Inv, Typed, TypeOK, Shape
<1>2. row[r] \in Claims!Fresh /\ pending'[e] = row[r]
  BY <1>1, DraftIsFresh
<1>3. rivals \subseteq deleting[r]
  BY <1>1 DEF Claims!Rivals, Inv, Names
<1>4. deleting[r] \subseteq rivals \cup {e}
  BY <1>1 DEF Claims!Rivals, Inv, Names, Locks
<1>5. \A d \in rivals : pending[d].expires <= now
  <2> SUFFICES ASSUME NEW d \in rivals PROVE pending[d].expires <= now
    OBVIOUS
  <2>1. d \in Email /\ pending[d] \in Row /\ pending[d].expires <= started[r]
    BY <1>1, <1>3 DEF Claims!Rivals, Inv, Locks
  <2>2. started[r] <= now /\ started[r] \in Nat /\ now \in Nat
    BY DEF Inv, Clock, Typed, TypeOK
  <2>3. QED
    BY <2>1, <2>2 DEF Row
<1>6. pending' = [d \in Email |-> IF d = e THEN row[r]
                                  ELSE IF d \in rivals THEN None ELSE pending[d]]
  BY <1>1, <1>3, <1>4
<1> HIDE DEF rivals
<1>7. rivals = Claims!Rivals(e, pending'[e].username)
  BY <1>2 DEF rivals
<1>8. QED
  BY <1>1, <1>2, <1>5, <1>6, <1>7 DEF Claims!Claim

\* A verification finds its row as it was locked: a wrong guess is a Mistake,
\* and the right one Prove, unless the constraints of the accounts refuse it.
LEMMA VerdictImplements ==
  ASSUME Inv, NEW r \in Request
  PROVE  /\ Reject(r) => Claims!Mistake(email[r])
         /\ Promote(r) => Claims!Prove(email[r]) \/ UNCHANGED <<now, account, pending>>
<1> DEFINE e == email[r]
<1>1. ASSUME stage[r] = "locked"
      PROVE  /\ e \in Email /\ row[r] \in Row /\ pending[e] = row[r]
             /\ Claims!Provable(e)
  <2>1. e \in Email /\ row[r] \in Row /\ pending[e] = row[r] /\ row[r].expires > started[r]
    BY <1>1 DEF Inv, Typed, Shape, Locks, Timely
  <2>2. now <= started[r] + MaxOpen /\ started[r] \in Nat /\ now \in Nat
    BY <1>1 DEF Inv, Clock, Open, Typed, TypeOK
  <2>3. pending[e].expires > now - MaxOpen
    BY <2>1, <2>2, RegistrationAssumption DEF Row
  <2>4. QED
    BY <2>1, <2>3, RegistrationAssumption DEF Claims!Provable
<1>2. ASSUME Reject(r) PROVE Claims!Mistake(e)
  <2>1. stage[r] = "locked" /\ UNCHANGED <<now, account>>
    BY <1>2 DEF Reject
  <2>2. /\ e \in Email /\ row[r] \in Row /\ pending[e] = row[r] /\ Claims!Provable(e)
        /\ pending \in [Email -> Row \cup {None}]
    BY <1>1, <2>1 DEF Inv, Typed, TypeOK
  <2>3. row[r].attempts + 1 >= MaxAttempts <=> row[r].attempts + 1 = MaxAttempts
    BY <2>2, RegistrationAssumption DEF Row
  <2> DEFINE guessed == [pending[e] EXCEPT !.attempts = @ + 1]
  <2>4. guessed = [username |-> row[r].username, code |-> row[r].code,
                   attempts |-> row[r].attempts + 1, expires |-> row[r].expires]
    BY <2>2 DEF Row
  <2>5. pending' = [pending EXCEPT ![e] = IF guessed.attempts = MaxAttempts THEN None
                                          ELSE guessed]
    BY <1>2, <2>2, <2>3, <2>4 DEF Reject
  <2>6. QED
    BY <2>1, <2>2, <2>5 DEF Claims!Mistake
<1>3. ASSUME Promote(r), ~UNCHANGED <<now, account, pending>> PROVE Claims!Prove(e)
  <2>1. /\ stage[r] = "locked" /\ account[e] = None /\ UNCHANGED now
        /\ \A d \in Email : account[d] # row[r].username
        /\ account' = [account EXCEPT ![e] = row[r].username]
        /\ pending' = [pending EXCEPT ![e] = None]
    BY <1>3 DEF Promote, dbVars
  <2>2. e \in Email /\ pending[e] = row[r] /\ Claims!Provable(e)
    BY <1>1, <2>1
  <2>3. QED
    BY <2>1, <2>2 DEF Claims!Prove
<1>4. QED
  BY <1>2, <1>3

\* However the statements of requests interleave, what is committed is what a
\* registry that served one whole request at a time could have committed: no
\* live claim is taken over, no name is claimed twice, and only a verification
\* ends a live claim or makes an account.
THEOREM ImplementsClaims == Spec => RequestsAreSerial
<1>1. Init => Claims!Init
  BY DEF Init, Claims!Init
<1>2. Inv /\ [Next]_vars => [Claims!Next]_(Claims!vars)
  <2> SUFFICES ASSUME Inv, [Next]_vars
               PROVE  Claims!Next \/ UNCHANGED <<now, account, pending>>
    BY DEF Claims!vars
  <2>1. CASE UNCHANGED vars
    BY <2>1 DEF vars, dbVars
  <2>2. ASSUME NEW e \in Email, NEW u \in Username, Rename(e, u) PROVE Claims!Next
    BY <2>2 DEF Rename, Claims!Rename, Claims!Next
  <2>3. CASE Tick
    BY <2>3 DEF Tick, dbVars, Claims!Tick, Claims!Next
  <2>4. ASSUME NEW r \in Request, Commit(r) PROVE Claims!Next
    <3>1. email[r] \in Email
      BY <2>4 DEF Commit, Inv, Typed, Shape
    <3>2. Claims!Renew(email[r]) \/ Claims!Claim(email[r])
      BY <2>4, CommitRenews, CommitClaims
    <3>3. QED
      BY <3>1, <3>2 DEF Claims!Next
  <2>5. ASSUME NEW r \in Request, Reject(r) \/ Promote(r)
        PROVE  Claims!Next \/ UNCHANGED <<now, account, pending>>
    <3>1. email[r] \in Email
      BY <2>5 DEF Reject, Promote, Inv, Typed, Shape
    <3>2. QED
      BY <2>5, <3>1, VerdictImplements DEF Claims!Next
  <2>6. ASSUME NEW r \in Request, RequestStep(r), ~Commit(r), ~Reject(r), ~Promote(r)
        PROVE  UNCHANGED <<now, account, pending>>
    BY <2>6 DEF RequestStep, dbVars, CheckUsername, CheckEmail, BeginRegister, CheckClaim,
       CheckCooldown, ClearExpired, Insert, SendCode, BeginResend, CheckResend, Rotate,
       BeginVerify, LockPending, Abort
  <2>7. QED
    BY <2>1, <2>2, <2>3, <2>4, <2>5, <2>6 DEF Next
<1>3. QED
  BY <1>1, <1>2, InvCorrect, PTL DEF Spec, RequestsAreSerial, Claims!Spec

-----------------------------------------------------------------------------
(* What follows from Claims alone, and so holds of every interleaving.       *)

\* No two live or expired claims hold one name, nor do two accounts.
NamesUnique ==
  \A d, e \in Email :
    /\ pending[d] # None /\ pending[e] # None /\ pending[d].username = pending[e].username => d = e
    /\ account[d] # None /\ account[d] = account[e] => d = e

\* A live claim keeps its name; it goes into an account of that name, or with
\* the last wrong guess.
ClaimStays(e) ==
  pending[e] # None /\ pending[e].expires > now =>
    \/ pending'[e] # None /\ pending'[e].username = pending[e].username
    \/ pending'[e] = None /\ account'[e] = pending[e].username
    \/ pending'[e] = None /\ pending[e].attempts + 1 = MaxAttempts

LEMMA ClaimsAreFunctions ==
  ASSUME Typed
  PROVE  /\ pending \in [Email -> Row \cup {None}] /\ account \in [Email -> Username \cup {None}]
         /\ \A e \in Email : pending[e] # None => pending[e] \in Row
BY DEF Typed, TypeOK

\* Names stay unique: two registrations, or a registration and a rename, never
\* both commit one name (register, promote_pending, update_account).
THEOREM NamesAreUnique == Spec => []NamesUnique
<1>1. Init => NamesUnique
  <2>1. Init => \A e \in Email : pending[e] = None /\ account[e] = None
    BY DEF Init
  <2>2. QED
    BY <2>1 DEF NamesUnique
<1>2. Typed /\ Typed' /\ NamesUnique /\ [Claims!Next]_(Claims!vars) => NamesUnique'
  <2> SUFFICES ASSUME Typed, Typed', NamesUnique, [Claims!Next]_(Claims!vars)
               PROVE  NamesUnique'
    OBVIOUS
  <2> USE ClaimsAreFunctions DEF NamesUnique
  <2>1. CASE UNCHANGED Claims!vars
    BY <2>1 DEF Claims!vars
  <2>2. ASSUME NEW e \in Email, Claims!Claim(e) PROVE NamesUnique'
    BY <2>2 DEF Claims!Claim, Claims!Rivals
  <2>3. ASSUME NEW e \in Email, Claims!Renew(e) PROVE NamesUnique'
    BY <2>3 DEF Claims!Renew
  <2>4. ASSUME NEW e \in Email, Claims!Mistake(e) PROVE NamesUnique'
    <3>1. \A d \in Email : pending'[d] # None =>
            pending[d] # None /\ pending'[d].username = pending[d].username
      <4>1. \A d \in Email \ {e} : pending'[d] = pending[d]
        BY <2>4 DEF Claims!Mistake
      <4>2. pending[e] # None /\ pending[e] \in Row
        BY <2>4 DEF Claims!Mistake, Claims!Provable
      <4>3. pending'[e] = None \/ pending'[e] = [pending[e] EXCEPT !.attempts = pending[e].attempts + 1]
        BY <2>4 DEF Claims!Mistake
      <4>4. [pending[e] EXCEPT !.attempts = pending[e].attempts + 1].username = pending[e].username
        BY <4>2 DEF Row
      <4>5. QED
        BY <4>1, <4>2, <4>3, <4>4
    <3>2. QED
      BY <2>4, <3>1 DEF Claims!Mistake
  <2>5. ASSUME NEW e \in Email, Claims!Prove(e) PROVE NamesUnique'
    BY <2>5 DEF Claims!Prove
  <2>6. ASSUME NEW e \in Email, NEW u \in Username, Claims!Rename(e, u) PROVE NamesUnique'
    BY <2>6 DEF Claims!Rename
  <2>7. CASE Claims!Tick
    BY <2>7 DEF Claims!Tick
  <2>8. QED
    BY <2>1, <2>2, <2>3, <2>4, <2>5, <2>6, <2>7 DEF Claims!Next
<1>3. Inv => Typed
  BY DEF Inv
<1>4. QED
  BY <1>1, <1>2, <1>3, ImplementsClaims, InvCorrect, PTL DEF Spec, RequestsAreSerial, Claims!Spec

\* A live registration is never taken over (register: "overwrite a stranger's
\* chosen username and password"): its username is the one it was claimed for
\* until that becomes an account, or wrong guesses burn it.
THEOREM LiveClaimsStay == Spec => [][\A e \in Email : ClaimStays(e)]_(Claims!vars)
<1>1. Typed /\ [Claims!Next]_(Claims!vars) => [\A e \in Email : ClaimStays(e)]_(Claims!vars)
  <2> SUFFICES ASSUME Typed, Claims!Next, NEW e \in Email,
                      pending[e] # None, pending[e].expires > now
               PROVE  ClaimStays(e)
    BY DEF ClaimStays
  <2> USE ClaimsAreFunctions DEF ClaimStays
  <2>0. pending[e] \in Row /\ now \in Nat
    BY DEF Typed, TypeOK
  <2>1. ASSUME NEW d \in Email, Claims!Claim(d) PROVE ClaimStays(e)
    <3>1. e \notin Claims!Rivals(d, pending'[d].username)
      BY <2>0, <2>1 DEF Claims!Claim, Row
    <3>2. e # d
      BY <3>1 DEF Claims!Rivals
    <3>3. QED
      BY <2>1, <3>1, <3>2 DEF Claims!Claim
  <2>2. ASSUME NEW d \in Email, Claims!Renew(d) PROVE ClaimStays(e)
    <3>1. pending'[d] \in Claims!Fresh /\ pending'[d].username = pending[d].username
          /\ pending' = [pending EXCEPT ![d] = pending'[d]]
      BY <2>2 DEF Claims!Renew
    <3>2. Claims!Fresh \subseteq Row
      <4>1. now + TTL - MaxOpen \in Nat /\ 0 \in 0..(MaxAttempts - 1)
        BY <2>0, RegistrationAssumption
      <4>2. (now + TTL - MaxOpen)..(now + TTL) \subseteq Nat
        BY <2>0, <4>1, RegistrationAssumption
      <4>3. QED
        BY <4>1, <4>2 DEF Claims!Fresh, Row
    <3>3. pending'[d] # None
      BY <3>1, <3>2, RegistrationAssumption
    <3>4. QED
      BY <3>1, <3>3
  <2>3. ASSUME NEW d \in Email, Claims!Mistake(d) PROVE ClaimStays(e)
    BY <2>0, <2>3, RegistrationAssumption DEF Claims!Mistake, Row
  <2>4. ASSUME NEW d \in Email, Claims!Prove(d) PROVE ClaimStays(e)
    BY <2>4 DEF Claims!Prove
  <2>5. ASSUME NEW d \in Email, NEW u \in Username, Claims!Rename(d, u) PROVE ClaimStays(e)
    BY <2>5 DEF Claims!Rename
  <2>6. CASE Claims!Tick
    BY <2>6 DEF Claims!Tick
  <2>7. QED
    BY <2>1, <2>2, <2>3, <2>4, <2>5, <2>6 DEF Claims!Next
<1>2. Inv => Typed
  BY DEF Inv
<1>3. QED
  BY <1>1, <1>2, ImplementsClaims, InvCorrect, PTL DEF RequestsAreSerial, Claims!Spec
=============================================================================
