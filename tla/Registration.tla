---------------------------- MODULE Registration ----------------------------
(***************************************************************************)
(* Registration by mailed code (auth/src/service.rs): register, resend,    *)
(* verify, and the rename that may take a name meanwhile.                  *)
(*                                                                         *)
(* Requests run side by side, and every SQL statement is a step.  Postgres *)
(* runs them READ COMMITTED: a statement sees what is committed when it    *)
(* runs, waits for the row locks it needs, and now() is the moment its     *)
(* transaction began.  A transaction's writes stay in row[r] and           *)
(* deleting[r] until it commits; when it fails they are gone.              *)
(***************************************************************************)
EXTENDS Integers

CONSTANTS
  Email,
  Username,
  Request,      \* slots for requests that run at the same time
  TTL,          \* CODE_TTL_MINUTES, in ticks
  Cooldown,     \* RESEND_COOLDOWN_SECONDS, in ticks
  MaxAttempts,  \* MAX_ATTEMPTS
  MaxOpen,      \* the most ticks a transaction stays open
  MaxTime,      \* bound: ticks
  MaxCodes,     \* bound: codes generated
  None

Code == 1..MaxCodes

\* A pending_registration: the last wrong guess burns it.
Row == [username : Username, code : Code, attempts : 0..(MaxAttempts - 1), expires : Nat]

ASSUME RegistrationAssumption ==
  /\ TTL \in Nat /\ Cooldown \in 1..TTL /\ MaxOpen \in 0..(TTL - 1)
  /\ MaxAttempts \in Nat \ {0}
  /\ MaxTime \in Nat /\ MaxCodes \in Nat
  /\ None \notin Row \cup Request \cup Username \cup Email

VARIABLES
  now,
  account,   \* account[e]: the username of the account proven for e
  pending,   \* pending[e]: the committed row for e
  lock,      \* lock[e]: the request whose transaction holds e's row
  stage,     \* stage[r]: what request r has done
  email, username, guess,  \* the arguments of request r
  started,   \* started[r]: now() in r's transaction
  recent,    \* recent[r]: what mailed_within_cooldown told r
  row,       \* row[r]: the row r has read, or is about to commit
  deleting,  \* deleting[r]: the expired rows r is about to delete
  issued,    \* how many codes have been stored
  mailed,    \* history: the <<e, code>> sent
  wrong,     \* history: wrong[c]: wrong guesses at code c
  unsent,    \* history: codes withheld because another was just mailed
  lastMail   \* history: when the last mail to e was sent

dbVars == <<account, pending>>
argVars == <<email, username, guess>>
readVars == <<recent, row, deleting>>
historyVars == <<wrong, unsent>>
mailVars == <<mailed, lastMail>>
vars == <<now, dbVars, lock, stage, argVars, started, readVars, issued, historyVars, mailVars>>

Open ==
  {"claiming", "unclaimed", "checked", "cleared", "resending", "cool", "written", "sent",
   "verifying", "locked"}

Stage == {"idle", "name_free", "unregistered"} \cup Open

-----------------------------------------------------------------------------

Live(e, t) == pending[e] # None /\ pending[e].expires > t

Free(e, r) == lock[e] \in {r, None}

NameTaken(u) ==
  \E e \in Email : account[e] = u \/ (Live(e, now) /\ pending[e].username = u)

Init ==
  /\ now = 0
  /\ account = [e \in Email |-> None]
  /\ pending = [e \in Email |-> None]
  /\ lock = [e \in Email |-> None]
  /\ stage = [r \in Request |-> "idle"]
  /\ email = [r \in Request |-> None]
  /\ username = [r \in Request |-> None]
  /\ guess = [r \in Request |-> 0]
  /\ started = [r \in Request |-> 0]
  /\ recent = [r \in Request |-> FALSE]
  /\ row = [r \in Request |-> None]
  /\ deleting = [r \in Request |-> {}]
  /\ issued = 0
  /\ mailed = {}
  /\ wrong = [c \in Code |-> 0]
  /\ unsent = {}
  /\ lastMail = [e \in Email |-> -Cooldown]

\* Request r is over: its locks are free, what it had not committed is gone.
End(r) ==
  /\ stage' = [stage EXCEPT ![r] = "idle"]
  /\ lock' = [e \in Email |-> IF lock[e] = r THEN None ELSE lock[e]]
  /\ email' = [email EXCEPT ![r] = None]
  /\ username' = [username EXCEPT ![r] = None]
  /\ guess' = [guess EXCEPT ![r] = 0]
  /\ started' = [started EXCEPT ![r] = 0]
  /\ recent' = [recent EXCEPT ![r] = FALSE]
  /\ row' = [row EXCEPT ![r] = None]
  /\ deleting' = [deleting EXCEPT ![r] = {}]

Advance(r, next) == stage' = [stage EXCEPT ![r] = next]

-----------------------------------------------------------------------------
(* register.  A definition commented as a slip is no part of Next: it is a   *)
(* bug that one of the properties must notice when it takes the place of the *)
(* definition after it.                                                      *)

\* The username is checked first, on its own, and reported when taken.
CheckUsername(r, e, u) ==
  /\ stage[r] = "idle"
  /\ ~NameTaken(u)
  /\ Advance(r, "name_free")
  /\ email' = [email EXCEPT ![r] = e]
  /\ username' = [username EXCEPT ![r] = u]
  /\ UNCHANGED <<now, dbVars, lock, guess, started, readVars, issued, historyVars, mailVars>>

\* An address with an account ends it in silence.
CheckEmail(r) ==
  /\ stage[r] = "name_free"
  /\ \/ /\ account[email[r]] = None
        /\ Advance(r, "unregistered")
        /\ UNCHANGED <<lock, argVars, started, readVars>>
     \/ account[email[r]] # None /\ End(r)
  /\ UNCHANGED <<now, dbVars, issued, historyVars, mailVars>>

BeginRegister(r) ==
  /\ stage[r] = "unregistered"
  /\ Advance(r, "claiming")
  /\ started' = [started EXCEPT ![r] = now]
  /\ UNCHANGED <<now, dbVars, lock, argVars, readVars, issued, historyVars, mailVars>>

\* A live row claims the address: FOR UPDATE waits for it, and r ends.
CheckClaim(r) ==
  LET e == email[r] IN
  /\ stage[r] = "claiming"
  /\ \/ /\ ~Live(e, started[r])
        /\ Advance(r, "unclaimed")
        /\ UNCHANGED <<lock, argVars, started, readVars>>
     \/ Live(e, started[r]) /\ Free(e, r) /\ End(r)
  /\ UNCHANGED <<now, dbVars, issued, historyVars, mailVars>>

\* mailed_within_cooldown, as of a transaction begun at t.
MailedWithinCooldown(e, t) == Live(e, t + TTL - Cooldown)

CheckCooldown(r) ==
  /\ stage[r] = "unclaimed"
  /\ Advance(r, "checked")
  /\ recent' = [recent EXCEPT ![r] = MailedWithinCooldown(email[r], started[r])]
  /\ UNCHANGED <<now, dbVars, lock, argVars, started, row, deleting, issued, historyVars,
                 mailVars>>

\* Slip: rows in the way are removed, expired or not.
InTheWayOrLive(r) ==
  {e \in Email : /\ pending[e] # None
                 /\ e = email[r] \/ pending[e].username = username[r]}

\* Slip: only the address's own expired row is removed.
InTheWayOfEmail(r) ==
  {e \in Email : pending[e] # None /\ ~Live(e, started[r]) /\ e = email[r]}

\* The expired rows that hold r's address or its username.
InTheWay(r) ==
  {e \in Email : /\ pending[e] # None /\ ~Live(e, started[r])
                 /\ e = email[r] \/ pending[e].username = username[r]}

\* The DELETE, once no other transaction holds one of those rows.
ClearExpired(r) ==
  /\ stage[r] = "checked"
  /\ \A e \in InTheWay(r) : Free(e, r)
  /\ Advance(r, "cleared")
  /\ deleting' = [deleting EXCEPT ![r] = InTheWay(r)]
  /\ lock' = [e \in Email |-> IF e \in InTheWay(r) THEN r ELSE lock[e]]
  /\ UNCHANGED <<now, dbVars, argVars, started, recent, row, issued, historyVars, mailVars>>

\* The rows whose address or username r's INSERT would repeat.
Conflicting(r) ==
  {e \in Email : /\ pending[e] # None /\ e \notin deleting[r]
                 /\ e = email[r] \/ pending[e].username = username[r]}

\* Another transaction is about to insert one of them.
ConflictPending(r) ==
  \E q \in Request \ {r} :
    /\ stage[q] \in {"written", "sent"}
    /\ email[q] = email[r] \/ row[q].username = username[r]

\* The INSERT waits for what conflicts to be committed or rolled back.
Insert(r) ==
  LET e == email[r] IN
  /\ stage[r] = "cleared"
  /\ ~ConflictPending(r)
  /\ \A d \in Conflicting(r) \cup {e} : Free(d, r)
  /\ \/ Conflicting(r) # {} /\ End(r) /\ UNCHANGED <<issued, unsent>>
     \/ /\ Conflicting(r) = {}
        /\ issued < MaxCodes
        /\ issued' = issued + 1
        /\ row' = [row EXCEPT ![r] = [username |-> username[r], code |-> issued + 1,
                                      attempts |-> 0, expires |-> started[r] + TTL]]
        /\ unsent' = IF recent[r] THEN unsent \cup {issued + 1} ELSE unsent
        /\ lock' = [lock EXCEPT ![e] = r]
        /\ Advance(r, "written")
        /\ UNCHANGED <<argVars, started, recent, deleting>>
  /\ UNCHANGED <<now, dbVars, wrong, mailVars>>

\* Slip: a mail that cannot be sent does not keep the row from committing.
SendOrNot(r) ==
  LET e == email[r] IN
  /\ stage[r] = "written" /\ ~recent[r]
  /\ Advance(r, "sent")
  /\ \/ UNCHANGED mailVars
     \/ /\ mailed' = mailed \cup {<<e, row[r].code>>}
        /\ lastMail' = [lastMail EXCEPT ![e] = now]
  /\ UNCHANGED <<now, dbVars, lock, argVars, started, readVars, issued, historyVars>>

\* send_code, before the commit; when it fails nothing is committed.
SendCode(r) ==
  LET e == email[r] IN
  /\ stage[r] = "written" /\ ~recent[r]
  /\ \/ End(r) /\ UNCHANGED mailVars
     \/ /\ Advance(r, "sent")
        /\ mailed' = mailed \cup {<<e, row[r].code>>}
        /\ lastMail' = [lastMail EXCEPT ![e] = now]
        /\ UNCHANGED <<lock, argVars, started, readVars>>
  /\ UNCHANGED <<now, dbVars, issued, historyVars>>

\* The commit of register and of resend.
Commit(r) ==
  /\ stage[r] = "sent" \/ (stage[r] = "written" /\ recent[r])
  /\ pending' = [e \in Email |-> IF e = email[r] THEN row[r]
                                 ELSE IF e \in deleting[r] THEN None ELSE pending[e]]
  /\ End(r)
  /\ UNCHANGED <<now, account, issued, historyVars, mailVars>>

-----------------------------------------------------------------------------
(* resend_verification_code. *)

BeginResend(r, e) ==
  /\ stage[r] = "idle"
  /\ Advance(r, "resending")
  /\ email' = [email EXCEPT ![r] = e]
  /\ started' = [started EXCEPT ![r] = now]
  /\ UNCHANGED <<now, dbVars, lock, username, guess, readVars, issued, historyVars, mailVars>>

CheckResend(r) ==
  LET soon == MailedWithinCooldown(email[r], started[r]) IN
  /\ stage[r] = "resending"
  /\ \/ soon /\ End(r)
     \/ ~soon /\ Advance(r, "cool") /\ UNCHANGED <<lock, argVars, started, readVars>>
  /\ UNCHANGED <<now, dbVars, issued, historyVars, mailVars>>

\* The UPDATE by address, live or not: a new code, no attempts, a new expiry.
Rotate(r) ==
  LET e == email[r] IN
  /\ stage[r] = "cool"
  /\ \/ pending[e] = None /\ End(r) /\ UNCHANGED issued
     \/ /\ pending[e] # None
        /\ Free(e, r)
        /\ issued < MaxCodes
        /\ issued' = issued + 1
        /\ row' = [row EXCEPT ![r] = [username |-> pending[e].username, code |-> issued + 1,
                                      attempts |-> 0, expires |-> started[r] + TTL]]
        /\ lock' = [lock EXCEPT ![e] = r]
        /\ Advance(r, "written")
        /\ UNCHANGED <<argVars, started, recent, deleting>>
  /\ UNCHANGED <<now, dbVars, historyVars, mailVars>>

-----------------------------------------------------------------------------
(* verify_registration, and update_account's rename. *)

BeginVerify(r, e, g) ==
  /\ stage[r] = "idle"
  /\ Advance(r, "verifying")
  /\ email' = [email EXCEPT ![r] = e]
  /\ guess' = [guess EXCEPT ![r] = g]
  /\ started' = [started EXCEPT ![r] = now]
  /\ UNCHANGED <<now, dbVars, lock, username, readVars, issued, historyVars, mailVars>>

\* Slip: the row is read without FOR UPDATE.
ReadPending(r) ==
  LET e == email[r] IN
  /\ stage[r] = "verifying"
  /\ \/ ~Live(e, started[r]) /\ End(r)
     \/ /\ Live(e, started[r])
        /\ row' = [row EXCEPT ![r] = pending[e]]
        /\ Advance(r, "locked")
        /\ UNCHANGED <<lock, argVars, started, recent, deleting>>
  /\ UNCHANGED <<now, dbVars, issued, historyVars, mailVars>>

\* The live row is read FOR UPDATE.
LockPending(r) ==
  LET e == email[r] IN
  /\ stage[r] = "verifying"
  /\ \/ ~Live(e, started[r]) /\ End(r)
     \/ /\ Live(e, started[r]) /\ Free(e, r)
        /\ row' = [row EXCEPT ![r] = pending[e]]
        /\ lock' = [lock EXCEPT ![e] = r]
        /\ Advance(r, "locked")
        /\ UNCHANGED <<argVars, started, recent, deleting>>
  /\ UNCHANGED <<now, dbVars, issued, historyVars, mailVars>>

\* A wrong code counts an attempt, and the last one burns the row.
Reject(r) ==
  LET e == email[r] IN
  /\ stage[r] = "locked"
  /\ guess[r] # row[r].code
  /\ wrong' = [wrong EXCEPT ![row[r].code] = @ + 1]
  /\ pending' = [pending EXCEPT ![e] =
       IF row[r].attempts + 1 >= MaxAttempts THEN None
       ELSE [username |-> row[r].username, code |-> row[r].code,
             attempts |-> row[r].attempts + 1, expires |-> row[r].expires]]
  /\ End(r)
  /\ UNCHANGED <<now, account, issued, unsent, mailVars>>

\* The right code makes the account, unless the constraints of the account
\* table refuse the address or the name: then all is rolled back.
Promote(r) ==
  LET e == email[r]
      refused == account[e] # None \/ \E d \in Email : account[d] = row[r].username
  IN
  /\ stage[r] = "locked"
  /\ guess[r] = row[r].code
  /\ \/ refused /\ UNCHANGED dbVars
     \/ /\ ~refused
        /\ account' = [account EXCEPT ![e] = row[r].username]
        /\ pending' = [pending EXCEPT ![e] = None]
  /\ End(r)
  /\ UNCHANGED <<now, issued, historyVars, mailVars>>

\* update_account: an account takes a name no account has.
Rename(e, u) ==
  /\ account[e] # None
  /\ \A d \in Email : account[d] # u
  /\ account' = [account EXCEPT ![e] = u]
  /\ UNCHANGED <<now, pending, lock, stage, argVars, started, readVars, issued, historyVars,
                 mailVars>>

\* The client hangs up, or the server dies: the transaction is rolled back.
Abort(r) ==
  /\ stage[r] # "idle"
  /\ End(r)
  /\ UNCHANGED <<now, dbVars, issued, historyVars, mailVars>>

Tick ==
  /\ now < MaxTime
  /\ \A r \in Request : stage[r] \in Open => now < started[r] + MaxOpen
  /\ now' = now + 1
  /\ UNCHANGED <<dbVars, lock, stage, argVars, started, readVars, issued, historyVars, mailVars>>

-----------------------------------------------------------------------------

RequestStep(r) ==
  \/ \E e \in Email, u \in Username : CheckUsername(r, e, u)
  \/ CheckEmail(r) \/ BeginRegister(r) \/ CheckClaim(r) \/ CheckCooldown(r)
  \/ ClearExpired(r) \/ Insert(r) \/ SendCode(r) \/ Commit(r)
  \/ \E e \in Email : BeginResend(r, e)
  \/ CheckResend(r) \/ Rotate(r)
  \/ \E e \in Email, g \in 0..issued : BeginVerify(r, e, g)
  \/ LockPending(r) \/ Reject(r) \/ Promote(r) \/ Abort(r)

Next ==
  \/ \E r \in Request : RequestStep(r)
  \/ \E e \in Email, u \in Username : Rename(e, u)
  \/ Tick

Spec == Init /\ [][Next]_vars

-----------------------------------------------------------------------------
(* Properties. *)

\* Every variable holds a value of its type.
TypeOK ==
  /\ now \in 0..MaxTime
  /\ account \in [Email -> Username \cup {None}]
  /\ pending \in [Email -> Row \cup {None}]
  /\ lock \in [Email -> Request \cup {None}]
  /\ stage \in [Request -> Stage]
  /\ email \in [Request -> Email \cup {None}]
  /\ username \in [Request -> Username \cup {None}]
  /\ guess \in [Request -> Code \cup {0}]
  /\ started \in [Request -> Nat]
  /\ recent \in [Request -> BOOLEAN]
  /\ row \in [Request -> Row \cup {None}]
  /\ deleting \in [Request -> SUBSET Email]
  /\ issued \in 0..MaxCodes
  /\ mailed \subseteq Email \X Code
  /\ wrong \in [Code -> Nat]
  /\ unsent \subseteq Code
  /\ lastMail \in [Email -> Int]

\* However its statements interleave with those of other requests, a request
\* takes effect at its commit as if it had run alone: a live registration is
\* never taken over (service.rs, register: "overwrite a stranger's chosen
\* username and password"), no name is claimed twice, and only a verification
\* ends a live claim or makes an account.
Claims == INSTANCE Claims WITH claim <- pending

RequestsAreSerial == Claims!Spec

\* However verifications, resends and re-registrations interleave, no code is
\* guessed wrong more than MAX_ATTEMPTS times.
GuessesBounded == \A c \in Code : wrong[c] <= MaxAttempts

\* An account appears only through the code its row holds at that moment: a
\* code that a resend has replaced, or whose row is gone, proves nothing.
ProvenByCurrentCode ==
  \A e \in Email :
    account[e] = None /\ account'[e] # None =>
      /\ pending[e] # None /\ account'[e] = pending[e].username
      /\ \E r \in Request :
           stage[r] = "locked" /\ email[r] = e /\ guess[r] = pending[e].code

AccountsAreProven == [][ProvenByCurrentCode]_vars

\* A committed row's code was mailed to its address ("a failed delivery must
\* not leave a live row behind that nobody received the code for"), except in
\* one window: a register that found the address unclaimed, then recently
\* mailed, then unclaimed again.
StoredCodesMailed ==
  \A e \in Email :
    pending[e] # None =>
      \/ <<e, pending[e].code>> \in mailed
      \/ pending[e].code \in unsent

\* Only live rows stand in the way of an INSERT: an expired one holding the
\* name has been cleared ("stranding the name until someone purges by hand").
NoStrandedNames ==
  \A r \in Request :
    stage[r] = "cleared" => \A e \in Conflicting(r) : Live(e, started[r])

\* RESEND_COOLDOWN_SECONDS is the "minimum gap between two mails to the same
\* address" (verification.rs).  The code does not keep it.
MailsAreApart ==
  \A e \in Email, c \in Code :
    <<e, c>> \in mailed' \ mailed => now - lastMail[e] >= Cooldown

MailGap == [][MailsAreApart]_vars
=============================================================================
