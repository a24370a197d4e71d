------------------------------- MODULE Claims -------------------------------
(***************************************************************************)
(* What registration by mailed code promises, request by request: a claim  *)
(* on a username is made, renewed, guessed at and proven in one step each. *)
(* No two claims hold one name, a live one stays until it is proven or     *)
(* burned by wrong guesses, and only a claim makes an account.             *)
(*                                                                         *)
(* The service takes the time of a request when the request begins, up to  *)
(* MaxOpen ticks before its effect: that much a deadline may be off.       *)
(***************************************************************************)
EXTENDS Integers

CONSTANTS Email, Username, Code, TTL, MaxAttempts, MaxOpen, None

VARIABLES
  now,
  account,   \* account[e]: the username of the account proven for e
  claim      \* claim[e]: the claim made for e, live or expired

vars == <<now, account, claim>>

\* What a request that began lately writes: no guesses yet, and TTL to live.
Fresh == [username : Username, code : Code, attempts : {0},
          expires : (now + TTL - MaxOpen)..(now + TTL)]

\* The claims that hold the address e or the name u.
Rivals(e, u) == {d \in Email : claim[d] # None /\ (d = e \/ claim[d].username = u)}

Init ==
  /\ now = 0
  /\ account = [e \in Email |-> None]
  /\ claim = [e \in Email |-> None]

\* A new claim: nobody's live one is in the way, and the expired ones go.
Claim(e) ==
  LET new == claim'[e]
      rivals == Rivals(e, new.username)
  IN
  /\ new \in Fresh
  /\ \A d \in rivals : claim[d].expires <= now
  /\ claim' = [d \in Email |-> IF d = e THEN new
                               ELSE IF d \in rivals THEN None ELSE claim[d]]
  /\ UNCHANGED <<now, account>>

\* A resend: the same name, with a new code, its guesses and its time to come.
Renew(e) ==
  LET new == claim'[e] IN
  /\ claim[e] # None
  /\ new \in Fresh
  /\ new.username = claim[e].username
  /\ claim' = [claim EXCEPT ![e] = new]
  /\ UNCHANGED <<now, account>>

Provable(e) == claim[e] # None /\ claim[e].expires > now - MaxOpen

\* A wrong guess counts, and the last one burns the claim.
Mistake(e) ==
  LET guessed == [claim[e] EXCEPT !.attempts = @ + 1] IN
  /\ Provable(e)
  /\ claim' = [claim EXCEPT ![e] = IF guessed.attempts = MaxAttempts THEN None ELSE guessed]
  /\ UNCHANGED <<now, account>>

\* The right guess turns the claim into an account, if both are still free.
Prove(e) ==
  /\ Provable(e)
  /\ account[e] = None
  /\ \A d \in Email : account[d] # claim[e].username
  /\ account' = [account EXCEPT ![e] = claim[e].username]
  /\ claim' = [claim EXCEPT ![e] = None]
  /\ UNCHANGED now

Rename(e, u) ==
  /\ account[e] # None
  /\ \A d \in Email : account[d] # u
  /\ account' = [account EXCEPT ![e] = u]
  /\ UNCHANGED <<now, claim>>

Tick == now' = now + 1 /\ UNCHANGED <<account, claim>>

Next ==
  \/ \E e \in Email : Claim(e) \/ Renew(e) \/ Mistake(e) \/ Prove(e)
  \/ \E e \in Email, u \in Username : Rename(e, u)
  \/ Tick

Spec == Init /\ [][Next]_vars
=============================================================================
