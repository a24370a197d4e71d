--------------------------- MODULE Social_proofs ---------------------------
(***************************************************************************)
(* Theorems about Social, for any number of requests side by side.  The    *)
(* advisory locks of the pair order the requests of one kind; a block      *)
(* takes neither, and what was past the gate when it was set is noted.     *)
(***************************************************************************)
EXTENDS Social, TLAPS

-----------------------------------------------------------------------------
(* Types.                                                                    *)

\* Every request that is under way has a caller.
Typed == TypeOK /\ \A q \in Request : stage[q] # "idle" => actor[q] \in Party

LEMMA TypedInit == Init => Typed
<1> SUFFICES ASSUME Init PROVE Typed
  OBVIOUS
<1>1. stage \in [Request -> Stage]
  BY DEF Init, Stage
<1>2. calls \in 0..MaxCalls /\ row \in Nat /\ dms \in Nat /\ messages \in Nat
  BY SocialAssumption DEF Init
<1>3. /\ status = "none" /\ requester = Nobody /\ friendLock = Nobody /\ dmLock = Nobody
      /\ blocks = {} /\ asked = {} /\ excused = FALSE
      /\ \A q \in Request : stage[q] = "idle"
      /\ actor \in [Request -> Party \cup {Nobody}]
      /\ found \in [Request -> {"none", "theirs", "settled"}]
      /\ foundRow \in [Request -> Nat]
      /\ removing \in [Request -> Nat]
      /\ overtaken \in [Request -> BOOLEAN]
  BY DEF Init
<1>4. QED
  BY <1>1, <1>2, <1>3 DEF Typed, TypeOK

LEMMA BeginTypes ==
  ASSUME Typed, NEW q \in Request, NEW p \in Party, NEW next \in Stage, Begin(q, p, next)
  PROVE  Typed'
<1>1. stage' \in [Request -> Stage] /\ actor' \in [Request -> Party \cup {Nobody}]
      /\ calls' \in 0..MaxCalls
  BY SocialAssumption DEF Typed, TypeOK, Begin
<1>2. \A r \in Request : stage'[r] # "idle" => actor'[r] \in Party
  BY DEF Typed, TypeOK, Begin
<1>3. \A r \in Request : stage[r] # "idle" => stage'[r] = stage[r]
  BY DEF Typed, TypeOK, Begin
<1>4. QED
  BY <1>1, <1>2, <1>3 DEF Typed, TypeOK, Begin, rowVars, wordVars, lockVars

\* A request that ends leaves its arguments in their types, and its locks.
LEMMA EndTypes ==
  ASSUME Typed, NEW q \in Request, End(q)
  PROVE  /\ calls' \in 0..MaxCalls
         /\ friendLock' \in Request \cup {Nobody}
         /\ dmLock' \in Request \cup {Nobody}
         /\ friendLock' # Nobody => stage'[friendLock'] \in {"friend_locked", "friend_found"}
         /\ dmLock' # Nobody => stage'[dmLock'] \in {"dm_locked", "dm_found"}
         /\ stage' \in [Request -> Stage]
         /\ actor' \in [Request -> Party \cup {Nobody}]
         /\ found' \in [Request -> {"none", "theirs", "settled"}]
         /\ foundRow' \in [Request -> Nat]
         /\ removing' \in [Request -> Nat]
         /\ \A r \in Request : stage'[r] # "idle" => actor'[r] \in Party
<1>1. /\ stage' \in [Request -> Stage]
      /\ actor' \in [Request -> Party \cup {Nobody}]
      /\ found' \in [Request -> {"none", "theirs", "settled"}]
      /\ foundRow' \in [Request -> Nat]
      /\ removing' \in [Request -> Nat]
  BY DEF Typed, TypeOK, End, Advance, Stage
<1>2. /\ friendLock' \in Request \cup {Nobody}
      /\ dmLock' \in Request \cup {Nobody}
      /\ friendLock' # Nobody => stage'[friendLock'] \in {"friend_locked", "friend_found"}
      /\ dmLock' # Nobody => stage'[dmLock'] \in {"dm_locked", "dm_found"}
  BY DEF Typed, TypeOK, End, Advance, Unlock
<1>3. \A r \in Request : stage'[r] # "idle" => actor'[r] \in Party
  BY DEF Typed, TypeOK, End, Advance
<1>4. QED
  BY <1>1, <1>2, <1>3 DEF Typed, TypeOK, End

LEMMA TypedNext == Typed /\ [Next]_vars => Typed'
<1> SUFFICES ASSUME Typed, [Next]_vars PROVE Typed'
  OBVIOUS
<1>0. CASE UNCHANGED vars
  BY <1>0 DEF vars, rowVars, wordVars, lockVars, requestVars, Typed, TypeOK
<1>1. ASSUME NEW q \in Request, Call(q) PROVE Typed'
  <2>1. {"befriending", "opening", "sending", "block_inserted"} \subseteq Stage
    BY DEF Stage, Allowed
  <2>2. QED
    BY <1>1, <2>1, BeginTypes DEF Call, AskFriend, AskDm, AskSend, AskBlock
<1>2. ASSUME NEW q \in Request, CheckBlock(q) PROVE Typed'
  <2>1. Allowed[stage[q]] \in {"friend_allowed", "dm_allowed", "send_allowed"}
        /\ stage[q] \in {"befriending", "opening", "sending"}
    BY <1>2 DEF CheckBlock, Allowed
  <2>2. stage' \in [Request -> Stage]
    BY <1>2, <2>1 DEF CheckBlock, Advance, Typed, TypeOK, Stage, Gated
  <2>3. QED
    BY <1>2, <2>1, <2>2
    DEF CheckBlock, Advance, ReadsOnly, rowVars, wordVars, lockVars, Typed, TypeOK
<1>3. ASSUME NEW q \in Request, LockFriendship(q) PROVE Typed'
  BY <1>3 DEF LockFriendship, Advance, ReadsOnly, rowVars, wordVars, Typed, TypeOK, Stage, Gated
<1>4. ASSUME NEW q \in Request, FindFriendship(q) PROVE Typed'
  BY <1>4 DEF FindFriendship, Advance, ReadsOnly, rowVars, wordVars, lockVars, Typed, TypeOK,
     Stage, Gated
<1>5. ASSUME NEW q \in Request, InsertPending(q) PROVE Typed'
  <2>1. actor[q] \in Party /\ overtaken' \in [Request -> BOOLEAN] /\ excused' \in BOOLEAN
    BY <1>5 DEF InsertPending, Forget, Typed, TypeOK
  <2>2. QED
    BY <1>5, <2>1, EndTypes, SocialAssumption DEF InsertPending, wordVars, Typed, TypeOK
<1>6. ASSUME NEW q \in Request, AcceptFriendship(q) PROVE Typed'
  <2>1. actor[q] \in Party /\ overtaken' \in [Request -> BOOLEAN] /\ excused' \in BOOLEAN
    BY <1>6 DEF AcceptFriendship, Forget, Typed, TypeOK
  <2>2. QED
    BY <1>6, <2>1, EndTypes DEF AcceptFriendship, wordVars, Typed, TypeOK
<1>7. ASSUME NEW q \in Request, LeaveFriendship(q) \/ Stop(q) PROVE Typed'
  BY <1>7, EndTypes DEF LeaveFriendship, Stop, Forget, rowVars, wordVars, Typed, TypeOK
<1>8. ASSUME NEW q \in Request, DeletePair(q) PROVE Typed'
  BY <1>8 DEF DeletePair, Advance, ReadsOnly, rowVars, wordVars, lockVars, Typed, TypeOK, Stage
<1>9. ASSUME NEW q \in Request, CommitBlock(q) PROVE Typed'
  <2>1. actor[q] \in Party /\ overtaken' \in [Request -> BOOLEAN] /\ excused' \in BOOLEAN
    BY <1>9 DEF CommitBlock, Typed, TypeOK
  <2>2. /\ status' \in {"none", "pending", "accepted"}
        /\ requester' \in Party \cup {Nobody}
        /\ (status' = "none") = (requester' = Nobody)
        /\ row' \in Nat /\ (status' # "none" => row' > 0)
        /\ asked' \in SUBSET Party
    BY <1>9 DEF CommitBlock, Typed, TypeOK
  <2>3. QED
    BY <1>9, <2>1, <2>2, EndTypes DEF CommitBlock, wordVars, Typed, TypeOK
<1>10. ASSUME NEW q \in Request, LockDm(q) PROVE Typed'
  BY <1>10 DEF LockDm, Advance, ReadsOnly, rowVars, wordVars, Typed, TypeOK, Stage, Gated
<1>11. ASSUME NEW q \in Request, FindDm(q) PROVE Typed'
  BY <1>11 DEF FindDm, Advance, ReadsOnly, rowVars, wordVars, lockVars, Typed, TypeOK,
     Stage, Gated
<1>12. ASSUME NEW q \in Request, CommitDm(q) \/ InsertMessage(q) PROVE Typed'
  <2>1. dms' \in Nat /\ messages' \in Nat /\ overtaken' \in [Request -> BOOLEAN]
    <3>1. dms \in Nat /\ messages \in Nat /\ overtaken \in [Request -> BOOLEAN]
      BY DEF Typed, TypeOK
    <3>2. overtaken' \in [Request -> BOOLEAN]
      BY <1>12, <3>1 DEF CommitDm, InsertMessage, Forget
    <3>3. CASE CommitDm(q)
      BY <3>1, <3>2, <3>3 DEF CommitDm
    <3>4. CASE InsertMessage(q)
      BY <3>1, <3>2, <3>4 DEF InsertMessage
    <3>5. QED
      BY <1>12, <3>3, <3>4
  <2>2. End(q) /\ UNCHANGED <<blocks, rowVars, asked, excused>>
    BY <1>12 DEF CommitDm, InsertMessage
  <2>3. QED
    BY <2>1, <2>2, EndTypes DEF rowVars, Typed, TypeOK
<1>13. CASE RemoveFriendship
  <2>1. calls' \in 0..MaxCalls
    BY <1>13, SocialAssumption DEF RemoveFriendship, Typed, TypeOK
  <2>2. /\ status' = "none" /\ requester' = Nobody /\ asked' = {} /\ excused' = FALSE
        /\ UNCHANGED <<blocks, row, dms, messages, friendLock, dmLock, stage, actor, found,
                       foundRow, removing, overtaken>>
    BY <1>13 DEF RemoveFriendship, wordVars, lockVars, requestVars
  <2>3. QED
    BY <2>1, <2>2 DEF Typed, TypeOK
<1>14. ASSUME NEW p \in Party, Unblock(p) PROVE Typed'
  BY <1>14, SocialAssumption
  DEF Unblock, rowVars, wordVars, lockVars, requestVars, Typed, TypeOK
<1>15. QED
  BY <1>0, <1>1, <1>2, <1>3, <1>4, <1>5, <1>6, <1>7, <1>8, <1>9, <1>10, <1>11, <1>12, <1>13,
     <1>14 DEF Next, Step

\* Every variable keeps its type, a friendship's row has a requester, and the
\* pair's locks belong to requests that need them.
THEOREM TypeCorrect == Spec => []TypeOK
<1>1. Typed => TypeOK
  BY DEF Typed
<1>2. QED
  BY <1>1, TypedInit, TypedNext, PTL DEF Spec

-----------------------------------------------------------------------------
(* What a request has established stays true until it ends.                  *)

\* Who looks for the friendship or the channel has the lock.
Holds(q) ==
  /\ stage[q] \in {"friend_locked", "friend_found"} => friendLock = q
  /\ stage[q] \in {"dm_locked", "dm_found"} => dmLock = q

\* No channel was found, and there is none.
FoundDm(q) == stage[q] = "dm_found" /\ found[q] = "none" => dms = 0

\* Rows are numbered, and the row that was found is the other side's.
FoundRow(q) ==
  stage[q] = "friend_found" =>
    /\ foundRow[q] <= row
    /\ found[q] = "theirs" /\ status # "none" /\ row = foundRow[q] => requester # actor[q]

\* A block set since the gate is noted.
Noted(q) == stage[q] \in Gated /\ blocks # {} => overtaken[q]

Kept(q) == Holds(q) /\ FoundDm(q) /\ FoundRow(q) /\ Noted(q)

Asked == status # "none" => requester \in asked

Inv ==
  /\ Typed
  /\ \A q \in Request : Kept(q)
  /\ Asked /\ OneDm /\ FriendshipIsMutual /\ OnlyRacedFriends

\* Steps of other requests.
LEMMA OthersHold ==
  ASSUME Inv, NEW q \in Request, NEW p \in Request, p # q, Call(q) \/ Step(q) \/ Stop(q)
  PROVE  /\ stage'[p] = stage[p] /\ actor'[p] = actor[p] /\ found'[p] = found[p]
         /\ foundRow'[p] = foundRow[p]
         /\ Holds(p)'
<1>1. stage'[p] = stage[p] /\ actor'[p] = actor[p] /\ found'[p] = found[p]
      /\ foundRow'[p] = foundRow[p]
  BY DEF Inv, Typed, TypeOK, Call, Step, Stop, AskFriend, AskDm, AskSend, AskBlock, Begin,
     CheckBlock, LockFriendship, FindFriendship, InsertPending, AcceptFriendship,
     LeaveFriendship, DeletePair, CommitBlock, LockDm, FindDm, CommitDm, InsertMessage, Advance,
     ReadsOnly, End, requestVars
<1>2. CASE End(q)
  BY <1>1, <1>2 DEF End, Unlock, Inv, Kept, Holds
<1>3. CASE LockFriendship(q)
  <2>1. p # Nobody
    BY SocialAssumption
  <2>2. QED
    BY <1>1, <1>3, <2>1 DEF LockFriendship, Inv, Kept, Holds
<1>4. CASE LockDm(q)
  <2>1. p # Nobody
    BY SocialAssumption
  <2>2. QED
    BY <1>1, <1>4, <2>1 DEF LockDm, Inv, Kept, Holds
<1>5. CASE friendLock' = friendLock /\ dmLock' = dmLock
  BY <1>1, <1>5 DEF Inv, Kept, Holds
<1>6. QED
  BY <1>1, <1>2, <1>3, <1>4, <1>5 DEF Call, Step, Stop, AskFriend, AskDm, AskSend, AskBlock,
     Begin, CheckBlock, FindFriendship, InsertPending, AcceptFriendship, LeaveFriendship,
     DeletePair, CommitBlock, FindDm, CommitDm, InsertMessage, lockVars

LEMMA OthersKept ==
  ASSUME Inv, NEW q \in Request, NEW p \in Request, p # q, Call(q) \/ Step(q) \/ Stop(q)
  PROVE  Kept(p)'
<1>1. stage'[p] = stage[p] /\ actor'[p] = actor[p] /\ found'[p] = found[p]
      /\ foundRow'[p] = foundRow[p] /\ Holds(p)'
  BY OthersHold
<1>2. FoundDm(p)'
  <2>1. CASE CommitDm(q)
    BY <1>1, <2>1 DEF CommitDm, Inv, Kept, Holds, FoundDm
  <2>2. CASE ~CommitDm(q)
    <3>1. dms' = dms
      BY <2>2 DEF Call, Step, Stop, AskFriend, AskDm, AskSend, AskBlock, Begin, CheckBlock,
         LockFriendship, FindFriendship, InsertPending, AcceptFriendship, LeaveFriendship,
         DeletePair, CommitBlock, LockDm, FindDm, InsertMessage, ReadsOnly, wordVars
    <3>2. QED
      BY <1>1, <3>1 DEF Inv, Kept, FoundDm
  <2>3. QED
    BY <2>1, <2>2
<1>3. FoundRow(p)'
  <2>1. CASE InsertPending(q)
    BY <1>1, <2>1 DEF InsertPending, Inv, Kept, Holds, FoundRow
  <2>2. CASE ~InsertPending(q)
    <3>1. row' = row /\ (status' # "none" => status # "none" /\ requester' = requester)
      BY <2>2 DEF Call, Step, Stop, AskFriend, AskDm, AskSend, AskBlock, Begin, CheckBlock,
         LockFriendship, FindFriendship, AcceptFriendship, LeaveFriendship, DeletePair,
         CommitBlock, LockDm, FindDm, CommitDm, InsertMessage, ReadsOnly, rowVars
    <3>2. QED
      BY <1>1, <3>1 DEF Inv, Kept, FoundRow
  <2>3. QED
    BY <2>1, <2>2
<1>4. Noted(p)'
  <2>1. CASE CommitBlock(q)
    BY <1>1, <2>1 DEF CommitBlock, Noted
  <2>2. CASE ~CommitBlock(q)
    <3>1. blocks' = blocks /\ overtaken'[p] = overtaken[p]
      BY <2>2 DEF Inv, Typed, TypeOK, Call, Step, Stop, AskFriend, AskDm, AskSend, AskBlock,
         Begin, CheckBlock, LockFriendship, FindFriendship, InsertPending, AcceptFriendship,
         LeaveFriendship, DeletePair, LockDm, FindDm, CommitDm, InsertMessage, ReadsOnly, Forget
    <3>2. QED
      BY <1>1, <3>1 DEF Inv, Kept, Noted
  <2>3. QED
    BY <2>1, <2>2
<1>5. QED
  BY <1>1, <1>2, <1>3, <1>4 DEF Kept

\* A request that is over, or has not passed the gate, has nothing to keep.
LEMMA OutsideKept ==
  ASSUME NEW q \in Request, stage'[q] \notin Gated
  PROVE  Kept(q)'
BY DEF Kept, Holds, FoundDm, FoundRow, Noted, Gated

LEMMA OwnKept ==
  ASSUME Inv, NEW q \in Request, Call(q) \/ Step(q) \/ Stop(q)
  PROVE  Kept(q)'
<1> USE DEF Inv, Typed, TypeOK
<1>1. CASE End(q)
  BY <1>1, OutsideKept DEF End, Advance, Gated
<1>2. CASE Call(q)
  BY <1>2, OutsideKept DEF Call, AskFriend, AskDm, AskSend, AskBlock, Begin, Gated
<1>3. CASE DeletePair(q)
  BY <1>3, OutsideKept DEF DeletePair, Advance, Gated
<1>4. CASE CheckBlock(q)
  <2>1. Allowed[stage[q]] \in {"friend_allowed", "dm_allowed", "send_allowed"}
    BY <1>4 DEF CheckBlock, Allowed
  <2>2. blocks' = {} /\ stage'[q] \in {"friend_allowed", "dm_allowed", "send_allowed"}
    BY <1>4, <2>1 DEF CheckBlock, Advance, ReadsOnly
  <2>3. QED
    BY <2>2 DEF Kept, Holds, FoundDm, FoundRow, Noted
<1>5. CASE LockFriendship(q)
  BY <1>5 DEF LockFriendship, Advance, ReadsOnly, Kept, Holds, FoundDm, FoundRow, Noted, Gated
<1>6. CASE FindFriendship(q)
  <2>1. /\ stage[q] = "friend_locked" /\ stage'[q] = "friend_found"
        /\ foundRow'[q] = row /\ row' = row /\ row \in Nat
        /\ status' = status /\ requester' = requester /\ actor' = actor
        /\ found'[q] = "theirs" => requester # actor[q]
        /\ friendLock' = friendLock /\ blocks' = blocks /\ overtaken' = overtaken
    BY <1>6 DEF FindFriendship, Accepts, Advance, ReadsOnly, rowVars, lockVars
  <2>2. QED
    BY <2>1 DEF Kept, Holds, FoundDm, FoundRow, Noted, Gated
<1>7. CASE LockDm(q)
  BY <1>7 DEF LockDm, Advance, ReadsOnly, Kept, Holds, FoundDm, FoundRow, Noted, Gated
<1>8. CASE FindDm(q)
  BY <1>8 DEF FindDm, Advance, ReadsOnly, wordVars, lockVars, Kept, Holds, FoundDm, FoundRow,
     Noted, Gated
<1>9. QED
  BY <1>1, <1>2, <1>3, <1>4, <1>5, <1>6, <1>7, <1>8
  DEF Step, Stop, InsertPending, AcceptFriendship, LeaveFriendship, CommitBlock, CommitDm,
      InsertMessage

\* The friendship, the direct channel, and what a block leaves of them.
LEMMA StateNext ==
  ASSUME Inv, [Next]_vars
  PROVE  Asked' /\ OneDm' /\ FriendshipIsMutual' /\ OnlyRacedFriends'
<1> USE DEF Inv, Typed, TypeOK
<1>1. ASSUME NEW q \in Request, InsertPending(q)
      PROVE  Asked' /\ OneDm' /\ FriendshipIsMutual' /\ OnlyRacedFriends'
  BY <1>1 DEF InsertPending, wordVars, Asked, OneDm, FriendshipIsMutual, OnlyRacedFriends, Kept,
     Noted, Gated
<1>2. ASSUME NEW q \in Request, AcceptFriendship(q)
      PROVE  Asked' /\ OneDm' /\ FriendshipIsMutual' /\ OnlyRacedFriends'
  <2>1. actor[q] \in Party /\ requester \in Party /\ requester # actor[q] /\ requester \in asked
    BY <1>2 DEF AcceptFriendship, Kept, FoundRow, Asked
  <2>2. asked' = Party
    BY <1>2, <2>1, SocialAssumption DEF AcceptFriendship
  <2>3. blocks # {} => overtaken[q]
    BY <1>2 DEF AcceptFriendship, Kept, Noted, Gated
  <2>4. QED
    BY <1>2, <2>1, <2>2, <2>3
    DEF AcceptFriendship, wordVars, Asked, OneDm, FriendshipIsMutual, OnlyRacedFriends
<1>3. ASSUME NEW q \in Request, CommitBlock(q)
      PROVE  Asked' /\ OneDm' /\ FriendshipIsMutual' /\ OnlyRacedFriends'
  BY <1>3 DEF CommitBlock, Spares, wordVars, Asked, OneDm, FriendshipIsMutual, OnlyRacedFriends
<1>4. ASSUME NEW q \in Request, CommitDm(q)
      PROVE  Asked' /\ OneDm' /\ FriendshipIsMutual' /\ OnlyRacedFriends'
  BY <1>4 DEF CommitDm, rowVars, Asked, OneDm, FriendshipIsMutual, OnlyRacedFriends, Kept, FoundDm
<1>5. CASE RemoveFriendship
  BY <1>5 DEF RemoveFriendship, wordVars, Asked, OneDm, FriendshipIsMutual, OnlyRacedFriends
<1>6. ASSUME NEW p \in Party, Unblock(p)
      PROVE  Asked' /\ OneDm' /\ FriendshipIsMutual' /\ OnlyRacedFriends'
  BY <1>6 DEF Unblock, rowVars, wordVars, Asked, OneDm, FriendshipIsMutual, OnlyRacedFriends
<1>7. CASE UNCHANGED <<blocks, rowVars, dms, asked, excused>>
  BY <1>7 DEF rowVars, Asked, OneDm, FriendshipIsMutual, OnlyRacedFriends
<1>8. ASSUME NEW q \in Request, Call(q) \/ CheckBlock(q) \/ LockFriendship(q)
             \/ FindFriendship(q) \/ LeaveFriendship(q) \/ DeletePair(q) \/ LockDm(q)
             \/ FindDm(q) \/ InsertMessage(q) \/ Stop(q)
      PROVE  UNCHANGED <<blocks, rowVars, dms, asked, excused>>
  BY <1>8 DEF Call, AskFriend, AskDm, AskSend, AskBlock, Begin, CheckBlock, LockFriendship,
     FindFriendship, LeaveFriendship, DeletePair, LockDm, FindDm, InsertMessage, Stop, ReadsOnly,
     wordVars
<1>9. QED
  BY <1>1, <1>2, <1>3, <1>4, <1>5, <1>6, <1>7, <1>8 DEF Next, Step, vars, wordVars

LEMMA InvInit == Init => Inv
BY TypedInit DEF Init, Inv, Kept, Holds, FoundDm, FoundRow, Noted, Gated, Asked, OneDm,
   FriendshipIsMutual, OnlyRacedFriends

LEMMA InvNext == Inv /\ [Next]_vars => Inv'
<1> SUFFICES ASSUME Inv, [Next]_vars PROVE Inv'
  OBVIOUS
<1>1. Typed'
  BY TypedNext DEF Inv
<1>2. ASSUME NEW p \in Request PROVE Kept(p)'
  <2>1. ASSUME NEW q \in Request, Call(q) \/ Step(q) \/ Stop(q) PROVE Kept(p)'
    BY <2>1, OthersKept, OwnKept
  <2>2. CASE RemoveFriendship
    BY <2>2 DEF RemoveFriendship, wordVars, lockVars, requestVars, Inv, Kept, Holds, FoundDm,
       FoundRow, Noted
  <2>3. ASSUME NEW a \in Party, Unblock(a) PROVE Kept(p)'
    BY <2>3 DEF Unblock, rowVars, wordVars, lockVars, requestVars, Inv, Kept, Holds, FoundDm,
       FoundRow, Noted
  <2>4. CASE UNCHANGED vars
    BY <2>4 DEF vars, rowVars, wordVars, lockVars, requestVars, Inv, Kept, Holds, FoundDm,
       FoundRow, Noted
  <2>5. QED
    BY <2>1, <2>2, <2>3, <2>4 DEF Next
<1>3. QED
  BY <1>1, <1>2, StateNext DEF Inv

-----------------------------------------------------------------------------

\* The inductive invariant: locks, rows and gates are as the requests found them.
THEOREM InvCorrect == Spec => []Inv
<1>1. QED
  BY InvInit, InvNext, PTL DEF Spec

\* Nobody has a friend who did not ask for it, or whom it did not ask.
THEOREM FriendshipCorrect == Spec => []FriendshipIsMutual
<1>1. Inv => FriendshipIsMutual
  BY DEF Inv
<1>2. QED
  BY <1>1, InvCorrect, PTL

\* The two have one direct channel, however many requests open it at once.
THEOREM OneDmCorrect == Spec => []OneDm
<1>1. Inv => OneDm
  BY DEF Inv
<1>2. QED
  BY <1>1, InvCorrect, PTL

\* A block and a friendship meet only where one was set beside the other.
THEOREM RacedFriendsCorrect == Spec => []OnlyRacedFriends
<1>1. Inv => OnlyRacedFriends
  BY DEF Inv
<1>2. QED
  BY <1>1, InvCorrect, PTL

\* Beside a block, only a request that was past the gate writes a message or
\* opens a channel.
THEOREM RacedWordsCorrect == Spec => OnlyRacedWords
<1> DEFINE Raced ==
      \A q \in Request :
        /\ stage'[q] # stage[q] /\ blocks # {}
        /\ dms' # dms \/ messages' # messages
        => overtaken[q]
<1>1. Inv /\ [Next]_vars => Raced
  <2> SUFFICES ASSUME Inv, [Next]_vars, NEW q \in Request, stage'[q] # stage[q], blocks # {},
                      dms' # dms \/ messages' # messages
               PROVE  overtaken[q]
    OBVIOUS
  <2>1. PICK r \in Request : CommitDm(r) \/ InsertMessage(r)
    BY DEF Next, Call, Step, Stop, AskFriend, AskDm, AskSend, AskBlock, Begin, CheckBlock,
       LockFriendship, FindFriendship, InsertPending, AcceptFriendship, LeaveFriendship,
       DeletePair, CommitBlock, LockDm, FindDm, RemoveFriendship, Unblock, ReadsOnly, wordVars,
       vars
  <2>2. q = r
    BY <2>1 DEF CommitDm, InsertMessage, End, Advance, Inv, Typed, TypeOK
  <2>3. stage[q] \in Gated
    BY <2>1, <2>2 DEF CommitDm, InsertMessage, Gated
  <2>4. QED
    BY <2>3 DEF Inv, Kept, Noted
<1>2. QED
  BY <1>1, InvCorrect, PTL DEF Spec, OnlyRacedWords

\* To whom the other has blocked, the other looks as to a stranger, whatever
\* else there is between them and whichever way the facts are gathered.
THEOREM BlocksSilent == Spec => []BlocksAreSilent
<1>1. Typed => BlocksAreSilent
  <2> SUFFICES ASSUME Typed, NEW v \in Party, NEW o \in Party, v # o
               PROVE  /\ FactsInBulk(v, o) = Facts(v, o)
                      /\ o \in blocks /\ v \notin blocks =>
                           \A s \in Setting :
                             Profile(v, o, s) =
                               Response(Stranger, [bio |-> s, communities |-> s, friends |-> s],
                                        "online", TRUE)
    BY DEF BlocksAreSilent
  <2>1. FactsInBulk(v, o) = Facts(v, o)
    <3>1. o \in FriendsOf(v) <=> status = "accepted"
      BY DEF FriendsOf
    <3>2. o \in BlockedBy(v) <=> v # o /\ v \in blocks
      BY DEF BlockedBy
    <3>3. v \in BlockedBy(o) <=> v # o /\ o \in blocks
      BY DEF BlockedBy
    <3>4. (o \in BlockedBy(v)) = (v # o /\ v \in blocks)
      BY <3>2
    <3>5. (v \in BlockedBy(o)) = (v # o /\ o \in blocks)
      BY <3>3
    <3>6. QED
      BY <3>1, <3>4, <3>5 DEF FactsInBulk, Facts
  <2>2. ASSUME o \in blocks, v \notin blocks, NEW s \in Setting
        PROVE  Profile(v, o, s) =
                 Response(Stranger, [bio |-> s, communities |-> s, friends |-> s], "online", TRUE)
    <3> DEFINE f == Facts(v, o)
               all == [bio |-> s, communities |-> s, friends |-> s]
               d == Decide(f, all)
               e == Decide(Stranger, all)
    <3>1. /\ f.callerBlocked = FALSE /\ f.ownerBlocked = TRUE
          /\ f.shared = FALSE /\ f.deleted = FALSE /\ f.relationship # "self"
      BY <2>2 DEF Facts
    <3>2. /\ Stranger.callerBlocked = FALSE /\ Stranger.ownerBlocked = FALSE
          /\ Stranger.shared = FALSE /\ Stranger.deleted = FALSE
          /\ Stranger.relationship = "none"
      BY DEF Stranger
    <3>3. /\ d.identity = e.identity /\ d.media = e.media /\ d.bio = e.bio
          /\ d.customStatus = e.customStatus /\ d.serverContext = e.serverContext
          /\ d.presence = e.presence
          /\ d.relationship = "minimum" /\ e.relationship = "none"
      BY <3>1, <3>2 DEF Decide
    <3>4. Word(d) = Word(e) /\ PresenceShown(d, "online") = PresenceShown(e, "online")
      BY <3>3 DEF Word, PresenceShown
    <3>5. QED
      BY <3>3, <3>4 DEF Profile, Response
  <2>3. QED
    BY <2>1, <2>2
<1>2. QED
  BY <1>1, TypedInit, TypedNext, PTL DEF Spec
=============================================================================
