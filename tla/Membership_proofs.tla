------------------------- MODULE Membership_proofs -------------------------
(***************************************************************************)
(* Theorems about Membership, for every set of accounts, moderators and    *)
(* requests.  Nothing is locked here, so the argument is of what a check   *)
(* leaves true whatever others do: a rank that rises past its check is     *)
(* noted, the owner is never anybody's target past FindTarget, and a ban   *)
(* that comes between a join's check and its insertion is noted.           *)
(***************************************************************************)
EXTENDS Membership, TLAPS

\* Next, one action at a time, for the case splits below.
LEMMA NextCases ==
  ASSUME Next
  PROVE  \/ \E q \in Request :
              \/ \E a \in Account :
                   \/ AskJoin(q, a) \/ AskLeave(q, a) \/ AskDeleteServer(q, a)
                   \/ \E t \in Account, o \in Targeted \cup {"unban"} : AskModerate(q, o, a, t)
              \/ CheckMember(q) \/ CheckBan(q) \/ InsertMembership(q)
              \/ CheckTimeout(q) \/ CheckNotBanned(q) \/ FindTarget(q) \/ CheckRank(q)
              \/ InsertBan(q) \/ DeleteBan(q) \/ SetTimeout(q)
              \/ ResolveRecipients(q) \/ DeleteMembership(q) \/ DeleteServer(q) \/ Announce(q)
              \/ Stop(q)
         \/ \E a \in Account : Expire(a) \/ \E n \in 0..MaxRank : ChangeRank(a, n)
BY DEF Next, Call, Step

-----------------------------------------------------------------------------
(* Types.                                                                    *)

LEMMA TypedInit == Init => TypeOK
BY MembershipAssumption DEF Init, TypeOK, Stage, Op, Targeted

\* The arguments of a request that begins.
LEMMA BeginTypes ==
  ASSUME TypeOK, NEW q \in Request, NEW a \in Account, NEW t \in Account, NEW o \in Op,
         NEW next \in Stage, Begin(q, o, a, t, next), UNCHANGED historyVars,
         recipients' \in [Request -> SUBSET Account]
  PROVE  TypeOK'
<1>1. /\ stage' \in [Request -> Stage] /\ op' \in [Request -> Op]
      /\ actor' \in [Request -> Account] /\ target' \in [Request -> Account]
  BY DEF TypeOK, Begin
<1>2. top' \in [Request -> 0..MaxRank] /\ calls' \in 0..MaxCalls
  BY MembershipAssumption DEF TypeOK, Begin
<1>3. QED
  BY <1>1, <1>2 DEF TypeOK, Begin, serverVars, historyVars

LEMMA AdvanceTypes ==
  ASSUME TypeOK, NEW q \in Request, NEW next \in Stage, Advance(q, next)
  PROVE  TypeOK'
BY DEF TypeOK, Advance, serverVars, historyVars

\* A request that ends leaves its arguments in their types.
LEMMA EndTypes ==
  ASSUME TypeOK, NEW q \in Request, End(q)
  PROVE  /\ stage' \in [Request -> Stage]
         /\ op' \in [Request -> Op]
         /\ actor' \in [Request -> Account]
         /\ target' \in [Request -> Account]
         /\ top' \in [Request -> 0..MaxRank]
         /\ recipients' \in [Request -> SUBSET Account]
         /\ audience' \in [Request -> SUBSET Account]
         /\ calls' \in 0..MaxCalls
         /\ risen' \in [Request -> BOOLEAN]
BY MembershipAssumption DEF TypeOK, End, Stage, Op

LEMMA TypedNext == TypeOK /\ [Next]_vars => TypeOK'
<1> SUFFICES ASSUME TypeOK, [Next]_vars PROVE TypeOK'
  OBVIOUS
<1>0. CASE UNCHANGED vars
  BY <1>0 DEF vars, serverVars, requestVars, historyVars, TypeOK
<1>1. ASSUME NEW q \in Request, NEW a \in Account,
             AskJoin(q, a) \/ AskLeave(q, a) \/ AskDeleteServer(q, a)
      PROVE  TypeOK'
  <2>1. recipients' \in [Request -> SUBSET Account]
    BY <1>1 DEF AskJoin, AskLeave, AskDeleteServer, TypeOK
  <2>2. {"join", "leave", "delete"} \subseteq Op /\ {"invited", "leaving", "resolved"} \subseteq Stage
    BY DEF Op, Stage
  <2>3. QED
    BY <1>1, <2>1, <2>2, BeginTypes DEF AskJoin, AskLeave, AskDeleteServer
<1>2. ASSUME NEW q \in Request, NEW a \in Account, NEW t \in Account,
             NEW o \in Targeted \cup {"unban"}, AskModerate(q, o, a, t)
      PROVE  TypeOK'
  <2>1. recipients' \in [Request -> SUBSET Account]
    BY <1>2 DEF AskModerate, TypeOK
  <2>2. o \in Op /\ "permitted" \in Stage
    BY DEF Op, Stage
  <2>3. QED
    BY <1>2, <2>1, <2>2, BeginTypes DEF AskModerate
<1>3. ASSUME NEW q \in Request,
             \/ CheckMember(q) \/ CheckBan(q) \/ CheckTimeout(q) \/ CheckNotBanned(q)
             \/ FindTarget(q) \/ CheckRank(q)
      PROVE  TypeOK'
  <2>1. {"stranger", "admitted", "banning", "awake", "found", "outranked"} \subseteq Stage
    BY DEF Stage
  <2>2. QED
    BY <1>3, <2>1, AdvanceTypes
    DEF CheckMember, CheckBan, CheckTimeout, CheckNotBanned, FindTarget, CheckRank
<1>4. ASSUME NEW q \in Request, InsertMembership(q) PROVE TypeOK'
  <2>1. actor[q] \in Account /\ newcomers' \in [Request -> SUBSET Account]
    BY <1>4 DEF InsertMembership, TypeOK
  <2>2. QED
    BY <1>4, <2>1, EndTypes DEF InsertMembership, TypeOK
<1>5. ASSUME NEW q \in Request, InsertBan(q) PROVE TypeOK'
  BY <1>5 DEF InsertBan, TypeOK, Stage
<1>6. ASSUME NEW q \in Request, DeleteBan(q) PROVE TypeOK'
  BY <1>6, EndTypes DEF DeleteBan, Forget, TypeOK
<1>7. ASSUME NEW q \in Request, SetTimeout(q) PROVE TypeOK'
  BY <1>7, EndTypes DEF SetTimeout, Forget, TypeOK
<1>8. ASSUME NEW q \in Request, ResolveRecipients(q) PROVE TypeOK'
  BY <1>8 DEF ResolveRecipients, Hearers, TypeOK, Stage, serverVars, historyVars
<1>9. ASSUME NEW q \in Request, DeleteMembership(q) PROVE TypeOK'
  BY <1>9, MembershipAssumption DEF DeleteMembership, TypeOK, Stage
<1>10. ASSUME NEW q \in Request, DeleteServer(q) PROVE TypeOK'
  <2>1. stage' \in [Request -> Stage] /\ audience' \in [Request -> SUBSET Account]
    BY <1>10 DEF DeleteServer, TypeOK, Stage
  <2>2. rank' \in [Account -> 0..MaxRank] /\ \A a \in Account : rank'[a] = 0
    BY <1>10, MembershipAssumption DEF DeleteServer
  <2>3. /\ alive' = FALSE /\ members' = {} /\ banned' = {} /\ timedOut' = {} /\ excused' = {}
        /\ UNCHANGED <<op, actor, target, top, recipients, calls, newcomers, risen, overtaken>>
    BY <1>10 DEF DeleteServer
  <2>4. \A a \in Account : rank'[a] > 0 => a \in members'
    BY <2>2
  <2>5. QED
    BY <2>1, <2>2, <2>3, <2>4 DEF TypeOK
<1>11. ASSUME NEW q \in Request, Announce(q) PROVE TypeOK'
  BY <1>11, EndTypes DEF Announce, Forget, TypeOK, serverVars
<1>12. ASSUME NEW q \in Request, Stop(q) PROVE TypeOK'
  BY <1>12, EndTypes DEF Stop, Forget, TypeOK, serverVars
<1>13. ASSUME NEW a \in Account, Expire(a) PROVE TypeOK'
  BY <1>13 DEF Expire, TypeOK, requestVars, historyVars
<1>13a. ASSUME NEW a \in Account, NEW n \in 0..MaxRank, ChangeRank(a, n) PROVE TypeOK'
  <2>1. calls' \in 0..MaxCalls /\ risen' \in [Request -> BOOLEAN]
    BY <1>13a, MembershipAssumption DEF ChangeRank, TypeOK
  <2>2. QED
    BY <1>13a, <2>1 DEF ChangeRank, TypeOK, requestVars
<1>14. QED
  BY <1>0, <1>13a, <1>1, <1>2, <1>3, <1>4, <1>5, <1>6, <1>7, <1>8, <1>9, <1>10, <1>11, <1>12, <1>13,
     NextCases

\* Every variable keeps its type; timeouts and roles go with the membership.
THEOREM TypeCorrect == Spec => []TypeOK
<1>1. QED
  BY TypedInit, TypedNext, PTL DEF Spec

-----------------------------------------------------------------------------
(* What a request has established stays true whatever the others do.         *)

\* The operation that a stage belongs to.
Phase(q) ==
  /\ stage[q] \in {"found", "outranked"} => op[q] \in Targeted
  /\ stage[q] = "banned" => op[q] = "ban"
  /\ stage[q] = "leaving" => op[q] = "leave"
  /\ stage[q] = "resolved" => op[q] \in {"kick", "ban", "leave", "delete"}

\* Nobody moderates the owner; a timeout may be cleared.
Spared(q) ==
  \/ stage[q] \in {"found", "outranked"} /\ op[q] # "clear"
  \/ stage[q] \in {"banned", "leaving"}
  \/ stage[q] = "resolved" /\ op[q] # "delete"
  => target[q] # Owner

\* Who was outranked is, unless its rank has risen since.
Ranked(q) ==
  \/ stage[q] \in {"outranked", "banned"}
  \/ stage[q] = "resolved" /\ op[q] \in {"kick", "ban"}
  => Outranks(q, target[q]) \/ risen[q]

\* A ban after the check is noted.
Noted(q) == stage[q] = "admitted" /\ actor[q] \in banned => overtaken[q]

\* Whoever is a member and not a recipient has joined since.
Heard(q) ==
  /\ stage[q] = "resolved" => members \subseteq recipients[q] \cup newcomers[q]
  /\ stage[q] = "announcing" => audience[q] \subseteq recipients[q] \cup newcomers[q]

Kept(q) == Phase(q) /\ Spared(q) /\ Ranked(q) /\ Noted(q) /\ Heard(q)

Inv == TypeOK /\ (\A q \in Request : Kept(q)) /\ OnlyRacedBans

\* What a step of request q, or the clock, leaves alone of another request p.
LEMMA OthersKept ==
  ASSUME TypeOK, NEW q \in Request, NEW p \in Request, p # q, Kept(p),
         Call(q) \/ Step(q) \/ Stop(q)
  PROVE  Kept(p)'
<1>1. stage'[p] = stage[p] /\ op'[p] = op[p] /\ actor'[p] = actor[p] /\ target'[p] = target[p]
      /\ top'[p] = top[p] /\ recipients'[p] = recipients[p] /\ audience'[p] = audience[p]
      /\ risen'[p] = risen[p]
  BY DEF TypeOK, Call, Step, Stop, AskJoin, AskLeave, AskDeleteServer, AskModerate, Begin,
     Advance, End, CheckMember, CheckBan, InsertMembership, CheckTimeout, CheckNotBanned,
     FindTarget, CheckRank, InsertBan, DeleteBan, SetTimeout, ResolveRecipients,
     DeleteMembership, DeleteServer, Announce, historyVars
<1>2. \A a \in Account : rank'[a] <= rank[a] /\ rank'[a] \in Nat
  BY MembershipAssumption DEF TypeOK, Call, Step, Stop, AskJoin, AskLeave, AskDeleteServer, AskModerate, Begin,
     Advance, End, CheckMember, CheckBan, InsertMembership, CheckTimeout, CheckNotBanned,
     FindTarget, CheckRank, InsertBan, DeleteBan, SetTimeout, ResolveRecipients,
     DeleteMembership, DeleteServer, Announce, serverVars
<1>3. Phase(p)' /\ Spared(p)'
  BY <1>1 DEF Kept, Phase, Spared
<1>4. Ranked(p)'
  <2>1. target[p] \in Account /\ top[p] \in Nat /\ rank[target[p]] \in Nat
    BY MembershipAssumption DEF TypeOK
  <2>2. QED
    BY <1>1, <1>2, <2>1 DEF Kept, Ranked, Outranks
<1>5. Noted(p)'
  <2>1. CASE InsertBan(q)
    BY <1>1, <2>1 DEF InsertBan, Kept, Noted
  <2>2. CASE ~InsertBan(q)
    <3>1. banned' \subseteq banned /\ overtaken'[p] = overtaken[p]
      BY <2>2 DEF TypeOK, Call, Step, Stop, AskJoin, AskLeave, AskDeleteServer, AskModerate,
         Begin, Advance, CheckMember, CheckBan, InsertMembership, CheckTimeout,
         CheckNotBanned, FindTarget, CheckRank, DeleteBan, SetTimeout, ResolveRecipients,
         DeleteMembership, DeleteServer, Announce, serverVars, historyVars
    <3>2. QED
      BY <1>1, <3>1 DEF Kept, Noted
  <2>3. QED
    BY <2>1, <2>2
<1>6. Heard(p)'
  <2>1. CASE InsertMembership(q)
    BY <1>1, <2>1 DEF InsertMembership, Kept, Heard
  <2>2. CASE ~InsertMembership(q)
    <3>1. members' \subseteq members /\ newcomers'[p] = newcomers[p]
      BY <2>2 DEF TypeOK, Call, Step, Stop, AskJoin, AskLeave, AskDeleteServer, AskModerate,
         Begin, Advance, Forget, CheckMember, CheckBan, CheckTimeout, CheckNotBanned,
         FindTarget, CheckRank, InsertBan, DeleteBan, SetTimeout, ResolveRecipients,
         DeleteMembership, DeleteServer, Announce, serverVars, historyVars
    <3>2. QED
      BY <1>1, <3>1 DEF Kept, Heard
  <2>3. QED
    BY <2>1, <2>2
<1>7. QED
  BY <1>3, <1>4, <1>5, <1>6 DEF Kept

\* A request that is over, or is at its beginning, has nothing to keep.
LEMMA IdleKept ==
  ASSUME NEW q \in Request,
         stage'[q] \in {"idle", "invited", "stranger", "permitted", "banning", "awake"}
  PROVE  Kept(q)'
BY DEF Kept, Phase, Spared, Ranked, Noted, Heard

LEMMA OwnKept ==
  ASSUME TypeOK, NEW q \in Request, Kept(q), Call(q) \/ Step(q) \/ Stop(q)
  PROVE  Kept(q)'
<1>1. CASE Stop(q) \/ InsertMembership(q) \/ DeleteBan(q) \/ SetTimeout(q) \/ Announce(q)
  BY <1>1, IdleKept DEF Stop, InsertMembership, DeleteBan, SetTimeout, Announce, End, TypeOK
<1>2. CASE CheckMember(q) \/ CheckTimeout(q) \/ CheckNotBanned(q)
  BY <1>2, IdleKept DEF CheckMember, CheckTimeout, CheckNotBanned, Advance, TypeOK
<1>3. CASE CheckBan(q)
  BY <1>3 DEF CheckBan, Advance, TypeOK, Kept, Phase, Spared, Ranked, Noted, Heard, serverVars
<1>4. CASE FindTarget(q)
  BY <1>4 DEF FindTarget, Advance, TypeOK, Kept, Phase, Spared, Ranked, Noted, Heard
<1>5. CASE CheckRank(q)
  BY <1>5 DEF CheckRank, Advance, TypeOK, Kept, Phase, Spared, Ranked, Noted, Heard, Outranks,
     serverVars
<1>6. CASE InsertBan(q)
  BY <1>6 DEF InsertBan, TypeOK, Kept, Phase, Spared, Ranked, Noted, Heard, Outranks
<1>7. CASE ResolveRecipients(q)
  <2>1. stage'[q] = "resolved" /\ members' = members /\ members \subseteq recipients'[q]
    BY <1>7 DEF ResolveRecipients, Hearers, TypeOK, serverVars
  <2>2. /\ \/ stage[q] \in {"banned", "leaving"}
           \/ stage[q] = "outranked" /\ op[q] = "kick"
        /\ UNCHANGED <<op, actor, target, top, rank, risen>>
    BY <1>7 DEF ResolveRecipients, serverVars, historyVars
  <2>3. Outranks(q, target[q])' = Outranks(q, target[q]) /\ risen'[q] = risen[q]
    BY <2>2 DEF Outranks
  <2>4. Ranked(q)'
    <3>1. CASE stage[q] = "leaving"
      BY <2>1, <2>2, <3>1 DEF Kept, Phase, Ranked
    <3>2. CASE stage[q] # "leaving"
      <4>1. Outranks(q, target[q]) \/ risen[q]
        BY <2>2, <3>2 DEF Kept, Ranked
      <4>2. QED
        BY <4>1, <2>3, <2>2, Zenon DEF Ranked
    <3>3. QED
      BY <3>1, <3>2
  <2>5. Phase(q)' /\ Spared(q)' /\ Noted(q)' /\ Heard(q)'
    BY <1>7, <2>1, <2>2 DEF Kept, Phase, Spared, Noted, Heard
  <2>6. QED
    BY <2>4, <2>5 DEF Kept
<1>8. CASE DeleteMembership(q) \/ DeleteServer(q)
  <2>1. stage'[q] = "announcing" /\ audience'[q] = members /\ stage[q] = "resolved"
        /\ recipients' = recipients /\ newcomers' = newcomers
    BY <1>8 DEF DeleteMembership, DeleteServer, TypeOK
  <2>2. QED
    BY <2>1 DEF Kept, Phase, Spared, Ranked, Noted, Heard
<1>9. ASSUME NEW a \in Account, AskJoin(q, a) PROVE Kept(q)'
  BY <1>9, IdleKept DEF AskJoin, Begin, TypeOK
<1>10. ASSUME NEW a \in Account, AskLeave(q, a) PROVE Kept(q)'
  BY <1>10 DEF AskLeave, Begin, TypeOK, Kept, Phase, Spared, Ranked, Noted, Heard
<1>11. ASSUME NEW a \in Account, AskDeleteServer(q, a) PROVE Kept(q)'
  BY <1>11 DEF AskDeleteServer, Begin, TypeOK, Kept, Phase, Spared, Ranked, Noted, Heard,
     serverVars
<1>12. ASSUME NEW a \in Account, NEW t \in Account, NEW o \in Targeted \cup {"unban"},
              AskModerate(q, o, a, t)
       PROVE  Kept(q)'
  BY <1>12, IdleKept DEF AskModerate, Begin, TypeOK
<1>13. QED
  BY <1>1, <1>2, <1>3, <1>4, <1>5, <1>6, <1>7, <1>8, <1>9, <1>10, <1>11, <1>12 DEF Call, Step

\* Time takes timeouts away, and nothing else.
LEMMA OtherStepsKeep ==
  ASSUME NEW a \in Account, Expire(a), NEW q \in Request, Kept(q)
  PROVE  Kept(q)'
BY DEF Expire, requestVars, historyVars, Kept, Phase, Spared, Ranked, Noted, Heard, Outranks

\* Whoever gains the rank that a request has compared is noted as risen.
LEMMA RisenKeep ==
  ASSUME TypeOK, NEW a \in Account, NEW n \in 0..MaxRank, ChangeRank(a, n),
         NEW q \in Request, Kept(q)
  PROVE  Kept(q)'
<1>1. /\ UNCHANGED <<members, banned, requestVars, newcomers, audience, overtaken>>
      /\ rank' = [rank EXCEPT ![a] = n]
      /\ risen'[q] = (risen[q] \/ (Compared(q) /\ target[q] = a /\ n > rank[a]))
  BY DEF ChangeRank
<1>2. Phase(q)' /\ Spared(q)' /\ Noted(q)' /\ Heard(q)'
  BY <1>1 DEF requestVars, Kept, Phase, Spared, Noted, Heard
<1>3. Ranked(q)'
  <2>1. /\ rank[a] \in Nat /\ top[q] \in Nat /\ n \in Nat
        /\ rank[target[q]] \in Nat /\ rank \in [Account -> 0..MaxRank] /\ target[q] \in Account
    BY MembershipAssumption DEF TypeOK
  <2>2. CASE target[q] = a /\ n > rank[a]
    BY <1>1, <2>2 DEF requestVars, Kept, Ranked, Compared
  <2>3. CASE ~(target[q] = a /\ n > rank[a])
    <3>1. rank'[target[q]] <= rank[target[q]] /\ rank'[target[q]] \in Nat
      BY <1>1, <2>1, <2>3
    <3>2. Outranks(q, target[q]) => Outranks(q, target[q])'
      BY <1>1, <2>1, <3>1 DEF requestVars, Outranks
    <3>3. (risen[q] => risen'[q]) /\ stage' = stage /\ op' = op /\ target' = target
      BY <1>1, Zenon DEF requestVars
    <3>4. QED
      BY <3>2, <3>3, Zenon DEF Kept, Ranked
  <2>4. QED
    BY <2>2, <2>3
<1>4. QED
  BY <1>2, <1>3 DEF Kept

\* A banned account comes to be a member by its own overtaken join only, and a
\* member banned by its removal-to-be.
LEMMA RacedNext ==
  ASSUME Inv, [Next]_vars, TypeOK'
  PROVE  OnlyRacedBans'
<1> SUFFICES ASSUME NEW a \in Account, a \in members', a \in banned'
             PROVE  \/ a \in excused'
                    \/ \E q \in Request : Banning(q)' /\ target'[q] = a
  BY DEF OnlyRacedBans, TypeOK
<1> DEFINE Raced == a \in excused' \/ \E q \in Request : Banning(q)' /\ target'[q] = a
<1>0. CASE UNCHANGED <<members, banned, excused, stage, op, target>>
  BY <1>0 DEF Inv, OnlyRacedBans, Banning
<1>1. ASSUME NEW q \in Request, InsertMembership(q) PROVE Raced
  <2>1. banned' = banned /\ members' = members \cup {actor[q]} /\ excused \subseteq excused'
    BY <1>1 DEF InsertMembership
  <2>2. CASE a = actor[q]
    BY <1>1, <2>1, <2>2 DEF InsertMembership, Inv, Kept, Noted
  <2>3. CASE a # actor[q]
    <3>1. a \in members /\ a \in banned
      BY <2>1, <2>3
    <3>2. ASSUME NEW p \in Request, Banning(p), target[p] = a
          PROVE  Banning(p)' /\ target'[p] = a
      BY <1>1, <3>2 DEF InsertMembership, Banning, End, Inv, TypeOK
    <3>3. QED
      BY <2>1, <3>1, <3>2 DEF Inv, OnlyRacedBans
  <2>4. QED
    BY <2>2, <2>3
<1>2. ASSUME NEW q \in Request, InsertBan(q) PROVE Raced
  <2>1. CASE a = target[q]
    BY <1>2, <2>1 DEF InsertBan, Banning, Inv, TypeOK
  <2>2. CASE a # target[q]
    <3>1. a \in members /\ a \in banned
      BY <1>2, <2>2 DEF InsertBan
    <3>2. ASSUME NEW p \in Request, Banning(p), target[p] = a
          PROVE  Banning(p)' /\ target'[p] = a
      BY <1>2, <3>2 DEF InsertBan, Banning, Inv, TypeOK
    <3>3. QED
      BY <1>2, <3>1, <3>2 DEF InsertBan, Inv, OnlyRacedBans
  <2>3. QED
    BY <2>1, <2>2
<1>3. ASSUME NEW q \in Request, Stop(q) PROVE Raced
  <2>1. a \in members /\ a \in banned /\ excused \subseteq excused'
    BY <1>3 DEF Stop, serverVars
  <2>2. ASSUME NEW p \in Request, Banning(p), target[p] = a
        PROVE  a \in excused' \/ (Banning(p)' /\ target'[p] = a)
    <3>1. CASE p = q
      BY <1>3, <2>2, <3>1 DEF Stop
    <3>2. CASE p # q
      BY <1>3, <2>2, <3>2 DEF Stop, Banning, End, Inv, TypeOK
    <3>3. QED
      BY <3>1, <3>2
  <2>3. QED
    BY <2>1, <2>2 DEF Inv, OnlyRacedBans
<1>4. ASSUME NEW q \in Request, DeleteMembership(q) PROVE Raced
  <2>1. a # target[q] /\ a \in members /\ a \in banned
    BY <1>4 DEF DeleteMembership
  <2>2. ASSUME NEW p \in Request, Banning(p), target[p] = a
        PROVE  Banning(p)' /\ target'[p] = a
    BY <1>4, <2>1, <2>2 DEF DeleteMembership, Banning, Inv, TypeOK
  <2>3. QED
    BY <1>4, <2>1, <2>2 DEF DeleteMembership, Inv, OnlyRacedBans
<1>5. ASSUME NEW q \in Request, DeleteServer(q) PROVE FALSE
  BY <1>5 DEF DeleteServer
<1>6. ASSUME NEW q \in Request,
             \/ DeleteBan(q) \/ SetTimeout(q) \/ Announce(q) \/ ResolveRecipients(q)
             \/ CheckMember(q) \/ CheckBan(q) \/ CheckTimeout(q) \/ CheckNotBanned(q)
             \/ FindTarget(q) \/ CheckRank(q) \/ Call(q)
      PROVE  Raced
  <2>1. members' = members /\ banned' \subseteq banned /\ excused' = excused
    BY <1>6 DEF DeleteBan, SetTimeout, Announce, ResolveRecipients, CheckMember, CheckBan,
       CheckTimeout, CheckNotBanned, FindTarget, CheckRank, Call, AskJoin, AskLeave,
       AskDeleteServer, AskModerate, Begin, Advance, serverVars, historyVars
  <2>2. ASSUME NEW p \in Request, Banning(p) PROVE Banning(p)' /\ target'[p] = target[p]
    BY <1>6, <2>2 DEF DeleteBan, SetTimeout, Announce, ResolveRecipients, CheckMember, CheckBan,
       CheckTimeout, CheckNotBanned, FindTarget, CheckRank, Call, AskJoin, AskLeave,
       AskDeleteServer, AskModerate, Begin, Advance, End, Banning, Inv, TypeOK
  <2>3. QED
    BY <2>1, <2>2 DEF Inv, OnlyRacedBans
<1>7. CASE UNCHANGED vars
  BY <1>0, <1>7 DEF vars, serverVars, requestVars, historyVars
<1>8. ASSUME NEW b \in Account, Expire(b)
      PROVE  UNCHANGED <<members, banned, excused, stage, op, target>>
  BY <1>8 DEF Expire, requestVars, historyVars
<1>8a. ASSUME NEW b \in Account, NEW n \in 0..MaxRank, ChangeRank(b, n)
       PROVE  UNCHANGED <<members, banned, excused, stage, op, target>>
  BY <1>8a DEF ChangeRank, requestVars
<1>9. QED
  BY <1>0, <1>1, <1>2, <1>3, <1>4, <1>5, <1>6, <1>7, <1>8, <1>8a DEF Next, Step

LEMMA InvInit == Init => Inv
BY TypedInit DEF Init, Inv, Kept, Phase, Spared, Ranked, Noted, Heard, OnlyRacedBans

LEMMA InvNext == Inv /\ [Next]_vars => Inv'
<1> SUFFICES ASSUME Inv, [Next]_vars PROVE Inv'
  OBVIOUS
<1>1. TypeOK'
  BY TypedNext DEF Inv
<1>2. ASSUME NEW p \in Request PROVE Kept(p)'
  <2>1. CASE UNCHANGED vars
    BY <2>1 DEF vars, serverVars, requestVars, historyVars, Inv, Kept, Phase, Spared, Ranked,
       Noted, Heard, Outranks
  <2>2. ASSUME NEW q \in Request, Call(q) \/ Step(q) \/ Stop(q) PROVE Kept(p)'
    BY <2>2, OthersKept, OwnKept DEF Inv
  <2>3. QED
    BY <2>1, <2>2, OtherStepsKeep, RisenKeep DEF Inv, Next
<1>3. OnlyRacedBans'
  BY <1>1, RacedNext
<1>4. QED
  BY <1>1, <1>2, <1>3 DEF Inv

-----------------------------------------------------------------------------

\* The inductive invariant: what every request has established holds.
THEOREM InvCorrect == Spec => []Inv
<1>1. QED
  BY InvInit, InvNext, PTL DEF Spec

\* A banned account is a member only while its ban is carried out, or after it
\* was broken off or raced by a join, for any number of requests.
THEOREM OnlyRacedBansCorrect == Spec => []OnlyRacedBans
<1>1. Inv => OnlyRacedBans
  BY DEF Inv
<1>2. QED
  BY <1>1, InvCorrect, PTL

\* Whoever is a member at a removal and does not hear of it has joined since
\* the recipients were resolved.
THEOREM RemovalsHeardCorrect == Spec => []RemovalsAreHeard
<1>1. Inv => RemovalsAreHeard
  BY DEF Inv, Kept, Heard, RemovalsAreHeard
<1>2. QED
  BY <1>1, InvCorrect, PTL

\* Nobody is removed but by itself, the owner, or whoever ranked above it at the
\* check and would still if its roles had not been raised since; the owner not
\* at all.  So it is whatever the moderators do beside each other.
THEOREM RankRespectedCorrect == Spec => RankRespected
<1> DEFINE Ranks ==
      \A m \in members \ members' :
        alive' => \E q \in Request :
                    /\ stage[q] = "resolved" /\ target[q] = m /\ m # Owner
                    /\ \/ op[q] = "leave" \/ actor[q] = Owner
                       \/ rank[m] < top[q] \/ risen[q]
<1>1. Inv /\ [Next]_vars => Ranks
  <2> SUFFICES ASSUME Inv, [Next]_vars, NEW m \in members, m \notin members', alive'
               PROVE  \E q \in Request :
                        /\ stage[q] = "resolved" /\ target[q] = m /\ m # Owner
                        /\ \/ op[q] = "leave" \/ actor[q] = Owner
                           \/ rank[m] < top[q] \/ risen[q]
    OBVIOUS
  <2>1. PICK q \in Request : DeleteMembership(q)
    <3>1. ASSUME NEW q \in Request, Call(q) \/ Stop(q) PROVE members' = members
      BY <3>1 DEF Call, Stop, AskJoin, AskLeave, AskDeleteServer, AskModerate, Begin, serverVars
    <3>2. ASSUME NEW q \in Request, Step(q), ~DeleteMembership(q)
          PROVE  members \subseteq members'
      BY <3>2 DEF Step, Advance, CheckMember, CheckBan, InsertMembership, CheckTimeout,
         CheckNotBanned, FindTarget, CheckRank, InsertBan, DeleteBan, SetTimeout,
         ResolveRecipients, DeleteServer, Announce, serverVars
    <3>3. ASSUME NEW a \in Account, Expire(a) \/ \E n \in 0..MaxRank : ChangeRank(a, n)
          PROVE  members' = members
      BY <3>3 DEF Expire, ChangeRank
    <3>4. CASE UNCHANGED vars
      BY <3>4 DEF vars, serverVars
    <3>5. QED
      BY <3>1, <3>2, <3>3, <3>4 DEF Next
  <2>2. stage[q] = "resolved" /\ op[q] # "delete" /\ target[q] = m
    BY <2>1 DEF DeleteMembership
  <2>3. QED
    BY <2>2 DEF Inv, Kept, Phase, Spared, Ranked, Outranks
<1>2. QED
  BY <1>1, InvCorrect, PTL DEF Spec, RankRespected
=============================================================================
