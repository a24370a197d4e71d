-------------------------- MODULE VoiceHub_proofs --------------------------
(***************************************************************************)
(* Theorems about VoiceHub, for every set of accounts, sockets, channels,  *)
(* servers and requests.  Each action of Next is taken in a step of its    *)
(* own; the temporal theorems follow from the steps by PTL.                *)
(***************************************************************************)
EXTENDS VoiceHub, FiniteSetTheorems, TLAPS

\* Next, one action at a time, for the case splits below.
LEMMA NextCases ==
  ASSUME Next
  PROVE  \/ \E h \in Conn :
              \/ Register(h) \/ PublishOnline(h)
              \/ \E c \in Channel : AuthorizeJoin(h, c)
              \/ LeaveFirst(h) \/ Enter(h) \/ AnnounceJoin(h) \/ HangUp(h)
              \/ AnnounceLeave(h) \/ Close(h) \/ Deregister(h)
              \/ PublishOffline(h)
         \/ \E r \in Request :
              \/ RemoveMember(r) \/ TimeoutMember(r) \/ CheckUntil(r) \/ FindCall(r)
              \/ ConfirmServer(r) \/ ConfirmFails(r) \/ LeaveFromChannel(r)
              \/ AnnounceEviction(r) \/ BreakOff(r)
         \/ \E a \in Account, s \in Server : Rejoin(a, s) \/ EndTimeout(a, s)
         \/ \E c \in Channel : DeleteChannel(c)
         \/ \E a \in Account, c \in Restrictable : ChangeView(a, c)
BY DEF Next, GatewayStep, ClientStep, EvictionStep, ModerationStep, DatabaseStep

\* voice_leave's lock section takes the account out of one call at most, the
\* one it goes on to announce, and touches nobody else.
LEMMA VoiceLeaveEffect ==
  ASSUME TypeOK, NEW h \in Conn, NEW hs \in SUBSET Conn, NEW next \in TaskState,
         VoiceLeave(h, hs, next)
  PROVE  /\ at' = [at EXCEPT ![h] = next]
         /\ voice' \in [Channel -> [Account -> Conn \cup {NoConn}]]
         /\ left' \in [Conn -> Channel \cup {NoChannel}]
         /\ \A c \in Channel, a \in Account :
              \/ voice'[c][a] = voice[c][a]
              \/ a = Owner[h] /\ voice[c][a] \in hs /\ voice'[c][a] = NoConn
<1> USE ConstantsAssumption DEF TypeOK
<1>1. CASE Held(Owner[h], hs) = {} /\ at' = [at EXCEPT ![h] = next]
             /\ UNCHANGED <<voice, left>>
  BY <1>1
<1>2. ASSUME NEW c \in Held(Owner[h], hs),
             voice' = [voice EXCEPT ![c][Owner[h]] = NoConn],
             at' = [at EXCEPT ![h] = next],
             left' = [left EXCEPT ![h] = c]
      PROVE  /\ voice' \in [Channel -> [Account -> Conn \cup {NoConn}]]
             /\ left' \in [Conn -> Channel \cup {NoChannel}]
             /\ \A d \in Channel, a \in Account :
                  \/ voice'[d][a] = voice[d][a]
                  \/ a = Owner[h] /\ voice[d][a] \in hs /\ voice'[d][a] = NoConn
  <2>1. c \in Channel /\ voice[c][Owner[h]] \in hs
    BY DEF Held
  <2>2. QED
    BY <1>2, <2>1
<1>3. QED
  BY <1>1, <1>2 DEF VoiceLeave

\* The three steps that run it, and where each goes.
LEMMA LeaveSteps ==
  ASSUME TypeOK, NEW h \in Conn
  PROVE  /\ LeaveFirst(h) => at' = [at EXCEPT ![h] = "moving"]
         /\ HangUp(h) => at' = [at EXCEPT ![h] = "hung_up"]
         /\ Close(h) => at' = [at EXCEPT ![h] = "closing"]
<1>1. LeaveFirst(h) => VoiceLeave(h, Conn, "moving")
  BY DEF LeaveFirst
<1>2. HangUp(h) => VoiceLeave(h, Conn, "hung_up")
  BY DEF HangUp
<1>3. Close(h) => VoiceLeave(h, {h}, "closing")
  BY DEF Close
<1>4. QED
  BY <1>1, <1>2, <1>3, VoiceLeaveEffect DEF TaskState

\* A closing socket takes out of calls nobody but itself.
LEMMA CloseEffect ==
  ASSUME TypeOK, NEW h \in Conn, Close(h)
  PROVE  \A d \in Channel, b \in Account :
           voice'[d][b] = voice[d][b] \/ voice[d][b] = h
<1>1. VoiceLeave(h, {h}, "closing") /\ {h} \in SUBSET Conn /\ "closing" \in TaskState
  BY DEF Close, TaskState
<1>2. \A d \in Channel, b \in Account :
        \/ voice'[d][b] = voice[d][b]
        \/ b = Owner[h] /\ voice[d][b] \in {h} /\ voice'[d][b] = NoConn
  BY <1>1, VoiceLeaveEffect
<1>3. QED
  BY <1>2

\* The variables keep their types, whoever interleaves with whom: no gateway
\* task enters a call without having named one, and no eviction acts without
\* having found one.
THEOREM TypeCorrect == Spec => []TypeOK
<1> USE ConstantsAssumption DEF TypeOK, TaskState, RequestState
<1>1. Init => TypeOK
  BY DEF Init
<1>2. TypeOK /\ [Next]_vars => TypeOK'
  <2> SUFFICES ASSUME TypeOK, [Next]_vars PROVE TypeOK'
    OBVIOUS
  <2>1. CASE UNCHANGED vars
    BY <2>1 DEF vars, hubVars, taskVars, requestVars, dbVars, observerVars
  <2>2. ASSUME NEW h \in Conn, Register(h) PROVE TypeOK'
    BY <2>2 DEF Register, requestVars, dbVars, observerVars
  <2>3. ASSUME NEW h \in Conn, PublishOnline(h) PROVE TypeOK'
    BY <2>3 DEF PublishOnline, hubVars, requestVars, dbVars
  <2>4. ASSUME NEW h \in Conn, NEW c \in Channel, AuthorizeJoin(h, c) PROVE TypeOK'
    BY <2>4 DEF AuthorizeJoin, hubVars, requestVars, dbVars, observerVars
  <2>5. ASSUME NEW h \in Conn, LeaveFirst(h) PROVE TypeOK'
    <3>1. VoiceLeave(h, Conn, "moving")
      BY <2>5 DEF LeaveFirst
    <3>2. /\ at' = [at EXCEPT ![h] = "moving"]
          /\ voice' \in [Channel -> [Account -> Conn \cup {NoConn}]]
          /\ left' \in [Conn -> Channel \cup {NoChannel}]
      BY <3>1, VoiceLeaveEffect
    <3>3. QED
      BY <2>5, <3>2 DEF LeaveFirst, requestVars, dbVars, observerVars
  <2>6. ASSUME NEW h \in Conn, Enter(h) PROVE TypeOK'
    BY <2>6 DEF Enter, requestVars, dbVars, observerVars
  <2>7. ASSUME NEW h \in Conn, AnnounceJoin(h) PROVE TypeOK'
    BY <2>7 DEF AnnounceJoin, Announce, hubVars, requestVars, dbVars
  <2>8. ASSUME NEW h \in Conn, HangUp(h) PROVE TypeOK'
    <3>1. VoiceLeave(h, Conn, "hung_up")
      BY <2>8 DEF HangUp
    <3>2. /\ at' = [at EXCEPT ![h] = "hung_up"]
          /\ voice' \in [Channel -> [Account -> Conn \cup {NoConn}]]
          /\ left' \in [Conn -> Channel \cup {NoChannel}]
      BY <3>1, VoiceLeaveEffect
    <3>3. QED
      BY <2>8, <3>2 DEF HangUp, requestVars, dbVars, observerVars
  <2>9. ASSUME NEW h \in Conn, AnnounceLeave(h) PROVE TypeOK'
    BY <2>9 DEF AnnounceLeave, Announce, hubVars, requestVars, dbVars
  <2>10. ASSUME NEW h \in Conn, Close(h) PROVE TypeOK'
    <3>1. VoiceLeave(h, {h}, "closing")
      BY <2>10 DEF Close
    <3>2. /\ at' = [at EXCEPT ![h] = "closing"]
          /\ voice' \in [Channel -> [Account -> Conn \cup {NoConn}]]
          /\ left' \in [Conn -> Channel \cup {NoChannel}]
      BY <3>1, VoiceLeaveEffect
    <3>3. QED
      BY <2>10, <3>2 DEF Close, requestVars, dbVars, observerVars
  <2>11. ASSUME NEW h \in Conn, Deregister(h) PROVE TypeOK'
    BY <2>11 DEF Deregister, requestVars, dbVars, observerVars
  <2>12. ASSUME NEW h \in Conn, PublishOffline(h) PROVE TypeOK'
    BY <2>12 DEF PublishOffline, hubVars, requestVars, dbVars
  <2>13. ASSUME NEW r \in Request, RemoveMember(r) PROVE TypeOK'
    BY <2>13 DEF RemoveMember, hubVars, taskVars, observerVars
  <2>14. ASSUME NEW r \in Request, TimeoutMember(r) PROVE TypeOK'
    BY <2>14 DEF TimeoutMember, hubVars, taskVars, observerVars
  <2>14a. ASSUME NEW r \in Request, CheckUntil(r) PROVE TypeOK'
    BY <2>14a DEF CheckUntil, hubVars, taskVars, dbVars, observerVars
  <2>15. ASSUME NEW r \in Request, FindCall(r) PROVE TypeOK'
    <3>1. CASE stage' = [stage EXCEPT ![r] = "done"] /\ UNCHANGED found
      BY <2>15, <3>1 DEF FindCall, hubVars, taskVars, dbVars, observerVars
    <3>2. ASSUME NEW c \in Held(Target[r], Conn),
                 stage' = [stage EXCEPT ![r] = "found"],
                 found' = [found EXCEPT ![r] = c]
          PROVE  TypeOK'
      <4>1. c \in Channel
        BY DEF Held
      <4>2. QED
        BY <2>15, <3>2, <4>1 DEF FindCall, hubVars, taskVars, dbVars, observerVars
    <3>3. QED
      BY <2>15, <3>1, <3>2 DEF FindCall
  <2>16. ASSUME NEW r \in Request, ConfirmServer(r) PROVE TypeOK'
    BY <2>16 DEF ConfirmServer, hubVars, taskVars, dbVars, observerVars
  <2>17. ASSUME NEW r \in Request, ConfirmFails(r) PROVE TypeOK'
    BY <2>17 DEF ConfirmFails, hubVars, taskVars, dbVars, observerVars
  <2>18. ASSUME NEW r \in Request, LeaveFromChannel(r) PROVE TypeOK'
    BY <2>18 DEF LeaveFromChannel, InCall, taskVars, dbVars, observerVars
  <2>19. ASSUME NEW r \in Request, AnnounceEviction(r) PROVE TypeOK'
    BY <2>19 DEF AnnounceEviction, Announce, hubVars, taskVars, dbVars
  <2>19a. ASSUME NEW r \in Request, BreakOff(r) PROVE TypeOK'
    BY <2>19a DEF BreakOff, hubVars, taskVars, dbVars, observerVars
  <2>20. ASSUME NEW a \in Account, NEW s \in Server, Rejoin(a, s) PROVE TypeOK'
    BY <2>20 DEF Rejoin, hubVars, taskVars, requestVars, observerVars
  <2>21. ASSUME NEW a \in Account, NEW s \in Server, EndTimeout(a, s) PROVE TypeOK'
    BY <2>21 DEF EndTimeout, hubVars, taskVars, requestVars, observerVars
  <2>22. ASSUME NEW c \in Channel, DeleteChannel(c) PROVE TypeOK'
    BY <2>22 DEF DeleteChannel, hubVars, taskVars, requestVars, observerVars
  <2>22a. ASSUME NEW a \in Account, NEW c \in Restrictable, ChangeView(a, c) PROVE TypeOK'
    BY <2>22a DEF ChangeView, hubVars, taskVars, requestVars, observerVars
  <2>23. QED
    BY <2>1, <2>2, <2>3, <2>4, <2>5, <2>6, <2>7, <2>8, <2>9, <2>10, <2>11,
       <2>12, <2>13, <2>14, <2>15, <2>16, <2>17, <2>18, <2>19, <2>20, <2>21,
       <2>22, <2>14a, <2>19a, <2>22a, NextCases
<1>3. QED
  BY <1>1, <1>2, PTL DEF Spec

\* Requests and the database touch neither the registry nor the tasks.
LEMMA OtherStepsKeepSockets ==
  ASSUME \/ \E r \in Request :
              \/ RemoveMember(r) \/ TimeoutMember(r) \/ CheckUntil(r) \/ FindCall(r)
              \/ ConfirmServer(r) \/ ConfirmFails(r) \/ LeaveFromChannel(r)
              \/ AnnounceEviction(r) \/ BreakOff(r)
         \/ \E a \in Account, s \in Server : Rejoin(a, s) \/ EndTimeout(a, s)
         \/ \E c \in Channel : DeleteChannel(c)
         \/ \E a \in Account, c \in Restrictable : ChangeView(a, c)
  PROVE  UNCHANGED <<connections, at>>
BY DEF RemoveMember, TimeoutMember, CheckUntil, FindCall, ConfirmServer, ConfirmFails,
       LeaveFromChannel, AnnounceEviction, BreakOff, Rejoin, EndTimeout, DeleteChannel, ChangeView,
       hubVars, taskVars

-----------------------------------------------------------------------------
(* The registry: a socket is in it from its Register to its Deregister. *)

Registered ==
  \A h \in Conn, a \in Account :
    h \in connections[a] <=>
      a = Owner[h] /\ at[h] \notin {"unopened", "going_offline", "closed"}

\* Nobody but its own task takes a socket out of the registry.
THEOREM RegisteredCorrect == Spec => []Registered
<1> USE ConstantsAssumption DEF TaskState, Registered
<1>1. Init => Registered
  BY DEF Init
<1>2. TypeOK /\ Registered /\ [Next]_vars => Registered'
  <2> SUFFICES ASSUME TypeOK, Registered, [Next]_vars PROVE Registered'
    OBVIOUS
  <2> DEFINE Types == at \in [Conn -> TaskState] /\ connections \in [Account -> SUBSET Conn]
  <2>0. Types
    BY DEF TypeOK
  <2>1. CASE UNCHANGED vars
    BY <2>1 DEF vars, hubVars, taskVars
  <2>2. ASSUME NEW h \in Conn, Register(h) PROVE Registered'
    BY <2>0, <2>2 DEF Register
  <2>3. ASSUME NEW h \in Conn, PublishOnline(h) PROVE Registered'
    BY <2>0, <2>3 DEF PublishOnline, hubVars
  <2>4. ASSUME NEW h \in Conn, NEW c \in Channel, AuthorizeJoin(h, c) PROVE Registered'
    BY <2>0, <2>4 DEF AuthorizeJoin, hubVars
  <2>5. ASSUME NEW h \in Conn, LeaveFirst(h) PROVE Registered'
    BY <2>0, <2>5, LeaveSteps DEF LeaveFirst
  <2>6. ASSUME NEW h \in Conn, Enter(h) PROVE Registered'
    BY <2>0, <2>6 DEF Enter
  <2>7. ASSUME NEW h \in Conn, AnnounceJoin(h) PROVE Registered'
    BY <2>0, <2>7 DEF AnnounceJoin, hubVars
  <2>8. ASSUME NEW h \in Conn, HangUp(h) PROVE Registered'
    BY <2>0, <2>8, LeaveSteps DEF HangUp
  <2>9. ASSUME NEW h \in Conn, AnnounceLeave(h) PROVE Registered'
    BY <2>0, <2>9 DEF AnnounceLeave, hubVars
  <2>10. ASSUME NEW h \in Conn, Close(h) PROVE Registered'
    BY <2>0, <2>10, LeaveSteps DEF Close
  <2>11. ASSUME NEW h \in Conn, Deregister(h) PROVE Registered'
    BY <2>0, <2>11 DEF Deregister
  <2>12. ASSUME NEW h \in Conn, PublishOffline(h) PROVE Registered'
    BY <2>0, <2>12 DEF PublishOffline, hubVars
  <2>13. CASE UNCHANGED <<connections, at>>
    BY <2>13
  <2>14. QED
    BY <2>1, <2>2, <2>3, <2>4, <2>5, <2>6, <2>7, <2>8, <2>9, <2>10, <2>11,
       <2>12, <2>13, NextCases, OtherStepsKeepSockets
<1>3. QED
  BY <1>1, <1>2, TypeCorrect, PTL DEF Spec

-----------------------------------------------------------------------------
(* One socket per account at a time. *)

OneOpen ==
  \A h, k \in Conn : Open(h) /\ Open(k) /\ Owner[h] = Owner[k] => h = k

\* Whoever is in a call is there through a socket of its own, whose task has
\* entered the call and has not begun to leave it.
HeldByIdle ==
  \A c \in Channel, a \in Account :
    InCall(a, c) =>
      /\ Owner[voice[c][a]] = a
      /\ at[voice[c][a]] \in {"ready", "authorized", "entered"}

\* An account is in one call at most (hub.rs, voice_join).
OneCall ==
  \A a \in Account, c, d \in Channel : InCall(a, c) /\ InCall(a, d) => c = d

OneTabInv == OneOpen /\ HeldByIdle /\ OneCall

\* With one socket open, the call a leave ends is the account's only one.
LEMMA LeaveEndsAll ==
  ASSUME TypeOK, OneTabInv, NEW h \in Conn, NEW hs \in SUBSET Conn, h \in hs,
         Open(h), NEW next \in TaskState, VoiceLeave(h, hs, next)
  PROVE  \A c \in Channel : ~InCall(Owner[h], c)'
<1> USE ConstantsAssumption
<1>1. \A c \in Channel : InCall(Owner[h], c) => voice[c][Owner[h]] = h
  <2> SUFFICES ASSUME NEW c \in Channel, InCall(Owner[h], c)
               PROVE  voice[c][Owner[h]] = h
    OBVIOUS
  <2>1. Owner[h] \in Account /\ voice[c][Owner[h]] \in Conn
    BY DEF InCall, TypeOK
  <2>2. QED
    BY <2>1 DEF OneTabInv, HeldByIdle, OneOpen, Open
<1>2. CASE Held(Owner[h], hs) = {} /\ UNCHANGED voice
  BY <1>1, <1>2 DEF Held, InCall
<1>3. ASSUME NEW c \in Held(Owner[h], hs),
             voice' = [voice EXCEPT ![c][Owner[h]] = NoConn]
      PROVE  \A d \in Channel : ~InCall(Owner[h], d)'
  <2>1. c \in Channel /\ InCall(Owner[h], c) /\ Owner[h] \in Account
    BY DEF Held, InCall
  <2>2. \A d \in Channel : InCall(Owner[h], d) => d = c
    BY <2>1 DEF OneTabInv, OneCall
  <2>3. QED
    BY <1>3, <2>1, <2>2 DEF InCall, TypeOK
<1>4. QED
  BY <1>2, <1>3 DEF VoiceLeave

\* A leave takes the account out of all its calls, and nobody else in or out.
LEMMA LeaveKeepsOneTab ==
  ASSUME TypeOK, OneTabInv, NEW h \in Conn,
         LeaveFirst(h) \/ HangUp(h) \/ Close(h)
  PROVE  OneTabInv'
<1> USE ConstantsAssumption
<1>1. PICK hs \in SUBSET Conn, next \in {"moving", "hung_up", "closing"} :
        h \in hs /\ VoiceLeave(h, hs, next)
  <2>1. LeaveFirst(h) => VoiceLeave(h, Conn, "moving")
    BY DEF LeaveFirst
  <2>2. HangUp(h) => VoiceLeave(h, Conn, "hung_up")
    BY DEF HangUp
  <2>3. Close(h) => VoiceLeave(h, {h}, "closing")
    BY DEF Close
  <2>4. QED
    BY <2>1, <2>2, <2>3
<1>2. at[h] \in {"ready", "authorized"}
  BY DEF LeaveFirst, HangUp, Close
<1>3. next \in TaskState /\ Open(h)
  BY <1>2 DEF TaskState, Open
<1>4. at' = [at EXCEPT ![h] = next]
  BY <1>1, <1>3, VoiceLeaveEffect
<1>5. \A c \in Channel : ~InCall(Owner[h], c)'
  BY <1>1, <1>3, LeaveEndsAll
<1>6. \A c \in Channel, a \in Account :
        a # Owner[h] => voice'[c][a] = voice[c][a]
  <2>1. \A c \in Channel, a \in Account :
          \/ voice'[c][a] = voice[c][a]
          \/ a = Owner[h] /\ voice[c][a] \in hs /\ voice'[c][a] = NoConn
    BY <1>1, <1>3, VoiceLeaveEffect
  <2>2. QED
    BY <2>1
<1>7. OneOpen'
  BY <1>2, <1>4 DEF OneTabInv, OneOpen, Open, TypeOK
<1>8. HeldByIdle'
  <2> SUFFICES ASSUME NEW c \in Channel, NEW a \in Account, InCall(a, c)'
               PROVE  /\ Owner[voice'[c][a]] = a
                      /\ at'[voice'[c][a]] \in {"ready", "authorized", "entered"}
    BY DEF HeldByIdle
  <2>1. a # Owner[h]
    BY <1>5
  <2>2. InCall(a, c) /\ voice'[c][a] = voice[c][a] /\ voice[c][a] \in Conn
    BY <1>6, <2>1 DEF InCall, TypeOK
  <2>3. Owner[voice[c][a]] = a /\ at[voice[c][a]] \in {"ready", "authorized", "entered"}
    BY <2>2 DEF OneTabInv, HeldByIdle
  <2>4. QED
    BY <1>4, <2>1, <2>2, <2>3 DEF TypeOK
<1>9. OneCall'
  BY <1>5, <1>6 DEF OneTabInv, OneCall, InCall
<1>10. QED
  BY <1>7, <1>8, <1>9 DEF OneTabInv

\* A step that moves one task among the states in which it may hold a call,
\* or out of a state in which it holds none, keeps the invariant.
LEMMA MoveKeepsOneTab ==
  ASSUME TypeOK, OneTabInv, NEW h \in Conn, NEW next \in TaskState,
         at' = [at EXCEPT ![h] = next], UNCHANGED voice,
         Open(h) \/ next = "closed",
         next \notin {"ready", "authorized", "entered"} =>
           at[h] \notin {"ready", "authorized", "entered"}
  PROVE  OneTabInv'
<1> USE ConstantsAssumption DEF TypeOK, TaskState
<1>1. OneOpen'
  BY DEF OneTabInv, OneOpen, Open
<1>2. HeldByIdle'
  BY DEF OneTabInv, HeldByIdle, InCall
<1>3. OneCall'
  BY DEF OneTabInv, OneCall, InCall
<1>4. QED
  BY <1>1, <1>2, <1>3 DEF OneTabInv

\* Entering the call: the account was in none.
LEMMA EnterKeepsOneTab ==
  ASSUME TypeOK, OneTabInv, NEW h \in Conn, Enter(h)
  PROVE  OneTabInv'
<1> USE ConstantsAssumption DEF TypeOK
<1>1. /\ at[h] = "moving" /\ joining[h] \in Channel /\ Owner[h] \in Account
      /\ voice' = [voice EXCEPT ![joining[h]][Owner[h]] = h]
      /\ at' = [at EXCEPT ![h] = "entered"]
  BY DEF Enter
<1>2. \A c \in Channel : ~InCall(Owner[h], c)
  <2> SUFFICES ASSUME NEW c \in Channel, InCall(Owner[h], c) PROVE FALSE
    OBVIOUS
  <2>1. voice[c][Owner[h]] \in Conn
    BY <1>1 DEF InCall
  <2>2. /\ Owner[voice[c][Owner[h]]] = Owner[h]
        /\ at[voice[c][Owner[h]]] \in {"ready", "authorized", "entered"}
    BY <1>1 DEF OneTabInv, HeldByIdle
  <2>3. voice[c][Owner[h]] = h
    BY <1>1, <2>1, <2>2 DEF OneTabInv, OneOpen, Open
  <2>4. QED
    BY <1>1, <2>2, <2>3
<1>3. OneOpen'
  BY <1>1 DEF OneTabInv, OneOpen, Open
<1>4. \A c \in Channel, a \in Account :
        InCall(a, c)' =>
          \/ a = Owner[h] /\ c = joining[h] /\ voice'[c][a] = h
          \/ a # Owner[h] /\ InCall(a, c) /\ voice'[c][a] = voice[c][a]
  BY <1>1, <1>2 DEF InCall
<1>5. HeldByIdle'
  <2> SUFFICES ASSUME NEW c \in Channel, NEW a \in Account, InCall(a, c)'
               PROVE  /\ Owner[voice'[c][a]] = a
                      /\ at'[voice'[c][a]] \in {"ready", "authorized", "entered"}
    BY DEF HeldByIdle
  <2>1. CASE voice'[c][a] = h /\ a = Owner[h]
    BY <1>1, <2>1
  <2>2. CASE a # Owner[h] /\ InCall(a, c) /\ voice'[c][a] = voice[c][a]
    <3>1. voice[c][a] \in Conn
      BY <2>2 DEF InCall
    <3>2. Owner[voice[c][a]] = a /\ at[voice[c][a]] \in {"ready", "authorized", "entered"}
      BY <2>2 DEF OneTabInv, HeldByIdle
    <3>3. QED
      BY <1>1, <2>2, <3>1, <3>2
  <2>3. QED
    BY <1>4, <2>1, <2>2
<1>6. OneCall'
  BY <1>4 DEF OneTabInv, OneCall
<1>7. QED
  BY <1>3, <1>5, <1>6 DEF OneTabInv

\* A new socket is the account's only open one, and holds no call yet.
LEMMA RegisterKeepsOneTab ==
  ASSUME ~ManyTabs, TypeOK, OneTabInv, NEW h \in Conn, Register(h)
  PROVE  OneTabInv'
<1> USE ConstantsAssumption DEF TypeOK
<1>1. /\ at[h] = "unopened" /\ UNCHANGED voice
      /\ \A k \in Conn : Owner[k] = Owner[h] => ~Open(k)
  BY DEF Register
<1>2. PICK next \in {"going_online", "ready"} : at' = [at EXCEPT ![h] = next]
  BY DEF Register
<1>3. OneOpen'
  BY <1>1, <1>2 DEF OneTabInv, OneOpen, Open
<1>4. HeldByIdle'
  BY <1>1, <1>2 DEF OneTabInv, HeldByIdle, InCall
<1>5. OneCall'
  BY <1>1 DEF OneTabInv, OneCall, InCall
<1>6. QED
  BY <1>3, <1>4, <1>5 DEF OneTabInv

\* An eviction only takes accounts out of calls.
LEMMA EvictionKeepsOneTab ==
  ASSUME TypeOK, OneTabInv, NEW r \in Request, LeaveFromChannel(r)
  PROVE  OneTabInv'
<1> USE ConstantsAssumption
<1>1. UNCHANGED at /\ voice' = [voice EXCEPT ![found[r]][Target[r]] = NoConn]
  BY DEF LeaveFromChannel, taskVars
<1>2. \A c \in Channel, a \in Account :
        InCall(a, c)' => InCall(a, c) /\ voice'[c][a] = voice[c][a]
  BY <1>1 DEF InCall, TypeOK
<1>3. OneOpen'
  BY <1>1 DEF OneTabInv, OneOpen, Open
<1>4. HeldByIdle'
  BY <1>1, <1>2 DEF OneTabInv, HeldByIdle
<1>5. OneCall'
  BY <1>2 DEF OneTabInv, OneCall
<1>6. QED
  BY <1>3, <1>4, <1>5 DEF OneTabInv

\* While every account keeps to one socket, OneTabInv is an invariant.
THEOREM OneTabCorrect == ASSUME ~ManyTabs PROVE Spec => []OneTabInv
<1> USE ConstantsAssumption
<1>1. Init => OneTabInv
  BY DEF Init, OneTabInv, OneOpen, Open, HeldByIdle, OneCall, InCall
<1>2. TypeOK /\ OneTabInv /\ [Next]_vars => OneTabInv'
  <2> SUFFICES ASSUME TypeOK, OneTabInv, [Next]_vars PROVE OneTabInv'
    OBVIOUS
  <2>1. ASSUME UNCHANGED <<voice, at>> PROVE OneTabInv'
    BY <2>1 DEF OneTabInv, OneOpen, Open, HeldByIdle, OneCall, InCall
  <2>2. ASSUME NEW h \in Conn, Register(h) PROVE OneTabInv'
    BY <2>2, RegisterKeepsOneTab
  <2>3. ASSUME NEW h \in Conn, PublishOnline(h) PROVE OneTabInv'
    <3>1. at[h] = "going_online" /\ at' = [at EXCEPT ![h] = "ready"] /\ UNCHANGED voice
      BY <2>3 DEF PublishOnline, hubVars
    <3>2. QED
      BY <3>1, MoveKeepsOneTab DEF Open, TaskState
  <2>4. ASSUME NEW h \in Conn, NEW c \in Channel, AuthorizeJoin(h, c) PROVE OneTabInv'
    <3>1. at[h] = "ready" /\ at' = [at EXCEPT ![h] = "authorized"] /\ UNCHANGED voice
      BY <2>4 DEF AuthorizeJoin, hubVars
    <3>2. QED
      BY <3>1, MoveKeepsOneTab DEF Open, TaskState
  <2>5. ASSUME NEW h \in Conn, LeaveFirst(h) \/ HangUp(h) \/ Close(h) PROVE OneTabInv'
    BY <2>5, LeaveKeepsOneTab
  <2>6. ASSUME NEW h \in Conn, Enter(h) PROVE OneTabInv'
    BY <2>6, EnterKeepsOneTab
  <2>7. ASSUME NEW h \in Conn, AnnounceJoin(h) PROVE OneTabInv'
    <3>1. at[h] = "entered" /\ at' = [at EXCEPT ![h] = "ready"] /\ UNCHANGED voice
      BY <2>7 DEF AnnounceJoin, hubVars
    <3>2. QED
      BY <3>1, MoveKeepsOneTab DEF Open, TaskState
  <2>8. ASSUME NEW h \in Conn, AnnounceLeave(h) PROVE OneTabInv'
    <3>1. CASE at[h] = "hung_up"
      <4>1. at' = [at EXCEPT ![h] = "ready"] /\ UNCHANGED voice
        BY <2>8, <3>1 DEF AnnounceLeave, hubVars, TypeOK
      <4>2. QED
        BY <3>1, <4>1, MoveKeepsOneTab DEF Open, TaskState
    <3>2. CASE at[h] # "hung_up"
      <4>1. UNCHANGED <<voice, at>>
        BY <2>8, <3>2 DEF AnnounceLeave, hubVars, TypeOK
      <4>2. QED
        BY <2>1, <4>1
    <3>3. QED
      BY <3>1, <3>2
  <2>9. ASSUME NEW h \in Conn, Deregister(h) PROVE OneTabInv'
    <3>1. /\ at[h] = "closing" /\ UNCHANGED voice
          /\ \E next \in {"going_offline", "closed"} : at' = [at EXCEPT ![h] = next]
      BY <2>9 DEF Deregister
    <3>2. QED
      BY <3>1, MoveKeepsOneTab DEF Open, TaskState
  <2>10. ASSUME NEW h \in Conn, PublishOffline(h) PROVE OneTabInv'
    <3>1. at[h] = "going_offline" /\ at' = [at EXCEPT ![h] = "closed"] /\ UNCHANGED voice
      BY <2>10 DEF PublishOffline, hubVars
    <3>2. QED
      BY <3>1, MoveKeepsOneTab DEF Open, TaskState
  <2>11. ASSUME NEW r \in Request, LeaveFromChannel(r) PROVE OneTabInv'
    BY <2>11, EvictionKeepsOneTab
  <2>12. ASSUME \/ UNCHANGED vars
                \/ \E r \in Request :
                     \/ RemoveMember(r) \/ TimeoutMember(r) \/ CheckUntil(r) \/ FindCall(r)
                     \/ ConfirmServer(r) \/ ConfirmFails(r) \/ AnnounceEviction(r) \/ BreakOff(r)
                \/ \E a \in Account, s \in Server : Rejoin(a, s) \/ EndTimeout(a, s)
                \/ \E c \in Channel : DeleteChannel(c)
                \/ \E a \in Account, c \in Restrictable : ChangeView(a, c)
         PROVE  OneTabInv'
    <3>1. UNCHANGED <<voice, at>>
      BY <2>12 DEF RemoveMember, TimeoutMember, CheckUntil, FindCall, ConfirmServer, ConfirmFails,
                   AnnounceEviction, BreakOff, Rejoin, EndTimeout, DeleteChannel, ChangeView,
                   vars, hubVars, taskVars
    <3>2. QED
      BY <2>1, <3>1
  <2>13. QED
    BY <2>2, <2>3, <2>4, <2>5, <2>6, <2>7, <2>8, <2>9, <2>10, <2>11, <2>12, NextCases
<1>3. QED
  BY <1>1, <1>2, TypeCorrect, PTL DEF Spec

\* No ghost participant while every account keeps to one socket: whoever is in
\* a call is there through a socket that is registered.
THEOREM NoGhostOneTab == ASSUME ~ManyTabs PROVE Spec => []NoGhost
<1>1. TypeOK /\ Registered /\ OneTabInv => NoGhost
  <2> SUFFICES ASSUME TypeOK, Registered, OneTabInv, NEW c \in Channel,
                      NEW a \in Account, InCall(a, c)
               PROVE  voice[c][a] \in connections[a]
    BY DEF NoGhost
  <2>1. voice[c][a] \in Conn
    BY DEF InCall, TypeOK
  <2>2. Owner[voice[c][a]] = a /\ at[voice[c][a]] \in {"ready", "authorized", "entered"}
    BY DEF OneTabInv, HeldByIdle
  <2>3. QED
    BY <2>1, <2>2 DEF Registered
<1>2. QED
  BY <1>1, TypeCorrect, RegisteredCorrect, OneTabCorrect, PTL

\* The holder of a call in its account's name is the open socket, if any is.
LEMMA HolderIsOpen ==
  ASSUME TypeOK, OneTabInv, NEW h \in Conn, Open(h), NEW c \in Channel, InCall(Owner[h], c)
  PROVE  voice[c][Owner[h]] = h
<1>1. Owner[h] \in Account /\ voice[c][Owner[h]] \in Conn
  BY ConstantsAssumption DEF InCall, TypeOK
<1>2. QED
  BY <1>1 DEF OneTabInv, HeldByIdle, OneOpen, Open

-----------------------------------------------------------------------------
(* The hub implements Calls while every account keeps to one socket. *)

\* A step that leaves the rooms alone leaves the abstract places alone.
LEMMA PlacesKept ==
  ASSUME UNCHANGED voice
  PROVE  UNCHANGED Places
BY DEF Places, InCall

\* A step that changes the rooms for one account changes its place only.
LEMMA OnePlaceChanges ==
  ASSUME NEW a \in Account,
         \A c \in Channel, b \in Account : b # a => voice'[c][b] = voice[c][b]
  PROVE  Places' = [Places EXCEPT ![a] = Places'[a]]
<1>1. ASSUME NEW b \in Account, b # a PROVE Places'[b] = Places[b]
  BY <1>1 DEF Places, InCall
<1>2. /\ Places = [b \in Account |-> Places[b]]
      /\ Places' = [b \in Account |-> Places'[b]]
  BY DEF Places
<1>3. QED
  BY <1>1, <1>2

\* A step after which an account is in no call, and which changes no other, is
\* Leave if the account was in one.
LEMMA LeaveImplements ==
  ASSUME NEW a \in Account, UNCHANGED connections,
         \A c \in Channel : ~InCall(a, c)',
         \A c \in Channel, b \in Account : b # a => voice'[c][b] = voice[c][b]
  PROVE  Calls!Leave(a) \/ UNCHANGED <<connections, Places>>
<1>1. Places'[a] = {}
  BY DEF Places
<1>2. Places' = [Places EXCEPT ![a] = {}]
  BY <1>1, OnePlaceChanges
<1>3. CASE Places[a] = {}
  BY <1>2, <1>3 DEF Places
<1>4. CASE Places[a] # {}
  BY <1>2, <1>4 DEF Calls!Leave
<1>5. QED
  BY <1>3, <1>4

\* Each lock section that takes an account out of a call is Leave or nothing:
\* with one socket it is the only call the account is in.
LEMMA VoiceLeaveImplements ==
  ASSUME TypeOK, OneTabInv, NEW h \in Conn, LeaveFirst(h) \/ HangUp(h) \/ Close(h)
  PROVE  Calls!Leave(Owner[h]) \/ UNCHANGED <<connections, Places>>
<1>1. PICK hs \in SUBSET Conn, next \in {"moving", "hung_up", "closing"} :
        h \in hs /\ VoiceLeave(h, hs, next)
  <2>1. LeaveFirst(h) => VoiceLeave(h, Conn, "moving")
    BY DEF LeaveFirst
  <2>2. HangUp(h) => VoiceLeave(h, Conn, "hung_up")
    BY DEF HangUp
  <2>3. Close(h) => VoiceLeave(h, {h}, "closing")
    BY DEF Close
  <2>4. QED
    BY <2>1, <2>2, <2>3
<1>2. next \in TaskState /\ Open(h) /\ UNCHANGED connections
  BY DEF LeaveFirst, HangUp, Close, Open, TaskState
<1>3. \A c \in Channel : ~InCall(Owner[h], c)'
  BY <1>1, <1>2, LeaveEndsAll
<1>4. \A c \in Channel, b \in Account : b # Owner[h] => voice'[c][b] = voice[c][b]
  <2>1. \A c \in Channel, b \in Account :
          \/ voice'[c][b] = voice[c][b]
          \/ b = Owner[h] /\ voice[c][b] \in hs /\ voice'[c][b] = NoConn
    BY <1>1, <1>2, VoiceLeaveEffect
  <2>2. QED
    BY <2>1
<1>5. Owner[h] \in Account
  BY ConstantsAssumption
<1>6. QED
  BY <1>2, <1>3, <1>4, <1>5, LeaveImplements

\* An eviction from the call found is Leave, unless the account has left it by
\* then: in that case it ends nothing, whatever call the account is in now.
LEMMA EvictionImplements ==
  ASSUME TypeOK, OneTabInv, NEW r \in Request, LeaveFromChannel(r)
  PROVE  Calls!Leave(Target[r]) \/ UNCHANGED <<connections, Places>>
<1> USE ConstantsAssumption
<1> DEFINE a == Target[r]  c == found[r]
<1>1. /\ a \in Account /\ c \in Channel /\ UNCHANGED connections
      /\ voice' = [voice EXCEPT ![c][a] = NoConn]
  BY DEF LeaveFromChannel, TypeOK
<1>2. CASE InCall(a, c)
  <2>1. \A d \in Channel : InCall(a, d) => d = c
    BY <1>1, <1>2 DEF OneTabInv, OneCall
  <2>2. \A d \in Channel : ~InCall(a, d)'
    BY <1>1, <2>1 DEF InCall, TypeOK
  <2>3. \A d \in Channel, b \in Account : b # a => voice'[d][b] = voice[d][b]
    BY <1>1 DEF TypeOK
  <2>4. QED
    BY <1>1, <2>2, <2>3, LeaveImplements
<1>3. CASE ~InCall(a, c)
  <2>1. voice' = voice
    BY <1>1, <1>3 DEF InCall, TypeOK
  <2>2. QED
    BY <1>1, <2>1, PlacesKept
<1>4. QED
  BY <1>2, <1>3

\* Entering is Enter: the task has left whatever call the account was in, its
\* socket is still registered, and nobody has entered a call for it meanwhile.
LEMMA EnterImplements ==
  ASSUME TypeOK, Registered, OneTabInv, NEW h \in Conn, Enter(h)
  PROVE  Calls!Enter(h, joining[h])
<1> USE ConstantsAssumption
<1> DEFINE a == Owner[h]  c == joining[h]
<1>1. /\ at[h] = "moving" /\ c \in Channel /\ a \in Account /\ Open(h)
      /\ voice' = [voice EXCEPT ![c][a] = h] /\ UNCHANGED connections
  BY DEF Enter, Open, TypeOK
<1>2. \A d \in Channel : ~InCall(a, d)
  <2> SUFFICES ASSUME NEW d \in Channel, InCall(a, d) PROVE FALSE
    OBVIOUS
  <2>1. voice[d][a] = h
    BY <1>1, HolderIsOpen
  <2>2. QED
    BY <1>1, <2>1 DEF OneTabInv, HeldByIdle
<1>3. Places[a] = {}
  BY <1>1, <1>2 DEF Places
<1>4. Places'[a] = {<<c, h>>}
  <2>1. \A d \in Channel : InCall(a, d)' <=> d = c
    BY <1>1, <1>2 DEF InCall, TypeOK
  <2>2. voice'[c][a] = h
    BY <1>1 DEF TypeOK
  <2>3. QED
    BY <1>1, <2>1, <2>2 DEF Places
<1>5. \A d \in Channel, b \in Account : b # a => voice'[d][b] = voice[d][b]
  BY <1>1 DEF TypeOK
<1>6. Places' = [Places EXCEPT ![a] = {<<c, h>>}]
  BY <1>1, <1>4, <1>5, OnePlaceChanges
<1>7. h \in connections[a]
  BY <1>1 DEF Registered
<1>8. QED
  BY <1>1, <1>3, <1>6, <1>7 DEF Calls!Enter

\* The registry's own steps: a new socket is the account's only one, and the
\* socket that goes holds no call.
LEMMA RegistryImplements ==
  ASSUME ~ManyTabs, TypeOK, Registered, OneTabInv, NEW h \in Conn
  PROVE  /\ Register(h) => Calls!Connect(h)
         /\ Deregister(h) => Calls!Disconnect(h)
<1> USE ConstantsAssumption
<1> DEFINE a == Owner[h]
<1>1. a \in Account /\ connections[a] \subseteq Conn
  BY DEF TypeOK
<1>2. ASSUME Register(h) PROVE Calls!Connect(h)
  <2>1. /\ \A k \in Conn : Owner[k] = a => ~Open(k)
        /\ connections' = [connections EXCEPT ![a] = @ \cup {h}]
        /\ UNCHANGED voice
    BY <1>2 DEF Register
  <2>2. connections[a] = {}
    BY <1>1, <2>1 DEF Registered, Open
  <2>3. QED
    BY <2>1, <2>2, PlacesKept DEF Calls!Connect
<1>3. ASSUME Deregister(h) PROVE Calls!Disconnect(h)
  <2>1. /\ at[h] = "closing" /\ UNCHANGED voice
        /\ connections' = [connections EXCEPT ![a] = @ \ {h}]
    BY <1>3 DEF Deregister
  <2>2. h \in connections[a]
    BY <1>1, <2>1 DEF Registered
  <2>3. connections[a] = {h}
    <3>1. ASSUME NEW k \in connections[a] PROVE k = h
      <4>1. k \in Conn /\ Owner[k] = a /\ Open(k)
        BY <1>1 DEF Registered, Open
      <4>2. QED
        BY <2>1, <4>1 DEF OneTabInv, OneOpen, Open
    <3>2. QED
      BY <2>2, <3>1
  <2>4. \A c \in Channel : <<c, h>> \notin Places[a]
    <3>1. \A c \in Channel : voice[c][a] # h
      BY <1>1, <2>1 DEF OneTabInv, HeldByIdle, InCall
    <3>2. QED
      BY <1>1, <3>1 DEF Places
  <2>5. QED
    BY <2>1, <2>2, <2>3, <2>4, PlacesKept DEF Calls!Disconnect
<1>4. QED
  BY <1>2, <1>3

\* While every account keeps to one socket, every step of the hub is a step of
\* Calls or changes nothing there, however the tasks interleave: a call is left
\* as a whole before another is entered, and a socket that goes is in none.
THEOREM ImplementsCalls == ASSUME ~ManyTabs PROVE Spec => HubKeepsCalls
<1> USE ConstantsAssumption
<1>1. Init => Calls!Init
  BY DEF Init, Calls!Init, Places, InCall
<1>2. TypeOK /\ Registered /\ OneTabInv /\ [Next]_vars => [Calls!Next]_(Calls!vars)
  <2> SUFFICES ASSUME TypeOK, Registered, OneTabInv, [Next]_vars
               PROVE  Calls!Next \/ UNCHANGED <<connections, Places>>
    BY DEF Calls!vars
  <2>1. ASSUME NEW h \in Conn, Register(h) \/ Deregister(h) PROVE Calls!Next
    BY <2>1, RegistryImplements DEF Calls!Next
  <2>2. ASSUME NEW h \in Conn, LeaveFirst(h) \/ HangUp(h) \/ Close(h)
        PROVE  Calls!Next \/ UNCHANGED <<connections, Places>>
    BY <2>2, VoiceLeaveImplements DEF Calls!Next
  <2>3. ASSUME NEW h \in Conn, Enter(h) PROVE Calls!Next
    <3>1. joining[h] \in Channel
      BY <2>3 DEF Enter, TypeOK
    <3>2. QED
      BY <2>3, <3>1, EnterImplements DEF Calls!Next
  <2>4. ASSUME NEW r \in Request, LeaveFromChannel(r)
        PROVE  Calls!Next \/ UNCHANGED <<connections, Places>>
    BY <2>4, EvictionImplements DEF Calls!Next
  <2>5. ASSUME \/ UNCHANGED vars
               \/ \E h \in Conn :
                    \/ PublishOnline(h) \/ AnnounceJoin(h) \/ AnnounceLeave(h)
                    \/ PublishOffline(h) \/ \E c \in Channel : AuthorizeJoin(h, c)
               \/ \E r \in Request :
                    \/ RemoveMember(r) \/ TimeoutMember(r) \/ CheckUntil(r) \/ FindCall(r)
                    \/ ConfirmServer(r) \/ ConfirmFails(r) \/ AnnounceEviction(r) \/ BreakOff(r)
               \/ \E a \in Account, s \in Server : Rejoin(a, s) \/ EndTimeout(a, s)
               \/ \E c \in Channel : DeleteChannel(c)
               \/ \E a \in Account, c \in Restrictable : ChangeView(a, c)
        PROVE  UNCHANGED <<connections, Places>>
    <3>1. UNCHANGED <<connections, voice>>
      BY <2>5 DEF PublishOnline, AnnounceJoin, AnnounceLeave, PublishOffline, AuthorizeJoin,
                  RemoveMember, TimeoutMember, CheckUntil, FindCall, ConfirmServer,
                  ConfirmFails, AnnounceEviction, BreakOff, Rejoin, EndTimeout, DeleteChannel, ChangeView,
                  vars, hubVars
    <3>2. QED
      BY <3>1, PlacesKept
  <2>6. QED
    BY <2>1, <2>2, <2>3, <2>4, <2>5, NextCases
<1>3. QED
  BY <1>1, <1>2, TypeCorrect, RegisteredCorrect, OneTabCorrect, PTL
     DEF Spec, HubKeepsCalls, Calls!Spec

-----------------------------------------------------------------------------
(* What a step may never do, with any number of sockets per account. *)

\* Only ConfirmServer confirms, and it looks at the server first.
ConfirmedInScope ==
  \A r \in Request : stage[r] = "confirmed" => ServerOf[found[r]] = Scope[r]

\* An eviction goes ahead on the server's own answer only for its own calls.
LEMMA ConfirmedCorrect == Spec => []ConfirmedInScope
<1> USE ConstantsAssumption DEF ConfirmedInScope
<1>1. Init => ConfirmedInScope
  BY DEF Init
<1>2. TypeOK /\ ConfirmedInScope /\ [Next]_vars => ConfirmedInScope'
  <2> SUFFICES ASSUME TypeOK, ConfirmedInScope, [Next]_vars PROVE ConfirmedInScope'
    OBVIOUS
  <2> DEFINE Types == stage \in [Request -> RequestState]
                      /\ found \in [Request -> Channel \cup {NoChannel}]
  <2>0. Types
    BY DEF TypeOK
  <2>1. ASSUME NEW r \in Request,
               \/ RemoveMember(r) \/ TimeoutMember(r) \/ CheckUntil(r) \/ ConfirmServer(r)
               \/ ConfirmFails(r) \/ LeaveFromChannel(r) \/ AnnounceEviction(r) \/ BreakOff(r)
        PROVE  ConfirmedInScope'
    <3>1. UNCHANGED found
      BY <2>1 DEF RemoveMember, TimeoutMember, CheckUntil, ConfirmServer, ConfirmFails,
                  LeaveFromChannel, AnnounceEviction, BreakOff
    <3>2. PICK next \in RequestState :
            /\ stage' = [stage EXCEPT ![r] = next]
            /\ next = "confirmed" => ServerOf[found[r]] = Scope[r]
      BY <2>1 DEF RemoveMember, TimeoutMember, CheckUntil, ConfirmServer, ConfirmFails,
                  LeaveFromChannel, AnnounceEviction, BreakOff, RequestState
    <3>3. QED
      BY <2>0, <3>1, <3>2
  <2>2. ASSUME NEW r \in Request, FindCall(r) PROVE ConfirmedInScope'
    <3>1. CASE stage' = [stage EXCEPT ![r] = "done"] /\ UNCHANGED found
      BY <2>0, <3>1
    <3>2. ASSUME NEW c \in Channel, stage' = [stage EXCEPT ![r] = "found"],
                 found' = [found EXCEPT ![r] = c]
          PROVE  ConfirmedInScope'
      BY <2>0, <3>2
    <3>3. QED
      BY <2>2, <3>1, <3>2 DEF FindCall, Held
  <2>3. CASE UNCHANGED requestVars
    BY <2>3 DEF requestVars
  <2>4. UNCHANGED vars => UNCHANGED requestVars
    BY DEF vars
  <2>5. \A h \in Conn :
          \/ Register(h) \/ PublishOnline(h)
          \/ \E c \in Channel : AuthorizeJoin(h, c)
          \/ LeaveFirst(h) \/ Enter(h) \/ AnnounceJoin(h) \/ HangUp(h)
          \/ AnnounceLeave(h) \/ Close(h) \/ Deregister(h) \/ PublishOffline(h)
          => UNCHANGED requestVars
    BY DEF Register, PublishOnline, AuthorizeJoin, LeaveFirst, Enter, AnnounceJoin,
           HangUp, AnnounceLeave, Close, Deregister, PublishOffline
  <2>6. (\E a \in Account, s \in Server : Rejoin(a, s) \/ EndTimeout(a, s))
        \/ (\E c \in Channel : DeleteChannel(c))
        \/ (\E a \in Account, c \in Restrictable : ChangeView(a, c)) => UNCHANGED requestVars
    BY DEF Rejoin, EndTimeout, DeleteChannel, ChangeView
  <2>7. QED
    BY <2>1, <2>2, <2>3, <2>4, <2>5, <2>6, NextCases
<1>3. QED
  BY <1>1, <1>2, TypeCorrect, PTL DEF Spec

\* A kick, ban or timeout on one server never ends a call on another.
THEOREM EvictionsScoped == Spec => EvictionsAreScoped
<1> USE ConstantsAssumption
<1>1. TypeOK /\ ConfirmedInScope /\ [Next]_vars => EvictionIsScoped
  <2> SUFFICES ASSUME TypeOK, ConfirmedInScope, [Next]_vars,
                      NEW r \in Request, NEW c \in Channel, NEW a \in Account,
                      stage[r] = "confirmed", stage'[r] # "confirmed",
                      InCall(a, c), ~InCall(a, c)'
               PROVE  a = Target[r] /\ ServerOf[c] = Scope[r]
    BY DEF EvictionIsScoped
  <2>1. LeaveFromChannel(r)
    <3>1. \A q \in Request :
            RemoveMember(q) \/ TimeoutMember(q) \/ CheckUntil(q) \/ FindCall(q) \/ ConfirmServer(q)
            \/ ConfirmFails(q) \/ AnnounceEviction(q) \/ BreakOff(q) => UNCHANGED voice
      BY DEF RemoveMember, TimeoutMember, CheckUntil, FindCall, ConfirmServer, ConfirmFails,
             AnnounceEviction, BreakOff, hubVars
    <3>2. ~UNCHANGED voice /\ ~UNCHANGED stage
      BY DEF InCall
    <3>3. \A q \in Request : LeaveFromChannel(q) => q = r
      BY DEF LeaveFromChannel, TypeOK
    <3>4. \A h \in Conn :
            \/ Register(h) \/ PublishOnline(h)
            \/ \E d \in Channel : AuthorizeJoin(h, d)
            \/ LeaveFirst(h) \/ Enter(h) \/ AnnounceJoin(h) \/ HangUp(h)
            \/ AnnounceLeave(h) \/ Close(h) \/ Deregister(h) \/ PublishOffline(h)
            => UNCHANGED stage
      BY DEF Register, PublishOnline, AuthorizeJoin, LeaveFirst, Enter, AnnounceJoin,
             HangUp, AnnounceLeave, Close, Deregister, PublishOffline, requestVars
    <3>5. /\ UNCHANGED vars => UNCHANGED stage
          /\ (\E b \in Account, s \in Server : Rejoin(b, s) \/ EndTimeout(b, s))
             \/ (\E d \in Channel : DeleteChannel(d))
             \/ (\E b \in Account, d \in Restrictable : ChangeView(b, d)) => UNCHANGED stage
      BY DEF vars, Rejoin, EndTimeout, DeleteChannel, ChangeView, requestVars
    <3>6. QED
      BY <3>1, <3>2, <3>3, <3>4, <3>5, NextCases
  <2>2. voice' = [voice EXCEPT ![found[r]][Target[r]] = NoConn]
    BY <2>1 DEF LeaveFromChannel
  <2>3. a = Target[r] /\ c = found[r]
    BY <2>2 DEF InCall, TypeOK
  <2>4. QED
    BY <2>3 DEF ConfirmedInScope
<1>2. QED
  BY <1>1, TypeCorrect, ConfirmedCorrect, PTL DEF Spec, EvictionsAreScoped

\* Closing one tab never ends a call held by another.
THEOREM ClosingKeeps == Spec => ClosingKeepsOtherCalls
<1> USE ConstantsAssumption
<1>1. TypeOK /\ [Next]_vars => CloseKeepsOtherCalls
  <2> SUFFICES ASSUME TypeOK, [Next]_vars, NEW h \in Conn, NEW c \in Channel,
                      NEW a \in Account,
                      at[h] = "ready", at'[h] = "closing", voice[c][a] # h
               PROVE  voice'[c][a] = voice[c][a]
    BY DEF CloseKeepsOtherCalls
  <2> DEFINE Types == at \in [Conn -> TaskState]
  <2>0. Types
    BY DEF TypeOK
  <2>1. ~UNCHANGED at
    OBVIOUS
  <2>2. \A k \in Conn, d \in Channel :
          \/ Register(k) \/ PublishOnline(k) \/ AuthorizeJoin(k, d) \/ Enter(k)
          \/ AnnounceJoin(k) \/ Deregister(k) \/ PublishOffline(k)
          => FALSE
    BY <2>0 DEF Register, PublishOnline, AuthorizeJoin, Enter, AnnounceJoin,
                Deregister, PublishOffline
  <2>3. \A k \in Conn : ~AnnounceLeave(k)
    BY <2>0 DEF AnnounceLeave
  <2>4. \A k \in Conn : ~LeaveFirst(k) /\ ~HangUp(k)
    BY <2>0, LeaveSteps
  <2>5. \A k \in Conn : Close(k) => k = h
    BY <2>0, LeaveSteps
  <2>6. UNCHANGED vars => UNCHANGED at
    BY DEF vars, taskVars
  <2>7. Close(h)
    BY <2>1, <2>2, <2>3, <2>4, <2>5, <2>6, NextCases, OtherStepsKeepSockets
  <2>8. \A d \in Channel, b \in Account :
          voice'[d][b] = voice[d][b] \/ voice[d][b] = h
    BY <2>7, CloseEffect
  <2>9. QED
    BY <2>8
<1>2. QED
  BY <1>1, TypeCorrect, PTL DEF Spec, ClosingKeepsOtherCalls

-----------------------------------------------------------------------------
(* Presence frames, with any number of sockets per account. *)

LEMMA PendingFinite ==
  ASSUME NEW a \in Account
  PROVE  /\ IsFiniteSet(ComingOnline(a)) /\ Cardinality(ComingOnline(a)) \in Nat
         /\ IsFiniteSet(GoingOffline(a)) /\ Cardinality(GoingOffline(a)) \in Nat
<1>1. ComingOnline(a) \subseteq Conn /\ GoingOffline(a) \subseteq Conn
  BY DEF ComingOnline, GoingOffline
<1>2. QED
  BY <1>1, ConstantsAssumption, FS_Subset, FS_CardinalityType

\* A task that moves outside the two publishing states leaves the count alone.
LEMMA OtherMovesKeepPending ==
  ASSUME TypeOK, NEW h \in Conn, NEW next \in TaskState,
         at' = [at EXCEPT ![h] = next],
         {at[h], next} \cap {"going_online", "going_offline"} = {},
         NEW a \in Account
  PROVE  ComingOnline(a)' = ComingOnline(a) /\ GoingOffline(a)' = GoingOffline(a)
BY DEF ComingOnline, GoingOffline, TypeOK

\* Neither does any other account's task.
LEMMA OthersKeepPending ==
  ASSUME TypeOK, NEW h \in Conn, NEW next \in TaskState,
         at' = [at EXCEPT ![h] = next], NEW a \in Account, a # Owner[h]
  PROVE  ComingOnline(a)' = ComingOnline(a) /\ GoingOffline(a)' = GoingOffline(a)
BY DEF ComingOnline, GoingOffline, TypeOK

LEMMA RegisterBalances ==
  ASSUME TypeOK, PresenceBalanced, NEW h \in Conn, Register(h)
  PROVE  PresenceBalanced'
<1> USE ConstantsAssumption
<1> DEFINE o == Owner[h]
<1>1. /\ o \in Account /\ at[h] = "unopened" /\ UNCHANGED net
      /\ connections' = [connections EXCEPT ![o] = @ \cup {h}]
  BY DEF Register, observerVars
<1>2. at' = [at EXCEPT ![h] = IF connections[o] = {} THEN "going_online" ELSE "ready"]
  BY DEF Register
<1>3. SUFFICES ASSUME NEW a \in Account
               PROVE  net'[a] + Cardinality(ComingOnline(a)') - Cardinality(GoingOffline(a)')
                        = IF connections'[a] = {} THEN 0 ELSE 1
  BY DEF PresenceBalanced
<1>4. net[a] + Cardinality(ComingOnline(a)) - Cardinality(GoingOffline(a))
        = IF connections[a] = {} THEN 0 ELSE 1
  BY DEF PresenceBalanced
<1>5. CASE a # o
  <2>1. ComingOnline(a)' = ComingOnline(a) /\ GoingOffline(a)' = GoingOffline(a)
    BY <1>1, <1>2, <1>5, OthersKeepPending DEF TaskState
  <2>2. connections'[a] = connections[a]
    BY <1>1, <1>5 DEF TypeOK
  <2>3. QED
    BY <1>1, <1>4, <2>1, <2>2
<1>6. CASE a = o /\ connections[o] # {}
  <2>1. ComingOnline(a)' = ComingOnline(a) /\ GoingOffline(a)' = GoingOffline(a)
    BY <1>1, <1>2, <1>6, OtherMovesKeepPending DEF TaskState
  <2>2. connections'[a] # {}
    BY <1>1, <1>6 DEF TypeOK
  <2>3. QED
    BY <1>1, <1>4, <1>6, <2>1, <2>2
<1>7. CASE a = o /\ connections[o] = {}
  <2>1. ComingOnline(a)' = ComingOnline(a) \cup {h} /\ h \notin ComingOnline(a)
    BY <1>1, <1>2, <1>7 DEF ComingOnline, TypeOK
  <2>2. GoingOffline(a)' = GoingOffline(a)
    BY <1>1, <1>2, <1>7 DEF GoingOffline, TypeOK
  <2>3. Cardinality(ComingOnline(a)') = Cardinality(ComingOnline(a)) + 1
    BY <2>1, PendingFinite, FS_AddElement
  <2>4. connections'[a] # {}
    BY <1>1, <1>7 DEF TypeOK
  <2>5. net[a] \in Int
    BY DEF TypeOK
  <2>6. QED
    BY <1>1, <1>4, <1>7, <2>2, <2>3, <2>4, <2>5, PendingFinite
<1>8. QED
  BY <1>5, <1>6, <1>7

LEMMA DeregisterBalances ==
  ASSUME TypeOK, Registered, PresenceBalanced, NEW h \in Conn, Deregister(h)
  PROVE  PresenceBalanced'
<1> USE ConstantsAssumption
<1> DEFINE o == Owner[h]
<1>1. /\ o \in Account /\ at[h] = "closing" /\ UNCHANGED net
      /\ connections' = [connections EXCEPT ![o] = @ \ {h}]
  BY DEF Deregister, observerVars
<1>2. at' = [at EXCEPT ![h] =
               IF connections[o] \ {h} = {} THEN "going_offline" ELSE "closed"]
  BY DEF Deregister
<1>3. h \in connections[o]
  BY <1>1 DEF Registered
<1>4. SUFFICES ASSUME NEW a \in Account
               PROVE  net'[a] + Cardinality(ComingOnline(a)') - Cardinality(GoingOffline(a)')
                        = IF connections'[a] = {} THEN 0 ELSE 1
  BY DEF PresenceBalanced
<1>5. net[a] + Cardinality(ComingOnline(a)) - Cardinality(GoingOffline(a))
        = IF connections[a] = {} THEN 0 ELSE 1
  BY DEF PresenceBalanced
<1>6. CASE a # o
  <2>1. ComingOnline(a)' = ComingOnline(a) /\ GoingOffline(a)' = GoingOffline(a)
    BY <1>1, <1>2, <1>6, OthersKeepPending DEF TaskState
  <2>2. connections'[a] = connections[a]
    BY <1>1, <1>6 DEF TypeOK
  <2>3. QED
    BY <1>1, <1>5, <2>1, <2>2
<1>7. CASE a = o /\ connections[o] \ {h} # {}
  <2>1. ComingOnline(a)' = ComingOnline(a) /\ GoingOffline(a)' = GoingOffline(a)
    BY <1>1, <1>2, <1>7, OtherMovesKeepPending DEF TaskState
  <2>2. connections'[a] # {} /\ connections[a] # {}
    BY <1>1, <1>7 DEF TypeOK
  <2>3. QED
    BY <1>1, <1>5, <2>1, <2>2
<1>8. CASE a = o /\ connections[o] \ {h} = {}
  <2>1. GoingOffline(a)' = GoingOffline(a) \cup {h} /\ h \notin GoingOffline(a)
    BY <1>1, <1>2, <1>8 DEF GoingOffline, TypeOK
  <2>2. ComingOnline(a)' = ComingOnline(a)
    BY <1>1, <1>2, <1>8 DEF ComingOnline, TypeOK
  <2>3. Cardinality(GoingOffline(a)') = Cardinality(GoingOffline(a)) + 1
    BY <2>1, PendingFinite, FS_AddElement
  <2>4. connections'[a] = {} /\ connections[a] # {}
    BY <1>1, <1>3, <1>8 DEF TypeOK
  <2>5. net[a] \in Int
    BY DEF TypeOK
  <2>6. QED
    BY <1>1, <1>5, <2>2, <2>3, <2>4, <2>5, PendingFinite
<1>9. QED
  BY <1>6, <1>7, <1>8

LEMMA PublishBalances ==
  ASSUME TypeOK, PresenceBalanced, NEW h \in Conn,
         PublishOnline(h) \/ PublishOffline(h)
  PROVE  PresenceBalanced'
<1> USE ConstantsAssumption
<1> DEFINE o == Owner[h]
<1>1. o \in Account /\ UNCHANGED connections
  BY DEF PublishOnline, PublishOffline, hubVars
<1>2. SUFFICES ASSUME NEW a \in Account
               PROVE  net'[a] + Cardinality(ComingOnline(a)') - Cardinality(GoingOffline(a)')
                        = IF connections'[a] = {} THEN 0 ELSE 1
  BY DEF PresenceBalanced
<1>3. net[a] + Cardinality(ComingOnline(a)) - Cardinality(GoingOffline(a))
        = IF connections[a] = {} THEN 0 ELSE 1
  BY DEF PresenceBalanced
<1>4. net[a] \in Int
  BY DEF TypeOK
<1>5. CASE a # o
  <2>1. PICK next \in {"ready", "closed"} : at' = [at EXCEPT ![h] = next]
    BY DEF PublishOnline, PublishOffline
  <2>2. ComingOnline(a)' = ComingOnline(a) /\ GoingOffline(a)' = GoingOffline(a)
    BY <1>5, <2>1, OthersKeepPending DEF TaskState
  <2>3. net'[a] = net[a]
    BY <1>5 DEF PublishOnline, PublishOffline, TypeOK
  <2>4. QED
    BY <1>1, <1>3, <2>2, <2>3
<1>6. CASE a = o /\ PublishOnline(h)
  <2>1. /\ at[h] = "going_online" /\ at' = [at EXCEPT ![h] = "ready"]
        /\ net'[a] = net[a] + 1
    BY <1>6 DEF PublishOnline, TypeOK
  <2>2. ComingOnline(a)' = ComingOnline(a) \ {h} /\ h \in ComingOnline(a)
    BY <1>6, <2>1 DEF ComingOnline, TypeOK
  <2>3. GoingOffline(a)' = GoingOffline(a)
    BY <2>1 DEF GoingOffline, TypeOK
  <2>4. Cardinality(ComingOnline(a)') = Cardinality(ComingOnline(a)) - 1
    BY <2>2, PendingFinite, FS_RemoveElement
  <2>5. QED
    BY <1>1, <1>3, <1>4, <2>1, <2>3, <2>4, PendingFinite
<1>7. CASE a = o /\ PublishOffline(h)
  <2>1. /\ at[h] = "going_offline" /\ at' = [at EXCEPT ![h] = "closed"]
        /\ net'[a] = net[a] - 1
    BY <1>7 DEF PublishOffline, TypeOK
  <2>2. GoingOffline(a)' = GoingOffline(a) \ {h} /\ h \in GoingOffline(a)
    BY <1>7, <2>1 DEF GoingOffline, TypeOK
  <2>3. ComingOnline(a)' = ComingOnline(a)
    BY <2>1 DEF ComingOnline, TypeOK
  <2>4. Cardinality(GoingOffline(a)') = Cardinality(GoingOffline(a)) - 1
    BY <2>2, PendingFinite, FS_RemoveElement
  <2>5. QED
    BY <1>1, <1>3, <1>4, <2>1, <2>3, <2>4, PendingFinite
<1>8. QED
  BY <1>5, <1>6, <1>7

\* Whatever the order in which racing tasks publish, the online and offline
\* frames of an account add up to whether it has a socket: none is sent for
\* a second tab that opens or closes, and none is left out.
THEOREM PresenceCorrect == Spec => []PresenceBalanced
<1> USE ConstantsAssumption
<1>1. Init => PresenceBalanced
  <2> SUFFICES ASSUME Init, NEW a \in Account
               PROVE  net[a] + Cardinality(ComingOnline(a)) - Cardinality(GoingOffline(a))
                        = IF connections[a] = {} THEN 0 ELSE 1
    BY DEF PresenceBalanced
  <2>1. ComingOnline(a) = {} /\ GoingOffline(a) = {} /\ net[a] = 0 /\ connections[a] = {}
    BY DEF Init, ComingOnline, GoingOffline
  <2>2. QED
    BY <2>1, FS_EmptySet
<1>2. TypeOK /\ Registered /\ PresenceBalanced /\ [Next]_vars => PresenceBalanced'
  <2> SUFFICES ASSUME TypeOK, Registered, PresenceBalanced, [Next]_vars
               PROVE  PresenceBalanced'
    OBVIOUS
  <2>1. ASSUME UNCHANGED <<connections, net>>,
               \A a \in Account : /\ ComingOnline(a)' = ComingOnline(a)
                                   /\ GoingOffline(a)' = GoingOffline(a)
        PROVE  PresenceBalanced'
    BY <2>1 DEF PresenceBalanced
  <2>2. ASSUME UNCHANGED <<connections, net, at>> PROVE PresenceBalanced'
    BY <2>1, <2>2 DEF ComingOnline, GoingOffline
  <2>3. ASSUME NEW h \in Conn,
               \/ \E c \in Channel : AuthorizeJoin(h, c)
               \/ LeaveFirst(h) \/ Enter(h) \/ AnnounceJoin(h)
               \/ HangUp(h) \/ Close(h) \/ AnnounceLeave(h)
        PROVE  PresenceBalanced'
    <3>1. UNCHANGED <<connections, net>>
      BY <2>3 DEF AuthorizeJoin, LeaveFirst, Enter, AnnounceJoin, HangUp, Close,
                  AnnounceLeave, hubVars, observerVars
    <3>2. CASE UNCHANGED at
      BY <2>2, <3>1, <3>2
    <3>3. CASE at[h] \in {"ready", "authorized", "moving", "entered", "hung_up"}
               /\ \E next \in {"ready", "authorized", "moving", "entered", "hung_up",
                                "closing"} : at' = [at EXCEPT ![h] = next]
      <4>1. PICK next \in {"ready", "authorized", "moving", "entered", "hung_up",
                           "closing"} : at' = [at EXCEPT ![h] = next]
        BY <3>3
      <4>2. next \in TaskState /\ {at[h], next} \cap {"going_online", "going_offline"} = {}
        BY <3>3 DEF TaskState
      <4>3. \A a \in Account : /\ ComingOnline(a)' = ComingOnline(a)
                                /\ GoingOffline(a)' = GoingOffline(a)
        BY <4>1, <4>2, OtherMovesKeepPending
      <4>4. QED
        BY <2>1, <3>1, <4>3
    <3>4. QED
      <4>1. (\E c \in Channel : AuthorizeJoin(h, c)) \/ Enter(h) \/ AnnounceJoin(h) =>
              /\ at[h] \in {"ready", "moving", "entered"}
              /\ \E next \in {"ready", "authorized", "entered"} :
                    at' = [at EXCEPT ![h] = next]
        BY DEF AuthorizeJoin, Enter, AnnounceJoin
      <4>2. LeaveFirst(h) \/ HangUp(h) \/ Close(h) => at[h] \in {"ready", "authorized"}
        BY DEF LeaveFirst, HangUp, Close
      <4>3. AnnounceLeave(h) =>
              \/ UNCHANGED at
              \/ at[h] = "hung_up" /\ at' = [at EXCEPT ![h] = "ready"]
        BY DEF AnnounceLeave, TypeOK
      <4>4. QED
        BY <2>3, <3>2, <3>3, <4>1, <4>2, <4>3, LeaveSteps
  <2>4. \A r \in Request :
          \/ RemoveMember(r) \/ TimeoutMember(r) \/ CheckUntil(r) \/ FindCall(r) \/ ConfirmServer(r)
          \/ ConfirmFails(r) \/ LeaveFromChannel(r) \/ AnnounceEviction(r) \/ BreakOff(r)
          => UNCHANGED net
    BY DEF RemoveMember, TimeoutMember, CheckUntil, FindCall, ConfirmServer, ConfirmFails,
           LeaveFromChannel, AnnounceEviction, BreakOff, observerVars
  <2>5. (\E a \in Account, s \in Server : Rejoin(a, s) \/ EndTimeout(a, s))
        \/ (\E c \in Channel : DeleteChannel(c))
        \/ (\E a \in Account, c \in Restrictable : ChangeView(a, c)) => UNCHANGED net
    BY DEF Rejoin, EndTimeout, DeleteChannel, ChangeView, observerVars
  <2>6. UNCHANGED vars => UNCHANGED <<connections, net, at>>
    BY DEF vars, hubVars, taskVars, observerVars
  <2>7. \A h \in Conn : Register(h) => PresenceBalanced'
    BY RegisterBalances
  <2>8. \A h \in Conn : Deregister(h) => PresenceBalanced'
    BY DeregisterBalances
  <2>9. \A h \in Conn : PublishOnline(h) \/ PublishOffline(h) => PresenceBalanced'
    BY PublishBalances
  <2>10. CASE \/ \E r \in Request :
                   \/ RemoveMember(r) \/ TimeoutMember(r) \/ CheckUntil(r) \/ FindCall(r)
                   \/ ConfirmServer(r) \/ ConfirmFails(r) \/ LeaveFromChannel(r)
                   \/ AnnounceEviction(r) \/ BreakOff(r)
              \/ \E a \in Account, s \in Server : Rejoin(a, s) \/ EndTimeout(a, s)
              \/ \E c \in Channel : DeleteChannel(c)
              \/ \E a \in Account, c \in Restrictable : ChangeView(a, c)
    <3>1. UNCHANGED net
      BY <2>4, <2>5, <2>10
    <3>2. UNCHANGED <<connections, at>>
      BY <2>10, OtherStepsKeepSockets
    <3>3. QED
      BY <2>2, <3>1, <3>2
  <2>11. CASE \E h \in Conn :
                 \/ \E c \in Channel : AuthorizeJoin(h, c)
                 \/ LeaveFirst(h) \/ Enter(h) \/ AnnounceJoin(h) \/ HangUp(h)
                 \/ Close(h) \/ AnnounceLeave(h)
    BY <2>3, <2>11
  <2>12. CASE Next
    BY <2>7, <2>8, <2>9, <2>10, <2>11, <2>12, NextCases
  <2>13. QED
    BY <2>2, <2>6, <2>12
<1>3. QED
  BY <1>1, <1>2, TypeCorrect, RegisteredCorrect, PTL DEF Spec

-----------------------------------------------------------------------------
(* What a request owes.  An account in a call it has lost the right to is   *)
(* a raced join or a broken-off eviction, or some request has still to take  *)
(* it out.                                                                   *)

\* Request r has yet to take a out of c: it has not looked for the call, or has
\* found that very call.  A timeout that is over by the time it is published
\* owes nothing.
Owes(r, a, c) ==
  /\ Target[r] = a
  /\ Scope[r] = ServerOf[c]
  /\ \/ stage[r] = "silenced" /\ a \in timedOut[ServerOf[c]]
     \/ stage[r] = "evicting"
     \/ stage[r] \in {"found", "confirmed", "unconfirmed"} /\ found[r] = c

\* Why a may be in c all the same: it raced, or its eviction was broken off.
Excused(a, c) == <<a, c>> \in raced \/ <<a, ServerOf[c]>> \in brokenOff

SurvivorsOwed ==
  \A c \in live, a \in Account :
    InCall(a, c) /\ ~InGoodStanding(a, ServerOf[c]) =>
      Excused(a, c) \/ \E r \in Request : Owes(r, a, c)

TimeoutsOfMembers == \A s \in Server : timedOut[s] \subseteq members[s]

\* A removal takes the timeout with the membership row.
LEMMA TimeoutsOfMembersCorrect == Spec => []TimeoutsOfMembers
<1> USE ConstantsAssumption DEF TimeoutsOfMembers
<1>1. Init => TimeoutsOfMembers
  BY DEF Init
<1>2. TypeOK /\ TimeoutsOfMembers /\ [Next]_vars => TimeoutsOfMembers'
  <2> SUFFICES ASSUME TypeOK, TimeoutsOfMembers, [Next]_vars PROVE TimeoutsOfMembers'
    OBVIOUS
  <2> DEFINE Types == /\ members \in [Server -> SUBSET Account]
                      /\ timedOut \in [Server -> SUBSET Account]
  <2>0. Types
    BY DEF TypeOK
  <2>1. ASSUME NEW r \in Request, RemoveMember(r) PROVE TimeoutsOfMembers'
    BY <2>0, <2>1 DEF RemoveMember
  <2>2. ASSUME NEW r \in Request, TimeoutMember(r) PROVE TimeoutsOfMembers'
    BY <2>0, <2>2 DEF TimeoutMember
  <2>3. ASSUME NEW a \in Account, NEW s \in Server, Rejoin(a, s) \/ EndTimeout(a, s)
        PROVE  TimeoutsOfMembers'
    BY <2>0, <2>3 DEF Rejoin, EndTimeout
  <2>4. ASSUME UNCHANGED <<members, timedOut>> PROVE TimeoutsOfMembers'
    BY <2>4
  <2>5. \A r \in Request :
          CheckUntil(r) \/ FindCall(r) \/ ConfirmServer(r) \/ ConfirmFails(r)
          \/ LeaveFromChannel(r) \/ AnnounceEviction(r) \/ BreakOff(r) => UNCHANGED <<members, timedOut>>
    BY DEF CheckUntil, FindCall, ConfirmServer, ConfirmFails, LeaveFromChannel,
           AnnounceEviction, BreakOff, dbVars
  <2>6. \A h \in Conn :
          \/ Register(h) \/ PublishOnline(h)
          \/ \E c \in Channel : AuthorizeJoin(h, c)
          \/ LeaveFirst(h) \/ Enter(h) \/ AnnounceJoin(h) \/ HangUp(h)
          \/ AnnounceLeave(h) \/ Close(h) \/ Deregister(h) \/ PublishOffline(h)
          => UNCHANGED <<members, timedOut>>
    BY DEF Register, PublishOnline, AuthorizeJoin, LeaveFirst, Enter, AnnounceJoin,
           HangUp, AnnounceLeave, Close, Deregister, PublishOffline, dbVars
  <2>7. (\E c \in Channel : DeleteChannel(c))
        \/ (\E a \in Account, c \in Restrictable : ChangeView(a, c)) \/ UNCHANGED vars
          => UNCHANGED <<members, timedOut>>
    BY DEF DeleteChannel, ChangeView, vars, dbVars
  <2>8. QED
    BY <2>1, <2>2, <2>3, <2>4, <2>5, <2>6, <2>7, NextCases
<1>3. QED
  BY <1>1, <1>2, TypeCorrect, PTL DEF Spec

\* A step that puts nobody in a call, and changes neither rights nor requests,
\* owes what was owed.
LEMMA LeavingKeepsOwed ==
  ASSUME SurvivorsOwed, UNCHANGED <<requestVars, members, timedOut, raced>>,
         live' \subseteq live,
         \A c \in Channel, a \in Account :
           voice'[c][a] = voice[c][a] \/ voice'[c][a] = NoConn,
         live \subseteq Channel
  PROVE  SurvivorsOwed'
<1> SUFFICES ASSUME NEW c \in live', NEW a \in Account, InCall(a, c)', ~InGoodStanding(a, ServerOf[c])'
             PROVE  Excused(a, c)' \/ \E r \in Request : Owes(r, a, c)'
  BY DEF SurvivorsOwed
<1>1. c \in live /\ c \in Channel /\ InCall(a, c) /\ ~InGoodStanding(a, ServerOf[c])
  BY DEF InCall, InGoodStanding
<1>2. Excused(a, c) \/ \E r \in Request : Owes(r, a, c)
  BY <1>1 DEF SurvivorsOwed
<1>3. \A r \in Request : Owes(r, a, c) => Owes(r, a, c)'
  BY DEF Owes, requestVars
<1>4. QED
  BY <1>2, <1>3 DEF Excused, requestVars

\* A step that moves request r alone, and leaves it owing what it owed
\* or known to be broken off.
LEMMA RequestKeepsOwed ==
  ASSUME SurvivorsOwed, NEW r \in Request, UNCHANGED <<voice, members, timedOut, live, raced>>,
         brokenOff \subseteq brokenOff',
         \A q \in Request : q # r => stage'[q] = stage[q] /\ found'[q] = found[q],
         \A c \in live, a \in Account :
           InCall(a, c) /\ Owes(r, a, c) =>
             Owes(r, a, c)' \/ <<a, ServerOf[c]>> \in brokenOff'
  PROVE  SurvivorsOwed'
<1> SUFFICES ASSUME NEW c \in live', NEW a \in Account, InCall(a, c)', ~InGoodStanding(a, ServerOf[c])'
             PROVE  Excused(a, c)' \/ \E q \in Request : Owes(q, a, c)'
  BY DEF SurvivorsOwed
<1>1. c \in live /\ InCall(a, c) /\ ~InGoodStanding(a, ServerOf[c])
  BY DEF InCall, InGoodStanding
<1>2. Excused(a, c) \/ \E q \in Request : Owes(q, a, c)
  BY <1>1 DEF SurvivorsOwed
<1>3. \A q \in Request :
        Owes(q, a, c) => Owes(q, a, c)' \/ <<a, ServerOf[c]>> \in brokenOff'
  <2> SUFFICES ASSUME NEW q \in Request, Owes(q, a, c)
               PROVE  Owes(q, a, c)' \/ <<a, ServerOf[c]>> \in brokenOff'
    OBVIOUS
  <2>1. CASE q = r
    BY <1>1, <2>1
  <2>2. CASE q # r
    BY <2>2 DEF Owes
  <2>3. QED
    BY <2>1, <2>2
<1>4. QED
  BY <1>2, <1>3 DEF Excused, requestVars

\* Entering a call: the one who enters may, or is marked as raced.
LEMMA EnterKeepsOwed ==
  ASSUME TypeOK, SurvivorsOwed, NEW h \in Conn, Enter(h)
  PROVE  SurvivorsOwed'
<1> USE ConstantsAssumption
<1> DEFINE o == Owner[h]  d == joining[h]
<1>1. /\ o \in Account /\ d \in Channel
      /\ voice' = [voice EXCEPT ![d][o] = h]
      /\ raced' = IF InGoodStanding(o, ServerOf[d]) THEN raced \ {<<o, d>>} ELSE raced \cup {<<o, d>>}
      /\ UNCHANGED <<stage, found, brokenOff, members, timedOut, live>>
  BY DEF Enter, requestVars, dbVars, TypeOK
<1>2. SUFFICES ASSUME NEW c \in live', NEW a \in Account, InCall(a, c)', ~InGoodStanding(a, ServerOf[c])'
               PROVE  Excused(a, c)' \/ \E r \in Request : Owes(r, a, c)'
  BY DEF SurvivorsOwed
<1>3. c \in live /\ c \in Channel /\ ~InGoodStanding(a, ServerOf[c])
  BY <1>1, <1>2 DEF InGoodStanding, TypeOK
<1>4. CASE a = o /\ c = d
  BY <1>1, <1>3, <1>4 DEF Excused
<1>5. CASE ~(a = o /\ c = d)
  <2>1. InCall(a, c)
    BY <1>1, <1>2, <1>3, <1>5 DEF InCall, TypeOK
  <2>2. Excused(a, c) \/ \E r \in Request : Owes(r, a, c)
    BY <1>3, <2>1 DEF SurvivorsOwed
  <2>3. <<a, c>> # <<o, d>>
    BY <1>5
  <2>4. \A r \in Request : Owes(r, a, c) => Owes(r, a, c)'
    BY <1>1 DEF Owes
  <2>5. QED
    BY <1>1, <2>2, <2>3, <2>4 DEF Excused
<1>6. QED
  BY <1>4, <1>5

\* A request that takes a right away owes the eviction from then on.
LEMMA ModerationKeepsOwed ==
  ASSUME TypeOK, SurvivorsOwed, NEW r \in Request, RemoveMember(r) \/ TimeoutMember(r)
  PROVE  SurvivorsOwed'
<1> USE ConstantsAssumption
<1> DEFINE t == Target[r]  s == Scope[r]
<1>1. /\ t \in Account /\ s \in Server /\ stage[r] \in {"idle", "done"}
      /\ UNCHANGED <<voice, found, live, raced>>
      /\ brokenOff' = brokenOff \ {<<t, s>>}
      /\ \/ /\ stage' = [stage EXCEPT ![r] = "evicting"]
            /\ timedOut' = [timedOut EXCEPT ![s] = @ \ {t}]
            /\ members' = [members EXCEPT ![s] = @ \ {t}]
         \/ /\ stage' = [stage EXCEPT ![r] = "silenced"]
            /\ timedOut' = [timedOut EXCEPT ![s] = @ \cup {t}]
            /\ members' = members
  BY DEF RemoveMember, TimeoutMember, hubVars
<1>2. SUFFICES ASSUME NEW c \in live', NEW a \in Account, InCall(a, c)', ~InGoodStanding(a, ServerOf[c])'
               PROVE  Excused(a, c)' \/ \E q \in Request : Owes(q, a, c)'
  BY DEF SurvivorsOwed
<1>3. c \in live /\ c \in Channel /\ ServerOf[c] \in Server /\ InCall(a, c)
  BY <1>1, <1>2 DEF InCall, TypeOK
<1>4. CASE a = t /\ ServerOf[c] = s
  BY <1>1, <1>4 DEF Owes, TypeOK
<1>5. CASE ~(a = t /\ ServerOf[c] = s)
  <2>1. /\ a \in members'[ServerOf[c]] <=> a \in members[ServerOf[c]]
        /\ a \in timedOut'[ServerOf[c]] <=> a \in timedOut[ServerOf[c]]
    BY <1>1, <1>3, <1>5 DEF TypeOK
  <2>2. ~InGoodStanding(a, ServerOf[c])
    BY <1>1, <1>2, <2>1 DEF InGoodStanding
  <2>3. Excused(a, c) \/ \E q \in Request : Owes(q, a, c)
    BY <1>3, <2>2 DEF SurvivorsOwed
  <2>4. ASSUME NEW q \in Request, Owes(q, a, c) PROVE Owes(q, a, c)'
    <3>1. q # r
      BY <1>1, <2>4 DEF Owes
    <3>2. stage'[q] = stage[q]
      BY <1>1, <3>1 DEF TypeOK
    <3>3. QED
      BY <1>1, <2>1, <2>4, <3>2 DEF Owes
  <2>5. QED
    BY <1>1, <1>5, <2>3, <2>4 DEF Excused
<1>6. QED
  BY <1>4, <1>5

\* Whoever gets a right back owes it to nobody, and what others owe stays owed.
LEMMA RightsKeepOwed ==
  ASSUME TypeOK, TimeoutsOfMembers, SurvivorsOwed, NEW b \in Account, NEW s \in Server,
         Rejoin(b, s) \/ EndTimeout(b, s)
  PROVE  SurvivorsOwed'
<1> USE ConstantsAssumption
<1>1. /\ UNCHANGED <<voice, stage, found, brokenOff, live, raced>>
      /\ \/ /\ members' = [members EXCEPT ![s] = @ \cup {b}]
            /\ timedOut' = timedOut
         \/ /\ b \in members[s]
            /\ timedOut' = [timedOut EXCEPT ![s] = @ \ {b}]
            /\ members' = members
  BY DEF Rejoin, EndTimeout, TimeoutsOfMembers, hubVars, requestVars
<1>2. SUFFICES ASSUME NEW c \in live', NEW a \in Account, InCall(a, c)', ~InGoodStanding(a, ServerOf[c])'
               PROVE  Excused(a, c)' \/ \E q \in Request : Owes(q, a, c)'
  BY DEF SurvivorsOwed
<1>3. c \in live /\ ServerOf[c] \in Server /\ InCall(a, c)
  BY <1>1, <1>2 DEF InCall, TypeOK
<1>4. ~InGoodStanding(a, ServerOf[c]) /\ (a \in timedOut[ServerOf[c]] => a \in timedOut'[ServerOf[c]])
  <2> DEFINE Types == /\ members \in [Server -> SUBSET Account]
                      /\ timedOut \in [Server -> SUBSET Account]
  <2>1. Types
    BY DEF TypeOK
  <2>2. a \notin members'[ServerOf[c]] \/ a \in timedOut'[ServerOf[c]]
    BY <1>2 DEF InGoodStanding
  <2>3. CASE members' = [members EXCEPT ![s] = @ \cup {b}] /\ timedOut' = timedOut
    BY <2>1, <2>2, <2>3, <1>3 DEF InGoodStanding
  <2>4. CASE /\ b \in members[s] /\ members' = members
             /\ timedOut' = [timedOut EXCEPT ![s] = @ \ {b}]
    <3>1. a \notin members[ServerOf[c]] => a \notin timedOut[ServerOf[c]]
      BY <1>3 DEF TimeoutsOfMembers
    <3>2. CASE a = b /\ ServerOf[c] = s
      BY <2>1, <2>2, <2>4, <3>2, <1>3
    <3>3. CASE ~(a = b /\ ServerOf[c] = s)
      <4>1. a \in timedOut'[ServerOf[c]] <=> a \in timedOut[ServerOf[c]]
        BY <2>1, <2>4, <3>3, <1>3
      <4>2. QED
        BY <2>2, <2>4, <4>1 DEF InGoodStanding
    <3>4. QED
      BY <3>2, <3>3
  <2>5. QED
    BY <1>1, <2>3, <2>4
<1>5. Excused(a, c) \/ \E q \in Request : Owes(q, a, c)
  BY <1>3, <1>4 DEF SurvivorsOwed
<1>6. \A q \in Request : Owes(q, a, c) => Owes(q, a, c)'
  BY <1>1, <1>4 DEF Owes
<1>7. QED
  BY <1>1, <1>5, <1>6 DEF Excused

\* A request gives up what it owes only with the account out of the call: with
\* one call per account, the call it finds is the one it owes.
LEMMA EvictionKeepsOwed ==
  ASSUME TypeOK, OneTabInv, SurvivorsOwed, NEW r \in Request,
         EvictionStep(r) \/ BreakOff(r)
  PROVE  SurvivorsOwed'
<1> USE ConstantsAssumption
<1> DEFINE Types == /\ stage \in [Request -> RequestState]
                    /\ found \in [Request -> Channel \cup {NoChannel}]
                    /\ live \subseteq Channel
<1>0. Types
  BY DEF TypeOK
<1>1. CASE CheckUntil(r)
  <2>1. \A c \in live, a \in Account : Owes(r, a, c) => Owes(r, a, c)'
    BY <1>0, <1>1 DEF CheckUntil, Owes, dbVars
  <2>2. QED
    BY <1>0, <1>1, <2>1, RequestKeepsOwed DEF CheckUntil, hubVars, dbVars
<1>2. CASE FindCall(r)
  <2>1. /\ stage[r] = "evicting"
        /\ UNCHANGED <<voice, brokenOff, members, timedOut, live, raced>>
    BY <1>2 DEF FindCall, hubVars, dbVars
  <2>2. CASE /\ Held(Target[r], Conn) = {}
             /\ stage' = [stage EXCEPT ![r] = "done"] /\ UNCHANGED found
    <3>1. \A c \in live : ~InCall(Target[r], c)
      BY <2>2 DEF Held, InCall, TypeOK
    <3>2. \A c \in live, a \in Account : InCall(a, c) /\ Owes(r, a, c) => Owes(r, a, c)'
      BY <3>1 DEF Owes
    <3>3. QED
      BY <1>0, <2>1, <2>2, <3>2, RequestKeepsOwed
  <2>3. ASSUME NEW d \in Held(Target[r], Conn), stage' = [stage EXCEPT ![r] = "found"],
               found' = [found EXCEPT ![r] = d]
        PROVE  SurvivorsOwed'
    <3>1. d \in Channel /\ InCall(Target[r], d) /\ Target[r] \in Account
      BY DEF Held, InCall
    <3>2. \A c \in live : InCall(Target[r], c) => c = d
      BY <1>0, <3>1 DEF OneTabInv, OneCall
    <3>3. stage'[r] = "found" /\ found'[r] = d
      BY <1>0, <2>3
    <3>4. \A c \in live, a \in Account : InCall(a, c) /\ Owes(r, a, c) => Owes(r, a, c)'
      BY <2>1, <3>2, <3>3 DEF Owes
    <3>5. QED
      BY <1>0, <2>1, <2>3, <3>4, RequestKeepsOwed
  <2>4. QED
    BY <1>2, <2>2, <2>3 DEF FindCall
<1>3. CASE ConfirmServer(r) \/ ConfirmFails(r)
  <2>1. \A c \in live, a \in Account : Owes(r, a, c) => Owes(r, a, c)'
    BY <1>0, <1>3 DEF ConfirmServer, ConfirmFails, Owes, dbVars
  <2>2. QED
    BY <1>0, <1>3, <2>1, RequestKeepsOwed DEF ConfirmServer, ConfirmFails, hubVars, dbVars
<1>4. CASE LeaveFromChannel(r)
  <2>1. /\ voice' = [voice EXCEPT ![found[r]][Target[r]] = NoConn]
        /\ stage[r] \in {"confirmed", "unconfirmed"}
        /\ UNCHANGED <<found, brokenOff, members, timedOut, live, raced>>
        /\ \A q \in Request : q # r => stage'[q] = stage[q]
    BY <1>0, <1>4 DEF LeaveFromChannel, dbVars
  <2>2. SUFFICES ASSUME NEW c \in live', NEW a \in Account, InCall(a, c)', ~InGoodStanding(a, ServerOf[c])'
                 PROVE  Excused(a, c)' \/ \E q \in Request : Owes(q, a, c)'
    BY DEF SurvivorsOwed
  <2>3. c \in live /\ InCall(a, c) /\ ~(a = Target[r] /\ c = found[r]) /\ ~InGoodStanding(a, ServerOf[c])
    BY <2>1, <2>2 DEF InCall, InGoodStanding, TypeOK
  <2>4. Excused(a, c) \/ \E q \in Request : Owes(q, a, c)
    BY <2>3 DEF SurvivorsOwed
  <2>5. \A q \in Request : Owes(q, a, c) => q # r
    BY <2>1, <2>3 DEF Owes
  <2>6. \A q \in Request : Owes(q, a, c) => Owes(q, a, c)'
    BY <2>1, <2>5 DEF Owes
  <2>7. QED
    BY <2>1, <2>4, <2>6 DEF Excused
<1>5. CASE AnnounceEviction(r)
  <2>1. \A c \in live, a \in Account : Owes(r, a, c) => Owes(r, a, c)'
    BY <1>5 DEF AnnounceEviction, Owes
  <2>2. QED
    BY <1>0, <1>5, <2>1, RequestKeepsOwed DEF AnnounceEviction, hubVars, dbVars
<1>6. CASE BreakOff(r)
  <2>1. \A c \in live, a \in Account :
          Owes(r, a, c) => <<a, ServerOf[c]>> \in brokenOff'
    BY <1>6 DEF BreakOff, Owes
  <2>2. QED
    BY <1>0, <1>6, <2>1, RequestKeepsOwed DEF BreakOff, hubVars, dbVars
<1>7. QED
  BY <1>1, <1>2, <1>3, <1>4, <1>5, <1>6 DEF EvictionStep

\* While every account keeps to one socket, whoever is in a call without the
\* right to it has raced, or had its eviction broken off, or a request has still
\* to take it out.
THEOREM SurvivorsOwedCorrect == ASSUME ~ManyTabs PROVE Spec => []SurvivorsOwed
<1> USE ConstantsAssumption
<1>1. Init => SurvivorsOwed
  BY DEF Init, SurvivorsOwed, InCall
<1>2. TypeOK /\ TimeoutsOfMembers /\ OneTabInv /\ SurvivorsOwed /\ [Next]_vars
        => SurvivorsOwed'
  <2> SUFFICES ASSUME TypeOK, TimeoutsOfMembers, OneTabInv, SurvivorsOwed, [Next]_vars
               PROVE  SurvivorsOwed'
    OBVIOUS
  <2>0. live \subseteq Channel
    BY DEF TypeOK
  <2>1. ASSUME UNCHANGED <<voice, requestVars, dbVars, raced>> PROVE SurvivorsOwed'
    BY <2>0, <2>1, LeavingKeepsOwed DEF dbVars
  <2>2. ASSUME NEW h \in Conn,
               \/ Register(h) \/ PublishOnline(h)
               \/ \E c \in Channel : AuthorizeJoin(h, c)
               \/ AnnounceJoin(h) \/ AnnounceLeave(h) \/ Deregister(h) \/ PublishOffline(h)
        PROVE  SurvivorsOwed'
    BY <2>1, <2>2 DEF Register, PublishOnline, AuthorizeJoin, AnnounceJoin, AnnounceLeave,
                      Deregister, PublishOffline, hubVars
  <2>3. ASSUME NEW h \in Conn, LeaveFirst(h) \/ HangUp(h) \/ Close(h) PROVE SurvivorsOwed'
    <3>1. \E hs \in SUBSET Conn, next \in TaskState : VoiceLeave(h, hs, next)
      <4>1. LeaveFirst(h) => VoiceLeave(h, Conn, "moving")
        BY DEF LeaveFirst
      <4>2. HangUp(h) => VoiceLeave(h, Conn, "hung_up")
        BY DEF HangUp
      <4>3. Close(h) => VoiceLeave(h, {h}, "closing")
        BY DEF Close
      <4>4. QED
        BY <2>3, <4>1, <4>2, <4>3 DEF TaskState
    <3>2. \A c \in Channel, a \in Account :
            voice'[c][a] = voice[c][a] \/ voice'[c][a] = NoConn
      BY <3>1, VoiceLeaveEffect
    <3>3. UNCHANGED <<requestVars, dbVars, raced>>
      BY <2>3 DEF LeaveFirst, HangUp, Close
    <3>4. QED
      BY <2>0, <3>2, <3>3, LeavingKeepsOwed DEF dbVars
  <2>4. ASSUME NEW h \in Conn, Enter(h) PROVE SurvivorsOwed'
    BY <2>4, EnterKeepsOwed
  <2>5. ASSUME NEW r \in Request, RemoveMember(r) \/ TimeoutMember(r) PROVE SurvivorsOwed'
    BY <2>5, ModerationKeepsOwed
  <2>6. ASSUME NEW r \in Request, EvictionStep(r) \/ BreakOff(r) PROVE SurvivorsOwed'
    BY <2>6, EvictionKeepsOwed
  <2>7. ASSUME NEW a \in Account, NEW s \in Server, Rejoin(a, s) \/ EndTimeout(a, s)
        PROVE  SurvivorsOwed'
    BY <2>7, RightsKeepOwed
  <2>8. ASSUME NEW c \in Channel, DeleteChannel(c) PROVE SurvivorsOwed'
    BY <2>0, <2>8, LeavingKeepsOwed DEF DeleteChannel, hubVars
  <2>8a. ASSUME NEW a \in Account, NEW c \in Restrictable, ChangeView(a, c)
         PROVE  SurvivorsOwed'
    BY <2>0, <2>8a, LeavingKeepsOwed DEF ChangeView, hubVars
  <2>9. CASE UNCHANGED vars
    BY <2>1, <2>9 DEF vars, hubVars
  <2>10. QED
    BY <2>2, <2>3, <2>4, <2>5, <2>6, <2>7, <2>8, <2>8a, <2>9, NextCases DEF EvictionStep
<1>3. QED
  BY <1>1, <1>2, TypeCorrect, TimeoutsOfMembersCorrect, OneTabCorrect, PTL DEF Spec

\* With one socket per account, a forfeited place in a call outlives the quiet of
\* every request only by a raced join or by an eviction that was dropped: one
\* that ran to its end, its query failed or not, has taken the account out.
THEOREM OnlyRacedSurvive == ASSUME ~ManyTabs PROVE Spec => []OnlyRacedJoinsSurvive
<1>1. SurvivorsOwed => OnlyRacedJoinsSurvive
  BY DEF SurvivorsOwed, OnlyRacedJoinsSurvive, Quiet, Owes, Excused
<1>2. QED
  BY <1>1, SurvivorsOwedCorrect, PTL

-----------------------------------------------------------------------------
(* What an observer is told, as long as no request has started.  Evictions   *)
(* are left out: theirs may overtake the account's own announcements.        *)

AllIdle == \A r \in Request : stage[r] = "idle"

\* A leave not yet announced keeps its task from going on.
LeftInFlight ==
  \A h \in Conn : left[h] # NoChannel => at[h] \in {"moving", "hung_up", "closing"}

\* In the call, and past the announcement of the join.
Settled(a, c) == InCall(a, c) /\ at[voice[c][a]] # "entered"

\* Out of the call, and not past the announcement of the leave.
Leaving(a, c) == \E h \in Conn : Owner[h] = a /\ left[h] = c

EnteredHeld ==
  AllIdle => \A h \in Conn : at[h] = "entered" => voice[joining[h]][Owner[h]] = h

RosterTracks ==
  AllIdle => \A c \in live, a \in Account :
    a \in roster[c] <=> Settled(a, c) \/ Leaving(a, c)

\* While nobody is evicted, what an observer was told is what happened but for
\* the announcements on their way.
ToldInv == LeftInFlight /\ EnteredHeld /\ RosterTracks

\* A socket that waits for its client has announced all it left, and with one
\* socket open nothing else of its account is on its way.
LEMMA NothingLeaving ==
  ASSUME TypeOK, OneTabInv, LeftInFlight, NEW h \in Conn, Open(h), left[h] = NoChannel,
         NEW c \in Channel
  PROVE  ~Leaving(Owner[h], c)
<1> SUFFICES ASSUME NEW k \in Conn, Owner[k] = Owner[h], left[k] = c PROVE FALSE
  BY DEF Leaving
<1>1. left[k] # NoChannel
  BY ConstantsAssumption
<1>2. Open(k)
  BY <1>1 DEF LeftInFlight, Open
<1>3. k = h
  BY <1>2 DEF OneTabInv, OneOpen
<1>4. QED
  BY <1>1, <1>3

\* A task that leaves a call swaps being in it for being about to say so.
LEMMA LeaveKeepsTold ==
  ASSUME TypeOK, OneTabInv, ToldInv, NEW h \in Conn,
         LeaveFirst(h) \/ HangUp(h) \/ Close(h)
  PROVE  ToldInv'
<1> USE ConstantsAssumption
<1> DEFINE o == Owner[h]
<1>1. PICK hs \in SUBSET Conn, next \in {"moving", "hung_up", "closing"} :
        h \in hs /\ VoiceLeave(h, hs, next)
  <2>1. LeaveFirst(h) => VoiceLeave(h, Conn, "moving")
    BY DEF LeaveFirst
  <2>2. HangUp(h) => VoiceLeave(h, Conn, "hung_up")
    BY DEF HangUp
  <2>3. Close(h) => VoiceLeave(h, {h}, "closing")
    BY DEF Close
  <2>4. QED
    BY <2>1, <2>2, <2>3
<1>2. /\ at[h] \in {"ready", "authorized"} /\ Open(h)
      /\ UNCHANGED <<joining, stage, live, roster>>
  BY DEF LeaveFirst, HangUp, Close, Open, requestVars, dbVars, observerVars
<1>3. next \in TaskState /\ o \in Account /\ at' = [at EXCEPT ![h] = next]
  BY <1>1, VoiceLeaveEffect DEF TaskState
<1>4. left[h] = NoChannel
  BY <1>2 DEF ToldInv, LeftInFlight
<1>5. \A c \in Channel : ~InCall(o, c)'
  BY <1>1, <1>2, <1>3, LeaveEndsAll
<1>6. /\ \A c \in Channel, a \in Account : a # o => voice'[c][a] = voice[c][a]
      /\ left' \in [Conn -> Channel \cup {NoChannel}]
  <2>1. /\ left' \in [Conn -> Channel \cup {NoChannel}]
        /\ \A c \in Channel, a \in Account :
             \/ voice'[c][a] = voice[c][a]
             \/ a = o /\ voice[c][a] \in hs /\ voice'[c][a] = NoConn
    BY <1>1, <1>3, VoiceLeaveEffect
  <2>2. QED
    BY <2>1
<1>7. \A k \in Conn : k # h => left'[k] = left[k]
  BY <1>1 DEF VoiceLeave, TypeOK
<1>8. \A c \in Channel : InCall(o, c) <=> left'[h] = c
  <2>1. \A c \in Channel : InCall(o, c) => voice[c][o] = h
    BY <1>2, HolderIsOpen
  <2>2. CASE Held(o, hs) = {} /\ UNCHANGED left
    BY <1>1, <1>4, <2>1, <2>2 DEF Held
  <2>3. ASSUME NEW d \in Held(o, hs), left' = [left EXCEPT ![h] = d]
        PROVE  \A c \in Channel : InCall(o, c) <=> left'[h] = c
    <3>1. d \in Channel /\ InCall(o, d) /\ left'[h] = d
      BY <2>3 DEF Held, InCall, TypeOK
    <3>2. \A c \in Channel : InCall(o, c) => c = d
      BY <1>3, <3>1 DEF OneTabInv, OneCall
    <3>3. QED
      BY <3>1, <3>2
  <2>4. QED
    BY <1>1, <2>2, <2>3 DEF VoiceLeave
<1>9. LeftInFlight'
  BY <1>3, <1>7 DEF ToldInv, LeftInFlight, TypeOK
<1>10. EnteredHeld'
  <2> SUFFICES ASSUME AllIdle', NEW k \in Conn, at'[k] = "entered"
               PROVE  voice'[joining'[k]][Owner[k]] = k
    BY DEF EnteredHeld
  <2>1. k # h /\ at[k] = "entered" /\ AllIdle
    BY <1>2, <1>3 DEF AllIdle, TypeOK
  <2>2. Owner[k] # o /\ joining[k] \in Channel /\ Owner[k] \in Account
    BY <1>2, <2>1 DEF OneTabInv, OneOpen, Open, TypeOK
  <2>3. QED
    BY <1>2, <1>6, <2>1, <2>2 DEF ToldInv, EnteredHeld
<1>11. RosterTracks'
  <2> SUFFICES ASSUME AllIdle', NEW c \in live', NEW a \in Account
               PROVE  a \in roster'[c] <=> Settled(a, c)' \/ Leaving(a, c)'
    BY DEF RosterTracks
  <2>1. c \in live /\ c \in Channel /\ AllIdle
    BY <1>2 DEF AllIdle, TypeOK
  <2>2. a \in roster'[c] <=> Settled(a, c) \/ Leaving(a, c)
    BY <1>2, <2>1 DEF ToldInv, RosterTracks
  <2>3. CASE a = o
    <3>1. ~Leaving(a, c)
      BY <1>2, <1>4, <2>1, <2>3, NothingLeaving DEF ToldInv
    <3>2. Settled(a, c) <=> InCall(a, c)
      BY <1>2, <2>1, <2>3, HolderIsOpen DEF Settled
    <3>3. Leaving(a, c)' <=> left'[h] = c
      BY <1>7, <2>3, <3>1 DEF Leaving
    <3>4. ~Settled(a, c)'
      BY <1>5, <2>1, <2>3 DEF Settled
    <3>5. QED
      BY <1>8, <2>1, <2>2, <2>3, <3>1, <3>2, <3>3, <3>4
  <2>4. CASE a # o
    <3>1. Leaving(a, c)' <=> Leaving(a, c)
      BY <1>7, <2>4 DEF Leaving
    <3>2. voice'[c][a] = voice[c][a]
      BY <1>6, <2>1, <2>4
    <3>3. InCall(a, c) => Owner[voice[c][a]] = a /\ voice[c][a] \in Conn
      BY <2>1 DEF InCall, OneTabInv, HeldByIdle, TypeOK
    <3>4. InCall(a, c) => at'[voice[c][a]] = at[voice[c][a]]
      BY <1>3, <2>4, <3>3 DEF TypeOK
    <3>5. Settled(a, c)' <=> Settled(a, c)
      BY <3>2, <3>4 DEF Settled, InCall
    <3>6. QED
      BY <2>2, <3>1, <3>5
  <2>5. QED
    BY <2>3, <2>4
<1>12. QED
  BY <1>9, <1>10, <1>11 DEF ToldInv

\* A step of one task that changes neither calls nor what is told of them, and
\* is not the announcement of a join.
LEMMA MoveKeepsTold ==
  ASSUME TypeOK, ToldInv, NEW h \in Conn, NEW next \in TaskState,
         at' = [at EXCEPT ![h] = next], UNCHANGED <<voice, left, stage, live, roster>>,
         \A k \in Conn : k # h => joining'[k] = joining[k],
         left[h] = NoChannel, at[h] # "entered", next # "entered"
  PROVE  ToldInv'
<1> USE ConstantsAssumption
<1>1. LeftInFlight'
  BY DEF ToldInv, LeftInFlight, TypeOK
<1>2. AllIdle' <=> AllIdle
  BY DEF AllIdle
<1>3. \A k \in Conn : at'[k] = "entered" <=> at[k] = "entered"
  BY DEF TypeOK
<1>4. EnteredHeld'
  BY <1>2, <1>3 DEF ToldInv, EnteredHeld
<1>5. ASSUME NEW c \in Channel, NEW a \in Account
      PROVE  (Settled(a, c)' <=> Settled(a, c)) /\ (Leaving(a, c)' <=> Leaving(a, c))
  BY <1>3 DEF Settled, InCall, Leaving, TypeOK
<1>6. RosterTracks'
  BY <1>2, <1>5 DEF ToldInv, RosterTracks, TypeOK
<1>7. QED
  BY <1>1, <1>4, <1>6 DEF ToldInv

\* A task that enters a call is not in it for the observers until it says so.
LEMMA EnterKeepsTold ==
  ASSUME TypeOK, OneTabInv, ToldInv, NEW h \in Conn, Enter(h)
  PROVE  ToldInv'
<1> USE ConstantsAssumption
<1> DEFINE o == Owner[h]  d == joining[h]
<1>1. /\ at[h] = "moving" /\ left[h] = NoChannel /\ d \in Channel /\ o \in Account /\ Open(h)
      /\ voice' = [voice EXCEPT ![d][o] = h]
      /\ at' = [at EXCEPT ![h] = "entered"]
      /\ UNCHANGED <<joining, left, stage, live, roster>>
  BY DEF Enter, Open, TypeOK, requestVars, dbVars, observerVars
<1>2. \A c \in Channel : ~InCall(o, c)
  <2> SUFFICES ASSUME NEW c \in Channel, InCall(o, c) PROVE FALSE
    OBVIOUS
  <2>1. voice[c][o] = h
    BY <1>1, HolderIsOpen
  <2>2. at[h] \in {"ready", "authorized", "entered"}
    BY <1>1, <2>1 DEF OneTabInv, HeldByIdle
  <2>3. QED
    BY <1>1, <2>2
<1>3. AllIdle' <=> AllIdle
  BY <1>1 DEF AllIdle
<1>4. LeftInFlight'
  BY <1>1 DEF ToldInv, LeftInFlight, TypeOK
<1>5. EnteredHeld'
  <2> SUFFICES ASSUME AllIdle, NEW k \in Conn, at'[k] = "entered"
               PROVE  voice'[joining[k]][Owner[k]] = k
    BY <1>1, <1>3 DEF EnteredHeld
  <2>1. CASE k = h
    BY <1>1, <2>1 DEF TypeOK
  <2>2. CASE k # h
    <3>1. at[k] = "entered" /\ joining[k] \in Channel /\ Owner[k] \in Account
      BY <1>1, <2>2 DEF TypeOK
    <3>2. Owner[k] # o
      BY <1>1, <2>2, <3>1 DEF OneTabInv, OneOpen, Open
    <3>3. voice[joining[k]][Owner[k]] = k
      BY <3>1 DEF ToldInv, EnteredHeld
    <3>4. QED
      BY <1>1, <3>1, <3>2, <3>3 DEF TypeOK
  <2>3. QED
    BY <2>1, <2>2
<1>6. RosterTracks'
  <2> SUFFICES ASSUME AllIdle, NEW c \in live, NEW a \in Account
               PROVE  a \in roster[c] <=> Settled(a, c)' \/ Leaving(a, c)'
    BY <1>1, <1>3 DEF RosterTracks
  <2>1. c \in Channel /\ (a \in roster[c] <=> Settled(a, c) \/ Leaving(a, c))
    BY DEF ToldInv, RosterTracks, TypeOK
  <2>2. Leaving(a, c)' <=> Leaving(a, c)
    BY <1>1 DEF Leaving
  <2>3. CASE a = o
    <3>1. ~Settled(a, c)
      BY <1>2, <2>1, <2>3 DEF Settled
    <3>2. voice'[c][o] \in {h, NoConn}
      BY <1>1, <1>2, <2>1 DEF InCall, TypeOK
    <3>3. ~Settled(a, c)'
      BY <1>1, <2>3, <3>2 DEF Settled, InCall, TypeOK
    <3>4. QED
      BY <2>1, <2>2, <3>1, <3>3
  <2>4. CASE a # o
    <3>1. voice'[c][a] = voice[c][a]
      BY <1>1, <2>1, <2>4 DEF TypeOK
    <3>2. InCall(a, c) => Owner[voice[c][a]] = a /\ voice[c][a] \in Conn
      BY <2>1 DEF InCall, OneTabInv, HeldByIdle, TypeOK
    <3>3. InCall(a, c) => at'[voice[c][a]] = at[voice[c][a]]
      BY <1>1, <2>4, <3>2 DEF TypeOK
    <3>4. Settled(a, c)' <=> Settled(a, c)
      BY <3>1, <3>3 DEF Settled, InCall
    <3>5. QED
      BY <2>1, <2>2, <3>4
  <2>5. QED
    BY <2>3, <2>4
<1>7. QED
  BY <1>4, <1>5, <1>6 DEF ToldInv

\* The join is announced by the task that holds the place: nobody has taken it.
LEMMA JoinKeepsTold ==
  ASSUME TypeOK, OneTabInv, ToldInv, NEW h \in Conn, AnnounceJoin(h)
  PROVE  ToldInv'
<1> USE ConstantsAssumption
<1> DEFINE o == Owner[h]  d == joining[h]
<1>1. /\ at[h] = "entered" /\ Open(h) /\ d \in Channel /\ o \in Account
      /\ at' = [at EXCEPT ![h] = "ready"]
      /\ joining' = [joining EXCEPT ![h] = NoChannel]
      /\ UNCHANGED <<voice, left, stage, live>>
      /\ roster' = IF d \in live THEN [roster EXCEPT ![d] = roster[d] \cup {o}] ELSE roster
  BY DEF AnnounceJoin, Announce, Open, TypeOK, hubVars, requestVars, dbVars
<1>2. AllIdle' <=> AllIdle
  BY <1>1 DEF AllIdle
<1>3. LeftInFlight'
  BY <1>1 DEF ToldInv, LeftInFlight, TypeOK
<1>4. EnteredHeld'
  BY <1>1, <1>2 DEF ToldInv, EnteredHeld, TypeOK
<1>5. RosterTracks'
  <2> SUFFICES ASSUME AllIdle, NEW c \in live, NEW a \in Account
               PROVE  a \in roster'[c] <=> Settled(a, c)' \/ Leaving(a, c)'
    BY <1>1, <1>2 DEF RosterTracks
  <2>1. c \in Channel /\ (a \in roster[c] <=> Settled(a, c) \/ Leaving(a, c))
    BY DEF ToldInv, RosterTracks, TypeOK
  <2>2. Leaving(a, c)' <=> Leaving(a, c)
    BY <1>1 DEF Leaving
  <2>3. voice[d][o] = h
    BY <1>1 DEF ToldInv, EnteredHeld
  <2>4. CASE a = o
    <3>1. InCall(o, c) <=> c = d
      BY <1>1, <2>1, <2>3 DEF InCall, OneTabInv, OneCall
    <3>2. Settled(a, c)' <=> c = d
      BY <1>1, <2>3, <2>4, <3>1 DEF Settled, InCall, TypeOK
    <3>3. CASE c = d
      BY <1>1, <2>4, <3>2, <3>3 DEF TypeOK
    <3>4. CASE c # d
      <4>1. ~Settled(a, c) /\ roster'[c] = roster[c]
        BY <1>1, <2>1, <2>4, <3>1, <3>4 DEF Settled, TypeOK
      <4>2. QED
        BY <2>1, <2>2, <3>2, <3>4, <4>1
    <3>5. QED
      BY <3>3, <3>4
  <2>5. CASE a # o
    <3>1. a \in roster'[c] <=> a \in roster[c]
      BY <1>1, <2>1, <2>5 DEF TypeOK
    <3>2. InCall(a, c) => Owner[voice[c][a]] = a /\ voice[c][a] \in Conn
      BY <2>1 DEF InCall, OneTabInv, HeldByIdle, TypeOK
    <3>3. InCall(a, c) => at'[voice[c][a]] = at[voice[c][a]]
      BY <1>1, <2>5, <3>2 DEF TypeOK
    <3>4. Settled(a, c)' <=> Settled(a, c)
      BY <1>1, <3>3 DEF Settled, InCall
    <3>5. QED
      BY <2>1, <2>2, <3>1, <3>4
  <2>6. QED
    BY <2>4, <2>5
<1>6. QED
  BY <1>3, <1>4, <1>5 DEF ToldInv

\* The leave is announced before the task goes on to another call.
LEMMA AnnouncedLeaveKeepsTold ==
  ASSUME TypeOK, OneTabInv, ToldInv, NEW h \in Conn, AnnounceLeave(h)
  PROVE  ToldInv'
<1> USE ConstantsAssumption
<1> DEFINE o == Owner[h]  d == left[h]
<1>1. /\ d \in Channel /\ o \in Account
      /\ at[h] \in {"moving", "hung_up", "closing"} /\ Open(h)
      /\ left' = [left EXCEPT ![h] = NoChannel]
      /\ at' = [at EXCEPT ![h] = IF @ = "hung_up" THEN "ready" ELSE @]
      /\ UNCHANGED <<voice, joining, stage, live>>
      /\ roster' = IF d \in live THEN [roster EXCEPT ![d] = roster[d] \ {o}] ELSE roster
  BY DEF AnnounceLeave, Announce, ToldInv, LeftInFlight, Open, TypeOK, hubVars, requestVars,
         dbVars
<1>2. AllIdle' <=> AllIdle
  BY <1>1 DEF AllIdle
<1>3. LeftInFlight'
  BY <1>1 DEF ToldInv, LeftInFlight, TypeOK
<1>4. \A k \in Conn : at'[k] = "entered" <=> at[k] = "entered"
  BY <1>1 DEF TypeOK
<1>5. EnteredHeld'
  BY <1>1, <1>2, <1>4 DEF ToldInv, EnteredHeld
<1>6. RosterTracks'
  <2> SUFFICES ASSUME AllIdle, NEW c \in live, NEW a \in Account
               PROVE  a \in roster'[c] <=> Settled(a, c)' \/ Leaving(a, c)'
    BY <1>1, <1>2 DEF RosterTracks
  <2>1. c \in Channel /\ (a \in roster[c] <=> Settled(a, c) \/ Leaving(a, c))
    BY DEF ToldInv, RosterTracks, TypeOK
  <2>2. Settled(a, c)' <=> Settled(a, c)
    BY <1>1, <1>4, <2>1 DEF Settled, InCall, TypeOK
  <2>3. CASE a = o
    <3>1. ~InCall(o, c)
      <4> SUFFICES ASSUME InCall(o, c) PROVE FALSE
        OBVIOUS
      <4>1. voice[c][o] = h
        BY <1>1, <2>1, HolderIsOpen
      <4>2. at[h] \in {"ready", "authorized", "entered"}
        BY <1>1, <2>1, <4>1 DEF OneTabInv, HeldByIdle
      <4>3. QED
        BY <1>1, <4>2
    <3>2. Leaving(a, c) <=> c = d
      <4>1. ASSUME NEW k \in Conn, Owner[k] = o, left[k] = c PROVE k = h
        <5>1. Open(k)
          BY <2>1, <4>1 DEF ToldInv, LeftInFlight, Open
        <5>2. QED
          BY <1>1, <4>1, <5>1 DEF OneTabInv, OneOpen
      <4>2. QED
        BY <2>3, <4>1 DEF Leaving
    <3>3. ~Leaving(a, c)'
      <4> SUFFICES ASSUME NEW k \in Conn, Owner[k] = o, left'[k] = c PROVE FALSE
        BY <1>1, <2>3 DEF Leaving
      <4>1. k # h /\ left[k] = c
        BY <1>1, <2>1 DEF TypeOK
      <4>2. Open(k)
        BY <2>1, <4>1 DEF ToldInv, LeftInFlight, Open
      <4>3. QED
        BY <1>1, <4>1, <4>2 DEF OneTabInv, OneOpen
    <3>4. a \in roster'[c] <=> a \in roster[c] /\ c # d
      BY <1>1, <2>1, <2>3 DEF TypeOK
    <3>5. QED
      BY <2>1, <2>2, <2>3, <3>1, <3>2, <3>3, <3>4 DEF Settled
  <2>4. CASE a # o
    <3>1. a \in roster'[c] <=> a \in roster[c]
      BY <1>1, <2>1, <2>4 DEF TypeOK
    <3>2. Leaving(a, c)' <=> Leaving(a, c)
      BY <1>1, <2>4 DEF Leaving, TypeOK
    <3>3. QED
      BY <2>1, <2>2, <3>1, <3>2
  <2>5. QED
    BY <2>3, <2>4
<1>7. QED
  BY <1>3, <1>5, <1>6 DEF ToldInv

\* While every account keeps to one socket, observers lag by no more than the
\* announcements on their way.
THEOREM ToldCorrect == ASSUME ~ManyTabs PROVE Spec => []ToldInv
<1> USE ConstantsAssumption
<1>1. Init => ToldInv
  BY DEF Init, ToldInv, LeftInFlight, EnteredHeld, RosterTracks, Settled, Leaving, InCall
<1>2. TypeOK /\ OneTabInv /\ ToldInv /\ [Next]_vars => ToldInv'
  <2> SUFFICES ASSUME TypeOK, OneTabInv, ToldInv, [Next]_vars PROVE ToldInv'
    OBVIOUS
  <2>1. ASSUME NEW h \in Conn,
               Register(h) \/ PublishOnline(h) \/ Deregister(h) \/ PublishOffline(h)
        PROVE  ToldInv'
    <3>1. /\ at[h] \in {"unopened", "going_online", "closing", "going_offline"}
          /\ UNCHANGED <<voice, left, joining, stage, live, roster>>
          /\ at[h] = "closing" => left[h] = NoChannel
      BY <2>1 DEF Register, PublishOnline, Deregister, PublishOffline, hubVars, requestVars,
                  dbVars, observerVars
    <3>2. PICK next \in {"going_online", "ready", "going_offline", "closed"} :
            at' = [at EXCEPT ![h] = next]
      BY <2>1 DEF Register, PublishOnline, Deregister, PublishOffline
    <3>3. left[h] = NoChannel
      BY <3>1 DEF ToldInv, LeftInFlight
    <3>4. next \in TaskState /\ next # "entered" /\ at[h] # "entered"
      BY <3>1 DEF TaskState
    <3>5. QED
      BY <3>1, <3>2, <3>3, <3>4, MoveKeepsTold
  <2>2. ASSUME NEW h \in Conn, NEW c \in Channel, AuthorizeJoin(h, c) PROVE ToldInv'
    <3>1. /\ at[h] = "ready" /\ at' = [at EXCEPT ![h] = "authorized"]
          /\ joining' = [joining EXCEPT ![h] = c]
          /\ UNCHANGED <<voice, left, stage, live, roster>>
      BY <2>2 DEF AuthorizeJoin, hubVars, requestVars, dbVars, observerVars
    <3>2. left[h] = NoChannel
      BY <3>1 DEF ToldInv, LeftInFlight
    <3>3. \A k \in Conn : k # h => joining'[k] = joining[k]
      BY <3>1 DEF TypeOK
    <3>4. QED
      BY <3>1, <3>2, <3>3, MoveKeepsTold DEF TaskState
  <2>3. ASSUME NEW h \in Conn, LeaveFirst(h) \/ HangUp(h) \/ Close(h) PROVE ToldInv'
    BY <2>3, LeaveKeepsTold
  <2>4. ASSUME NEW h \in Conn, Enter(h) PROVE ToldInv'
    BY <2>4, EnterKeepsTold
  <2>5. ASSUME NEW h \in Conn, AnnounceJoin(h) PROVE ToldInv'
    BY <2>5, JoinKeepsTold
  <2>6. ASSUME NEW h \in Conn, AnnounceLeave(h) PROVE ToldInv'
    BY <2>6, AnnouncedLeaveKeepsTold
  <2>7. ASSUME NEW r \in Request, EvictionStep(r) \/ BreakOff(r) \/ ModerationStep(r)
        PROVE  ToldInv'
    <3>1. UNCHANGED <<at, joining, left>>
      BY <2>7 DEF EvictionStep, ModerationStep, RemoveMember, TimeoutMember, CheckUntil,
                  FindCall, ConfirmServer, ConfirmFails, LeaveFromChannel, AnnounceEviction, BreakOff,
                  taskVars
    <3>2. ~AllIdle'
      <4>1. PICK next \in RequestState : stage' = [stage EXCEPT ![r] = next] /\ next # "idle"
        BY <2>7 DEF EvictionStep, ModerationStep, RemoveMember, TimeoutMember, CheckUntil,
                    FindCall, ConfirmServer, ConfirmFails, LeaveFromChannel, AnnounceEviction, BreakOff,
                    RequestState
      <4>2. stage'[r] # "idle"
        BY <4>1 DEF TypeOK
      <4>3. QED
        BY <4>2 DEF AllIdle
    <3>3. QED
      BY <3>1, <3>2 DEF ToldInv, LeftInFlight, EnteredHeld, RosterTracks
  <2>8. ASSUME UNCHANGED <<voice, at, joining, left, stage, roster>>, live' \subseteq live
        PROVE  ToldInv'
    BY <2>8 DEF ToldInv, LeftInFlight, EnteredHeld, RosterTracks, AllIdle, Settled, Leaving,
                InCall
  <2>9. (\E a \in Account, s \in Server : Rejoin(a, s) \/ EndTimeout(a, s))
        \/ (\E c \in Channel : DeleteChannel(c))
        \/ (\E a \in Account, c \in Restrictable : ChangeView(a, c)) \/ UNCHANGED vars
          => /\ UNCHANGED <<voice, at, joining, left, stage, roster>>
             /\ live' \subseteq live
    BY DEF Rejoin, EndTimeout, DeleteChannel, ChangeView, vars, hubVars, taskVars, requestVars, dbVars,
           observerVars
  <2>10. QED
    BY <2>1, <2>2, <2>3, <2>4, <2>5, <2>6, <2>7, <2>8, <2>9, NextCases
       DEF EvictionStep, ModerationStep
<1>3. QED
  BY <1>1, <1>2, TypeCorrect, OneTabCorrect, PTL DEF Spec

\* With one socket per account and nobody evicted, an observer's picture of the
\* calls is right whenever nothing is on its way.
THEOREM ObserversConverge == ASSUME ~ManyTabs PROVE Spec => []ObserverConverges
<1>1. TypeOK /\ ToldInv => ObserverConverges
  <2> SUFFICES ASSUME TypeOK, ToldInv, Quiet, AllIdle, NEW c \in live
               PROVE  roster[c] = {a \in Account : InCall(a, c)}
    BY DEF ObserverConverges, AllIdle
  <2>1. c \in Channel /\ roster[c] \subseteq Account
    BY DEF TypeOK
  <2>2. \A h \in Conn : at[h] # "entered" /\ left[h] = NoChannel
    BY DEF Quiet, ToldInv, LeftInFlight
  <2>3. ASSUME NEW a \in Account PROVE a \in roster[c] <=> InCall(a, c)
    <3>1. ~Leaving(a, c)
      BY <2>1, <2>2, ConstantsAssumption DEF Leaving
    <3>2. InCall(a, c) => voice[c][a] \in Conn
      BY <2>1 DEF InCall, TypeOK
    <3>3. Settled(a, c) <=> InCall(a, c)
      BY <2>2, <3>2 DEF Settled
    <3>4. QED
      BY <3>1, <3>3 DEF ToldInv, RosterTracks
  <2>4. QED
    BY <2>1, <2>3
<1>2. QED
  BY <1>1, TypeCorrect, ToldCorrect, PTL
=============================================================================
