--------------------------- MODULE Channels_proofs ---------------------------
(***************************************************************************)
(* Theorems about Channels, for any channels, members, roles and requests, *)
(* and a pool of any size: the transaction of delete_channel implements    *)
(* the single step of Lifecycle, and what follows from that; and the lists *)
(* of Lists say what could be seen while they were made.                   *)
(***************************************************************************)
EXTENDS Lists, FiniteSetTheorems, SequenceTheorems, TLAPS

-----------------------------------------------------------------------------
(* Types.                                                                    *)

Deleting == {"server_locked", "parent_locked", "target_locked", "admitted", "family_locked"}

\* What a request at stage s may have for its target and its wish.
Fits(s, c, v) ==
  /\ s \in {"deleting", "allowed"} \cup Deleting => c \in created
  /\ s = "parent_locked" => c \in Thread
  /\ s = "allowed" => v \in Override
  /\ s = "opening" => v \in Visibility
  /\ s = "restricting" => c \in Top \cap created
  /\ s = "threading" => c \in Thread
  /\ s = "creating" => c \in Top

Typed == TypeOK /\ \A q \in Request : Fits(stage[q], target[q], wish[q])

LEMMA EmptyOrder == <<>> \in Order
<1>1. Cardinality(Top) \in Nat
  BY FS_CardinalityType, ChannelsAssumption
<1>2. <<>> \in [1..0 -> Top]
  <2>1. <<>> \in Seq(Top) /\ Len(<<>>) = 0
    BY EmptySeq
  <2>2. QED
    BY <2>1, LenProperties
<1>3. <<>> \in UNION {[1..n -> Top] : n \in 0..Cardinality(Top)}
  BY <1>1, <1>2
<1>4. DOMAIN <<>> = {}
  BY <1>2
<1>5. QED
  BY <1>3, <1>4 DEF Order

\* An order is a sequence of channels, each once.
LEMMA OrderSeq ==
  ASSUME NEW s \in Order
  PROVE  /\ s \in Seq(Top) /\ Len(s) \in Nat /\ DOMAIN s = 1..Len(s)
         /\ \A i \in 1..Len(s) : s[i] \in Top
         /\ \A i, j \in 1..Len(s) : i # j => s[i] # s[j]
<1>1. Cardinality(Top) \in Nat
  BY FS_CardinalityType, ChannelsAssumption
<1>2. PICK n \in 0..Cardinality(Top) : s \in [1..n -> Top]
  BY DEF Order
<1>3. n \in Nat /\ s \in Seq(Top)
  BY <1>1, <1>2
<1>4. Len(s) = n /\ DOMAIN s = 1..n
  BY <1>2, <1>3, LenProperties
<1>5. QED
  BY <1>2, <1>3, <1>4 DEF Order

LEMMA PlacedType ==
  ASSUME NEW q
  PROVE  IsFiniteSet({c \in Top : lock[c] = q}) /\ Placed(q) \in Nat
BY FS_Subset, FS_CardinalityType, ChannelsAssumption DEF Placed

LEMMA InitTyped == Init => Typed
<1> SUFFICES ASSUME Init PROVE Typed
  OBVIOUS
<1> USE ChannelsAssumption DEF Init
<1>1. order \in [Request -> Order] /\ lastOrder \in Order
  BY EmptyOrder
<1>2. stage \in [Request -> Stage] /\ \A q \in Request : Fits(stage[q], target[q], wish[q])
  BY DEF Stage, Fits, Deleting
<1>3. /\ serverVisibility \in Visibility /\ override \in [Channel -> Override]
      /\ restricted \in [Top -> BOOLEAN] /\ created \in SUBSET Channel /\ deleted \in SUBSET created
      /\ eligible \in [Channel -> BOOLEAN \cup {None}] /\ grants \in [Top -> SUBSET Role]
  BY DEF Visibility, Override
<1>4. /\ position \in [Top -> Nat \cup {None}] /\ lock \in [Row -> Request \cup {None}]
      /\ connected \in SUBSET Request
      /\ actor \in [Request -> Account \cup {None}] /\ target \in [Request -> Channel \cup {None}]
      /\ wish \in [Request -> Override \cup {"restricted", "open"}]
      /\ seenServer \in [Request -> Override]
      /\ calls \in 0..MaxCalls
  BY DEF Override
<1>5. /\ seenOverride \in [Request -> [Channel -> Override]]
      /\ seenRestricted \in [Request -> [Top -> BOOLEAN]]
      /\ before \in [Request -> [Top -> Nat \cup {None}]]
  BY DEF Override
<1>6. QED
  BY <1>1, <1>2, <1>3, <1>4, <1>5 DEF Typed, TypeOK

\* A request that begins.
LEMMA BeginTyped ==
  ASSUME Typed, NEW q \in Request, NEW a \in Account \cup {None}, NEW c \in Channel \cup {None},
         NEW v \in Override \cup {"restricted", "open"}, NEW s \in Stage,
         Begin(q, a, c, v, s), Fits(s, c, v), order' \in [Request -> Order]
  PROVE  Typed'
<1>1. calls' \in 0..MaxCalls
  BY ChannelsAssumption DEF Begin, Typed, TypeOK
<1>2. stage' \in [Request -> Stage]
  BY DEF Begin, Advance, Typed, TypeOK
<1>3. /\ actor' \in [Request -> Account \cup {None}] /\ target' \in [Request -> Channel \cup {None}]
      /\ wish' \in [Request -> Override \cup {"restricted", "open"}]
  BY DEF Begin, Typed, TypeOK
<1>4. \A p \in Request : Fits(stage'[p], target'[p], wish'[p])
  BY DEF Begin, Advance, Typed, TypeOK
<1>5. UNCHANGED <<lifecycleVars, grants, orderVars, lock, connected, seenVars>>
  BY DEF Begin
<1>6. \A p \in Request : Fits(stage[p], target[p], wish[p])'
  BY <1>4, <1>5 DEF Fits, lifecycleVars
<1>7. QED
  BY <1>1, <1>2, <1>3, <1>5, <1>6 DEF Typed, TypeOK, lifecycleVars, orderVars, seenVars

LEMMA CallTyped ==
  ASSUME Typed, NEW q \in Request, Call(q)
  PROVE  Typed'
<1> USE ChannelsAssumption
<1>0. order \in [Request -> Order] /\ None \in Override
  BY DEF Typed, TypeOK, Override
<1>1. ASSUME NEW c \in Channel, NEW a \in Account, AskDelete(q, a, c) PROVE Typed'
  <2>1. Begin(q, a, c, None, "deleting") /\ order' = order /\ c \in created
    BY <1>1 DEF AskDelete
  <2>2. Fits("deleting", c, None) /\ "deleting" \in Stage
    BY <2>1 DEF Fits, Deleting, Stage, Waiting
  <2>3. QED
    BY <1>0, <2>1, <2>2, BeginTyped
<1>2. ASSUME NEW c \in Channel, NEW a \in Account, AskThread(q, a, c) PROVE Typed'
  <2>1. Begin(q, None, c, None, "threading") /\ order' = order /\ c \in Thread
    BY <1>2 DEF AskThread
  <2>2. Fits("threading", c, None) /\ "threading" \in Stage
    BY <2>1 DEF Fits, Deleting, Stage, Waiting
  <2>3. QED
    BY <1>0, <2>1, <2>2, BeginTyped
<1>3. ASSUME NEW c \in Channel, NEW v \in Override, AskVisibility(q, c, v) PROVE Typed'
  <2>1. Begin(q, None, c, v, "allowed") /\ order' = order /\ c \in created
    BY <1>3 DEF AskVisibility
  <2>2. Fits("allowed", c, v) /\ "allowed" \in Stage
    BY <2>1 DEF Fits, Deleting, Stage, Waiting
  <2>3. QED
    BY <1>0, <2>1, <2>2, BeginTyped
<1>4. ASSUME NEW c \in Channel, NEW b \in {"restricted", "open"}, AskRestricted(q, c, b)
      PROVE  Typed'
  <2>1. Begin(q, None, c, b, "restricting") /\ order' = order /\ c \in Top \cap created
    BY <1>4 DEF AskRestricted, Live
  <2>2. Fits("restricting", c, b) /\ "restricting" \in Stage
    BY <2>1 DEF Fits, Deleting, Stage, Waiting
  <2>3. QED
    BY <1>0, <2>1, <2>2, BeginTyped
<1>5. ASSUME NEW c \in Channel, NEW r \in Role, NEW viewing \in BOOLEAN, SetGrant(q, c, r, viewing)
      PROVE  Typed'
  <2>1. grants' \in [Top -> SUBSET Role] /\ calls' \in 0..MaxCalls
    BY <1>5 DEF SetGrant, Typed, TypeOK
  <2>2. QED
    BY <1>5, <2>1 DEF SetGrant, Typed, TypeOK, Fits, lifecycleVars, orderVars, argVars, seenVars
<1>6. ASSUME NEW c \in Channel, AskChannel(q, c) PROVE Typed'
  <2>1. Begin(q, None, c, None, "creating") /\ order' = order /\ c \in Top
    BY <1>6 DEF AskChannel
  <2>2. Fits("creating", c, None) /\ "creating" \in Stage
    BY <2>1 DEF Fits, Deleting, Stage, Waiting
  <2>3. QED
    BY <1>0, <2>1, <2>2, BeginTyped
<1>7. ASSUME NEW v \in Visibility, AskServerVisibility(q, v) PROVE Typed'
  <2>1. Begin(q, None, None, v, "opening") /\ order' = order
    BY <1>7 DEF AskServerVisibility
  <2>2. Fits("opening", None, v) /\ "opening" \in Stage /\ v \in Override
    BY <2>1 DEF Fits, Deleting, Stage, Waiting, Override
  <2>3. QED
    BY <1>0, <2>1, <2>2, BeginTyped
<1>8. ASSUME NEW a \in Account, NEW s \in Order, AskOrder(q, a, s) PROVE Typed'
  <2>1. Begin(q, a, None, None, "ordering") /\ order' = [order EXCEPT ![q] = s]
    BY <1>8 DEF AskOrder
  <2>2. Fits("ordering", None, None) /\ "ordering" \in Stage
    BY <2>1 DEF Fits, Deleting, Stage, Waiting
  <2>3. order' \in [Request -> Order]
    BY <1>0, <2>1
  <2>4. QED
    BY <1>0, <2>1, <2>2, <2>3, BeginTyped
<1>9. QED
  BY <1>1, <1>2, <1>3, <1>4, <1>5, <1>6, <1>7, <1>8 DEF Call

\* A request that is over.
LEMMA EndTyped ==
  ASSUME Typed, NEW q \in Request, End(q),
         serverVisibility' \in Visibility, override' \in [Channel -> Override],
         restricted' \in [Top -> BOOLEAN], created' \in SUBSET Channel, created \subseteq created',
         deleted' \in SUBSET created', eligible' \in [Channel -> BOOLEAN \cup {None}],
         grants' \in [Top -> SUBSET Role], position' \in [Top -> Nat \cup {None}],
         lastOrder' \in Order
  PROVE  Typed'
<1> USE DEF End, Advance, Typed, TypeOK
<1>1. None \in Override /\ <<>> \in Order
  BY EmptyOrder DEF Override
<1>2. stage' \in [Request -> Stage] /\ lock' \in [Row -> Request \cup {None}]
  BY DEF Stage
<1>3. connected' \in SUBSET Request /\ calls' \in 0..MaxCalls
  OBVIOUS
<1>4. /\ actor' \in [Request -> Account \cup {None}] /\ target' \in [Request -> Channel \cup {None}]
      /\ wish' \in [Request -> Override \cup {"restricted", "open"}]
      /\ order' \in [Request -> Order]
  BY <1>1
<1>5. /\ seenServer' \in [Request -> Override]
      /\ seenOverride' \in [Request -> [Channel -> Override]]
  BY <1>1
<1>6. /\ seenRestricted' \in [Request -> [Top -> BOOLEAN]]
      /\ before' \in [Request -> [Top -> Nat \cup {None}]]
  OBVIOUS
<1>7. \A p \in Request : Fits(stage[p], target[p], wish[p])'
  <2> SUFFICES ASSUME NEW p \in Request PROVE Fits(stage[p], target[p], wish[p])'
    OBVIOUS
  <2>1. CASE p = q
    <3>1. stage'[p] = "idle"
      BY <2>1
    <3>2. QED
      BY <3>1 DEF Fits, Deleting
  <2>2. CASE p # q
    <3>1. stage'[p] = stage[p] /\ target'[p] = target[p] /\ wish'[p] = wish[p]
      BY <2>2
    <3>2. QED
      BY <3>1 DEF Fits
  <2>3. QED
    BY <2>1, <2>2
<1>8. QED
  BY <1>2, <1>3, <1>4, <1>5, <1>6, <1>7

LEMMA AbortTyped ==
  ASSUME Typed, NEW q \in Request, Abort(q)
  PROVE  Typed'
<1>1. position' \in [Top -> Nat \cup {None}]
  <2>1. before[q] \in [Top -> Nat \cup {None}] /\ position \in [Top -> Nat \cup {None}]
    BY DEF Typed, TypeOK
  <2>2. QED
    BY <2>1 DEF Abort, Restore
<1>2. QED
  BY <1>1, EndTyped DEF Abort, Typed, TypeOK, lifecycleVars

\* A step of delete_channel before its last.
LEMMA DeletionTyped ==
  ASSUME Typed, NEW q \in Request, NEW s \in Stage, Advance(q, s), Fits(s, target[q], wish[q]),
         DeleteKeeps, lock' \in [Row -> Request \cup {None}],
         seenServer' \in [Request -> Override],
         seenOverride' \in [Request -> [Channel -> Override]],
         seenRestricted' \in [Request -> [Top -> BOOLEAN]]
  PROVE  Typed'
<1> USE DEF DeleteKeeps, Advance, Typed, TypeOK
<1>1. \A p \in Request : Fits(stage'[p], target[p], wish[p])
  OBVIOUS
<1>2. \A p \in Request : Fits(stage[p], target[p], wish[p])'
  BY <1>1 DEF Fits, lifecycleVars, argVars
<1>3. stage' \in [Request -> Stage]
  OBVIOUS
<1>4. QED
  BY <1>2, <1>3 DEF lifecycleVars, orderVars, argVars

LEMMA LockLiveTyped ==
  ASSUME Typed, NEW q \in Request, NEW c \in Channel, NEW s \in Stage,
         Fits(s, target[q], wish[q]), LockLive(q, c, s)
  PROVE  Typed'
<1> USE DEF LockLive
<1>1. lock' \in [Row -> Request \cup {None}]
  BY DEF Hold, Typed, TypeOK
<1>2. seenOverride' \in [Request -> [Channel -> Override]]
  BY DEF Typed, TypeOK
<1>3. seenRestricted' \in [Request -> [Top -> BOOLEAN]]
  BY DEF Typed, TypeOK
<1>4. seenServer' \in [Request -> Override]
  BY DEF Typed, TypeOK
<1>5. QED
  BY <1>1, <1>2, <1>3, <1>4, DeletionTyped

\* What a deletion on its way knows of its target.
LEMMA TargetType ==
  ASSUME Typed, NEW q \in Request, stage[q] \in {"deleting", "allowed"} \cup Deleting
  PROVE  /\ target[q] \in created /\ target[q] \in Channel
         /\ Source(target[q]) \in Top
         /\ target[q] \in Thread => target[q] \notin Top /\ Source(target[q]) = ParentOf[target[q]]
         /\ target[q] \in Top => Source(target[q]) = target[q]
<1>1. target[q] \in created /\ target[q] \in Channel
  BY DEF Typed, TypeOK, Fits
<1>2. QED
  BY <1>1, ChannelsAssumption DEF Source, Channel

LEMMA DeletionStepTyped ==
  ASSUME Typed, NEW q \in Request, Deletion(q)
  PROVE  Typed'
<1> USE DEF Deleting
<1>0. /\ {"server_locked", "parent_locked", "target_locked", "admitted", "family_locked"} \subseteq Stage
      /\ None \in Override
  BY DEF Stage, Override
<1>1. CASE LockServer(q)
  <2>1. stage[q] = "deleting"
    BY <1>1 DEF LockServer, Ready
  <2>2. target[q] \in created
    BY <2>1, TargetType
  <2>3. Fits("server_locked", target[q], wish[q])
    BY <2>2 DEF Fits
  <2>4. lock' \in [Row -> Request \cup {None}]
    BY <1>1 DEF LockServer, Hold, Typed, TypeOK
  <2>5. seenServer' \in [Request -> Override]
    BY <1>1 DEF LockServer, Typed, TypeOK, Override
  <2>6. QED
    BY <1>0, <1>1, <2>3, <2>4, <2>5, DeletionTyped DEF LockServer, Typed, TypeOK
<1>2. CASE LockParent(q)
  <2>1. stage[q] = "server_locked" /\ target[q] \in Thread
    BY <1>2 DEF LockParent
  <2>2. target[q] \in created
    BY <2>1, TargetType
  <2>3. Fits("parent_locked", target[q], wish[q]) /\ ParentOf[target[q]] \in Channel
    BY <2>1, <2>2, ChannelsAssumption DEF Fits, Channel
  <2>4. QED
    BY <1>0, <1>2, <2>3, LockLiveTyped DEF LockParent
<1>3. CASE LockTarget(q)
  <2>1. stage[q] \in {"server_locked", "parent_locked"}
    BY <1>3 DEF LockTarget
  <2>2. target[q] \in created /\ target[q] \in Channel
    BY <2>1, TargetType
  <2>3. Fits("target_locked", target[q], wish[q])
    BY <2>2 DEF Fits
  <2>4. QED
    BY <1>0, <1>3, <2>2, <2>3, LockLiveTyped DEF LockTarget
<1>4. CASE FindDeleted(q) \/ AccessDenied(q)
  BY <1>4, AbortTyped DEF FindDeleted, AccessDenied
<1>5. CASE CheckAccess(q)
  <2>1. stage[q] = "target_locked"
    BY <1>5 DEF CheckAccess
  <2>2. target[q] \in created
    BY <2>1, TargetType
  <2>3. Fits("admitted", target[q], wish[q])
    BY <2>2 DEF Fits
  <2>4. QED
    BY <1>0, <1>5, <2>3, DeletionTyped DEF CheckAccess, Typed, TypeOK, seenVars
<1>6. CASE LockDescendants(q)
  <2>1. stage[q] = "admitted"
    BY <1>6 DEF LockDescendants
  <2>2. target[q] \in created
    BY <2>1, TargetType
  <2>3. Fits("family_locked", target[q], wish[q])
    BY <2>2 DEF Fits
  <2>4. lock' \in [Row -> Request \cup {None}]
    BY <1>6 DEF LockDescendants, Hold, Typed, TypeOK
  <2>5. seenOverride' \in [Request -> [Channel -> Override]]
    BY <1>6 DEF LockDescendants, Typed, TypeOK
  <2>6. QED
    BY <1>0, <1>6, <2>3, <2>4, <2>5, DeletionTyped DEF LockDescendants, Typed, TypeOK
<1>7. CASE CommitDelete(q)
  <2>1. stage[q] = "family_locked" /\ Snapshot(q) /\ End(q) /\ deleted' = deleted \cup {target[q]}
    BY <1>7 DEF CommitDelete
  <2>2. target[q] \in created
    BY <2>1, TargetType
  <2>3. eligible' \in [Channel -> BOOLEAN \cup {None}]
    <3>1. \A c : SnapshotOf(q, c) \in BOOLEAN
      BY DEF SnapshotOf
    <3>2. \A c \in Channel : (IF c \in Settled(q) /\ eligible[c] = None THEN SnapshotOf(q, c)
                              ELSE eligible[c]) \in BOOLEAN \cup {None}
      BY <3>1 DEF Typed, TypeOK
    <3>3. QED
      BY <2>1, <3>2 DEF Snapshot
  <2>4. QED
    BY <1>7, <2>1, <2>2, <2>3, EndTyped DEF CommitDelete, Typed, TypeOK
<1>8. QED
  BY <1>1, <1>2, <1>3, <1>4, <1>5, <1>6, <1>7 DEF Deletion

LEMMA WriteTyped ==
  ASSUME Typed, NEW q \in Request,
         WriteVisibility(q) \/ WriteServerVisibility(q) \/ WriteRestricted(q)
  PROVE  Typed'
<1> USE DEF Ready
<1>1. CASE WriteVisibility(q)
  <2>1. wish[q] \in Override
    BY <1>1 DEF WriteVisibility, Typed, Fits
  <2>2. override' \in [Channel -> Override]
    BY <1>1, <2>1 DEF WriteVisibility, Typed, TypeOK
  <2>3. QED
    BY <1>1, <2>2, EndTyped DEF WriteVisibility, Typed, TypeOK, orderVars
<1>2. CASE WriteServerVisibility(q)
  <2>1. wish[q] \in Visibility
    BY <1>2 DEF WriteServerVisibility, Typed, Fits
  <2>2. QED
    BY <1>2, <2>1, EndTyped DEF WriteServerVisibility, Typed, TypeOK, orderVars
<1>3. CASE WriteRestricted(q)
  <2>1. restricted' \in [Top -> BOOLEAN]
    BY <1>3 DEF WriteRestricted, Typed, TypeOK
  <2>2. QED
    BY <1>3, <2>1, EndTyped DEF WriteRestricted, Typed, TypeOK, orderVars
<1>4. QED
  BY <1>1, <1>2, <1>3

LEMMA InsertTyped ==
  ASSUME Typed, NEW q \in Request, InsertThread(q) \/ InsertChannel(q)
  PROVE  Typed'
<1>1. target[q] \in Channel /\ created' = created \cup {target[q]} /\ End(q)
  BY DEF InsertThread, InsertChannel, Ready, Typed, Fits, Channel
<1>2. UNCHANGED <<serverVisibility, override, restricted, deleted, eligible, grants, orderVars>>
  BY DEF InsertThread, InsertChannel
<1>3. created' \in SUBSET Channel /\ created \subseteq created' /\ deleted' \in SUBSET created'
  BY <1>1, <1>2 DEF Typed, TypeOK
<1>4. QED
  BY <1>1, <1>2, <1>3, EndTyped DEF Typed, TypeOK, orderVars

LEMMA OrderingTyped ==
  ASSUME Typed, NEW q \in Request, Place(q) \/ CommitOrder(q)
  PROVE  Typed'
<1>1. CASE Place(q)
  <2> USE DEF Place
  <2>1. position' \in [Top -> Nat \cup {None}]
    BY <1>1, PlacedType DEF Typed, TypeOK
  <2>2. before' \in [Request -> [Top -> Nat \cup {None}]]
    BY <1>1 DEF Typed, TypeOK
  <2>3. lock' \in [Row -> Request \cup {None}]
    BY <1>1 DEF Hold, Typed, TypeOK
  <2>4. stage' \in [Request -> Stage]
    BY <1>1 DEF Advance, Stage, Typed, TypeOK
  <2>5. \A p \in Request : Fits(stage'[p], target[p], wish[p])
    BY <1>1 DEF Advance, Fits, Deleting, Typed, TypeOK
  <2>6. UNCHANGED <<lifecycleVars, grants, lastOrder, connected, argVars, seenVars, calls>>
    BY <1>1
  <2>7. \A p \in Request : Fits(stage[p], target[p], wish[p])'
    BY <2>5, <2>6 DEF Fits, lifecycleVars, argVars
  <2>8. QED
    BY <2>1, <2>2, <2>3, <2>4, <2>6, <2>7 DEF Typed, TypeOK, lifecycleVars, argVars, seenVars
<1>2. CASE CommitOrder(q)
  BY <1>2, EndTyped DEF CommitOrder, Typed, TypeOK, lifecycleVars
<1>3. QED
  BY <1>1, <1>2

LEMMA NextTyped ==
  ASSUME Typed, [Next]_vars
  PROVE  Typed'
<1>1. CASE UNCHANGED vars
  BY <1>1 DEF vars, lifecycleVars, orderVars, requestVars, argVars, seenVars, Typed, TypeOK, Fits
<1>2. ASSUME NEW q \in Request, Step(q) \/ HangUp(q) PROVE Typed'
  <2>1. CASE Connect(q)
    BY <2>1 DEF Connect, lifecycleVars, orderVars, argVars, seenVars, Typed, TypeOK, Fits
  <2>2. CASE PoolTimeout(q) \/ PlaceFails(q) \/ BreakDeadlock(q) \/ HangUp(q)
    BY <2>2, AbortTyped DEF PoolTimeout, PlaceFails, BreakDeadlock, HangUp
  <2>3. QED
    BY <1>2, <2>1, <2>2, DeletionStepTyped, WriteTyped, InsertTyped, OrderingTyped DEF Step
<1>3. QED
  BY <1>1, <1>2, CallTyped DEF Next

\* Every variable keeps its type: deleted channels were created, positions are
\* numbers, and a request at work has a target of the kind it works on.
THEOREM TypeCorrect == Spec => []TypeOK
<1>1. Typed => TypeOK
  BY DEF Typed
<1>2. QED
  BY <1>1, InitTyped, NextTyped, PTL DEF Spec

-----------------------------------------------------------------------------
(* Locks.  A deletion holds the rows its stage names, and what it read of    *)
(* them still stands: nobody else writes a row that is locked.               *)

Below(c) == {t \in created \cap Thread : ParentOf[t] = c}

\* The rows that request q holds at its stage.
Holds(q) ==
  LET c == target[q] IN
  \A x \in Row : lock[x] = q =>
    \/ stage[q] = "placing" /\ x \in Top
    \/ stage[q] \in Deleting /\ x = Server
    \/ stage[q] = "parent_locked" /\ x = ParentOf[c]
    \/ stage[q] \in {"target_locked", "admitted", "family_locked"} /\ x \in {Source(c), c}
    \/ stage[q] = "family_locked" /\ x \in Below(c)

\* And those it holds for certain.
Secures(q) ==
  LET c == target[q] IN
  /\ stage[q] \in Deleting => lock[Server] = q
  /\ stage[q] = "parent_locked" => lock[ParentOf[c]] = q /\ ParentOf[c] \notin deleted
  /\ stage[q] \in {"target_locked", "admitted", "family_locked"} =>
       \A d \in {Source(c), c} : lock[d] = q /\ d \notin deleted
  /\ stage[q] = "family_locked" => \A t \in Below(c) : lock[t] = q

\* What a deletion has read of the rows it holds.
Sees(q) ==
  stage[q] \in Deleting =>
    /\ seenServer[q] = serverVisibility
    /\ \A d \in Channel : lock[d] = q => seenOverride[q][d] = override[d]
    /\ \A d \in Top : lock[d] = q => seenRestricted[q][d] = restricted[d]

Locked == Typed /\ \A q \in Request : Holds(q) /\ Secures(q) /\ Sees(q)

\* What a step of another request leaves to q.
Frame(q) ==
  /\ UNCHANGED <<stage[q], target[q], order[q], seenServer[q], seenOverride[q], seenRestricted[q],
                 before[q]>>
  /\ \A x \in Row : (lock'[x] = q) <=> (lock[x] = q)
  /\ created \subseteq created'
  /\ lock[Server] = q => UNCHANGED <<serverVisibility, created>>
  /\ \A c \in Channel : lock[c] = q =>
       override'[c] = override[c] /\ (c \in deleted' <=> c \in deleted)
  /\ \A c \in Top : lock[c] = q => restricted'[c] = restricted[c] /\ position'[c] = position[c]

LEMMA InitLocked == Init => Locked
<1>1. ASSUME Init, NEW q \in Request PROVE Holds(q) /\ Secures(q) /\ Sees(q)
  BY <1>1, ChannelsAssumption DEF Init, Holds, Secures, Sees, Deleting
<1>2. QED
  BY <1>1, InitTyped DEF Locked

\* A request that begins.
LEMMA BeginFrame ==
  ASSUME Typed, NEW p \in Request, NEW q \in Request, p # q, NEW a, NEW c, NEW v, NEW s,
         Begin(p, a, c, v, s), order'[q] = order[q]
  PROVE  Frame(q)
BY DEF Begin, Advance, Frame, Typed, TypeOK, lifecycleVars, orderVars, seenVars

LEMMA CallFrame ==
  ASSUME Typed, NEW p \in Request, NEW q \in Request, p # q, Call(p)
  PROVE  Frame(q)
<1>1. CASE \E c \in Channel, r \in Role, viewing \in BOOLEAN : SetGrant(p, c, r, viewing)
  BY <1>1 DEF SetGrant, Frame, lifecycleVars, orderVars, argVars, seenVars
<1>2. CASE ~\E c \in Channel, r \in Role, viewing \in BOOLEAN : SetGrant(p, c, r, viewing)
  <2>1. PICK a, c, v, s : Begin(p, a, c, v, s)
    BY <1>2 DEF Call, AskDelete, AskThread, AskVisibility, AskRestricted, AskChannel,
                AskServerVisibility, AskOrder
  <2>2. order'[q] = order[q]
    <3>1. CASE order' = order
      BY <3>1
    <3>2. CASE \E w \in Order : order' = [order EXCEPT ![p] = w]
      BY <3>2 DEF Typed, TypeOK
    <3>3. QED
      BY <1>2, <3>1, <3>2 DEF Call, AskDelete, AskThread, AskVisibility, AskRestricted, AskChannel,
                AskServerVisibility, AskOrder
  <2>3. QED
    BY <2>1, <2>2, BeginFrame
<1>3. QED
  BY <1>1, <1>2

\* A request that is over has not touched what others hold.
LEMMA EndFrame ==
  ASSUME Typed, NEW p \in Request, NEW q \in Request, p # q, End(p),
         created \subseteq created',
         lock[Server] = q => UNCHANGED <<serverVisibility, created>>,
         \A c \in Channel : lock[c] = q =>
           override'[c] = override[c] /\ (c \in deleted' <=> c \in deleted),
         \A c \in Top : lock[c] = q => restricted'[c] = restricted[c] /\ position'[c] = position[c]
  PROVE  Frame(q)
<1>1. \A x \in Row : (lock'[x] = q) <=> (lock[x] = q)
  BY ChannelsAssumption DEF End, Typed, TypeOK
<1>2. UNCHANGED <<stage[q], target[q], order[q], seenServer[q], seenOverride[q], seenRestricted[q],
                  before[q]>>
  BY DEF End, Advance, Typed, TypeOK
<1>3. QED
  BY <1>1, <1>2 DEF Frame

LEMMA AbortFrame ==
  ASSUME Typed, NEW p \in Request, NEW q \in Request, p # q, Abort(p)
  PROVE  Frame(q)
<1>1. \A c \in Top : lock[c] = q => position'[c] = position[c]
  BY DEF Abort, Restore
<1>2. QED
  BY <1>1, EndFrame DEF Abort, lifecycleVars

\* A row that was not locked is taken.
LEMMA HoldFrame ==
  ASSUME Typed, NEW p \in Request, NEW q \in Request, p # q, NEW s, NEW rows,
         Hold(p, rows), \A x \in rows : Unlocked(x), Advance(p, s), DeleteKeeps,
         seenServer'[q] = seenServer[q], seenOverride'[q] = seenOverride[q],
         seenRestricted'[q] = seenRestricted[q]
  PROVE  Frame(q)
<1>1. \A x \in Row : (lock'[x] = q) <=> (lock[x] = q)
  BY ChannelsAssumption DEF Hold, Unlocked
<1>2. QED
  BY <1>1 DEF Advance, DeleteKeeps, Frame, lifecycleVars, orderVars, argVars, Typed, TypeOK

LEMMA DeletionFrame ==
  ASSUME Locked, NEW p \in Request, NEW q \in Request, p # q, Deletion(p)
  PROVE  Frame(q)
<1>0. Typed
  BY DEF Locked
<1>1. ASSUME NEW c, NEW s, LockLive(p, c, s) PROVE Frame(q)
  BY <1>0, <1>1, HoldFrame DEF LockLive, Typed, TypeOK
<1>2. CASE LockServer(p)
  BY <1>0, <1>2, HoldFrame DEF LockServer, Typed, TypeOK
<1>3. CASE LockParent(p) \/ LockTarget(p)
  BY <1>1, <1>3 DEF LockParent, LockTarget
<1>4. CASE FindDeleted(p) \/ AccessDenied(p)
  BY <1>0, <1>4, AbortFrame DEF FindDeleted, AccessDenied
<1>5. CASE CheckAccess(p)
  BY <1>0, <1>5 DEF CheckAccess, Advance, DeleteKeeps, Frame, lifecycleVars, orderVars, argVars,
                    seenVars, Typed, TypeOK
<1>6. CASE LockDescendants(p)
  BY <1>0, <1>6, HoldFrame DEF LockDescendants, Typed, TypeOK
<1>7. CASE CommitDelete(p)
  <2>1. lock[target[p]] = p
    BY <1>7 DEF CommitDelete, Locked, Secures
  <2>2. \A c \in Channel : lock[c] = q => (c \in deleted' <=> c \in deleted)
    BY <1>7, <2>1 DEF CommitDelete
  <2>3. QED
    BY <1>0, <1>7, <2>2, EndFrame DEF CommitDelete
<1>8. QED
  BY <1>2, <1>3, <1>4, <1>5, <1>6, <1>7 DEF Deletion

LEMMA StepFrame ==
  ASSUME Locked, NEW p \in Request, NEW q \in Request, p # q, Step(p) \/ HangUp(p)
  PROVE  Frame(q)
<1>0. Typed /\ None # q
  BY ChannelsAssumption DEF Locked
<1>1. CASE Connect(p)
  BY <1>1 DEF Connect, Frame, lifecycleVars, orderVars, argVars, seenVars
<1>2. CASE PoolTimeout(p) \/ PlaceFails(p) \/ BreakDeadlock(p) \/ HangUp(p)
  BY <1>0, <1>2, AbortFrame DEF PoolTimeout, PlaceFails, BreakDeadlock, HangUp
<1>3. CASE WriteVisibility(p)
  <2>1. \A c \in Channel : lock[c] = q => override'[c] = override[c]
    BY <1>0, <1>3 DEF WriteVisibility, Unlocked, Typed, TypeOK
  <2>2. QED
    BY <1>0, <1>3, <2>1, EndFrame DEF WriteVisibility, orderVars
<1>4. CASE WriteServerVisibility(p)
  <2>1. lock[Server] # q
    BY <1>0, <1>4 DEF WriteServerVisibility, Unlocked
  <2>2. QED
    BY <1>0, <1>4, <2>1, EndFrame DEF WriteServerVisibility, orderVars
<1>5. CASE WriteRestricted(p)
  <2>1. \A c \in Top : lock[c] = q => restricted'[c] = restricted[c]
    BY <1>0, <1>5 DEF WriteRestricted, Unlocked, Typed, TypeOK
  <2>2. QED
    BY <1>0, <1>5, <2>1, EndFrame DEF WriteRestricted, orderVars
<1>6. CASE InsertThread(p) \/ InsertChannel(p)
  <2>1. lock[Server] # q /\ created \subseteq created'
    BY <1>0, <1>6 DEF InsertThread, InsertChannel, Unlocked
  <2>2. QED
    BY <1>0, <1>6, <2>1, EndFrame DEF InsertThread, InsertChannel, orderVars
<1>7. CASE Place(p)
  <2>1. \A x \in Row : (lock'[x] = q) <=> (lock[x] = q)
    BY <1>0, <1>7 DEF Place, Hold, Unlocked
  <2>2. \A c \in Top : lock[c] = q => position'[c] = position[c]
    BY <1>0, <1>7 DEF Place, Unlocked, Typed, TypeOK
  <2>3. stage'[q] = stage[q] /\ before'[q] = before[q]
    BY <1>0, <1>7 DEF Place, Advance, Typed, TypeOK
  <2>4. QED
    BY <1>7, <2>1, <2>2, <2>3 DEF Place, Frame, lifecycleVars, argVars, seenVars
<1>8. CASE CommitOrder(p)
  BY <1>0, <1>8, EndFrame DEF CommitOrder, lifecycleVars
<1>9. QED
  BY <1>1, <1>2, <1>3, <1>4, <1>5, <1>6, <1>7, <1>8, DeletionFrame DEF Step

Kept(q) == Holds(q) /\ Secures(q) /\ Sees(q)

LEMMA FrameKeeps ==
  ASSUME Locked, NEW q \in Request, Frame(q)
  PROVE  Kept(q)'
<1> DEFINE c == target[q]
<1>0. Typed /\ Holds(q) /\ Secures(q) /\ Sees(q)
  BY DEF Locked
<1>1. /\ stage'[q] = stage[q] /\ target'[q] = c /\ seenServer'[q] = seenServer[q]
      /\ seenOverride'[q] = seenOverride[q] /\ seenRestricted'[q] = seenRestricted[q]
      /\ \A x \in Row : (lock'[x] = q) <=> (lock[x] = q)
  BY DEF Frame
<1>2. CASE stage[q] \in Deleting
  <2>1. lock[Server] = q /\ serverVisibility' = serverVisibility /\ created' = created
    BY <1>0, <1>2 DEF Secures, Frame
  <2>2. /\ c \in Channel /\ Source(c) \in Top /\ Source(c) \in Row /\ c \in Row /\ Source(c) \in Channel
        /\ c \in Thread => Source(c) = ParentOf[c]
    BY <1>0, <1>2, TargetType DEF Row, Channel
  <2>3. stage[q] = "parent_locked" => c \in Thread
    BY <1>0 DEF Typed, Fits
  <2>4. Below(c)' = Below(c) /\ Below(c) \subseteq Row
    BY <1>1, <2>1 DEF Below, Row, Channel
  <2>5. Holds(q)'
    BY <1>0, <1>1, <2>4 DEF Holds, Below
  <2>6. Secures(q)'
    <3>1. (stage[q] \in Deleting => lock[Server] = q)'
      BY <1>1, <2>1 DEF Row
    <3>2. (stage[q] = "parent_locked" => lock[ParentOf[target[q]]] = q /\ ParentOf[target[q]] \notin deleted)'
      BY <1>0, <1>1, <2>2, <2>3 DEF Secures, Frame
    <3>3. (stage[q] \in {"target_locked", "admitted", "family_locked"} =>
             \A d \in {Source(target[q]), target[q]} : lock[d] = q /\ d \notin deleted)'
      BY <1>0, <1>1, <2>2 DEF Secures, Frame, Source
    <3>4. (stage[q] = "family_locked" => \A t \in Below(target[q]) : lock[t] = q)'
      <4>1. Below(target[q])' = Below(c)
        BY <1>1, <2>1 DEF Below
      <4>2. QED
        BY <1>0, <1>1, <2>4, <4>1 DEF Secures
    <3>5. QED
      BY <3>1, <3>2, <3>3, <3>4 DEF Secures
  <2>7. Sees(q)'
    BY <1>0, <1>1, <2>1 DEF Sees, Frame, Row, Channel
  <2>8. QED
    BY <2>5, <2>6, <2>7 DEF Kept
<1>3. CASE stage[q] \notin Deleting
  <2>1. Holds(q)'
    BY <1>0, <1>1, <1>3 DEF Holds, Deleting
  <2>2. Secures(q)' /\ Sees(q)'
    BY <1>1, <1>3 DEF Secures, Sees, Deleting
  <2>3. QED
    BY <2>1, <2>2 DEF Kept
<1>4. QED
  BY <1>2, <1>3

\* A request that is over holds nothing.
LEMMA EndKeeps ==
  ASSUME Typed, NEW q \in Request, End(q)
  PROVE  Kept(q)'
<1>1. stage'[q] = "idle" /\ \A x \in Row : lock'[x] # q
  BY ChannelsAssumption DEF End, Advance, Typed, TypeOK
<1>2. QED
  BY <1>1 DEF Kept, Holds, Secures, Sees, Deleting

\* One that has not begun its transaction neither.
LEMMA BareKeeps ==
  ASSUME Locked, NEW q \in Request, stage[q] \notin Deleting, stage'[q] \notin Deleting,
         stage[q] # "placing", lock' = lock
  PROVE  Kept(q)'
<1>1. \A x \in Row : lock[x] # q
  BY DEF Locked, Holds, Deleting
<1>2. QED
  BY <1>1 DEF Kept, Holds, Secures, Sees, Deleting

\* SELECT .. FOR UPDATE of one more row.
LEMMA LockLiveKeeps ==
  ASSUME Locked, NEW q \in Request, NEW c \in Channel, NEW s \in Deleting,
         stage[q] \in Deleting, LockLive(q, c, s)
  PROVE  /\ stage'[q] = s /\ Sees(q)'
         /\ \A x \in Row : (lock'[x] = q) <=> (lock[x] = q \/ x = c)
         /\ c \notin deleted /\ UNCHANGED <<created, deleted, target>>
<1>0. Typed /\ Sees(q)
  BY DEF Locked
<1>1. stage'[q] = s
  BY <1>0 DEF LockLive, Advance, Typed, TypeOK
<1>2. UNCHANGED <<serverVisibility, override, restricted, created, deleted, target, seenServer>>
  BY DEF LockLive, DeleteKeeps, lifecycleVars, argVars
<1>3. \A x \in Row : (lock'[x] = q) <=> (lock[x] = q \/ x = c)
  BY DEF LockLive, Hold
<1>4. \A d \in Channel : lock'[d] = q => seenOverride'[q][d] = override[d]
  BY <1>0, <1>3 DEF LockLive, Sees, Row, Typed, TypeOK
<1>5. \A d \in Top : lock'[d] = q => seenRestricted'[q][d] = restricted[d]
  BY <1>0, <1>3 DEF LockLive, Sees, Row, Channel, Typed, TypeOK
<1>6. Sees(q)'
  BY <1>0, <1>2, <1>4, <1>5 DEF Sees
<1>7. QED
  BY <1>1, <1>2, <1>3, <1>6 DEF LockLive

LEMMA DeletionKeeps ==
  ASSUME Locked, NEW q \in Request, Deletion(q)
  PROVE  Kept(q)'
<1> DEFINE c == target[q]
<1>0. Typed /\ Holds(q) /\ Secures(q) /\ Sees(q)
  BY DEF Locked
<1>1. CASE LockServer(q)
  <2>1. /\ stage[q] = "deleting" /\ stage'[q] = "server_locked" /\ seenServer'[q] = serverVisibility
        /\ serverVisibility' = serverVisibility
    BY <1>0, <1>1 DEF LockServer, Ready, Advance, DeleteKeeps, lifecycleVars, Typed, TypeOK
  <2>2. \A x \in Row : lock[x] # q
    BY <1>0, <2>1 DEF Holds, Deleting
  <2>3. \A x \in Row : (lock'[x] = q) <=> (x = Server)
    BY <1>1, <2>2 DEF LockServer, Hold
  <2>4. Server \in Row /\ \A d \in Channel : d \in Row /\ d # Server
    BY ChannelsAssumption DEF Row, Channel
  <2>5. Holds(q)' /\ Secures(q)'
    BY <2>1, <2>3, <2>4 DEF Holds, Secures, Deleting
  <2>6. Sees(q)'
    BY <2>1, <2>3, <2>4 DEF Sees, Channel
  <2>7. QED
    BY <2>5, <2>6 DEF Kept
<1>2. CASE LockParent(q)
  <2>1. stage[q] = "server_locked" /\ c \in Thread /\ LockLive(q, ParentOf[c], "parent_locked")
    BY <1>2 DEF LockParent
  <2>2. ParentOf[c] \in Channel /\ ParentOf[c] \in Row /\ Server \in Row
    BY <2>1, ChannelsAssumption DEF Channel, Row
  <2>3. "parent_locked" \in Deleting /\ stage[q] \in Deleting
    BY <2>1 DEF Deleting
  <2>4. /\ stage'[q] = "parent_locked" /\ Sees(q)' /\ target' = target /\ deleted' = deleted
        /\ \A x \in Row : (lock'[x] = q) <=> (lock[x] = q \/ x = ParentOf[c])
        /\ ParentOf[c] \notin deleted
    BY <2>1, <2>2, <2>3, LockLiveKeeps
  <2>5. Holds(q)'
    BY <1>0, <2>1, <2>4 DEF Holds, Deleting
  <2>6. Secures(q)'
    BY <1>0, <2>1, <2>2, <2>3, <2>4 DEF Secures
  <2>7. QED
    BY <2>4, <2>5, <2>6 DEF Kept
<1>3. CASE LockTarget(q)
  <2>1. /\ stage[q] = "parent_locked" \/ (stage[q] = "server_locked" /\ c \in Top)
        /\ LockLive(q, c, "target_locked")
    BY <1>3 DEF LockTarget
  <2>2. "target_locked" \in Deleting /\ stage[q] \in Deleting
    BY <2>1 DEF Deleting
  <2>3. /\ c \in Channel /\ c \in Row /\ Server \in Row /\ Source(c) \in Row
        /\ c \in Thread => Source(c) = ParentOf[c]
        /\ c \in Top => Source(c) = c
    BY <1>0, <2>2, TargetType DEF Row, Channel
  <2>4. stage[q] = "parent_locked" => c \in Thread
    BY <1>0 DEF Typed, Fits
  <2>5. /\ stage'[q] = "target_locked" /\ Sees(q)' /\ target' = target /\ deleted' = deleted
        /\ \A x \in Row : (lock'[x] = q) <=> (lock[x] = q \/ x = c)
        /\ c \notin deleted
    BY <2>1, <2>2, <2>3, LockLiveKeeps
  <2>6. Source(target[q])' = Source(c)
    BY <2>5 DEF Source
  <2>7. Holds(q)'
    <3>1. ASSUME NEW x \in Row, lock[x] = q PROVE x = Server \/ (c \in Thread /\ x = ParentOf[c])
      BY <1>0, <2>1, <2>4, <3>1 DEF Holds
    <3>2. ASSUME NEW x \in Row, lock'[x] = q PROVE x = Server \/ x = Source(c) \/ x = c
      BY <2>3, <2>5, <3>1, <3>2
    <3>3. QED
      BY <2>2, <2>5, <2>6, <3>2 DEF Holds
  <2>8. Secures(q)'
    <3>1. lock[Server] = q
      BY <1>0, <2>2 DEF Secures
    <3>2. lock'[Server] = q /\ lock'[c] = q
      BY <2>3, <2>5, <3>1
    <3>3. lock'[Source(c)] = q /\ Source(c) \notin deleted
      BY <1>0, <2>1, <2>3, <2>4, <2>5 DEF Secures
    <3>4. QED
      BY <2>5, <2>6, <3>2, <3>3 DEF Secures
  <2>9. QED
    BY <2>5, <2>7, <2>8 DEF Kept
<1>4. CASE CheckAccess(q)
  <2>1. /\ stage[q] = "target_locked" /\ stage'[q] = "admitted"
        /\ UNCHANGED <<lock, seenVars, lifecycleVars, argVars>>
    BY <1>0, <1>4 DEF CheckAccess, Advance, DeleteKeeps, Typed, TypeOK
  <2>2. UNCHANGED <<lock, target, deleted, created, override, restricted, serverVisibility,
                    seenServer, seenOverride, seenRestricted>>
    BY <2>1 DEF seenVars, lifecycleVars, argVars
  <2>3. Source(target[q])' = Source(c)
    BY <2>2 DEF Source
  <2>4. Holds(q)'
    BY <1>0, <2>1, <2>2, <2>3 DEF Holds, Deleting
  <2>5. Secures(q)'
    BY <1>0, <2>1, <2>2, <2>3 DEF Secures, Deleting
  <2>6. Sees(q)'
    BY <1>0, <2>1, <2>2 DEF Sees, Deleting
  <2>7. QED
    BY <2>4, <2>5, <2>6 DEF Kept
<1>5. CASE LockDescendants(q)
  <2>1. /\ stage[q] = "admitted" /\ stage'[q] = "family_locked"
        /\ UNCHANGED <<target, deleted, created, override, restricted, serverVisibility,
                       seenServer, seenRestricted>>
    BY <1>0, <1>5 DEF LockDescendants, Advance, DeleteKeeps, lifecycleVars, argVars, Typed, TypeOK
  <2>2. \A x \in Row : (lock'[x] = q) <=> (lock[x] = q \/ x \in Below(c))
    BY <1>5 DEF LockDescendants, Hold, Below
  <2>3. Source(target[q])' = Source(c) /\ Below(target[q])' = Below(c) /\ target'[q] = c
    BY <2>1 DEF Source, Below
  <2>4. stage[q] \in Deleting
    BY <2>1 DEF Deleting
  <2>5. c \in Row /\ Source(c) \in Row /\ Server \in Row /\ Below(c) \subseteq Row
    BY <1>0, <2>4, TargetType DEF Row, Channel, Below
  <2>6. Holds(q)'
    <3>1. ASSUME NEW x \in Row, lock[x] = q PROVE x = Server \/ x = Source(c) \/ x = c
      BY <1>0, <2>1, <3>1 DEF Holds
    <3>2. ASSUME NEW x \in Row, lock'[x] = q
          PROVE  x = Server \/ x \in {Source(c), c} \/ x \in Below(c)
      BY <2>2, <3>1, <3>2
    <3>3. QED
      BY <2>1, <2>3, <3>2 DEF Holds, Deleting
  <2>7. Secures(q)'
    <3>1. lock'[Server] = q
      BY <1>0, <2>2, <2>4, <2>5 DEF Secures
    <3>2. \A d \in {Source(c), c} : lock'[d] = q /\ d \notin deleted'
      BY <1>0, <2>1, <2>2, <2>5 DEF Secures
    <3>3. \A t \in Below(c) : lock'[t] = q
      BY <2>2, <2>5
    <3>4. QED
      BY <2>1, <2>3, <3>1, <3>2, <3>3 DEF Secures
  <2>8. Sees(q)'
    <3>1. \A d \in Channel : lock'[d] = q => seenOverride'[q][d] = override[d]
      <4>1. \A d \in Channel : seenOverride'[q][d] = IF d \in Below(c) THEN override[d] ELSE seenOverride[q][d]
        BY <1>0, <1>5 DEF LockDescendants, Below, Typed, TypeOK
      <4>2. QED
        BY <1>0, <2>2, <2>4, <4>1 DEF Sees, Row
    <3>2. \A d \in Top : lock'[d] = q => seenRestricted'[q][d] = restricted[d]
      <4>1. \A d \in Top : d \notin Below(c) /\ d \in Row
        BY ChannelsAssumption DEF Below, Row, Channel
      <4>2. QED
        BY <1>0, <2>1, <2>2, <2>4, <4>1 DEF Sees
    <3>3. QED
      BY <1>0, <2>1, <2>4, <3>1, <3>2 DEF Sees
  <2>9. QED
    BY <2>6, <2>7, <2>8 DEF Kept
<1>6. CASE FindDeleted(q) \/ AccessDenied(q) \/ CommitDelete(q)
  BY <1>0, <1>6, EndKeeps DEF FindDeleted, AccessDenied, CommitDelete, Abort
<1>7. QED
  BY <1>1, <1>2, <1>3, <1>4, <1>5, <1>6 DEF Deletion

LEMMA OwnKeeps ==
  ASSUME Locked, NEW q \in Request, Call(q) \/ Step(q) \/ HangUp(q)
  PROVE  Kept(q)'
<1>0. Typed /\ Holds(q)
  BY DEF Locked
<1>1. CASE Call(q)
  <2>1. ASSUME NEW a, NEW c, NEW v, NEW s \in Waiting, Begin(q, a, c, v, s) PROVE Kept(q)'
    <3>1. stage[q] = "idle" /\ stage'[q] = s /\ lock' = lock
      BY <1>0, <2>1 DEF Begin, Advance, Typed, TypeOK
    <3>2. QED
      BY <3>1, BareKeeps DEF Waiting, Deleting
  <2>2. ASSUME NEW c, NEW r, NEW viewing, SetGrant(q, c, r, viewing) PROVE Kept(q)'
    <3>1. stage[q] = "idle" /\ stage' = stage /\ lock' = lock
      BY <2>2 DEF SetGrant
    <3>2. QED
      BY <3>1, BareKeeps DEF Deleting
  <2>3. QED
    BY <1>1, <2>1, <2>2 DEF Call, AskDelete, AskThread, AskVisibility, AskRestricted, AskChannel,
                AskServerVisibility, AskOrder, Waiting
<1>2. CASE Connect(q)
  <2>1. stage[q] \in Waiting /\ stage' = stage /\ lock' = lock
    BY <1>2 DEF Connect
  <2>2. QED
    BY <2>1, BareKeeps DEF Waiting, Deleting
<1>3. CASE Place(q)
  <2>1. stage[q] \in {"ordering", "placing"} /\ stage'[q] = "placing"
    BY <1>0, <1>3 DEF Place, Placing, Ready, Advance, Typed, TypeOK
  <2>2. Following(q) \in Top
    <3>1. order[q] \in Order /\ Placed(q) \in Nat /\ Placed(q) < Len(order[q])
      BY <1>0, <1>3, PlacedType DEF Place, Placing, Typed, TypeOK
    <3>2. QED
      BY <3>1, OrderSeq DEF Following
  <2>3. \A x \in Row : lock'[x] = q => x \in Top
    BY <1>0, <1>3, <2>1, <2>2 DEF Place, Hold, Holds, Deleting
  <2>4. QED
    BY <2>1, <2>3 DEF Kept, Holds, Secures, Sees, Deleting
<1>4. CASE /\ ~Call(q) /\ ~Connect(q) /\ ~Deletion(q) /\ ~Place(q)
  BY <1>0, <1>4, EndKeeps DEF Step, HangUp, PoolTimeout, Abort, WriteVisibility,
    WriteServerVisibility, WriteRestricted, InsertThread, InsertChannel, PlaceFails,
    BreakDeadlock, CommitOrder
<1>5. QED
  BY <1>1, <1>2, <1>3, <1>4, DeletionKeeps

LEMMA NextLocked ==
  ASSUME Locked, [Next]_vars
  PROVE  Locked'
<1>1. Typed'
  BY NextTyped DEF Locked
<1>2. CASE UNCHANGED vars
  BY <1>1, <1>2 DEF Locked, Holds, Secures, Sees, Source, Below, vars, lifecycleVars, requestVars,
    argVars, seenVars
<1>3. ASSUME NEW p \in Request, Call(p) \/ Step(p) \/ HangUp(p) PROVE Locked'
  <2>1. ASSUME NEW q \in Request PROVE Kept(q)'
    <3>1. CASE p = q
      BY <1>3, <3>1, OwnKeeps
    <3>2. CASE p # q
      <4>1. Frame(q)
        BY <1>3, <3>2, CallFrame, StepFrame DEF Locked
      <4>2. QED
        BY <4>1, FrameKeeps
    <3>3. QED
      BY <3>1, <3>2
  <2>2. QED
    BY <1>1, <2>1 DEF Locked, Kept
<1>4. QED
  BY <1>2, <1>3 DEF Next

-----------------------------------------------------------------------------
(* The transaction of delete_channel is one step.                            *)

LEMMA SameRule ==
  ASSUME NEW own, NEW parent, NEW hidden, NEW server
  PROVE  Lifecycle!TombstoneEligible(own, parent, hidden, server)
           = TombstoneEligible(own, parent, hidden, server)
BY DEF Lifecycle!TombstoneEligible, Lifecycle!Effective, Lifecycle!Contained, Lifecycle!Rank,
       Lifecycle!Visibility, TombstoneEligible, Effective, Contained, Rank, Visibility

LEMMA InitRemovals == Init => Lifecycle!Init
BY ChannelsAssumption DEF Init, Lifecycle!Init, Lifecycle!Channel, Channel, Lifecycle!Visibility

\* What is committed: all of it, from what was read under the locks.
LEMMA CommitRemoves ==
  ASSUME Locked, NEW q \in Request, CommitDelete(q)
  PROVE  Lifecycle!Remove(target[q])
<1> DEFINE c == target[q]
<1>1. stage[q] = "family_locked" /\ stage[q] \in Deleting /\ Typed /\ Holds(q) /\ Secures(q) /\ Sees(q)
  BY DEF CommitDelete, Deleting, Locked
<1>2. /\ c \in created /\ c \in Channel /\ Source(c) \in Top
      /\ c \in Thread => c \notin Top /\ Source(c) = ParentOf[c]
      /\ c \in Top => Source(c) = c
  BY <1>1, TargetType
<1>3. lock[c] = q /\ lock[Source(c)] = q /\ c \notin deleted /\ Source(c) \notin deleted
  BY <1>1 DEF Secures
<1>4. \A t \in Below(c) : lock[t] = q
  BY <1>1 DEF Secures
<1>5. Settled(q) = {c} \cup Below(c)
  <2>1. ASSUME NEW t \in Thread, lock[t] = q PROVE t \in {c} \cup Below(c)
    <3>1. t \in Row /\ t # Server /\ t \notin Top
      BY ChannelsAssumption DEF Row, Channel
    <3>2. t \in {Source(c), c} \/ t \in Below(c)
      BY <1>1, <2>1, <3>1 DEF Holds
    <3>3. QED
      BY <1>2, <3>1, <3>2
  <2>2. QED
    BY <1>4, <2>1 DEF Settled, Below
<1>6. ASSUME NEW d \in Settled(q) PROVE SnapshotOf(q, d) = Lifecycle!Leaves(d)
  <2>1. CASE d \notin Thread
    BY <2>1 DEF SnapshotOf, Lifecycle!Leaves
  <2>2. CASE d \in Thread
    <3>1. ParentOf[d] = Source(c) /\ lock[d] = q
      <4>1. CASE d = c
        BY <1>2, <1>3, <2>2, <4>1
      <4>2. CASE d \in Below(c)
        <5>1. c \in Top
          BY <4>2, ChannelsAssumption DEF Below
        <5>2. QED
          BY <1>2, <1>4, <4>2, <5>1 DEF Below
      <4>3. QED
        BY <1>5, <4>1, <4>2
    <3>2. d \in Channel /\ ParentOf[d] \in Channel /\ ParentOf[d] \in Top
      BY <1>2, <2>2, <3>1 DEF Channel
    <3>3. /\ seenOverride[q][d] = override[d] /\ seenServer[q] = serverVisibility
          /\ seenOverride[q][ParentOf[d]] = override[ParentOf[d]]
          /\ seenRestricted[q][ParentOf[d]] = restricted[ParentOf[d]]
      BY <1>1, <1>3, <3>1, <3>2 DEF Sees
    <3>4. QED
      BY <2>2, <3>3, SameRule DEF SnapshotOf, Lifecycle!Leaves
  <2>3. QED
    BY <2>1, <2>2
<1>7. Lifecycle!Family(c) = Settled(q)
  BY <1>5 DEF Lifecycle!Family, Below
<1>8. eligible' = [d \in Channel |-> IF d \in Lifecycle!Family(c) /\ eligible[d] = None
                                     THEN Lifecycle!Leaves(d) ELSE eligible[d]]
  BY <1>6, <1>7 DEF CommitDelete, Snapshot
<1>9. Lifecycle!Live(c)
  BY <1>2, <1>3 DEF Lifecycle!Live, Lifecycle!Present
<1>10. QED
  BY <1>8, <1>9 DEF CommitDelete, Lifecycle!Remove, Lifecycle!Channel, Channel

\* Every step is one of Lifecycle's, or leaves its variables alone.
LEMMA StepRemoves ==
  ASSUME Locked, [Next]_vars
  PROVE  [Lifecycle!Next]_lifecycleVars
<1>0. Typed
  BY DEF Locked
<1> USE DEF Lifecycle!Channel, Lifecycle!Next
<1>1. CASE UNCHANGED vars
  BY <1>1 DEF vars
<1>2. ASSUME NEW q \in Request, Call(q) PROVE UNCHANGED lifecycleVars
  BY <1>2 DEF Call, AskDelete, AskThread, AskVisibility, AskRestricted, AskChannel,
    AskServerVisibility, AskOrder, SetGrant, Begin
<1>3. ASSUME NEW q \in Request, CommitDelete(q) PROVE Lifecycle!Next
  <2>1. target[q] \in Channel
    BY <1>0, <1>3, TargetType DEF CommitDelete, Deleting
  <2>2. QED
    BY <1>3, <2>1, CommitRemoves DEF Channel
<1>4. ASSUME NEW q \in Request, WriteVisibility(q) PROVE Lifecycle!Next \/ UNCHANGED lifecycleVars
  <2>1. wish[q] \in Override /\ target[q] \in created /\ target[q] \in Channel
    <3>1. stage[q] = "allowed"
      BY <1>4 DEF WriteVisibility, Ready
    <3>2. QED
      BY <1>0, <3>1, TargetType DEF Typed, Fits
  <2>2. CASE target[q] \in deleted
    BY <1>4, <2>2 DEF WriteVisibility, lifecycleVars
  <2>3. CASE target[q] \notin deleted
    <3>1. Lifecycle!SetOverride(target[q], wish[q])
      BY <1>4, <2>1, <2>3 DEF WriteVisibility, Lifecycle!SetOverride, Lifecycle!Present
    <3>2. wish[q] \in Lifecycle!Override
      BY <2>1 DEF Override, Visibility, Lifecycle!Override, Lifecycle!Visibility
    <3>3. QED
      BY <2>1, <3>1, <3>2 DEF Channel
  <2>4. QED
    BY <2>2, <2>3
<1>5. ASSUME NEW q \in Request, WriteServerVisibility(q) PROVE Lifecycle!Next
  <2>1. wish[q] \in Lifecycle!Visibility
    BY <1>0, <1>5 DEF WriteServerVisibility, Ready, Typed, Fits, Visibility, Lifecycle!Visibility
  <2>2. Lifecycle!SetServer(wish[q])
    BY <1>5 DEF WriteServerVisibility, Lifecycle!SetServer
  <2>3. QED
    BY <2>1, <2>2
<1>6. ASSUME NEW q \in Request, WriteRestricted(q) PROVE Lifecycle!Next \/ UNCHANGED lifecycleVars
  <2>1. target[q] \in Top /\ target[q] \in created
    BY <1>0, <1>6 DEF WriteRestricted, Ready, Typed, Fits
  <2>2. CASE target[q] \in deleted
    BY <1>6, <2>2 DEF WriteRestricted, lifecycleVars
  <2>3. CASE target[q] \notin deleted
    <3>1. Lifecycle!SetRestricted(target[q], wish[q] = "restricted")
      BY <1>6, <2>1, <2>3 DEF WriteRestricted, Lifecycle!SetRestricted, Lifecycle!Present
    <3>2. QED
      BY <2>1, <3>1
  <2>4. QED
    BY <2>2, <2>3
<1>7. ASSUME NEW q \in Request, InsertThread(q) \/ InsertChannel(q) PROVE Lifecycle!Next
  <2>1. target[q] \in Channel
    BY <1>0, <1>7 DEF InsertThread, InsertChannel, Ready, Typed, Fits, Channel
  <2>2. Lifecycle!Insert(target[q])
    BY <1>7 DEF InsertThread, InsertChannel, Lifecycle!Insert
  <2>3. QED
    BY <2>1, <2>2 DEF Channel
<1>8. ASSUME NEW q \in Request, Step(q) \/ HangUp(q),
             ~CommitDelete(q), ~WriteVisibility(q), ~WriteServerVisibility(q), ~WriteRestricted(q),
             ~InsertThread(q), ~InsertChannel(q)
      PROVE  UNCHANGED lifecycleVars
  BY <1>8 DEF Step, HangUp, Deletion, Connect, PoolTimeout, LockServer, LockParent, LockTarget,
    LockLive, FindDeleted, CheckAccess, AccessDenied, LockDescendants, DeleteKeeps, Place,
    PlaceFails, BreakDeadlock, CommitOrder, Abort
<1>9. QED
  BY <1>1, <1>2, <1>3, <1>4, <1>5, <1>6, <1>7, <1>8 DEF Next

\* However requests interleave, fail or are cut off, the channels live as
\* Lifecycle says: a removal commits in one step, on the visibility of that
\* moment, and nothing else of it is ever seen.
THEOREM RemovalCorrect == Spec => RemovalIsAtomic
<1>1. Init => Locked /\ Lifecycle!Init
  BY InitLocked, InitRemovals
<1>2. Locked /\ [Next]_vars => Locked'
  BY NextLocked
<1>3. Locked /\ [Next]_vars => [Lifecycle!Next]_lifecycleVars
  BY StepRemoves
<1>4. [Lifecycle!Next]_lifecycleVars <=> [Lifecycle!Next]_(Lifecycle!lifecycleVars)
  BY DEF lifecycleVars, Lifecycle!lifecycleVars
<1>5. QED
  BY <1>1, <1>2, <1>3, <1>4, PTL DEF Spec, RemovalIsAtomic, Lifecycle!Spec

-----------------------------------------------------------------------------
(* The traces that removed threads leave.                                    *)

\* What is removed is settled, and nothing else.
Settling ==
  \A c \in Channel :
    /\ c \in deleted => eligible[c] # None
    /\ eligible[c] # None => c \in created /\ (c \in deleted \/ (c \in Thread /\ ParentOf[c] \in deleted))

\* What a step of Lifecycle does to the fate of a channel.
LEMMA Fate ==
  ASSUME Typed, Lifecycle!Next
  PROVE  /\ created \subseteq created' /\ deleted \subseteq deleted'
         /\ \/ UNCHANGED <<deleted, eligible>>
            \/ \E c \in Channel :
                 /\ Live(c)
                 /\ deleted' = deleted \cup {c}
                 /\ eligible' = [d \in Channel |->
                      IF d \in {c} \cup Below(c) /\ eligible[d] = None
                      THEN Lifecycle!Leaves(d) ELSE eligible[d]]
                 /\ UNCHANGED created
<1>1. ASSUME NEW c \in Channel, Lifecycle!Remove(c)
      PROVE  /\ Live(c) /\ deleted' = deleted \cup {c} /\ created' = created
             /\ eligible' = [d \in Channel |->
                  IF d \in {c} \cup Below(c) /\ eligible[d] = None
                  THEN Lifecycle!Leaves(d) ELSE eligible[d]]
  BY <1>1 DEF Lifecycle!Remove, Lifecycle!Live, Lifecycle!Present, Lifecycle!Family,
    Lifecycle!Channel, Channel, Live, Below
<1>2. CASE \E c \in Channel : Lifecycle!Remove(c)
  BY <1>1, <1>2
<1>3. CASE ~\E c \in Channel : Lifecycle!Remove(c)
  BY <1>3 DEF Lifecycle!Next, Lifecycle!Channel, Channel, Lifecycle!Insert, Lifecycle!SetOverride,
    Lifecycle!SetRestricted, Lifecycle!SetServer
<1>4. QED
  BY <1>2, <1>3

LEMMA SettlingHolds ==
  ASSUME Typed, Settling, [Lifecycle!Next]_lifecycleVars
  PROVE  Settling'
<1>1. CASE UNCHANGED lifecycleVars
  BY <1>1 DEF Settling, lifecycleVars
<1>2. CASE Lifecycle!Next
  <2>1. created \subseteq created' /\ deleted \subseteq deleted'
    BY <1>2, Fate
  <2>2. CASE UNCHANGED <<deleted, eligible>>
    BY <2>1, <2>2 DEF Settling
  <2>3. ASSUME NEW c \in Channel, Live(c), deleted' = deleted \cup {c}, created' = created,
               eligible' = [d \in Channel |-> IF d \in {c} \cup Below(c) /\ eligible[d] = None
                                              THEN Lifecycle!Leaves(d) ELSE eligible[d]]
        PROVE  Settling'
    <3>1. \A d : Lifecycle!Leaves(d) # None
      BY ChannelsAssumption DEF Lifecycle!Leaves
    <3>2. c \in created
      BY <2>3 DEF Live
    <3>3. \A d \in Below(c) : d \in created /\ d \in Thread /\ ParentOf[d] \in deleted'
      BY <2>3 DEF Below
    <3>4. ASSUME NEW d \in Channel
          PROVE  /\ d \in deleted' => eligible'[d] # None
                 /\ eligible'[d] # None =>
                      d \in created' /\ (d \in deleted' \/ (d \in Thread /\ ParentOf[d] \in deleted'))
      <4>1. eligible'[d] = IF d \in {c} \cup Below(c) /\ eligible[d] = None
                           THEN Lifecycle!Leaves(d) ELSE eligible[d]
        BY <2>3
      <4>2. CASE d \in {c} \cup Below(c)
        BY <2>3, <3>1, <3>2, <3>3, <4>1, <4>2
      <4>3. CASE d \notin {c} \cup Below(c)
        BY <2>3, <4>1, <4>3 DEF Settling
      <4>4. QED
        BY <4>2, <4>3
    <3>5. QED
      BY <3>4 DEF Settling
  <2>4. QED
    BY <1>2, <2>2, <2>3, Fate
<1>3. QED
  BY <1>1, <1>2

Tells(t) ==
  /\ t \in PublicThreads /\ ~Live(t)' => PublicThread(t)' = "gone"
  /\ PublicThread(t) = "gone" => PublicThread(t)' = "gone"
  /\ PublicThread(t) = "not_found" => PublicThread(t)' # "gone"

\* The answer for thread t.
LEMMA Answers ==
  ASSUME NEW t \in Thread
  PROVE  /\ ReadAccess(None, t) = "public" <=>
              Live(t) /\ ~EffectiveRestricted(t) /\ EffectiveNow(t) \in {"public", "unlisted"}
         /\ PublicThread(t) = "gone" <=> ReadAccess(None, t) # "public" /\ HasTombstone(t)
         /\ PublicThread(t) = "not_found" <=> ReadAccess(None, t) # "public" /\ ~HasTombstone(t)
         /\ HasTombstone(t) => ~Live(t)
BY DEF ReadAccess, PublicThread, HasTombstone, Live

LEMMA AnswersNext ==
  ASSUME NEW t \in Thread
  PROVE  /\ (ReadAccess(None, t) = "public")' => Live(t)'
         /\ (PublicThread(t) = "gone")' <=> (ReadAccess(None, t) # "public")' /\ HasTombstone(t)'
         /\ HasTombstone(t)' <=>
              t \in created' /\ eligible'[t] = TRUE /\ (t \in deleted' \/ ParentOf[t] \in deleted')
         /\ Live(t)' <=> t \in created' \ deleted' /\ ParentOf[t] \notin deleted'
BY DEF ReadAccess, PublicThread, HasTombstone, Live

\* A thread is settled as what it was to the public.
LEMMA LeavesPublic ==
  ASSUME NEW t \in Thread
  PROVE  Lifecycle!Leaves(t) <=> ~EffectiveRestricted(t) /\ EffectiveNow(t) = "public"
BY SameRule DEF Lifecycle!Leaves, TombstoneEligible, EffectiveRestricted, EffectiveNow, Source,
       OverrideAbove

LEMMA StepTells ==
  ASSUME Typed, Settling, [Lifecycle!Next]_lifecycleVars, NEW t \in Thread
  PROVE  Tells(t)
<1>0. t \in Channel /\ (None # TRUE) /\ (None # FALSE)
  BY ChannelsAssumption DEF Channel
<1>1. CASE UNCHANGED lifecycleVars \/ (UNCHANGED <<deleted, eligible>> /\ created \subseteq created')
  <2>1. UNCHANGED <<deleted, eligible>> /\ created \subseteq created'
    BY <1>1 DEF lifecycleVars
  <2>2. t \in PublicThreads => Live(t)
    BY DEF PublicThreads
  <2>3. Live(t) => Live(t)'
    BY <2>1, AnswersNext DEF Live
  <2>4. HasTombstone(t)' <=> HasTombstone(t)
    BY <1>0, <2>1, AnswersNext DEF HasTombstone, Settling
  <2>5. HasTombstone(t)' => ~(ReadAccess(None, t) = "public")'
    BY AnswersNext
  <2>6. QED
    BY <2>2, <2>3, <2>4, <2>5, Answers, AnswersNext DEF Tells
<1>2. ASSUME NEW c \in Channel, Live(c), deleted' = deleted \cup {c}, created' = created,
             eligible' = [d \in Channel |-> IF d \in {c} \cup Below(c) /\ eligible[d] = None
                                            THEN Lifecycle!Leaves(d) ELSE eligible[d]]
      PROVE  Tells(t)
  <2>1. eligible'[t] = IF t \in {c} \cup Below(c) /\ eligible[t] = None
                       THEN Lifecycle!Leaves(t) ELSE eligible[t]
    BY <1>0, <1>2
  <2>2. (t \in Below(c)) <=> (t \in created /\ ParentOf[t] = c)
    BY DEF Below
  <2>3. t \in PublicThreads /\ ~Live(t)' => PublicThread(t)' = "gone"
    <3> SUFFICES ASSUME t \in PublicThreads, ~Live(t)' PROVE PublicThread(t)' = "gone"
      OBVIOUS
    <3>1. Live(t) /\ EffectiveNow(t) = "public" /\ ~EffectiveRestricted(t)
      BY Answers DEF PublicThreads
    <3>2. t \in created /\ t \notin deleted /\ ParentOf[t] \notin deleted
      BY <3>1 DEF Live
    <3>3. eligible[t] = None
      BY <1>0, <3>2 DEF Settling
    <3>4. t = c \/ ParentOf[t] = c
      BY <1>2, <3>2, AnswersNext
    <3>5. eligible'[t] = Lifecycle!Leaves(t)
      BY <2>1, <2>2, <3>2, <3>3, <3>4
    <3>6. eligible'[t] = TRUE
      BY <3>1, <3>5, LeavesPublic DEF Lifecycle!Leaves
    <3>7. HasTombstone(t)'
      BY <1>2, <3>2, <3>4, <3>6, AnswersNext
    <3>8. QED
      BY <3>7, AnswersNext
  <2>4. PublicThread(t) = "gone" => PublicThread(t)' = "gone"
    <3> SUFFICES ASSUME PublicThread(t) = "gone" PROVE PublicThread(t)' = "gone"
      OBVIOUS
    <3>1. t \in created /\ eligible[t] = TRUE /\ (t \in deleted \/ ParentOf[t] \in deleted)
      BY Answers DEF HasTombstone
    <3>2. eligible'[t] = TRUE
      BY <1>0, <2>1, <3>1
    <3>3. HasTombstone(t)'
      BY <1>2, <3>1, <3>2, AnswersNext
    <3>4. QED
      BY <3>3, AnswersNext
  <2>5. PublicThread(t) = "not_found" => PublicThread(t)' # "gone"
    <3> SUFFICES ASSUME PublicThread(t) = "not_found", PublicThread(t)' = "gone" PROVE FALSE
      OBVIOUS
    <3>1. ReadAccess(None, t) # "public" /\ ~HasTombstone(t)
      BY Answers
    <3>2. t \in created /\ eligible'[t] = TRUE
      BY <1>2, AnswersNext
    <3>3. CASE eligible[t] # None
      <4>1. eligible[t] = TRUE
        BY <2>1, <3>2, <3>3
      <4>2. t \in deleted \/ ParentOf[t] \in deleted
        BY <1>0, <3>3 DEF Settling
      <4>3. QED
        BY <3>1, <3>2, <4>1, <4>2 DEF HasTombstone
    <3>4. CASE eligible[t] = None
      <4>1. (t = c \/ ParentOf[t] = c) /\ Lifecycle!Leaves(t)
        BY <1>0, <2>1, <2>2, <3>2, <3>4
      <4>2. t \notin deleted
        BY <1>0, <3>4 DEF Settling
      <4>3. Live(t)
        <5>1. CASE t = c
          BY <1>2, <5>1
        <5>2. CASE ParentOf[t] = c
          BY <1>2, <3>2, <4>2, <5>2 DEF Live
        <5>3. QED
          BY <4>1, <5>1, <5>2
      <4>4. QED
        BY <3>1, <4>1, <4>3, Answers, LeavesPublic
    <3>5. QED
      BY <3>3, <3>4
  <2>6. QED
    BY <2>3, <2>4, <2>5 DEF Tells
<1>3. QED
  BY <1>1, <1>2, Fate

\* A thread of the sitemap answers 410 from its removal on, and a thread that
\* answers 404 never does.
THEOREM TombstonesCorrect == Spec => TombstonesTell
<1>1. Init => Locked /\ Settling
  <2>1. Init => Settling
    BY DEF Init, Settling
  <2>2. QED
    BY <2>1, InitLocked
<1>2. Locked /\ Settling /\ [Next]_vars => (Locked /\ Settling)'
  BY NextLocked, StepRemoves, SettlingHolds DEF Locked
<1>3. Locked /\ Settling /\ [Next]_vars => \A t \in Thread : Tells(t)
  BY StepRemoves, StepTells DEF Locked
<1>4. Locked /\ Settling /\ [Next]_vars =>
        [\A t \in Thread :
           /\ t \in PublicThreads /\ ~Live(t)' => PublicThread(t)' = "gone"
           /\ PublicThread(t) = "gone" => PublicThread(t)' = "gone"
           /\ PublicThread(t) = "not_found" => PublicThread(t)' # "gone"]_vars
  BY <1>3 DEF Tells
<1>5. QED
  BY <1>1, <1>2, <1>4, PTL DEF Spec, TombstonesTell

-----------------------------------------------------------------------------
(* The order of the list.                                                    *)

\* Request q has an order half written, and c in it.
Working(q, c) == stage[q] = "placing" /\ lock[c] = q

\* What q has locked is the beginning of its order, and stands as it asks.
Beginning(q) ==
  /\ Placed(q) \in 0..Len(order[q])
  /\ \A c \in Top : lock[c] = q <=> \E i \in 1..Placed(q) : c = order[q][i]
  /\ \A i \in 1..Placed(q) : position[order[q][i]] = i - 1

\* Apart from what is half written, the last order stands; and where something
\* is, what it stood at is kept.
Standing(i) ==
  LET c == lastOrder[i] IN
  /\ \A q \in Request : Working(q, c) => before[q][c] = i - 1
  /\ (\A q \in Request : ~Working(q, c)) => position[c] = i - 1

Ordered ==
  /\ Locked
  /\ \A q \in Request : stage[q] = "placing" => Beginning(q)
  /\ \A i \in 1..Len(lastOrder) : Standing(i)

LEMMA InitOrdered == Init => Ordered
<1> SUFFICES ASSUME Init PROVE Ordered
  OBVIOUS
<1>1. lastOrder = <<>> /\ Len(lastOrder) = 0 /\ \A q \in Request : stage[q] # "placing"
  BY EmptySeq DEF Init
<1>2. QED
  BY <1>1, InitLocked DEF Ordered

LEMMA FrameOrdered ==
  ASSUME Ordered, NEW q \in Request, Frame(q), stage[q] = "placing"
  PROVE  Beginning(q)'
<1>1. /\ order'[q] = order[q]
      /\ \A c \in Top : (lock'[c] = q) <=> (lock[c] = q)
      /\ \A c \in Top : lock[c] = q => position'[c] = position[c]
  BY DEF Frame, Row, Channel
<1>2. {c \in Top : lock'[c] = q} = {c \in Top : lock[c] = q}
  BY <1>1
<1>3. Placed(q)' = Placed(q)
  BY <1>2 DEF Placed
<1>4. Beginning(q) /\ order[q] \in Order
  BY DEF Ordered, Locked, Typed, TypeOK
<1>5. \A i \in 1..Placed(q) : order[q][i] \in Top /\ lock[order[q][i]] = q
  BY <1>4, OrderSeq DEF Beginning
<1>6. QED
  BY <1>1, <1>3, <1>4, <1>5 DEF Beginning

\* One more channel.
LEMMA PlaceOrdered ==
  ASSUME Ordered, NEW q \in Request, Place(q)
  PROVE  Following(q) \in Top /\ Beginning(q)'
<1> DEFINE n == Placed(q)
           f == Following(q)
           S == {c \in Top : lock[c] = q}
<1>0. Typed /\ Holds(q) /\ order[q] \in Order
  BY DEF Ordered, Locked, Typed, TypeOK
<1>1. /\ Unlocked(f) /\ f = order[q][n + 1] /\ order' = order
      /\ position' = [position EXCEPT ![f] = n] /\ Hold(q, {f})
      /\ stage[q] \in {"ordering", "placing"} /\ n < Len(order[q])
  BY DEF Place, Following, Placing, Ready, argVars
<1>2. n \in Nat /\ Len(order[q]) \in Nat /\ IsFiniteSet(S) /\ n = Cardinality(S)
  BY <1>0, PlacedType, OrderSeq DEF Placed
<1>3. f \in Top /\ f \notin S
  BY <1>0, <1>1, <1>2, OrderSeq, ChannelsAssumption DEF Unlocked
<1>4. /\ \A c \in Top : lock[c] = q <=> \E i \in 1..n : c = order[q][i]
      /\ \A i \in 1..n : position[order[q][i]] = i - 1
  <2>1. CASE stage[q] = "placing"
    BY <2>1 DEF Ordered, Beginning
  <2>2. CASE stage[q] = "ordering"
    <3>1. S = {}
      BY <1>0, <2>2, ChannelsAssumption DEF Holds, Deleting, Row, Channel
    <3>2. n = 0
      BY <1>2, <3>1, FS_EmptySet
    <3>3. QED
      BY <3>1, <3>2
  <2>3. QED
    BY <1>1, <2>1, <2>2
<1>5. {c \in Top : lock'[c] = q} = S \cup {f}
  BY <1>1, <1>3 DEF Hold, Row, Channel
<1>6. Placed(q)' = n + 1
  <2>1. Cardinality(S \cup {f}) = Cardinality(S) + 1
    BY <1>2, <1>3, FS_AddElement
  <2>2. QED
    BY <1>2, <1>5, <2>1 DEF Placed
<1>7. Placed(q)' \in 0..Len(order[q])
  BY <1>1, <1>2, <1>6
<1>8. \A c \in Top : lock'[c] = q <=> \E i \in 1..(n + 1) : c = order[q][i]
  <2>1. \A c \in Top : lock'[c] = q <=> (lock[c] = q \/ c = f)
    BY <1>5
  <2>2. 1..(n + 1) = 1..n \cup {n + 1}
    <3>1. \A m \in Nat, i \in Int : (1 <= i /\ i <= m + 1) <=> (1 <= i /\ i <= m) \/ i = m + 1
      OBVIOUS
    <3>2. \A m \in Nat : 1..(m + 1) \subseteq Int /\ 1..m \cup {m + 1} \subseteq Int
      OBVIOUS
    <3>3. \A m \in Nat : \A i \in Int : i \in 1..(m + 1) <=> i \in 1..m \cup {m + 1}
      BY <3>1
    <3>4. \A m \in Nat : 1..(m + 1) = 1..m \cup {m + 1}
      BY <3>2, <3>3, Zenon
    <3>5. QED
      BY <1>2, <3>4
  <2>3. \A c \in Top : (\E i \in 1..(n + 1) : c = order[q][i])
                         <=> ((\E i \in 1..n : c = order[q][i]) \/ c = f)
    BY <1>1, <2>2
  <2>4. QED
    BY <1>4, <2>1, <2>3
<1>9. \A i \in 1..(n + 1) : position'[order[q][i]] = i - 1
  <2> SUFFICES ASSUME NEW i \in 1..(n + 1) PROVE position'[order[q][i]] = i - 1
    OBVIOUS
  <2>1. i \in 1..Len(order[q]) /\ n + 1 \in 1..Len(order[q])
    BY <1>1, <1>2
  <2>2. position \in [Top -> Nat \cup {None}] /\ order[q][i] \in Top
    BY <1>0, <2>1, OrderSeq DEF Typed, TypeOK
  <2>3. CASE i = n + 1
    BY <1>1, <1>2, <1>3, <2>2, <2>3
  <2>4. CASE i # n + 1
    <3>1. order[q][i] # f
      BY <1>0, <1>1, <2>1, <2>4, OrderSeq
    <3>2. i \in 1..n
      BY <1>2, <2>4
    <3>3. QED
      BY <1>1, <1>4, <2>2, <3>1, <3>2
  <2>5. QED
    BY <2>3, <2>4
<1>10. QED
  BY <1>1, <1>3, <1>6, <1>7, <1>8, <1>9 DEF Beginning

\* Only Place begins or continues an order.
LEMMA OwnOrdered ==
  ASSUME Ordered, NEW q \in Request, Call(q) \/ Step(q) \/ HangUp(q), stage'[q] = "placing"
  PROVE  Place(q)
<1>0. Typed
  BY DEF Ordered, Locked
<1>1. CASE Call(q)
  <2>1. ASSUME NEW a, NEW c, NEW v, NEW s \in Waiting, Begin(q, a, c, v, s) PROVE FALSE
    BY <1>0, <2>1 DEF Begin, Advance, Typed, TypeOK, Waiting
  <2>2. ASSUME NEW c, NEW r, NEW viewing, SetGrant(q, c, r, viewing) PROVE FALSE
    BY <2>2 DEF SetGrant
  <2>3. QED
    BY <1>1, <2>1, <2>2 DEF Call, AskDelete, AskThread, AskVisibility, AskRestricted, AskChannel,
      AskServerVisibility, AskOrder, Waiting
<1>2. CASE Connect(q)
  BY <1>2 DEF Connect, Waiting
<1>3. CASE LockServer(q) \/ LockParent(q) \/ LockTarget(q) \/ CheckAccess(q) \/ LockDescendants(q)
  BY <1>0, <1>3 DEF LockServer, LockParent, LockTarget, LockLive, CheckAccess, LockDescendants,
    Advance, Typed, TypeOK
<1>4. ~End(q)
  BY <1>0 DEF End, Advance, Typed, TypeOK
<1>5. QED
  BY <1>1, <1>2, <1>3, <1>4 DEF Step, HangUp, Deletion, PoolTimeout, FindDeleted, AccessDenied,
    CommitDelete, Abort, WriteVisibility, WriteServerVisibility, WriteRestricted, InsertThread,
    InsertChannel, PlaceFails, BreakDeadlock, CommitOrder

\* Where the step of request p does not touch what is half written, the order
\* stands as it stood.
LEMMA StandingKept ==
  ASSUME Ordered, NEW p \in Request, \A q \in Request \ {p} : Frame(q),
         NEW i \in 1..Len(lastOrder), lastOrder' = lastOrder,
         position'[lastOrder[i]] = position[lastOrder[i]],
         Working(p, lastOrder[i])' <=> Working(p, lastOrder[i]),
         Working(p, lastOrder[i]) => before'[p][lastOrder[i]] = before[p][lastOrder[i]]
  PROVE  Standing(i)'
<1> DEFINE c == lastOrder[i]
<1>1. c \in Top /\ c \in Row
  <2>1. lastOrder \in Order
    BY DEF Ordered, Locked, Typed, TypeOK
  <2>2. QED
    BY <2>1, OrderSeq DEF Row, Channel
<1>2. \A q \in Request :
        /\ (stage'[q] = "placing" /\ lock'[c] = q) <=> Working(q, c)
        /\ Working(q, c) => before'[q][c] = before[q][c]
  BY <1>1 DEF Frame, Working
<1>3. Standing(i)
  BY DEF Ordered
<1>4. QED
  BY <1>2, <1>3 DEF Standing, Working

LEMMA PlaceStanding ==
  ASSUME Ordered, NEW p \in Request, \A q \in Request \ {p} : Frame(q), Place(p),
         NEW i \in 1..Len(lastOrder)
  PROVE  Standing(i)'
<1> DEFINE c == lastOrder[i]
           f == Following(p)
<1>0. Typed /\ Holds(p) /\ Standing(i) /\ lastOrder \in Order
  BY DEF Ordered, Locked, Typed, TypeOK
<1>1. /\ Unlocked(f) /\ lastOrder' = lastOrder
      /\ position' = [position EXCEPT ![f] = Placed(p)]
      /\ before' = [before EXCEPT ![p] = [d \in Top |-> IF d = f THEN position[d] ELSE before[p][d]]]
      /\ \A x \in Row : lock'[x] = IF x = f THEN p ELSE lock[x]
      /\ stage[p] \in {"ordering", "placing"} /\ stage'[p] = "placing"
  BY <1>0 DEF Place, Placing, Ready, Hold, Advance, Typed, TypeOK
<1>2. c \in Top /\ c \in Row /\ c # Server
  BY <1>0, OrderSeq, ChannelsAssumption DEF Row, Channel
<1>3. before'[p][c] = IF c = f THEN position[c] ELSE before[p][c]
  BY <1>0, <1>1, <1>2 DEF Typed, TypeOK
<1>4. CASE c = f
  <2>1. \A q \in Request : lock[c] # q
    BY <1>1, <1>4, ChannelsAssumption DEF Unlocked
  <2>2. position[c] = i - 1
    BY <1>0, <2>1 DEF Standing, Working
  <2>3. lock'[c] = p /\ before'[p][c] = i - 1
    BY <1>1, <1>2, <1>3, <1>4, <2>2
  <2>4. QED
    BY <1>1, <2>3 DEF Standing, Working
<1>5. CASE c # f
  <2>1. position'[c] = position[c]
    BY <1>0, <1>1, <1>2, <1>5 DEF Typed, TypeOK
  <2>2. lock'[c] = lock[c]
    BY <1>1, <1>2, <1>5
  <2>3. stage[p] = "ordering" => lock[c] # p
    BY <1>0, <1>2 DEF Holds, Deleting
  <2>4. (stage'[p] = "placing" /\ lock'[c] = p) <=> Working(p, c)
    BY <1>1, <2>2, <2>3 DEF Working
  <2>5. Working(p, c)' <=> Working(p, c)
    BY <1>1, <2>4 DEF Working
  <2>6. QED
    BY <1>1, <1>3, <1>5, <2>1, <2>5, StandingKept
<1>6. QED
  BY <1>4, <1>5

LEMMA AbortStanding ==
  ASSUME Ordered, NEW p \in Request, \A q \in Request \ {p} : Frame(q), Abort(p),
         NEW i \in 1..Len(lastOrder)
  PROVE  Standing(i)'
<1> DEFINE c == lastOrder[i]
<1>0. Typed /\ Standing(i) /\ lastOrder \in Order
  BY DEF Ordered, Locked, Typed, TypeOK
<1>1. c \in Top /\ c \in Row
  BY <1>0, OrderSeq DEF Row, Channel
<1>2. /\ stage'[p] = "idle" /\ lastOrder' = lastOrder
      /\ \A x \in Row : lock'[x] = IF lock[x] = p THEN None ELSE lock[x]
      /\ position'[c] = IF stage[p] = "placing" /\ lock[c] = p THEN before[p][c] ELSE position[c]
  BY <1>0, <1>1 DEF Abort, End, Restore, Advance, Typed, TypeOK
<1>3. CASE Working(p, c)
  <2>1. position'[c] = i - 1
    BY <1>0, <1>2, <1>3 DEF Standing, Working
  <2>2. \A q \in Request : lock'[c] # q
    BY <1>1, <1>2, <1>3, ChannelsAssumption DEF Working
  <2>3. QED
    BY <1>2, <2>1, <2>2 DEF Standing, Working
<1>4. CASE ~Working(p, c)
  <2>1. Working(p, c)' <=> Working(p, c)
    BY <1>2, <1>4 DEF Working
  <2>2. position'[c] = position[c]
    BY <1>2, <1>4 DEF Working
  <2>3. QED
    BY <1>2, <1>4, <2>1, <2>2, StandingKept
<1>5. QED
  BY <1>3, <1>4

\* The new order is the one that stands.
LEMMA CommitStanding ==
  ASSUME Ordered, NEW p \in Request, CommitOrder(p), NEW i \in 1..Len(lastOrder')
  PROVE  Standing(i)'
<1>0. Typed /\ Beginning(p) /\ order[p] \in Order
  BY DEF CommitOrder, Ordered, Locked, Typed, TypeOK
<1>1. lastOrder' = order[p] /\ position' = position /\ Placed(p) = Len(order[p])
  BY DEF CommitOrder
<1> DEFINE c == order[p][i]
<1>2. i \in 1..Placed(p)
  BY <1>1
<1>3. c \in Top /\ c \in Row
  BY <1>0, <1>1, OrderSeq DEF Row, Channel
<1>4. lock[c] = p /\ position[c] = i - 1
  BY <1>0, <1>2, <1>3 DEF Beginning
<1>5. \A q \in Request : lock'[c] # q
  BY <1>3, <1>4, ChannelsAssumption DEF CommitOrder, End
<1>6. QED
  BY <1>1, <1>4, <1>5 DEF Standing, Working

\* Anything else leaves position and lastOrder alone, and holds no order.
LEMMA OtherStanding ==
  ASSUME Ordered, NEW p \in Request, \A q \in Request \ {p} : Frame(q),
         Call(p) \/ Step(p) \/ HangUp(p), ~Place(p), ~CommitOrder(p), ~Abort(p),
         NEW i \in 1..Len(lastOrder)
  PROVE  lastOrder' = lastOrder /\ Standing(i)'
<1>0. Typed
  BY DEF Ordered, Locked
<1>1. UNCHANGED <<position, lastOrder>>
  BY DEF Call, Step, HangUp, AskDelete, AskThread, AskVisibility, AskRestricted, AskChannel,
    AskServerVisibility, AskOrder, Begin, SetGrant, Connect, PoolTimeout, Deletion, LockServer,
    LockParent, LockTarget, LockLive, FindDeleted, CheckAccess, AccessDenied, LockDescendants,
    CommitDelete, DeleteKeeps, WriteVisibility, WriteServerVisibility, WriteRestricted,
    InsertThread, InsertChannel, PlaceFails, BreakDeadlock, orderVars
<1>2. stage[p] # "placing"
  BY DEF Call, Step, HangUp, AskDelete, AskThread, AskVisibility, AskRestricted, AskChannel,
    AskServerVisibility, AskOrder, Begin, SetGrant, Connect, PoolTimeout, Deletion, LockServer,
    LockParent, LockTarget, FindDeleted, CheckAccess, AccessDenied, LockDescendants,
    CommitDelete, WriteVisibility, WriteServerVisibility, WriteRestricted,
    InsertThread, InsertChannel, PlaceFails, BreakDeadlock, Ready, Waiting
<1>3. stage'[p] # "placing"
  BY OwnOrdered
<1>4. Working(p, lastOrder[i])' <=> Working(p, lastOrder[i])
  BY <1>1, <1>2, <1>3 DEF Working
<1>5. QED
  BY <1>1, <1>2, <1>4, StandingKept DEF Working

LEMMA NextOrdered ==
  ASSUME Ordered, [Next]_vars
  PROVE  Ordered'
<1>1. Locked'
  BY NextLocked DEF Ordered
<1>2. CASE UNCHANGED vars
  <2>1. UNCHANGED <<lock, stage, order, position, before, lastOrder>>
    BY <1>2 DEF vars, orderVars, requestVars, argVars
  <2>2. \A q \in Request : Beginning(q)' <=> Beginning(q)
    BY <2>1 DEF Beginning, Placed
  <2>3. \A i : Standing(i)' <=> Standing(i)
    BY <2>1 DEF Standing, Working
  <2>4. \A q \in Request : stage[q] = "placing" => Beginning(q)
    BY DEF Ordered
  <2>5. \A i \in 1..Len(lastOrder) : Standing(i)
    BY DEF Ordered
  <2>6. QED
    BY <1>1, <2>1, <2>2, <2>3, <2>4, <2>5 DEF Ordered
<1>3. ASSUME NEW p \in Request, Call(p) \/ Step(p) \/ HangUp(p) PROVE Ordered'
  <2>1. \A q \in Request \ {p} : Frame(q)
    BY <1>3, CallFrame, StepFrame DEF Ordered, Locked
  <2>2. ASSUME NEW q \in Request, stage'[q] = "placing" PROVE Beginning(q)'
    <3>1. CASE q = p
      BY <1>3, <2>2, <3>1, OwnOrdered, PlaceOrdered
    <3>2. CASE q # p
      <4>1. Frame(q)
        BY <2>1, <3>2
      <4>2. stage[q] = "placing"
        BY <2>2, <4>1 DEF Frame
      <4>3. QED
        BY <4>1, <4>2, FrameOrdered
    <3>3. QED
      BY <3>1, <3>2
  <2>3. \A i \in 1..Len(lastOrder') : Standing(i)'
    <3>1. CASE CommitOrder(p)
      BY <3>1, CommitStanding
    <3>2. CASE Place(p)
      <4>1. lastOrder' = lastOrder
        BY <3>2 DEF Place
      <4>2. QED
        BY <2>1, <3>2, <4>1, PlaceStanding
    <3>3. CASE Abort(p)
      <4>1. lastOrder' = lastOrder
        BY <3>3 DEF Abort
      <4>2. QED
        BY <2>1, <3>3, <4>1, AbortStanding
    <3>4. CASE ~CommitOrder(p) /\ ~Place(p) /\ ~Abort(p)
      <4>1. lastOrder' = lastOrder
        BY <1>3, <3>4 DEF Call, Step, HangUp, AskDelete, AskThread, AskVisibility, AskRestricted, AskChannel,
          AskServerVisibility, AskOrder, Begin, SetGrant, Connect, PoolTimeout, Deletion, LockServer,
          LockParent, LockTarget, LockLive, FindDeleted, CheckAccess, AccessDenied, LockDescendants,
          CommitDelete, DeleteKeeps, WriteVisibility, WriteServerVisibility, WriteRestricted,
          InsertThread, InsertChannel, PlaceFails, BreakDeadlock, orderVars
      <4>2. QED
        BY <1>3, <2>1, <3>4, <4>1, OtherStanding
    <3>5. QED
      BY <3>1, <3>2, <3>3, <3>4
  <2>4. QED
    BY <1>1, <2>2, <2>3 DEF Ordered
<1>4. QED
  BY <1>2, <1>3 DEF Next

\* An order is taken over whole or not at all: the channels that no reorder is
\* at work on stand where the last committed order put them.
THEOREM OrderCorrect == Spec => []OrderIsWhole
<1>1. Ordered => OrderIsWhole
  <2> SUFFICES ASSUME Ordered, NEW i \in DOMAIN lastOrder
               PROVE  \/ position[lastOrder[i]] = i - 1
                      \/ \E q \in Request : stage[q] = "placing" /\ lock[lastOrder[i]] = q
    BY DEF OrderIsWhole
  <2>1. i \in 1..Len(lastOrder)
    BY OrderSeq DEF Ordered, Locked, Typed, TypeOK
  <2>2. QED
    BY <2>1 DEF Ordered, Standing, Working
<1>2. QED
  BY <1>1, InitOrdered, NextOrdered, PTL DEF Spec

-----------------------------------------------------------------------------
(* Progress.  That every request ends is for TLC; that the locks never leave *)
(* everybody waiting for everybody is proved.                                *)

\* The rows that the next statement of q waits for, once it has its connection.
Needs(q) ==
  {x \in Row :
     \/ stage[q] \in {"deleting", "opening", "threading", "creating"} /\ x = Server
     \/ stage[q] = "threading" /\ x = ParentOf[target[q]]
     \/ stage[q] = "server_locked" /\ x = Source(target[q])
     \/ stage[q] \in {"parent_locked", "allowed", "restricting"} /\ x = target[q]
     \/ stage[q] = "admitted" /\ x \in Below(target[q])
     \/ Placing(q) /\ x = Following(q)}

\* The guard of Step(q): the pool answers, if only by its timeout; the rows are
\* free; or the database breaks the circle q is in.
Moves(q) ==
  /\ stage[q] # "idle"
  /\ \/ NeedsConnection(q)
     \/ \A x \in Needs(q) : Unlocked(x)
     \/ Deadlocked(q)

\* While there are requests at work, one of them can go on.
SomebodyMoves == (\E q \in Request : stage[q] # "idle") => \E q \in Request : Moves(q)

\* Each of S waits for a row that one of S holds.
Circle(S) == S # {} /\ \A q \in S : \E x \in Needs(q) : lock[x] \in S

\* A circle closes among reorders: a deletion in one holds the server's row
\* alone, and whoever waits for that row holds nothing.
LEMMA CirclesAreOfOrders ==
  ASSUME Locked, NEW S \in SUBSET Request, Circle(S)
  PROVE  \E q \in S : Deadlocked(q)
<1> DEFINE P == {q \in S : Placing(q)}
<1> USE ChannelsAssumption DEF Row, Channel
<1>0. Typed /\ \A q \in Request : Holds(q) /\ Secures(q) /\ Fits(stage[q], target[q], wish[q])
  BY DEF Locked, Typed
\* Whoever holds a row is at work on an order or a deletion.
<1>1. ASSUME NEW r \in Request, NEW x \in Row, lock[x] = r
      PROVE  \/ stage[r] = "placing" /\ x \in Top
             \/ stage[r] \in Deleting /\ lock[Server] = r
  BY <1>0, <1>1 DEF Holds, Secures, Deleting
\* A deletion that waits holds the server's row only.
<1>2. ASSUME NEW r \in S, stage[r] \in Deleting
      PROVE  stage[r] = "server_locked" /\ \A x \in Row : lock[x] = r => x = Server
  <2>1. lock[Server] = r
    BY <1>0, <1>2 DEF Secures
  <2>2. PICK y \in Needs(r) : lock[y] \in S
    BY DEF Circle
  <2>3. PICK s \in S : lock[y] = s
    BY <2>2
  <2>4. y \in Row /\ ~Placing(r) /\ target[r] \in created
    BY <1>0, <1>2, <2>2 DEF Needs, Placing, Ready, Deleting, Fits
  <2>5. y \in Thread => s = r
    BY <1>1, <2>1, <2>3, <2>4
  <2>6. stage[r] # "parent_locked"
    <3>1. SUFFICES ASSUME stage[r] = "parent_locked" PROVE FALSE
      OBVIOUS
    <3>2. y = target[r] /\ y \in Thread
      BY <1>0, <2>2, <2>4, <3>1 DEF Needs, Fits
    <3>3. ParentOf[y] \in Top
      BY <3>2
    <3>4. QED
      BY <1>0, <2>3, <2>4, <2>5, <3>1, <3>2, <3>3 DEF Holds
  <2>7. stage[r] # "admitted"
    <3>1. SUFFICES ASSUME stage[r] = "admitted" PROVE FALSE
      OBVIOUS
    <3>2. y \in Thread /\ ParentOf[y] = target[r] /\ target[r] \in Top
      BY <2>2, <2>4, <3>1 DEF Needs, Below
    <3>3. Source(target[r]) = target[r] /\ y # target[r]
      BY <3>2 DEF Source
    <3>4. QED
      BY <1>0, <2>3, <2>4, <2>5, <3>1, <3>2, <3>3 DEF Holds
  <2>8. stage[r] \notin {"target_locked", "family_locked"}
    BY <2>2, <2>4 DEF Needs
  <2>9. stage[r] = "server_locked"
    BY <1>2, <2>6, <2>7, <2>8 DEF Deleting
  <2>10. QED
    BY <1>0, <2>9 DEF Holds
\* Hence a channel that one of S holds is held by a reorder that waits.
<1>3. ASSUME NEW x \in Top, lock[x] \in S PROVE lock[x] \in P
  <2>1. PICK r \in S : lock[x] = r
    BY <1>3
  <2>2. x \in Row /\ x # Server
    OBVIOUS
  <2>3. stage[r] = "placing"
    BY <1>1, <1>2, <2>1, <2>2
  <2>4. Needs(r) # {}
    BY DEF Circle
  <2>5. Placing(r)
    BY <2>3, <2>4 DEF Needs
  <2>6. QED
    BY <2>1, <2>5
<1>4. ASSUME NEW q \in P PROVE Following(q) \in Top
  <2>1. Placed(q) \in Nat /\ Placed(q) < Len(order[q])
    BY <1>4, PlacedType DEF Placing
  <2>2. order[q] \in Order
    BY <1>0 DEF Typed, TypeOK
  <2>3. Placed(q) + 1 \in 1..Len(order[q])
    BY <2>1, <2>2, OrderSeq
  <2>4. QED
    BY <2>2, <2>3, OrderSeq DEF Following
\* Each reorder of S waits for another one of them.
<1>5. ASSUME NEW q \in P PROVE lock[Following(q)] \in P
  <2>1. PICK x \in Needs(q) : lock[x] \in S
    BY DEF Circle
  <2>2. stage[q] \in {"ordering", "placing"}
    BY <1>5 DEF Placing, Ready
  <2>3. x = Following(q)
    BY <2>1, <2>2 DEF Needs
  <2>4. QED
    BY <1>3, <1>4, <2>1, <2>3
\* And there is one, for who waits for a deletion waits for what that waits for.
<1>6. P # {}
  <2>1. PICK q \in S, r \in S, x \in Row : x \in Needs(q) /\ lock[x] = r
    BY DEF Circle, Needs
  <2>2. x \in Row
    BY <2>1
  <2>3. CASE x \in Top
    BY <1>3, <2>1, <2>3
  <2>4. CASE x \notin Top
    <3>1. stage[r] \in Deleting
      BY <1>1, <2>1, <2>2, <2>4
    <3>2. stage[r] = "server_locked" /\ ~Placing(r) /\ target[r] \in Channel
      BY <1>0, <1>2, <3>1 DEF Placing, Ready, Fits, Deleting, Typed, TypeOK
    <3>3. PICK y \in Needs(r) : lock[y] \in S
      BY DEF Circle
    <3>4. y = Source(target[r])
      BY <3>2, <3>3 DEF Needs
    <3>5. y \in Top
      BY <3>2, <3>4 DEF Source
    <3>6. QED
      BY <1>3, <3>3, <3>5
  <2>5. QED
    BY <2>3, <2>4
<1>7. PICK q \in P : TRUE
  BY <1>6
<1>8. \A p \in P : Placing(p) /\ lock[Following(p)] \in P
  BY <1>5
<1>9. Deadlocked(q)
  <2>1. P \in SUBSET Request
    OBVIOUS
  <2>2. QED
    BY <1>7, <1>8, <2>1 DEF Deadlocked
<1>10. QED
  BY <1>9

\* Deletions, reorders, settings and insertions, with their row locks and the
\* pool they share, never come to wait for each other with nobody left to go
\* on: what the lock order of delete_channel (service.rs:756-796) is for.  The
\* only circles are of reorders, which the database breaks.
THEOREM NobodyIsStuck == Spec => []SomebodyMoves
<1>1. Locked => SomebodyMoves
  <2> DEFINE S == {q \in Request : stage[q] # "idle"}
  <2> SUFFICES ASSUME Locked, S # {}, \A q \in Request : ~Moves(q)
               PROVE  FALSE
    BY DEF SomebodyMoves
  <2>1. ASSUME NEW x \in Row, lock[x] # None PROVE lock[x] \in S
    <3>1. PICK r \in Request : lock[x] = r
      BY <2>1 DEF Locked, Typed, TypeOK
    <3>2. stage[r] # "idle"
      BY <3>1 DEF Locked, Holds, Deleting
    <3>3. QED
      BY <3>1, <3>2
  <2>2. ASSUME NEW q \in S PROVE \E x \in Needs(q) : lock[x] \in S
    <3>1. PICK x \in Needs(q) : ~Unlocked(x)
      BY DEF Moves
    <3>2. QED
      BY <2>1, <3>1 DEF Unlocked, Needs
  <2>3. S \in SUBSET Request /\ Circle(S)
    BY <2>2 DEF Circle
  <2>4. PICK q \in S : Deadlocked(q)
    BY <2>3, CirclesAreOfOrders
  <2>5. QED
    BY <2>4 DEF Moves
<1>2. QED
  BY <1>1, InitLocked, NextLocked, PTL DEF Spec

-----------------------------------------------------------------------------
(* The lists of who sees what.                                               *)

\* Lists are made beside the channels, and change nothing of them.
THEOREM ListsChangeNothing == ListSpec => Spec
<1>1. ListInit => Init
  BY DEF ListInit
<1>2. [ListNext]_listVars => [Next]_vars
  BY DEF ListNext, Change, AskFor, AskViewers, Ask, ListStep, ListIds, ReadGrant, SendReady, LookUp,
    LookUpFails, ReadyFails, ListRows, ReadFlags, ReadGrants, ReadAccessRow, NoAccessRow,
    ReadHearers, Search, Starve, Leave, Over, Reads, listVars
<1>3. QED
  BY <1>1, <1>2, PTL DEF ListSpec, Spec

\* How far a list has come, and what it holds then.
Course ==
  /\ topic \subseteq Pair /\ remaining \subseteq Channel /\ pending \subseteq topic /\ named \subseteq topic
  /\ making \in {"none", "ready", "channels", "viewers", "search"} /\ lists \in 0..MaxLists
  /\ at \in {"none", "asked", "walking", "flags", "granting", "done"}
  /\ at \in {"none", "asked"} => remaining = {} /\ pending = {} /\ named = {} /\ lifted = {}
  /\ at = "none" => topic = {} /\ ever = {} /\ steady = {} /\ removed = {}
  /\ at \in {"walking", "done"} => pending = {}
  /\ at = "walking" => making = "ready"
  /\ at = "flags" => making = "channels" /\ remaining \subseteq Thread
  /\ at = "done" \/ (at = "granting" /\ making # "ready") => remaining = {}
  /\ making = "channels" => \A p, r \in topic : p[1] = r[1]
  /\ making = "channels" /\ at \in {"flags", "granting"} => \A p \in topic : ~Bypasses(p[1])

\* What it has found is what could be seen.
Sound ==
  /\ at # "none" => \A p \in topic : Admits(p[1], p[2]) => p \in ever
  /\ \A p \in steady : p \in topic /\ Admits(p[1], p[2])
  /\ \A p \in named : p \in ever \/ p[2] \in removed
  /\ \A p \in pending : /\ Live(p[2]) \/ p[2] \in removed
                        /\ EffectiveRestricted(p[2]) \/ p \in lifted
  /\ \A c \in remaining : Live(c) \/ c \in removed

\* And nothing that could be seen all along is lost.
Whole ==
  at \notin {"none", "asked"} =>
    failed \/ \A p \in steady : p \in named \cup pending \cup lifted \/ p[2] \in remaining

Causes ==
  /\ failed \in BOOLEAN /\ starved \in BOOLEAN
  /\ failed => at = "done" /\ making = "ready" /\ (removed # {} \/ starved)
  /\ at # "none" /\ ~Free => starved

ListInv == Course /\ Sound /\ Whole /\ Causes

LEMMA Unmoved ==
  ASSUME UNCHANGED vars
  PROVE  /\ \A c \in Channel : Live(c)' <=> Live(c)
         /\ \A c \in Channel : EffectiveRestricted(c)' <=> EffectiveRestricted(c)
         /\ \A a \in Account, c \in Channel : Admits(a, c)' <=> Admits(a, c)
         /\ Free' <=> Free
BY DEF vars, lifecycleVars, requestVars, Live, EffectiveRestricted, Admits, CanView, Free

LEMMA PairParts == \A p \in Pair : p[1] \in Account /\ p[2] \in Channel
BY DEF Pair

\* A step that only adds what it may, and leaves nothing behind.
LEMMA ReadKeeps ==
  ASSUME ListInv, Reads, at # "none", at' # "none", failed = FALSE, failed' = FALSE, Course',
         \A p \in named' : p \in named \/ Admits(p[1], p[2]) \/ p[2] \in removed,
         \A p \in pending' : p \in pending \/ /\ Live(p[2]) \/ p[2] \in removed
                                              /\ EffectiveRestricted(p[2]),
         \A c \in remaining' : c \in remaining \/ Live(c),
         \A p \in steady : p \in named' \cup pending' \cup lifted \/ p[2] \in remaining'
  PROVE  ListInv'
<1>1. UNCHANGED vars /\ UNCHANGED <<making, topic, lists, ever, steady, lifted, removed, starved>>
  BY DEF Reads, seenSinceVars
<1>2. /\ named' \subseteq Pair /\ pending' \subseteq Pair /\ topic \subseteq Pair /\ steady \subseteq topic
      /\ remaining' \subseteq Channel /\ named' \subseteq topic
  BY <1>1 DEF ListInv, Course, Sound
<1>3. Sound'
  <2>1. \A p \in topic' : Admits(p[1], p[2])' => p \in ever'
    BY <1>1, <1>2, Unmoved, PairParts DEF ListInv, Sound
  <2>2. \A p \in steady' : p \in topic' /\ Admits(p[1], p[2])'
    BY <1>1, <1>2, Unmoved, PairParts DEF ListInv, Sound
  <2>3. \A p \in named' : p \in ever' \/ p[2] \in removed'
    BY <1>1, <1>2 DEF ListInv, Sound
  <2>4. \A p \in pending' : /\ Live(p[2])' \/ p[2] \in removed'
                            /\ EffectiveRestricted(p[2])' \/ p \in lifted'
    BY <1>1, <1>2, Unmoved, PairParts DEF ListInv, Sound
  <2>5. \A c \in remaining' : Live(c)' \/ c \in removed'
    BY <1>1, <1>2, Unmoved DEF ListInv, Sound
  <2>6. QED
    BY <2>1, <2>2, <2>3, <2>4, <2>5 DEF Sound
<1>4. Whole'
  BY <1>1 DEF Whole
<1>5. Causes'
  BY <1>1, Unmoved DEF ListInv, Causes
<1>6. QED
  BY <1>3, <1>4, <1>5 DEF ListInv

LEMMA ChangeKeeps ==
  ASSUME ListInv, Change
  PROVE  ListInv'
<1>1. /\ UNCHANGED <<making, at, topic, remaining, pending, named, failed, lists>>
      /\ ever' = ever \cup {p \in topic : Admits(p[1], p[2])'}
      /\ steady' = {p \in steady : Admits(p[1], p[2])'}
      /\ lifted' = lifted \cup {p \in pending : ~EffectiveRestricted(p[2])'}
      /\ removed' = IF at = "none" THEN {} ELSE removed \cup {c \in Channel : Live(c) /\ ~Live(c)'}
      /\ starved' = (at # "none" /\ (starved \/ ~Free'))
  BY DEF Change, readVars
<1>2. topic \subseteq Pair /\ pending \subseteq topic /\ named \subseteq topic /\ remaining \subseteq Channel
  BY DEF ListInv, Course
<1>3. Course'
  BY <1>1 DEF ListInv, Course, Bypasses, RolesHeld
<1>4. \A c \in Channel : at # "none" /\ (Live(c) \/ c \in removed) => Live(c)' \/ c \in removed'
  BY <1>1
<1>5. at = "none" => pending = {} /\ named = {} /\ remaining = {}
  BY DEF ListInv, Course
<1>6. Sound'
  <2>1. at' # "none" => \A p \in topic' : Admits(p[1], p[2])' => p \in ever'
    BY <1>1
  <2>2. \A p \in steady' : p \in topic' /\ Admits(p[1], p[2])'
    BY <1>1 DEF ListInv, Sound
  <2>3. \A p \in named' : p \in ever' \/ p[2] \in removed'
    BY <1>1, <1>5 DEF ListInv, Sound
  <2>4. \A p \in pending' : /\ Live(p[2])' \/ p[2] \in removed'
                            /\ EffectiveRestricted(p[2])' \/ p \in lifted'
    BY <1>1, <1>2, <1>4, <1>5, PairParts DEF ListInv, Sound
  <2>5. \A c \in remaining' : Live(c)' \/ c \in removed'
    BY <1>1, <1>2, <1>4, <1>5 DEF ListInv, Sound
  <2>6. QED
    BY <2>1, <2>2, <2>3, <2>4, <2>5 DEF Sound
<1>7. Whole'
  BY <1>1 DEF ListInv, Whole
<1>8. Causes'
  <2>1. failed => removed' # {} \/ starved'
    BY <1>1 DEF ListInv, Causes
  <2>2. QED
    BY <1>1, <2>1 DEF ListInv, Causes
<1>9. QED
  BY <1>3, <1>6, <1>7, <1>8 DEF ListInv

LEMMA AskKeeps ==
  ASSUME ListInv, NEW list \in {"ready", "channels", "viewers", "search"}, NEW pairs, Ask(list, pairs), pairs \subseteq Pair,
         list = "channels" => \A p, r \in pairs : p[1] = r[1]
  PROVE  ListInv'
<1>1. /\ UNCHANGED <<vars, remaining, pending, named, failed, lifted, removed>>
      /\ at = "none" /\ at' = "asked" /\ making' = list /\ topic' = pairs
      /\ ever' = {p \in pairs : Admits(p[1], p[2])} /\ steady' = ever' /\ starved' = ~Free
      /\ lists < MaxLists /\ lists' = lists + 1
  BY DEF Ask
<1>2. remaining' = {} /\ pending' = {} /\ named' = {} /\ lifted' = {} /\ failed' = FALSE
  BY <1>1 DEF ListInv, Course, Causes
<1>3. Course'
  <2>1. lists' \in 0..MaxLists
    BY <1>1, ListsAssumption DEF ListInv, Course
  <2>2. QED
    BY <1>1, <1>2, <2>1 DEF Course
<1>4. Sound'
  BY <1>1, <1>2, Unmoved, PairParts DEF Sound
<1>5. Whole' /\ Causes'
  BY <1>1, <1>2, Unmoved DEF Whole, Causes
<1>6. QED
  BY <1>3, <1>4, <1>5 DEF ListInv

LEMMA OverKeeps ==
  ASSUME ListInv, Over
  PROVE  ListInv'
BY DEF Over, ListInv, Course, Sound, Whole, Causes

LEMMA FailureKeeps ==
  ASSUME ListInv, ReadyFails, making = "ready", at # "none", removed # {} \/ starved
  PROVE  ListInv'
<1>1. /\ UNCHANGED vars /\ UNCHANGED <<making, topic, lists, ever, steady, lifted, removed, starved>>
      /\ at' = "done" /\ failed' = TRUE /\ remaining' = {} /\ pending' = {} /\ named' = {}
  BY DEF ReadyFails, Reads, seenSinceVars
<1>2. topic \subseteq Pair /\ steady \subseteq topic
  BY DEF ListInv, Course, Sound
<1>3. Course'
  BY <1>1 DEF ListInv, Course
<1>4. Sound'
  BY <1>1, <1>2, Unmoved, PairParts DEF ListInv, Sound
<1>5. Whole' /\ Causes'
  BY <1>1, Unmoved DEF ListInv, Whole, Causes
<1>6. QED
  BY <1>3, <1>4, <1>5 DEF ListInv

\* A pending pair whose grants are read: named if it may see, else lifted.
LEMMA GrantsTell ==
  ASSUME ListInv, NEW p \in pending
  PROVE  /\ CanView(p[1], Source(p[2])) => Admits(p[1], p[2]) \/ p[2] \in removed
         /\ p \in steady /\ ~CanView(p[1], Source(p[2])) => p \in lifted
BY DEF ListInv, Sound, Admits

LEMMA HearsRight ==
  ASSUME NEW a, NEW s
  PROVE  Hears(a, grants[s]) <=> CanView(a, s)
BY DEF Hears, CanView, Bypasses, RolesHeld

LEMMA ReadyKeeps ==
  ASSUME ListInv, NEW c,
         ListIds \/ LookUp(c) \/ LookUpFails(c) \/ ReadGrant \/ SendReady
  PROVE  ListInv'
<1>0. /\ topic \subseteq Pair /\ pending \subseteq topic /\ named \subseteq topic /\ remaining \subseteq Channel
      /\ steady \subseteq topic /\ (at # "done" => failed = FALSE)
      /\ \A p \in steady : Admits(p[1], p[2])
  BY DEF ListInv, Course, Sound, Causes
<1>1. CASE ListIds
  <2>1. /\ making = "ready" /\ at = "asked" /\ at' = "walking" /\ remaining' = Rows
        /\ UNCHANGED <<pending, named, failed, topic, making, lifted, lists>> /\ Reads
    BY <1>1 DEF ListIds, Reads, seenSinceVars
  <2>2. Course'
    BY <2>1 DEF ListInv, Course, Rows
  <2>3. \A p \in steady : p[2] \in remaining'
    BY <1>0, <2>1, PairParts DEF Rows, Admits
  <2>4. QED
    BY <1>0, <2>1, <2>2, <2>3, ReadKeeps DEF Rows
<1>2. CASE LookUp(c)
  <2>1. /\ making = "ready" /\ at = "walking" /\ Live(c) /\ remaining' = remaining \ {c} /\ pending = {}
        /\ UNCHANGED <<failed, topic, making, lifted, lists>> /\ Reads
    BY <1>2 DEF LookUp, Reads, seenSinceVars, ListInv, Course
  <2>2. \A p \in steady : p \in named \cup lifted \/ p[2] \in remaining
    BY <1>0, <2>1 DEF ListInv, Whole
  <2>3. CASE EffectiveRestricted(c)
    <3>1. at' = "granting" /\ pending' = About({c}) /\ named' = named
      BY <1>2, <2>3 DEF LookUp
    <3>2. Course'
      BY <1>0, <2>1, <3>1 DEF ListInv, Course, About
    <3>3. \A p \in pending' : Live(p[2]) /\ EffectiveRestricted(p[2])
      BY <2>1, <2>3, <3>1 DEF About
    <3>4. \A p \in steady : p \in named' \cup pending' \cup lifted \/ p[2] \in remaining'
      BY <1>0, <2>1, <2>2, <3>1 DEF About
    <3>5. QED
      BY <1>0, <2>1, <3>1, <3>2, <3>3, <3>4, ReadKeeps
  <2>4. CASE ~EffectiveRestricted(c)
    <3>1. at' = at /\ pending' = pending /\ named' = named \cup About({c})
      BY <1>2, <2>4 DEF LookUp
    <3>2. Course'
      BY <1>0, <2>1, <3>1 DEF ListInv, Course, About
    <3>3. \A p \in About({c}) : Admits(p[1], p[2])
      BY <2>1, <2>4 DEF About, Admits
    <3>4. \A p \in steady : p \in named' \cup pending' \cup lifted \/ p[2] \in remaining'
      BY <1>0, <2>1, <2>2, <3>1 DEF About
    <3>5. QED
      BY <1>0, <2>1, <3>1, <3>2, <3>3, <3>4, ReadKeeps
  <2>5. QED
    BY <2>3, <2>4
<1>3. CASE LookUpFails(c)
  <2>1. c \in removed /\ making = "ready" /\ at = "walking" /\ ReadyFails
    BY <1>3 DEF LookUpFails, ListInv, Sound
  <2>2. QED
    BY <2>1, FailureKeeps
<1>4. CASE ReadGrant
  <2>1. /\ making = "ready" /\ at = "granting" /\ at' = "walking" /\ pending' = {}
        /\ named' = named \cup {p \in pending : CanView(p[1], Source(p[2]))}
        /\ UNCHANGED <<remaining, failed, topic, making, lifted, lists>> /\ Reads
    BY <1>4 DEF ReadGrant, Reads, seenSinceVars
  <2>2. Course'
    BY <1>0, <2>1 DEF ListInv, Course
  <2>3. \A p \in named' : p \in named \/ Admits(p[1], p[2]) \/ p[2] \in removed
    BY <2>1, GrantsTell
  <2>4. \A p \in steady : p \in named' \cup lifted \/ p[2] \in remaining'
    <3>1. \A p \in steady : p \in named \cup pending \cup lifted \/ p[2] \in remaining
      BY <1>0, <2>1 DEF ListInv, Whole
    <3>2. QED
      BY <2>1, <3>1, GrantsTell
  <2>5. QED
    BY <1>0, <2>1, <2>2, <2>3, <2>4, ReadKeeps
<1>5. CASE SendReady
  <2>1. /\ at = "walking" /\ at' = "done" /\ remaining = {}
        /\ UNCHANGED <<remaining, pending, named, failed, topic, making, lifted, lists>> /\ Reads
    BY <1>5 DEF SendReady, Reads, seenSinceVars
  <2>2. Course'
    BY <2>1 DEF ListInv, Course
  <2>3. \A p \in steady : p \in named' \cup pending' \cup lifted \/ p[2] \in remaining'
    BY <1>0, <2>1 DEF ListInv, Whole
  <2>4. QED
    BY <1>0, <2>1, <2>2, <2>3, ReadKeeps
<1>6. QED
  BY <1>1, <1>2, <1>3, <1>4, <1>5

LEMMA SidebarKeeps ==
  ASSUME ListInv, ListRows \/ ReadFlags \/ ReadGrants
  PROVE  ListInv'
<1>0. /\ topic \subseteq Pair /\ pending \subseteq topic /\ named \subseteq topic /\ remaining \subseteq Channel
      /\ steady \subseteq topic /\ (at # "done" => failed = FALSE)
      /\ \A p \in steady : Admits(p[1], p[2])
  BY DEF ListInv, Course, Sound, Causes
<1>1. CASE ListRows
  <2>1. /\ making = "channels" /\ at = "asked" /\ named = {} /\ pending = {} /\ remaining = {}
        /\ UNCHANGED <<failed, topic, making, lifted, lists>> /\ Reads
    BY <1>1 DEF ListRows, Reads, seenSinceVars, ListInv, Course
  <2>2. \A p \in steady : p \in About(Rows)
    BY <1>0, PairParts DEF About, Rows, Admits
  <2>3. CASE \A p \in topic : Bypasses(p[1])
    <3>1. named' = About(Rows) /\ at' = "done" /\ UNCHANGED <<remaining, pending>>
      BY <1>1, <2>3 DEF ListRows
    <3>2. Course'
      BY <1>0, <2>1, <3>1 DEF ListInv, Course, About
    <3>3. \A p \in named' : Admits(p[1], p[2])
      BY <2>3, <3>1 DEF About, Rows, Admits, CanView
    <3>4. QED
      BY <1>0, <2>1, <2>2, <3>1, <3>2, <3>3, ReadKeeps
  <2>4. CASE ~\A p \in topic : Bypasses(p[1])
    <3>1. /\ named' = About({d \in Rows \cap Top : ~restricted[d]})
          /\ pending' = About({d \in Rows \cap Top : restricted[d]})
          /\ remaining' = Rows \cap Thread /\ at' = "flags"
      BY <1>1, <2>4 DEF ListRows
    <3>2. \A p \in topic : ~Bypasses(p[1])
      BY <2>1, <2>4 DEF ListInv, Course
    <3>3. Course'
      BY <1>0, <2>1, <3>1, <3>2 DEF ListInv, Course, About, Rows, Bypasses, RolesHeld
    <3>4. \A d \in Top : EffectiveRestricted(d) <=> restricted[d]
      BY ChannelsAssumption DEF EffectiveRestricted, Source
    <3>5. \A p \in named' : Admits(p[1], p[2])
      BY <3>1, <3>4 DEF About, Rows, Admits
    <3>6. \A p \in pending' : Live(p[2]) /\ EffectiveRestricted(p[2])
      BY <3>1, <3>4 DEF About, Rows
    <3>7. \A p \in steady : p \in named' \cup pending' \/ p[2] \in remaining'
      BY <2>2, <3>1 DEF About, Rows, Channel
    <3>8. \A d \in remaining' : Live(d)
      BY <3>1 DEF Rows
    <3>9. QED
      BY <1>0, <2>1, <3>1, <3>3, <3>5, <3>6, <3>7, <3>8, ReadKeeps
  <2>5. QED
    BY <2>3, <2>4
<1>2. CASE ReadFlags
  <2>1. /\ making = "channels" /\ at = "flags" /\ remaining' = {} /\ at' = "granting"
        /\ named' = named \cup About({t \in remaining : ~restricted[ParentOf[t]]})
        /\ pending' = pending \cup About({t \in remaining : restricted[ParentOf[t]]})
        /\ UNCHANGED <<failed, topic, making, lifted, lists>> /\ Reads
    BY <1>2 DEF ReadFlags, Reads, seenSinceVars
  <2>2. Course'
    BY <1>0, <2>1 DEF ListInv, Course, About, Bypasses, RolesHeld
  <2>3. \A t \in remaining : /\ EffectiveRestricted(t) <=> restricted[ParentOf[t]]
                             /\ Live(t) \/ t \in removed
    BY <2>1 DEF ListInv, Course, Sound, EffectiveRestricted, Source
  <2>4. \A p \in named' : p \in named \/ Admits(p[1], p[2]) \/ p[2] \in removed
    BY <2>1, <2>3 DEF About, Admits
  <2>5. \A p \in pending' : p \in pending \/ /\ Live(p[2]) \/ p[2] \in removed
                                             /\ EffectiveRestricted(p[2])
    BY <2>1, <2>3 DEF About
  <2>6. \A p \in steady : p \in named' \cup pending' \cup lifted
    <3>1. \A p \in steady : p \in named \cup pending \cup lifted \/ p[2] \in remaining
      BY <1>0, <2>1 DEF ListInv, Whole
    <3>2. QED
      BY <1>0, <2>1, <3>1 DEF About
  <2>7. QED
    BY <1>0, <2>1, <2>2, <2>4, <2>5, <2>6, ReadKeeps
<1>3. CASE ReadGrants
  <2>1. /\ making = "channels" /\ at = "granting" /\ pending' = {} /\ at' = "done" /\ remaining = {}
        /\ named' = named \cup {p \in pending : RolesHeld(p[1]) \cap grants[Source(p[2])] # {}}
        /\ UNCHANGED <<remaining, failed, topic, making, lifted, lists>> /\ Reads
    BY <1>3 DEF ReadGrants, Reads, seenSinceVars, ListInv, Course
  <2>2. Course'
    BY <1>0, <2>1 DEF ListInv, Course
  <2>3. \A p \in pending : CanView(p[1], Source(p[2])) <=> RolesHeld(p[1]) \cap grants[Source(p[2])] # {}
    BY <1>0, <2>1 DEF ListInv, Course, CanView
  <2>4. \A p \in named' : p \in named \/ Admits(p[1], p[2]) \/ p[2] \in removed
    BY <2>1, <2>3, GrantsTell
  <2>5. \A p \in steady : p \in named' \cup lifted
    <3>1. \A p \in steady : p \in named \cup pending \cup lifted
      BY <1>0, <2>1 DEF ListInv, Whole
    <3>2. QED
      BY <2>1, <2>3, <3>1, GrantsTell
  <2>6. QED
    BY <1>0, <2>1, <2>2, <2>4, <2>5, ReadKeeps
<1>4. QED
  BY <1>1, <1>2, <1>3

LEMMA HearersKeep ==
  ASSUME ListInv, ReadAccessRow \/ NoAccessRow \/ ReadHearers \/ Search
  PROVE  ListInv'
<1>0. /\ topic \subseteq Pair /\ pending \subseteq topic /\ named \subseteq topic /\ remaining \subseteq Channel
      /\ steady \subseteq topic /\ (at # "done" => failed = FALSE)
      /\ \A p \in steady : Admits(p[1], p[2])
  BY DEF ListInv, Course, Sound, Causes
<1>1. CASE ReadAccessRow
  <2>1. /\ making = "viewers" /\ at = "asked" /\ \A p \in topic : Live(p[2])
        /\ named' = {p \in topic : ~EffectiveRestricted(p[2])} /\ pending' = topic \ named'
        /\ at' = IF pending' = {} THEN "done" ELSE "granting"
        /\ UNCHANGED <<remaining, failed, topic, making, lifted, lists>> /\ Reads
    BY <1>1 DEF ReadAccessRow, Reads, seenSinceVars
  <2>2. Course'
    BY <1>0, <2>1 DEF ListInv, Course
  <2>3. \A p \in named' : Admits(p[1], p[2])
    BY <2>1 DEF Admits
  <2>4. \A p \in pending' : Live(p[2]) /\ EffectiveRestricted(p[2])
    BY <2>1
  <2>5. \A p \in steady : p \in named' \cup pending'
    BY <1>0, <2>1
  <2>6. QED
    BY <1>0, <2>1, <2>2, <2>3, <2>4, <2>5, ReadKeeps
<1>2. CASE NoAccessRow
  BY <1>2, OverKeeps DEF NoAccessRow
<1>3. CASE ReadHearers
  <2>1. /\ making = "viewers" /\ at = "granting" /\ pending' = {} /\ at' = "done" /\ remaining = {}
        /\ named' = named \cup {p \in pending : Hears(p[1], grants[Source(p[2])])}
        /\ UNCHANGED <<remaining, failed, topic, making, lifted, lists>> /\ Reads
    BY <1>3 DEF ReadHearers, Reads, seenSinceVars, ListInv, Course
  <2>2. Course'
    BY <1>0, <2>1 DEF ListInv, Course
  <2>3. \A p \in pending : Hears(p[1], grants[Source(p[2])]) <=> CanView(p[1], Source(p[2]))
    BY HearsRight
  <2>4. \A p \in named' : p \in named \/ Admits(p[1], p[2]) \/ p[2] \in removed
    BY <2>1, <2>3, GrantsTell
  <2>5. \A p \in steady : p \in named' \cup lifted
    <3>1. \A p \in steady : p \in named \cup pending \cup lifted
      BY <1>0, <2>1 DEF ListInv, Whole
    <3>2. QED
      BY <2>1, <2>3, <3>1, GrantsTell
  <2>6. QED
    BY <1>0, <2>1, <2>2, <2>4, <2>5, ReadKeeps
<1>4. CASE Search
  <2>1. /\ making = "search" /\ at = "asked" /\ at' = "done" /\ remaining = {} /\ pending = {}
        /\ named' = {p \in About(Rows) : \/ Bypasses(p[1]) \/ ~restricted[Source(p[2])]
                                         \/ RolesHeld(p[1]) \cap grants[Source(p[2])] # {}}
        /\ UNCHANGED <<remaining, pending, failed, topic, making, lifted, lists>> /\ Reads
    BY <1>4 DEF Search, Reads, seenSinceVars, ListInv, Course
  <2>2. Course'
    BY <1>0, <2>1 DEF ListInv, Course, About
  <2>3. \A p \in About(Rows) : p \in named' <=> Admits(p[1], p[2])
    BY <2>1 DEF About, Rows, Admits, EffectiveRestricted, CanView
  <2>4. \A p \in steady : p \in About(Rows)
    BY <1>0, PairParts DEF About, Rows, Admits
  <2>5. \A p \in named' : p \in About(Rows)
    BY <2>1
  <2>6. QED
    BY <1>0, <2>1, <2>2, <2>3, <2>4, <2>5, ReadKeeps
<1>5. QED
  BY <1>1, <1>2, <1>3, <1>4

LEMMA ListNextKeeps == ListInv /\ Typed /\ [ListNext]_listVars => ListInv'
<1> SUFFICES ASSUME ListInv, Typed, [ListNext]_listVars PROVE ListInv'
  OBVIOUS
<1>1. CASE Change
  BY <1>1, ChangeKeeps
<1>2. ASSUME NEW a \in Reader, AskFor(a) PROVE ListInv'
  <2>1. {a} \X Channel \subseteq Pair /\ \A p, r \in {a} \X Channel : p[1] = r[1]
    BY ListsAssumption DEF Pair
  <2>2. QED
    BY <1>2, <2>1, AskKeeps DEF AskFor
<1>3. ASSUME NEW c \in created, AskViewers(c) PROVE ListInv'
  <2>1. Account \X {c} \subseteq Pair
    BY <1>3 DEF Pair, Typed, TypeOK
  <2>2. QED
    BY <1>3, <2>1, AskKeeps DEF AskViewers
<1>4. CASE ListStep
  <2>1. CASE ListIds \/ ReadGrant \/ SendReady
    BY <2>1, ReadyKeeps
  <2>2. ASSUME NEW c \in Channel, LookUp(c) \/ LookUpFails(c) PROVE ListInv'
    BY <2>2, ReadyKeeps
  <2>3. CASE ListRows \/ ReadFlags \/ ReadGrants
    BY <2>3, SidebarKeeps
  <2>4. CASE ReadAccessRow \/ NoAccessRow \/ ReadHearers \/ Search
    BY <2>4, HearersKeep
  <2>5. CASE Starve
    <3>1. CASE making = "ready"
      <4>1. starved /\ ReadyFails /\ at # "none"
        BY <2>5, <3>1 DEF Starve, ListInv, Causes
      <4>2. QED
        BY <3>1, <4>1, FailureKeeps
    <3>2. CASE making # "ready"
      BY <2>5, <3>2, OverKeeps DEF Starve
    <3>3. QED
      BY <3>1, <3>2
  <2>6. CASE Leave
    BY <2>6, OverKeeps DEF Leave
  <2>7. QED
    BY <1>4, <2>1, <2>2, <2>3, <2>4, <2>5, <2>6 DEF ListStep
<1>5. CASE UNCHANGED listVars
  <2>1. UNCHANGED vars /\ UNCHANGED readVars /\ UNCHANGED seenSinceVars
    BY <1>5 DEF listVars
  <2>2. Course'
    BY <2>1 DEF ListInv, Course, readVars, seenSinceVars, Bypasses, RolesHeld
  <2>3. topic \subseteq Pair /\ pending \subseteq topic /\ remaining \subseteq Channel /\ steady \subseteq topic
    BY DEF ListInv, Course, Sound
  <2>4. Sound'
    BY <2>1, <2>3, Unmoved, PairParts DEF ListInv, Sound, readVars, seenSinceVars
  <2>5. Whole' /\ Causes'
    BY <2>1, Unmoved DEF ListInv, Whole, Causes, readVars, seenSinceVars
  <2>6. QED
    BY <2>2, <2>4, <2>5 DEF ListInv
<1>6. QED
  BY <1>1, <1>2, <1>3, <1>4, <1>5 DEF ListNext

LEMMA InitListed == ListInit => ListInv
<1> SUFFICES ASSUME ListInit PROVE ListInv
  OBVIOUS
<1>1. lists \in 0..MaxLists
  BY ListsAssumption DEF ListInit
<1>2. Course
  BY <1>1 DEF ListInit, Course
<1>3. Sound /\ Whole /\ Causes
  BY DEF ListInit, Sound, Whole, Causes
<1>4. QED
  BY <1>2, <1>3 DEF ListInv

\* Every list, of the sidebar, of the ready event, of a channel's audience or of
\* a search, shows what could be seen while it was made, and all that could be
\* seen throughout, with the exceptions that ListsAreTruthful names.
THEOREM ListsTell == ListSpec => []ListsAreTruthful
<1>1. ListInit => ListInv
  BY InitListed
<1>2. ListInv => ListsAreTruthful
  BY DEF ListInv, Course, Sound, Whole, Causes, ListsAreTruthful
<1>3. Spec => []Typed
  BY InitTyped, NextTyped, PTL DEF Spec
<1>4. QED
  BY <1>1, <1>2, <1>3, ListsChangeNothing, ListNextKeeps, PTL DEF ListSpec

\* The lists keep their types: they name only what they are about.
THEOREM ListTypeCorrect == ListSpec => []ListTypeOK
<1>1. ListInit => ListInv
  BY InitListed
<1>2. ListInv /\ TypeOK => ListTypeOK
  BY DEF ListInv, Course, Causes, ListTypeOK
<1>3. Spec => [](Typed /\ TypeOK)
  BY InitTyped, NextTyped, TypeCorrect, PTL DEF Spec
<1>4. QED
  BY <1>1, <1>2, <1>3, ListsChangeNothing, ListNextKeeps, PTL DEF ListSpec
=============================================================================
