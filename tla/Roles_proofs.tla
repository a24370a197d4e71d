---------------------------- MODULE Roles_proofs ----------------------------
(***************************************************************************)
(* Theorems about Roles, for any roles, members, permissions and requests. *)
(* What a caller was permitted bounds what it may grant, whatever happens  *)
(* to its roles meanwhile; and as long as nobody else has written, what a  *)
(* request has read of its caller is what the caller has.                  *)
(***************************************************************************)
EXTENDS Roles, FiniteSetTheorems, WellFoundedInduction, TLAPS

-----------------------------------------------------------------------------
(* Types.                                                                    *)

\* The default role is there, and not about to be deleted; what is to be set is
\* known.
Typed ==
  /\ TypeOK
  /\ Everyone \in exists
  /\ \A q \in Request : /\ stage[q] = "deleting" => role[q] # Everyone
                        /\ stage[q] = "updating" => wish[q] \in SUBSET Known

Highest(A, m) == m \in A /\ \A r \in A : position[r] <= position[m]

\* Finitely many roles have a highest one: else a smallest set of them without
\* one would have one without any of its elements, and that one or the element
\* is the highest.
LEMMA HighestExists ==
  ASSUME Typed, NEW R \in SUBSET exists, R # {}
  PROVE  \E m \in R : Highest(R, m)
<1> DEFINE Bad == {A \in SUBSET exists : A # {} /\ \A m \in A : ~Highest(A, m)}
<1> SUFFICES ASSUME R \in Bad PROVE FALSE
  OBVIOUS
<1>1. IsFiniteSet(exists)
  BY FS_Subset, RolesAssumption DEF Typed, TypeOK
<1>2. IsWellFoundedOn(StrictSubsetOrdering(exists), SUBSET exists)
  BY <1>1, FS_StrictSubsetOrderingWellFounded, FS_FiniteSubsetsOfFinite
<1>3. PICK A \in Bad : \A B \in Bad : ~(<<B, A>> \in StrictSubsetOrdering(exists))
  BY <1>2, WFMin
<1>4. PICK x \in A : TRUE
  OBVIOUS
<1>5. A \ {x} \notin Bad
  <2>1. <<A \ {x}, A>> \in StrictSubsetOrdering(exists)
    BY <1>4 DEF StrictSubsetOrdering
  <2>2. QED
    BY <1>3, <2>1
<1>6. \A r \in A : position[r] \in Nat
  BY DEF Typed, TypeOK
<1>7. CASE A \ {x} = {}
  <2>1. A = {x}
    BY <1>4, <1>7
  <2>2. Highest(A, x)
    BY <1>6, <2>1 DEF Highest
  <2>3. QED
    BY <1>4, <2>2
<1>8. CASE A \ {x} # {}
  <2>1. PICK m \in A \ {x} : \A r \in A \ {x} : position[r] <= position[m]
    BY <1>5, <1>8 DEF Highest
  <2>2. CASE position[x] <= position[m]
    BY <1>4, <2>1, <2>2 DEF Highest
  <2>3. CASE ~(position[x] <= position[m])
    <3>1. \A r \in A : position[r] <= position[x]
      BY <1>4, <1>6, <2>1, <2>3
    <3>2. QED
      BY <1>4, <3>1 DEF Highest
  <2>4. QED
    BY <2>2, <2>3
<1>9. QED
  BY <1>7, <1>8

\* The highest position of some roles is one of theirs.
LEMMA HighestPosition ==
  ASSUME Typed, NEW R \in SUBSET exists, R # {}
  PROVE  (CHOOSE p \in {position[r] : r \in R} : \A r \in R : position[r] <= p) \in Nat
<1> DEFINE P == {position[r] : r \in R}
<1>1. P \in SUBSET Nat
  BY DEF Typed, TypeOK
<1>2. \E p \in P : \A r \in R : position[r] <= p
  BY HighestExists DEF Highest
<1>3. QED
  BY <1>1, <1>2

LEMMA TopTypes ==
  ASSUME Typed, NEW a \in Account
  PROVE  TopOf(a) \in Nat /\ PermissionsOf(a) \in SUBSET Known
<1>1. RolesFor(a) \in SUBSET exists /\ RolesFor(a) # {}
  BY DEF RolesFor, Typed
<1>2. TopOf(a) \in Nat
  BY <1>1, HighestPosition DEF TopOf
<1>3. PermissionsOf(a) \in SUBSET Known
  BY <1>1 DEF PermissionsOf, Typed, TypeOK
<1>4. QED
  BY <1>2, <1>3

LEMMA InitTyped == Init => Typed
<1> SUFFICES ASSUME Init PROVE Typed
  OBVIOUS
<1> USE RolesAssumption DEF Init
<1>1. \A r \in DOMAIN StartPerms : StartPerms[r] \in SUBSET Known
  OBVIOUS
<1>2. granted \in SUBSET Known
  BY <1>1
<1>3. perms \in [Role -> SUBSET Known]
  BY <1>1
<1>4. assigned \in [Account -> SUBSET exists] /\ position \in [Role -> Nat]
  OBVIOUS
<1>5. order \in [Request -> Seq(Role)] /\ wish \in [Request -> (SUBSET Bit) \cup {Keep}]
  <2>1. <<>> \in Seq(Role) /\ Keep \in (SUBSET Bit) \cup {Keep}
    OBVIOUS
  <2>2. QED
    BY <2>1
<1>6. stage \in [Request -> Stage] /\ calls \in 0..MaxCalls
  BY DEF Stage
<1>7. /\ top \in [Request -> Nat] /\ place \in [Request -> Nat]
      /\ actor \in [Request -> Account] /\ member \in [Request -> Account]
      /\ bits \in [Request -> SUBSET Known] /\ role \in [Request -> Role]
      /\ list \in [Request -> SUBSET Role] /\ seen \in [Request -> SUBSET Role]
      /\ moved \in [Request -> BOOLEAN]
  OBVIOUS
<1>8. QED
  BY <1>2, <1>3, <1>4, <1>5, <1>6, <1>7 DEF Typed, TypeOK

\* What every request reads of its caller when it begins.
LEMMA BeginTypes ==
  ASSUME Typed, NEW q \in Request, NEW a \in Account, NEW s \in Stage \ {"deleting", "updating"},
         Begin(q, a, s)
  PROVE  /\ stage' \in [Request -> Stage] /\ actor' \in [Request -> Account]
         /\ top' \in [Request -> Nat] /\ bits' \in [Request -> SUBSET Known]
         /\ calls' \in 0..MaxCalls /\ moved' \in [Request -> BOOLEAN]
         /\ exists' = exists /\ perms' = perms /\ position' = position /\ assigned' = assigned
         /\ place' = place /\ seen' = seen /\ granted' = granted
         /\ \A p \in Request : stage'[p] \in {"deleting", "updating"} => stage[p] = stage'[p] /\ p # q
<1>1. TopOf(a) \in Nat /\ PermissionsOf(a) \in SUBSET Known
  BY TopTypes
<1>2. calls' \in 0..MaxCalls
  BY RolesAssumption DEF Begin, Typed, TypeOK
<1>3. QED
  BY <1>1, <1>2 DEF Begin, Typed, TypeOK, tables

LEMMA CallTyped ==
  ASSUME Typed, NEW q \in Request, Call(q)
  PROVE  Typed'
<1>1. PICK a \in Account :
        \/ \E r \in Role :
             \/ AskCreate(q, a, r) \/ AskDelete(q, a, r)
             \/ \E w \in (SUBSET Bit) \cup {Keep} : AskUpdate(q, a, r, w)
        \/ \E s \in OrdersOf(exists) : AskReorder(q, a, s)
        \/ \E m \in Account, l \in SUBSET exists : AskMemberRoles(q, a, m, l)
  BY DEF Call
<1> USE RolesAssumption
<1>2. ASSUME NEW r \in Role, AskCreate(q, a, r) PROVE Typed'
  <2>1. Begin(q, a, "counting")
    BY <1>2 DEF AskCreate
  <2>2. "counting" \in Stage \ {"deleting", "updating"}
    BY DEF Stage
  <2>3. QED
    BY <1>2, <2>1, <2>2, BeginTypes DEF AskCreate, Typed, TypeOK
<1>3. ASSUME NEW r \in Role, AskDelete(q, a, r) PROVE Typed'
  <2>1. Begin(q, a, "to_delete")
    BY <1>3 DEF AskDelete
  <2>2. "to_delete" \in Stage \ {"deleting", "updating"}
    BY DEF Stage
  <2>3. QED
    BY <1>3, <2>1, <2>2, BeginTypes DEF AskDelete, Typed, TypeOK
<1>4. ASSUME NEW r \in Role, NEW w \in (SUBSET Bit) \cup {Keep}, AskUpdate(q, a, r, w)
      PROVE  Typed'
  <2>1. Begin(q, a, "to_update")
    BY <1>4 DEF AskUpdate
  <2>2. "to_update" \in Stage \ {"deleting", "updating"}
    BY DEF Stage
  <2>3. QED
    BY <1>4, <2>1, <2>2, BeginTypes DEF AskUpdate, Typed, TypeOK
<1>5. ASSUME NEW s \in OrdersOf(exists), AskReorder(q, a, s) PROVE Typed'
  <2>1. Begin(q, a, "to_reorder")
    BY <1>5 DEF AskReorder
  <2>2. "to_reorder" \in Stage \ {"deleting", "updating"}
    BY DEF Stage
  <2>3. s \in Seq(Role)
    <3>1. IsFiniteSet(exists)
      BY FS_Subset DEF Typed, TypeOK
    <3>2. Cardinality(exists) \in Nat
      BY <3>1, FS_CardinalityType
    <3>3. PICK n \in 0..Cardinality(exists) : s \in [1..n -> exists]
      BY <1>5 DEF OrdersOf
    <3>4. s \in [1..n -> Role] /\ n \in Nat
      BY <3>2, <3>3 DEF Typed, TypeOK
    <3>5. QED
      BY <3>4
  <2>4. order' \in [Request -> Seq(Role)]
    BY <1>5, <2>3 DEF AskReorder, Typed, TypeOK
  <2>5. QED
    BY <1>5, <2>1, <2>2, <2>4, BeginTypes DEF AskReorder, Typed, TypeOK
<1>6. ASSUME NEW m \in Account, NEW l \in SUBSET exists, AskMemberRoles(q, a, m, l)
      PROVE  Typed'
  <2>1. Begin(q, a, "to_list")
    BY <1>6 DEF AskMemberRoles
  <2>2. "to_list" \in Stage \ {"deleting", "updating"}
    BY DEF Stage
  <2>3. QED
    BY <1>6, <2>1, <2>2, BeginTypes DEF AskMemberRoles, Typed, TypeOK
<1>7. QED
  BY <1>1, <1>2, <1>3, <1>4, <1>5, <1>6

\* A request that only reads.
LEMMA AdvanceTyped ==
  ASSUME Typed, NEW q \in Request, NEW s \in Stage, Advance(q, s),
         s = "deleting" => role[q] # Everyone,
         s = "updating" => wish'[q] \in SUBSET Known,
         wish' \in [Request -> (SUBSET Bit) \cup {Keep}], \A p \in Request \ {q} : wish'[p] = wish[p],
         place' \in [Request -> Nat], seen' \in [Request -> SUBSET Role]
  PROVE  Typed'
<1>1. stage' \in [Request -> Stage]
  BY DEF Advance, Typed, TypeOK
<1>2. \A p \in Request : /\ stage'[p] = "deleting" => role[p] # Everyone
                         /\ stage'[p] = "updating" => wish'[p] \in SUBSET Known
  BY DEF Advance, Typed, TypeOK
<1>3. QED
  BY <1>1, <1>2 DEF Advance, tables, Typed, TypeOK

Reads(q) ==
  \/ CountRoles(q) \/ ReadPosition(q) \/ FindToUpdate(q) \/ FindToDelete(q)
  \/ FindToReorder(q) \/ ReadMemberRoles(q) \/ CheckMemberRoles(q)
  \/ StartClear(q) \/ ClearRoles(q)

LEMMA ReadsTyped ==
  ASSUME Typed, NEW q \in Request, Reads(q)
  PROVE  Typed'
<1> USE RolesAssumption DEF Stage
<1>1. CASE CountRoles(q)
  <2>1. Advance(q, "numbering")
    BY <1>1 DEF CountRoles
  <2>2. QED
    BY <1>1, <2>1, AdvanceTyped DEF CountRoles, Typed, TypeOK
<1>2. CASE ReadPosition(q)
  <2>1. Advance(q, "creating")
    BY <1>2 DEF ReadPosition
  <2>2. MaxPosition \in Nat
    BY HighestPosition DEF MaxPosition, Typed
  <2>3. place' \in [Request -> Nat]
    BY <1>2, <2>2 DEF ReadPosition, Typed, TypeOK
  <2>4. QED
    BY <1>2, <2>1, <2>3, AdvanceTyped DEF ReadPosition, Typed, TypeOK
<1>3. CASE FindToUpdate(q)
  <2>1. Advance(q, "updating")
    BY <1>3 DEF FindToUpdate
  <2>2. \A raw : Masked(q, raw) \in SUBSET Known
    BY DEF Masked
  <2>3. /\ wish' \in [Request -> (SUBSET Bit) \cup {Keep}] /\ wish'[q] \in SUBSET Known
        /\ \A p \in Request \ {q} : wish'[p] = wish[p]
    BY <1>3, <2>2 DEF FindToUpdate, Typed, TypeOK
  <2>4. QED
    BY <1>3, <2>1, <2>3, AdvanceTyped DEF FindToUpdate, Typed, TypeOK
<1>4. CASE FindToDelete(q)
  <2>1. Advance(q, "deleting")
    BY <1>4 DEF FindToDelete
  <2>2. QED
    BY <1>4, <2>1, AdvanceTyped DEF FindToDelete, Typed, TypeOK
<1>5. CASE FindToReorder(q)
  <2>1. Advance(q, "reordering")
    BY <1>5 DEF FindToReorder
  <2>2. QED
    BY <1>5, <2>1, AdvanceTyped DEF FindToReorder, Typed, TypeOK
<1>6. CASE ReadMemberRoles(q)
  <2>1. Advance(q, "to_check")
    BY <1>6 DEF ReadMemberRoles
  <2>2. seen' \in [Request -> SUBSET Role]
    BY <1>6 DEF ReadMemberRoles, Typed, TypeOK
  <2>3. QED
    BY <1>6, <2>1, <2>2, AdvanceTyped DEF ReadMemberRoles, Typed, TypeOK
<1>7. CASE CheckMemberRoles(q)
  <2>1. Advance(q, "to_clear")
    BY <1>7 DEF CheckMemberRoles
  <2>2. QED
    BY <1>7, <2>1, AdvanceTyped DEF CheckMemberRoles, Typed, TypeOK
<1>8. CASE StartClear(q)
  <2>1. Advance(q, "clearing")
    BY <1>8 DEF StartClear
  <2>2. seen' \in [Request -> SUBSET Role]
    BY <1>8 DEF StartClear, Typed, TypeOK
  <2>3. QED
    BY <1>8, <2>1, <2>2, AdvanceTyped DEF StartClear, Typed, TypeOK
<1>9. CASE ClearRoles(q)
  <2>1. Advance(q, "cleared")
    BY <1>9 DEF ClearRoles
  <2>2. QED
    BY <1>9, <2>1, AdvanceTyped DEF ClearRoles, Typed, TypeOK
<1>10. QED
  BY <1>1, <1>2, <1>3, <1>4, <1>5, <1>6, <1>7, <1>8, <1>9 DEF Reads

\* A request that is over, by whatever it wrote.
LEMMA EndTyped ==
  ASSUME Typed, NEW q \in Request, End(q),
         seen' \in [Request -> SUBSET Role], moved' \in [Request -> BOOLEAN],
         exists' \in SUBSET Role, Everyone \in exists', perms' \in [Role -> SUBSET Known],
         position' \in [Role -> Nat], assigned' \in [Account -> SUBSET (exists')],
         granted' \in SUBSET Known
  PROVE  Typed'
<1> USE RolesAssumption
<1>1. stage' \in [Request -> Stage]
  BY DEF End, Stage, Typed, TypeOK
<1>2. \A p \in Request : /\ stage'[p] = "deleting" => role'[p] # Everyone
                         /\ stage'[p] = "updating" => wish'[p] \in SUBSET Known
  BY DEF End, Typed, TypeOK
<1>3. order' \in [Request -> Seq(Role)]
  BY DEF End, Typed, TypeOK
<1>4. /\ top' \in [Request -> Nat] /\ place' \in [Request -> Nat] /\ calls' \in 0..MaxCalls
  BY DEF End, Typed, TypeOK
<1>5. /\ actor' \in [Request -> Account] /\ member' \in [Request -> Account]
      /\ bits' \in [Request -> SUBSET Known] /\ role' \in [Request -> Role]
      /\ list' \in [Request -> SUBSET Role]
  BY DEF End, Typed, TypeOK
<1>6. wish' \in [Request -> (SUBSET Bit) \cup {Keep}]
  BY DEF End, Typed, TypeOK
<1>7. QED
  BY <1>1, <1>2, <1>3, <1>4, <1>5, <1>6 DEF Typed, TypeOK

LEMMA ForgetTyped ==
  ASSUME Typed, NEW q \in Request, Forget(q)
  PROVE  seen' \in [Request -> SUBSET Role]
BY DEF Forget, Typed, TypeOK

LEMMA WrittenTyped ==
  ASSUME NEW q \in Request, Written(q)
  PROVE  End(q) /\ moved' \in [Request -> BOOLEAN]
<1>1. \A p \in Request : (p # q /\ stage[p] # "idle") \in BOOLEAN
  OBVIOUS
<1>2. QED
  BY <1>1 DEF Written

Writes(q) == InsertRole(q) \/ UpdateRole(q) \/ DeleteRole(q) \/ ReorderRoles(q) \/ InsertRoles(q)

LEMMA WritesTyped ==
  ASSUME Typed, NEW q \in Request, Writes(q)
  PROVE  Typed'
<1>1. CASE InsertRole(q)
  <2>1. End(q) /\ moved' \in [Request -> BOOLEAN] /\ seen' \in [Request -> SUBSET Role]
    BY <1>1, WrittenTyped, ForgetTyped DEF InsertRole
  <2>2. position' \in [Role -> Nat]
    BY <1>1 DEF InsertRole, Typed, TypeOK
  <2>3. perms' \in [Role -> SUBSET Known]
    BY <1>1 DEF InsertRole, Typed, TypeOK
  <2>4. /\ exists' \in SUBSET Role /\ Everyone \in exists' /\ assigned' \in [Account -> SUBSET (exists')]
        /\ granted' \in SUBSET Known
    BY <1>1 DEF InsertRole, Typed, TypeOK
  <2>5. QED
    BY <2>1, <2>2, <2>3, <2>4, EndTyped
<1>2. CASE UpdateRole(q)
  <2>1. End(q) /\ moved' \in [Request -> BOOLEAN] /\ seen' \in [Request -> SUBSET Role]
    BY <1>2, WrittenTyped, ForgetTyped DEF UpdateRole
  <2>2. QED
    BY <1>2, <2>1, EndTyped DEF UpdateRole, Typed, TypeOK
<1>3. CASE DeleteRole(q)
  <2>1. End(q) /\ moved' \in [Request -> BOOLEAN]
    BY <1>3, WrittenTyped DEF DeleteRole
  <2>2. seen' \in [Request -> SUBSET Role]
    BY <1>3 DEF DeleteRole, Typed, TypeOK
  <2>3. Everyone \in exists' /\ exists' \in SUBSET Role
    BY <1>3 DEF DeleteRole, Typed, TypeOK
  <2>4. assigned' \in [Account -> SUBSET (exists')]
    BY <1>3 DEF DeleteRole, Typed, TypeOK
  <2>5. perms' \in [Role -> SUBSET Known] /\ position' \in [Role -> Nat] /\ granted' \in SUBSET Known
    BY <1>3 DEF DeleteRole, Typed, TypeOK
  <2>6. QED
    BY <2>1, <2>2, <2>3, <2>4, <2>5, EndTyped
<1>4. CASE ReorderRoles(q)
  <2>1. End(q) /\ moved' \in [Request -> BOOLEAN] /\ seen' \in [Request -> SUBSET Role]
    BY <1>4, WrittenTyped, ForgetTyped DEF ReorderRoles
  <2>2. order[q] \in Seq(Role)
    BY DEF Typed, TypeOK
  <2>3. \A i \in DOMAIN order[q] : PlaceOf(q, i) \in Nat
    BY <2>2 DEF PlaceOf
  <2>4. \A r \in exists \cap Ordered(q) :
          PlaceOf(q, CHOOSE i \in DOMAIN order[q] : order[q][i] = r) \in Nat
    BY <2>3 DEF Ordered
  <2>5. position' \in [Role -> Nat]
    BY <1>4, <2>4 DEF ReorderRoles, Typed, TypeOK
  <2>6. QED
    BY <1>4, <2>1, <2>5, EndTyped DEF ReorderRoles, Typed, TypeOK
<1>5. CASE InsertRoles(q)
  <2>1. End(q) /\ moved' \in [Request -> BOOLEAN]
    BY <1>5, WrittenTyped DEF InsertRoles
  <2>2. seen' \in [Request -> SUBSET Role]
    BY <1>5 DEF InsertRoles, Typed, TypeOK
  <2>3. assigned' \in [Account -> SUBSET exists]
    BY <1>5 DEF InsertRoles, Typed, TypeOK
  <2>4. QED
    BY <1>5, <2>1, <2>2, <2>3, EndTyped DEF InsertRoles, Typed, TypeOK
<1>6. QED
  BY <1>1, <1>2, <1>3, <1>4, <1>5 DEF Writes

LEMMA FailTyped ==
  ASSUME Typed, NEW q \in Request, Fail(q)
  PROVE  Typed'
<1>1. End(q) /\ seen' \in [Request -> SUBSET Role]
  BY ForgetTyped DEF Fail
<1>2. moved' \in [Request -> BOOLEAN]
  BY DEF Fail, Typed, TypeOK
<1>3. QED
  BY <1>1, <1>2, EndTyped DEF Fail, tables, Typed, TypeOK

\* A request calls, reads, writes or fails.
LEMMA StepsAre ==
  ASSUME Next
  PROVE  \E q \in Request : Call(q) \/ Reads(q) \/ Writes(q) \/ Fail(q)
BY DEF Next, Step, Reads, Writes

LEMMA StutterTyped ==
  ASSUME Typed, UNCHANGED vars
  PROVE  Typed'
BY DEF vars, tables, args, Typed, TypeOK

LEMMA TypedCorrect == Spec => []Typed
<1>1. Typed /\ [Next]_vars => Typed'
  BY StepsAre, CallTyped, ReadsTyped, WritesTyped, FailTyped, StutterTyped
<1>2. QED
  BY InitTyped, <1>1, PTL DEF Spec

\* Every reachable state is well typed: the assigned roles exist, every rank
\* that is read is a number, and every mask holds known permissions only
\* (service.rs:1847-2182).
THEOREM TypeCorrect == Spec => []TypeOK
<1>1. Typed => TypeOK
  BY DEF Typed
<1>2. QED
  BY TypedCorrect, <1>1, PTL

-----------------------------------------------------------------------------
(* What is granted.                                                          *)

\* Whatever the roles are now, what a request read of its caller, and is to
\* set, the owner has set once.
Granting ==
  /\ \A r \in exists : perms[r] \subseteq granted
  /\ \A q \in Request :
       /\ bits[q] \subseteq granted
       /\ stage[q] = "updating" /\ actor[q] # Owner => wish[q] \subseteq granted

LEMMA InitGranting == Init => Granting
BY RolesAssumption DEF Init, Granting

LEMMA BeginGranting ==
  ASSUME Typed, Granting, NEW q \in Request, NEW a \in Account, NEW s \in Stage \ {"updating"},
         Begin(q, a, s), \A p \in Request \ {q} : wish'[p] = wish[p]
  PROVE  Granting'
<1>1. PermissionsOf(a) \subseteq granted
  BY DEF PermissionsOf, RolesFor, Granting
<1>2. \A p \in Request : bits'[p] \subseteq granted
  BY <1>1 DEF Begin, Granting, Typed, TypeOK
<1>3. \A p \in Request : stage'[p] = "updating" => p # q /\ stage[p] = "updating" /\ actor'[p] = actor[p]
  BY DEF Begin, Typed, TypeOK
<1>4. exists' = exists /\ perms' = perms /\ granted' = granted
  BY DEF Begin, tables
<1>5. QED
  BY <1>2, <1>3, <1>4 DEF Granting

LEMMA CallGranting ==
  ASSUME Typed, Granting, NEW q \in Request, Call(q)
  PROVE  Granting'
<1>1. \E a \in Account, s \in Stage \ {"updating"} :
        Begin(q, a, s) /\ \A p \in Request \ {q} : wish'[p] = wish[p]
  BY DEF Call, AskCreate, AskDelete, AskUpdate, AskReorder, AskMemberRoles, Stage, Typed, TypeOK
<1>2. QED
  BY <1>1, BeginGranting

LEMMA ReadsGranting ==
  ASSUME Typed, Granting, NEW q \in Request, Reads(q)
  PROVE  Granting'
<1>1. exists' = exists /\ perms' = perms /\ granted' = granted /\ bits' = bits /\ actor' = actor
  BY DEF Reads, CountRoles, ReadPosition, FindToUpdate, FindToDelete, FindToReorder,
         ReadMemberRoles, CheckMemberRoles, StartClear, ClearRoles, Advance, tables
<1>2. CASE FindToUpdate(q)
  <2>1. \A raw : actor[q] # Owner => Masked(q, raw) \subseteq bits[q]
    BY DEF Masked
  <2>2. wish' = [wish EXCEPT ![q] =
          Masked(q, IF wish[q] = Keep THEN perms[role[q]] ELSE wish[q])]
    BY <1>2 DEF FindToUpdate
  <2>3. actor[q] # Owner => wish'[q] \subseteq bits[q]
    BY <2>1, <2>2 DEF Typed, TypeOK
  <2>4. \A p \in Request \ {q} : wish'[p] = wish[p] /\ stage'[p] = stage[p]
    BY <1>2, <2>2 DEF FindToUpdate, Advance, Typed, TypeOK
  <2>5. QED
    BY <1>1, <2>3, <2>4 DEF Granting
<1>3. CASE ~FindToUpdate(q)
  <2>1. wish' = wish
    BY <1>3 DEF Reads, CountRoles, ReadPosition, FindToDelete, FindToReorder,
                ReadMemberRoles, CheckMemberRoles, StartClear, ClearRoles
  <2>2. \A p \in Request : stage'[p] = "updating" => stage[p] = "updating"
    BY <1>3 DEF Reads, CountRoles, ReadPosition, FindToDelete, FindToReorder,
                ReadMemberRoles, CheckMemberRoles, StartClear, ClearRoles, Advance, Typed, TypeOK
  <2>3. QED
    BY <1>1, <2>1, <2>2 DEF Granting
<1>4. QED
  BY <1>2, <1>3

LEMMA EndGranting ==
  ASSUME Typed, Granting, NEW q \in Request, End(q), granted \subseteq granted',
         \A r \in exists' : perms'[r] \subseteq granted'
  PROVE  Granting'
<1>1. \A p \in Request \ {q} :
        bits'[p] = bits[p] /\ stage'[p] = stage[p] /\ actor'[p] = actor[p] /\ wish'[p] = wish[p]
  BY DEF End, Typed, TypeOK
<1>2. bits'[q] = {} /\ stage'[q] = "idle"
  BY DEF End, Typed, TypeOK
<1>3. \A p \in Request : bits'[p] \subseteq granted'
  BY <1>1, <1>2 DEF Granting
<1>4. \A p \in Request : stage'[p] = "updating" /\ actor'[p] # Owner => wish'[p] \subseteq granted'
  BY <1>1, <1>2 DEF Granting
<1>5. QED
  BY <1>3, <1>4 DEF Granting

LEMMA WritesGranting ==
  ASSUME Typed, Granting, NEW q \in Request, Writes(q) \/ Fail(q)
  PROVE  Granting'
<1>1. End(q)
  BY DEF Writes, InsertRole, UpdateRole, DeleteRole, ReorderRoles, InsertRoles, Fail, Written
<1>2. granted \subseteq granted' /\ \A r \in exists' : perms'[r] \subseteq granted'
  <2>1. CASE InsertRole(q)
    BY <2>1 DEF InsertRole, Granting, Typed, TypeOK
  <2>2. CASE UpdateRole(q)
    BY <2>2 DEF UpdateRole, Granting, Typed, TypeOK
  <2>3. CASE DeleteRole(q)
    BY <2>3 DEF DeleteRole, Granting
  <2>4. CASE ReorderRoles(q)
    BY <2>4 DEF ReorderRoles, Granting
  <2>5. CASE InsertRoles(q)
    BY <2>5 DEF InsertRoles, Granting
  <2>6. CASE Fail(q)
    BY <2>6 DEF Fail, tables, Granting
  <2>7. QED
    BY <2>1, <2>2, <2>3, <2>4, <2>5, <2>6 DEF Writes
<1>3. QED
  BY <1>1, <1>2, EndGranting

LEMMA StutterGranting ==
  ASSUME Granting, UNCHANGED vars
  PROVE  Granting'
BY DEF vars, tables, args, Granting

\* However members create, change and hand on roles, beside each other and with
\* authority they have meanwhile lost, no role permits what the owner has set
\* on none (update_role, service.rs:1946-2016).
THEOREM EscalationImpossible == Spec => []NoEscalation
<1>1. Typed /\ Granting /\ [Next]_vars => Granting'
  BY StepsAre, CallGranting, ReadsGranting, WritesGranting, StutterGranting
<1>2. Granting => NoEscalation
  BY DEF Granting, NoEscalation
<1>3. QED
  BY TypedCorrect, InitGranting, <1>1, <1>2, PTL DEF Spec

-----------------------------------------------------------------------------
(* Authority.                                                                *)

\* What request q knows, as long as nobody else has written since it began.
Knows(q) ==
  /\ top[q] = TopOf(actor[q]) /\ bits[q] = PermissionsOf(actor[q])
  /\ stage[q] \in {"counting", "numbering", "creating"} => role[q] \notin exists
  /\ stage[q] \in {"updating", "deleting"} => position[role[q]] < top[q]
  /\ stage[q] = "updating" => wish[q] \subseteq bits[q]
  /\ stage[q] = "reordering" => \A r \in Ordered(q) : position[r] < top[q]
  /\ stage[q] \in {"to_check", "to_clear", "clearing", "cleared"} => seen[q] = assigned[member[q]]
  /\ stage[q] \in {"to_clear", "clearing", "cleared"} => \A r \in Touched(q) : position[r] < top[q]

Knowing == \A q \in Request : stage[q] # "idle" /\ actor[q] # Owner /\ ~moved[q] => Knows(q)

LEMMA InitKnowing == Init => Knowing
BY DEF Init, Knowing

\* What the other requests know depends on the tables, and on what is theirs.
LEMMA OthersKnow ==
  ASSUME Typed, NEW p \in Request, Knows(p), UNCHANGED tables,
         stage'[p] = stage[p], actor'[p] = actor[p], top'[p] = top[p], bits'[p] = bits[p],
         role'[p] = role[p], wish'[p] = wish[p], order'[p] = order[p],
         member'[p] = member[p], list'[p] = list[p], seen'[p] = seen[p]
  PROVE  Knows(p)'
<1>1. TopOf(actor[p])' = TopOf(actor[p]) /\ PermissionsOf(actor[p])' = PermissionsOf(actor[p])
  BY DEF TopOf, PermissionsOf, RolesFor, tables
<1>2. Ordered(p)' = Ordered(p) /\ Touched(p)' = Touched(p)
  BY DEF Ordered, Touched
<1>3. QED
  BY <1>1, <1>2 DEF Knows, tables

Frame(q) ==
  /\ UNCHANGED tables
  /\ \A p \in Request \ {q} :
       /\ stage'[p] = stage[p] /\ actor'[p] = actor[p] /\ top'[p] = top[p] /\ bits'[p] = bits[p]
       /\ role'[p] = role[p] /\ wish'[p] = wish[p] /\ order'[p] = order[p]
       /\ member'[p] = member[p] /\ list'[p] = list[p] /\ seen'[p] = seen[p]
       /\ moved'[p] = moved[p]

LEMMA FrameKnowing ==
  ASSUME Typed, Knowing, NEW q \in Request, Frame(q),
         stage'[q] # "idle" /\ actor'[q] # Owner /\ ~moved'[q] => Knows(q)'
  PROVE  Knowing'
<1>1. ASSUME NEW p \in Request, stage'[p] # "idle", actor'[p] # Owner, ~moved'[p]
      PROVE  Knows(p)'
  <2>1. CASE p = q
    BY <1>1, <2>1
  <2>2. CASE p # q
    <3>1. Knows(p)
      BY <1>1, <2>2 DEF Knowing, Frame
    <3>2. QED
      BY <2>2, <3>1, OthersKnow DEF Frame
  <2>3. QED
    BY <2>1, <2>2
<1>2. QED
  BY <1>1 DEF Knowing

LEMMA CallKnowing ==
  ASSUME Typed, Knowing, NEW q \in Request, Call(q)
  PROVE  Knowing'
<1>1. Frame(q)
  BY DEF Call, AskCreate, AskDelete, AskUpdate, AskReorder, AskMemberRoles, Begin, Frame,
         tables, Typed, TypeOK
<1>2. PICK a \in Account, s \in Stage :
        /\ Begin(q, a, s)
        /\ s \in {"counting", "to_delete", "to_update", "to_reorder", "to_list"}
        /\ s = "counting" => role'[q] \notin exists
  BY DEF Call, AskCreate, AskDelete, AskUpdate, AskReorder, AskMemberRoles, Stage, Typed, TypeOK
<1>3. /\ stage'[q] = s /\ actor'[q] = a /\ top'[q] = TopOf(a) /\ bits'[q] = PermissionsOf(a)
      /\ UNCHANGED tables
  BY <1>2 DEF Begin, Typed, TypeOK
<1>4. TopOf(a)' = TopOf(a) /\ PermissionsOf(a)' = PermissionsOf(a)
  BY <1>3 DEF TopOf, PermissionsOf, RolesFor, tables
<1>5. TopOf(actor[q])' = TopOf(a) /\ PermissionsOf(actor[q])' = PermissionsOf(a)
  BY <1>3 DEF TopOf, PermissionsOf, RolesFor, tables
<1>6. Knows(q)'
  BY <1>2, <1>3, <1>5 DEF Knows, tables
<1>7. QED
  BY <1>1, <1>6, FrameKnowing

\* A read adds what its guard has checked.
LEMMA ReadsKnowing ==
  ASSUME Typed, Knowing, NEW q \in Request, Reads(q)
  PROVE  Knowing'
<1>1. Frame(q)
  BY DEF Reads, CountRoles, ReadPosition, FindToUpdate, FindToDelete, FindToReorder,
         ReadMemberRoles, CheckMemberRoles, StartClear, ClearRoles, Advance, Frame,
         tables, Typed, TypeOK
<1>2. stage[q] # "idle" /\ moved' = moved
  BY DEF Reads, CountRoles, ReadPosition, FindToUpdate, FindToDelete, FindToReorder,
         ReadMemberRoles, CheckMemberRoles, StartClear, ClearRoles, Advance
<1>3. /\ actor' = actor /\ top' = top /\ bits' = bits /\ role' = role /\ order' = order
      /\ member' = member /\ list' = list /\ UNCHANGED tables
  BY DEF Reads, CountRoles, ReadPosition, FindToUpdate, FindToDelete, FindToReorder,
         ReadMemberRoles, CheckMemberRoles, StartClear, ClearRoles, Advance
<1>4. ASSUME actor[q] # Owner, ~moved[q] PROVE Knows(q)'
  <2>1. Knows(q)
    BY <1>2, <1>4 DEF Knowing
  <2>2. TopOf(actor[q])' = TopOf(actor[q]) /\ PermissionsOf(actor[q])' = PermissionsOf(actor[q])
    BY <1>3 DEF TopOf, PermissionsOf, RolesFor, tables
  <2>3. Ordered(q)' = Ordered(q)
    BY <1>3 DEF Ordered
  <2>4. exists' = exists /\ position' = position /\ assigned' = assigned
    BY <1>3 DEF tables
  <2>5. \A p : Outranks(q, p) => p < top[q]
    BY <1>4 DEF Outranks
  <2>6. CASE CountRoles(q)
    <3>1. stage'[q] = "numbering" /\ stage[q] = "counting"
      BY <2>6 DEF CountRoles, Advance, Typed, TypeOK
    <3>2. QED
      BY <1>3, <2>1, <2>2, <2>4, <3>1 DEF Knows
  <2>7. CASE ReadPosition(q)
    <3>1. stage'[q] = "creating" /\ stage[q] = "numbering"
      BY <2>7 DEF ReadPosition, Advance, Typed, TypeOK
    <3>2. QED
      BY <1>3, <2>1, <2>2, <2>4, <3>1 DEF Knows
  <2>8. CASE FindToUpdate(q)
    <3>1. stage'[q] = "updating" /\ Outranks(q, position[role[q]])
      BY <2>8 DEF FindToUpdate, Advance, Typed, TypeOK
    <3>2. \A raw : Masked(q, raw) \subseteq bits[q]
      BY <1>4 DEF Masked
    <3>3. wish' = [wish EXCEPT ![q] =
            Masked(q, IF wish[q] = Keep THEN perms[role[q]] ELSE wish[q])]
      BY <2>8 DEF FindToUpdate
    <3>4. wish'[q] \subseteq bits[q]
      BY <3>2, <3>3 DEF Typed, TypeOK
    <3>5. QED
      BY <1>3, <2>1, <2>2, <2>4, <2>5, <3>1, <3>4 DEF Knows
  <2>9. CASE FindToDelete(q)
    <3>1. stage'[q] = "deleting" /\ Outranks(q, position[role[q]])
      BY <2>9 DEF FindToDelete, Advance, Typed, TypeOK
    <3>2. QED
      BY <1>3, <2>1, <2>2, <2>4, <2>5, <3>1 DEF Knows
  <2>10. CASE FindToReorder(q)
    <3>1. /\ stage'[q] = "reordering"
          /\ \A i \in DOMAIN order[q] : Outranks(q, position[order[q][i]])
      BY <2>10 DEF FindToReorder, Advance, Typed, TypeOK
    <3>2. \A r \in Ordered(q) : position[r] < top[q]
      BY <2>5, <3>1 DEF Ordered
    <3>3. QED
      BY <1>3, <2>1, <2>2, <2>3, <2>4, <3>1, <3>2 DEF Knows
  <2>11. CASE ReadMemberRoles(q)
    <3>1. stage'[q] = "to_check" /\ seen'[q] = assigned[member[q]]
      BY <2>11 DEF ReadMemberRoles, Advance, Typed, TypeOK
    <3>2. QED
      BY <1>3, <2>1, <2>2, <2>4, <3>1 DEF Knows
  <2>12. CASE CheckMemberRoles(q)
    <3>1. /\ stage'[q] = "to_clear" /\ stage[q] = "to_check" /\ seen' = seen
          /\ \A r \in Touched(q) : Outranks(q, position[r])
      BY <2>12 DEF CheckMemberRoles, Advance, Typed, TypeOK
    <3>2. Touched(q)' = Touched(q) /\ \A r \in Touched(q) : position[r] < top[q]
      BY <1>3, <2>5, <3>1 DEF Touched
    <3>3. QED
      BY <1>3, <2>1, <2>2, <2>4, <3>1, <3>2 DEF Knows
  <2>13. CASE StartClear(q)
    <3>1. stage'[q] = "clearing" /\ stage[q] = "to_clear" /\ seen'[q] = assigned[member[q]]
      BY <2>13 DEF StartClear, Advance, Typed, TypeOK
    <3>2. seen'[q] = seen[q]
      BY <2>1, <3>1 DEF Knows
    <3>3. Touched(q)' = Touched(q)
      BY <1>3, <3>2 DEF Touched
    <3>4. QED
      BY <1>3, <2>1, <2>2, <2>4, <3>1, <3>2, <3>3 DEF Knows
  <2>14. CASE ClearRoles(q)
    <3>1. stage'[q] = "cleared" /\ stage[q] = "clearing" /\ seen' = seen
      BY <2>14 DEF ClearRoles, Advance, Typed, TypeOK
    <3>2. Touched(q)' = Touched(q)
      BY <1>3, <3>1 DEF Touched
    <3>3. QED
      BY <1>3, <2>1, <2>2, <2>4, <3>1, <3>2 DEF Knows
  <2>15. QED
    BY <2>6, <2>7, <2>8, <2>9, <2>10, <2>11, <2>12, <2>13, <2>14 DEF Reads
<1>5. QED
  BY <1>1, <1>2, <1>3, <1>4, FrameKnowing

\* After a write nobody knows anything.
LEMMA WritesKnowing ==
  ASSUME Typed, Knowing, NEW q \in Request, Writes(q)
  PROVE  Knowing'
<1>1. End(q) /\ moved' = [p \in Request |-> p # q /\ stage[p] # "idle"]
  BY DEF Writes, InsertRole, UpdateRole, DeleteRole, ReorderRoles, InsertRoles, Written
<1>2. \A p \in Request : stage'[p] # "idle" => moved'[p]
  BY <1>1 DEF End, Typed, TypeOK
<1>3. QED
  BY <1>2 DEF Knowing

LEMMA FailKnowing ==
  ASSUME Typed, Knowing, NEW q \in Request, Fail(q)
  PROVE  Knowing'
<1>1. Frame(q)
  BY DEF Fail, End, Forget, Frame, Typed, TypeOK
<1>2. stage'[q] = "idle"
  BY DEF Fail, End, Typed, TypeOK
<1>3. QED
  BY <1>1, <1>2, FrameKnowing

LEMMA StutterKnowing ==
  ASSUME Typed, Knowing, UNCHANGED vars
  PROVE  Knowing'
<1>1. ASSUME NEW p \in Request, stage[p] # "idle", actor[p] # Owner, ~moved[p]
      PROVE  Knows(p)'
  <2>1. Knows(p)
    BY <1>1 DEF Knowing
  <2>2. QED
    BY <2>1, OthersKnow DEF vars, args
<1>2. QED
  BY <1>1 DEF Knowing, vars, args

\* What a request that knows touches when it writes.
LEMMA WritesBelow ==
  ASSUME Typed, NEW q \in Request, Writes(q), Knows(q), NEW r \in TouchedRoles
  PROVE  /\ position[r] < TopOf(actor[q])
         /\ perms'[r] \ perms[r] \subseteq PermissionsOf(actor[q])
<1> USE DEF TouchedRoles, Knows
<1>0. r \in exists /\ r \in Role
  BY DEF Typed, TypeOK
<1>1. CASE InsertRole(q)
  <2>1. role[q] # r
    BY <1>0, <1>1 DEF InsertRole
  <2>2. r \in exists' /\ perms'[r] = perms[r] /\ position'[r] = position[r] /\ assigned' = assigned
    BY <1>0, <1>1, <2>1 DEF InsertRole, Typed, TypeOK
  <2>3. QED
    BY <2>2
<1>2. CASE UpdateRole(q)
  <2>1. /\ exists' = exists /\ position' = position /\ assigned' = assigned
        /\ perms'[r] = IF r = role[q] THEN wish[q] ELSE perms[r]
    BY <1>0, <1>2 DEF UpdateRole, Typed, TypeOK
  <2>2. r = role[q] /\ stage[q] = "updating"
    BY <1>2, <2>1 DEF UpdateRole
  <2>3. QED
    BY <2>1, <2>2
<1>3. CASE DeleteRole(q)
  <2>1. r # role[q] =>
          r \in exists' /\ \A a \in Account : (r \in assigned[a]) = (r \in assigned'[a])
    BY <1>0, <1>3 DEF DeleteRole, Typed, TypeOK
  <2>2. perms' = perms /\ position' = position /\ stage[q] = "deleting"
    BY <1>3 DEF DeleteRole
  <2>3. r = role[q]
    BY <2>1, <2>2
  <2>4. QED
    BY <2>2, <2>3
<1>4. CASE ReorderRoles(q)
  <2>1. /\ exists' = exists /\ perms' = perms /\ assigned' = assigned /\ stage[q] = "reordering"
        /\ r \notin Ordered(q) => position'[r] = position[r]
    BY <1>0, <1>4 DEF ReorderRoles, Typed, TypeOK
  <2>2. r \in Ordered(q)
    BY <2>1
  <2>3. QED
    BY <2>1, <2>2
<1>5. CASE InsertRoles(q)
  <2>1. /\ exists' = exists /\ perms' = perms /\ position' = position /\ stage[q] = "cleared"
        /\ assigned' = [assigned EXCEPT ![member[q]] = (assigned[member[q]] \ seen[q]) \cup list[q]]
    BY <1>5 DEF InsertRoles
  <2>2. PICK a \in Account : (r \in assigned[a]) # (r \in assigned'[a])
    BY <2>1
  <2>3. a = member[q]
    BY <2>1, <2>2 DEF Typed, TypeOK
  <2>4. assigned'[a] = list[q] /\ assigned[a] = seen[q]
    BY <2>1, <2>2, <2>3 DEF Typed, TypeOK
  <2>5. r \in Touched(q)
    BY <2>2, <2>4 DEF Touched
  <2>6. QED
    BY <2>1, <2>5
<1>6. QED
  BY <1>1, <1>2, <1>3, <1>4, <1>5 DEF Writes

LEMMA NothingTouched ==
  ASSUME UNCHANGED tables
  PROVE  TouchedRoles = {}
BY DEF TouchedRoles, tables

Uses(q) ==
  stage[q] # stage'[q] /\ actor[q] # Owner /\ ~moved[q] =>
    \A r \in TouchedRoles :
      /\ position[r] < TopOf(actor[q])
      /\ perms'[r] \ perms[r] \subseteq PermissionsOf(actor[q])

\* Only the request that writes takes a step.
LEMMA WriterUses ==
  ASSUME Typed, Knowing, NEW p \in Request, Writes(p), NEW q \in Request
  PROVE  Uses(q)
<1>1. stage[p] # "idle" /\ End(p)
  BY DEF Writes, InsertRole, UpdateRole, DeleteRole, ReorderRoles, InsertRoles, Written
<1>2. CASE q = p
  <2>1. actor[q] # Owner /\ ~moved[q] => Knows(q)
    BY <1>1, <1>2 DEF Knowing
  <2>2. QED
    BY <1>2, <2>1, WritesBelow DEF Uses
<1>3. CASE q # p
  BY <1>1, <1>3 DEF End, Uses, Typed, TypeOK
<1>4. QED
  BY <1>2, <1>3

\* The authority a request has read when it began is still the caller's when it
\* writes, unless somebody else wrote in between: it touches only roles below
\* the caller's highest and adds only permissions the caller has
\* (check_hierarchy, service.rs:1892-1900, and the mask of update_role, 1991-2000).
THEOREM AuthorityCorrect == Spec => AuthorityHolds
<1>1. Typed /\ Knowing /\ [Next]_vars => Knowing'
  BY StepsAre, CallKnowing, ReadsKnowing, WritesKnowing, FailKnowing, StutterKnowing
<1>2. ASSUME Typed, Knowing, [Next]_vars PROVE \A q \in Request : Uses(q)
  <2>1. CASE UNCHANGED tables
    BY <2>1, NothingTouched DEF Uses
  <2>2. CASE \E p \in Request : Writes(p)
    BY <1>2, <2>2, WriterUses
  <2>3. ASSUME ~(\E p \in Request : Writes(p)) PROVE UNCHANGED tables
    <3>1. CASE UNCHANGED vars
      BY <3>1 DEF vars
    <3>2. ASSUME NEW p \in Request, Call(p) \/ Reads(p) \/ Fail(p) PROVE UNCHANGED tables
      BY <3>2 DEF Call, AskCreate, AskDelete, AskUpdate, AskReorder, AskMemberRoles, Begin, Fail,
           Reads, CountRoles, ReadPosition, FindToUpdate, FindToDelete, FindToReorder,
           ReadMemberRoles, CheckMemberRoles, StartClear, ClearRoles, Advance
    <3>3. QED
      BY <1>2, <2>3, <3>1, <3>2, StepsAre
  <2>4. QED
    BY <2>1, <2>2, <2>3
<1>3. QED
  BY TypedCorrect, InitKnowing, <1>1, <1>2, PTL DEF Spec, AuthorityHolds, Uses

-----------------------------------------------------------------------------
(* The limit on roles.                                                       *)

\* The requests that have counted the roles and not yet inserted theirs.
Past == {q \in Request : stage[q] \in {"numbering", "creating"}}

\* OverrunBounded is not inductive: a role may be on its way for each of them.
Counted == Cardinality(exists) + Cardinality(Past) <= MaxRoles + Cardinality(Request) - 1

\* There are finitely many roles and requests, at least one of the latter.
LEMMA CountsAreNumbers ==
  ASSUME Typed
  PROVE  /\ IsFiniteSet(exists) /\ Cardinality(exists) \in Nat
         /\ IsFiniteSet(Past) /\ Cardinality(Past) \in Nat
         /\ Cardinality(Past) <= Cardinality(Request)
         /\ Cardinality(Request) \in Nat /\ Cardinality(Request) >= 1
<1>1. IsFiniteSet(exists) /\ Cardinality(exists) \in Nat
  BY FS_Subset, FS_CardinalityType, RolesAssumption DEF Typed, TypeOK
<1>2. Past \in SUBSET Request
  BY DEF Past
<1>3. /\ IsFiniteSet(Past) /\ Cardinality(Past) \in Nat
      /\ Cardinality(Past) <= Cardinality(Request)
  BY <1>2, FS_Subset, FS_CardinalityType, RolesAssumption
<1>4. Cardinality(Request) \in Nat /\ Cardinality(Request) # 0
  BY FS_CardinalityType, FS_EmptySet, RolesAssumption
<1>5. QED
  BY <1>1, <1>3, <1>4

LEMMA InitCounted == Init => Counted
<1> SUFFICES ASSUME Init PROVE Counted
  OBVIOUS
<1>1. Typed
  BY InitTyped
<1>2. Past = {}
  BY DEF Init, Past
<1>3. Cardinality(Past) = 0
  BY <1>2, FS_EmptySet
<1>4. Cardinality(exists) <= MaxRoles /\ MaxRoles \in Nat
  BY RolesAssumption DEF Init
<1>5. QED
  BY <1>1, <1>3, <1>4, CountsAreNumbers DEF Counted

\* Steps that add no role and put no request past the count keep the bound.
LEMMA FewerCounted ==
  ASSUME Typed, Counted, exists' \subseteq exists, Past' \subseteq Past
  PROVE  Counted'
<1>1. Cardinality(exists') <= Cardinality(exists) /\ Cardinality(exists') \in Nat
  BY CountsAreNumbers, FS_Subset, FS_CardinalityType
<1>2. Cardinality(Past') <= Cardinality(Past) /\ Cardinality(Past') \in Nat
  BY CountsAreNumbers, FS_Subset, FS_CardinalityType
<1>3. QED
  BY <1>1, <1>2, CountsAreNumbers, RolesAssumption DEF Counted

\* Whoever counts finds room for one role, and all others may be past the count.
LEMMA CountCounted ==
  ASSUME Typed, Typed', Counted, NEW q \in Request, CountRoles(q)
  PROVE  Counted'
<1>1. exists' = exists /\ Cardinality(exists) < MaxRoles
  BY DEF CountRoles, Advance, tables
<1>2. Cardinality(Past') <= Cardinality(Request) /\ Cardinality(Past') \in Nat
  <2>1. Past' \in SUBSET Request
    BY DEF Past
  <2>2. QED
    BY <2>1, FS_Subset, FS_CardinalityType, RolesAssumption
<1>3. QED
  BY <1>1, <1>2, CountsAreNumbers, RolesAssumption DEF Counted

\* Whoever inserts a role is past the count no more.
LEMMA InsertCounted ==
  ASSUME Typed, Counted, NEW q \in Request, InsertRole(q)
  PROVE  Counted'
<1>1. q \in Past /\ exists' = exists \cup {role[q]}
  BY DEF InsertRole, Past
<1>2. Past' = Past \ {q}
  BY DEF InsertRole, Written, End, Past, Typed, TypeOK
<1>3. Cardinality(Past') = Cardinality(Past) - 1
  BY <1>1, <1>2, CountsAreNumbers, FS_RemoveElement
<1>4. Cardinality(exists') <= Cardinality(exists) + 1 /\ Cardinality(exists') \in Nat
  <2>1. IsFiniteSet(exists) /\ Cardinality(exists) \in Nat
    BY CountsAreNumbers
  <2>2. Cardinality(exists \cup {role[q]}) = IF role[q] \in exists THEN Cardinality(exists)
                                            ELSE Cardinality(exists) + 1
    BY <2>1, FS_AddElement
  <2>3. QED
    BY <1>1, <2>1, <2>2
<1>5. QED
  BY <1>3, <1>4, CountsAreNumbers, RolesAssumption DEF Counted

\* However many members create roles together, the limit is overrun by as many
\* roles as requests run beside the first, at most (create_role).
THEOREM OverrunIsBounded == Spec => []OverrunBounded
<1>1. Typed /\ Typed' /\ Counted /\ [Next]_vars => Counted'
  <2> SUFFICES ASSUME Typed, Typed', Counted, [Next]_vars PROVE Counted'
    OBVIOUS
  <2> USE DEF Past, Typed, TypeOK
  <2>1. CASE UNCHANGED vars
    BY <2>1, FewerCounted DEF vars, tables
  <2>2. ASSUME NEW q \in Request, Call(q) PROVE Counted'
    <3>1. PICK a \in Account, s \in Stage \ {"numbering", "creating"} : Begin(q, a, s)
      BY <2>2 DEF Call, AskCreate, AskDelete, AskUpdate, AskReorder, AskMemberRoles, Stage
    <3>2. QED
      BY <3>1, FewerCounted DEF Begin, tables
  <2>3. ASSUME NEW q \in Request, Reads(q), ~CountRoles(q) PROVE Counted'
    <3>1. exists' = exists
      BY <2>3 DEF Reads, ReadPosition, FindToUpdate, FindToDelete, FindToReorder,
         ReadMemberRoles, CheckMemberRoles, StartClear, ClearRoles, Advance, tables
    <3>2. Past' \subseteq Past
      BY <2>3 DEF Reads, ReadPosition, FindToUpdate, FindToDelete, FindToReorder,
         ReadMemberRoles, CheckMemberRoles, StartClear, ClearRoles, Advance
    <3>3. QED
      BY <3>1, <3>2, FewerCounted
  <2>4. ASSUME NEW q \in Request, Writes(q) \/ Fail(q), ~InsertRole(q) PROVE Counted'
    <3>1. exists' \subseteq exists /\ End(q)
      BY <2>4 DEF Writes, UpdateRole, DeleteRole, ReorderRoles, InsertRoles, Fail, Written,
         tables
    <3>2. Past' \subseteq Past
      BY <3>1 DEF End
    <3>3. QED
      BY <3>1, <3>2, FewerCounted
  <2>5. QED
    BY <2>1, <2>2, <2>3, <2>4, CountCounted, InsertCounted, StepsAre
<1>2. Typed /\ Counted => OverrunBounded
  BY CountsAreNumbers, RolesAssumption DEF Counted, OverrunBounded
<1>3. QED
  BY TypedCorrect, InitCounted, <1>1, <1>2, PTL DEF Spec
=============================================================================
