-------------------------------- MODULE Roles --------------------------------
(***************************************************************************)
(* The roles of one server: what they permit, how they rank, and who holds *)
(* them (domain/src/service.rs, db/src/server_role.rs).                    *)
(*                                                                         *)
(* Requests run side by side and nothing locks what they read: each reads  *)
(* its caller's authority (member_context), then what it is about, then    *)
(* writes.  A request that is timed out, or fails its validation, changes  *)
(* nothing and is left out; the members do not change here.                *)
(***************************************************************************)
EXTENDS Integers, FiniteSets, Sequences

CONSTANTS
  Account, Owner,
  Role, Everyone,       \* the default role, which every member holds
  Bit, Known,           \* KNOWN_PERMISSION_BITS
  Admin, ManageRoles,   \* two of them
  Request,
  Null,                 \* permissions left out of an update
  MaxRoles,             \* MAX_ROLES_PER_SERVER
  StartPerms, StartPosition, StartAssigned,  \* the roles at the start
  MaxCalls              \* bound: requests begun

ASSUME RolesAssumption ==
  /\ Owner \in Account /\ Everyone \in Role /\ Null \notin Bit
  /\ Known \subseteq Bit /\ {Admin, ManageRoles} \subseteq Known
  /\ MaxRoles \in Nat /\ MaxCalls \in Nat
  /\ StartPerms \in [DOMAIN StartPerms -> SUBSET Known]
  /\ Everyone \in DOMAIN StartPerms /\ DOMAIN StartPerms \subseteq Role
  /\ StartPosition \in [Role -> Nat] /\ StartPosition[Everyone] = 0
  /\ \A r \in DOMAIN StartPerms \ {Everyone} : StartPosition[r] >= 1
  /\ StartAssigned \in [Account -> SUBSET (DOMAIN StartPerms \ {Everyone})]
  /\ IsFiniteSet(Role) /\ IsFiniteSet(Request) /\ Request # {}
  /\ Cardinality(DOMAIN StartPerms) <= MaxRoles

\* No permissions given.
Keep == {Null}

\* The orders of some of the roles S that a client may ask for.
OrdersOf(S) == {s \in UNION {[1..n -> S] : n \in 0..Cardinality(S)} :
                  \A i, j \in DOMAIN s : i # j => s[i] # s[j]}

VARIABLES
  exists,            \* the rows of server_role
  perms, position,   \* their columns
  assigned,          \* assigned[a]: the explicit roles of a's membership
  stage,             \* stage[q]: what request q is about to do
  actor, top, bits,  \* its caller, and the caller's rank and permissions when read
  role,              \* the role it creates, changes or deletes
  wish,              \* the permissions it is to set, Keep to leave them
  place,             \* the position it read for a new role
  order,             \* the order it is to set
  member, list,      \* whose roles it is to replace, and by what
  seen,              \* the explicit roles it read, then those it deletes
  calls,             \* how many requests have begun
  granted,           \* history: the permissions the owner has ever set
  moved              \* history: others wrote since q read its caller's authority

tables == <<exists, perms, position, assigned>>
args == <<actor, top, bits, role, wish, place, order, member, list, seen>>
vars == <<tables, stage, args, calls, granted, moved>>

Init ==
  /\ exists = DOMAIN StartPerms
  /\ perms = [r \in Role |-> IF r \in DOMAIN StartPerms THEN StartPerms[r] ELSE {}]
  /\ position = StartPosition
  /\ assigned = StartAssigned
  /\ stage = [q \in Request |-> "idle"]
  /\ actor = [q \in Request |-> Owner]
  /\ top = [q \in Request |-> 0]
  /\ bits = [q \in Request |-> {}]
  /\ role = [q \in Request |-> Everyone]
  /\ wish = [q \in Request |-> Keep]
  /\ place = [q \in Request |-> 0]
  /\ order = [q \in Request |-> <<>>]
  /\ member = [q \in Request |-> Owner]
  /\ list = [q \in Request |-> {}]
  /\ seen = [q \in Request |-> {}]
  /\ calls = 0
  /\ granted = UNION {StartPerms[r] : r \in DOMAIN StartPerms}
  /\ moved = [q \in Request |-> FALSE]

-----------------------------------------------------------------------------
(* Authority.                                                                *)

RolesFor(a) == exists \cap (assigned[a] \cup {Everyone})

PermissionsOf(a) == UNION {perms[r] : r \in RolesFor(a)}

TopOf(a) ==
  CHOOSE p \in {position[r] : r \in RolesFor(a)} : \A r \in RolesFor(a) : position[r] <= p

\* Slip: an equal rank will do.
OutranksOrEquals(q, p) == actor[q] = Owner \/ p <= top[q]

\* check_hierarchy, by what was read of the caller.
Outranks(q, p) == actor[q] = Owner \/ p < top[q]

\* require_permission: the caller's authority is read, and kept for later.
Begin(q, a, next) ==
  /\ stage[q] = "idle" /\ calls < MaxCalls
  /\ a = Owner \/ PermissionsOf(a) \cap {Admin, ManageRoles} # {}
  /\ calls' = calls + 1
  /\ stage' = [stage EXCEPT ![q] = next]
  /\ actor' = [actor EXCEPT ![q] = a]
  /\ top' = [top EXCEPT ![q] = TopOf(a)]
  /\ bits' = [bits EXCEPT ![q] = PermissionsOf(a)]
  /\ moved' = [moved EXCEPT ![q] = FALSE]
  /\ UNCHANGED <<tables, place, seen, granted>>

Advance(q, next) ==
  /\ stage' = [stage EXCEPT ![q] = next]
  /\ UNCHANGED <<tables, actor, top, bits, role, order, member, list, calls, granted, moved>>

Ordered(q) == {order[q][i] : i \in DOMAIN order[q]}

\* Request q is over.
End(q) ==
  /\ stage' = [stage EXCEPT ![q] = "idle"]
  /\ actor' = [actor EXCEPT ![q] = Owner]
  /\ top' = [top EXCEPT ![q] = 0]
  /\ bits' = [bits EXCEPT ![q] = {}]
  /\ role' = [role EXCEPT ![q] = Everyone]
  /\ wish' = [wish EXCEPT ![q] = Keep]
  /\ place' = [place EXCEPT ![q] = 0]
  /\ order' = [order EXCEPT ![q] = <<>>]
  /\ member' = [member EXCEPT ![q] = Owner]
  /\ list' = [list EXCEPT ![q] = {}]
  /\ UNCHANGED calls

Forget(q) == seen' = [seen EXCEPT ![q] = {}]

\* Refused, or the client went away.  A transaction is rolled back.
Fail(q) ==
  /\ stage[q] # "idle"
  /\ End(q)
  /\ Forget(q)
  /\ moved' = [moved EXCEPT ![q] = FALSE]
  /\ UNCHANGED <<tables, granted>>

\* Request q has written, and is over.
Written(q) ==
  /\ End(q)
  /\ moved' = [p \in Request |-> p # q /\ stage[p] # "idle"]

-----------------------------------------------------------------------------
(* create_role.  A definition commented as a slip is no part of Next: it is  *)
(* a bug that one of the properties must notice when it takes the place of   *)
(* the definition after it.                                                  *)

\* Ids are fresh: nothing refers to r.
AskCreate(q, a, r) ==
  /\ r \notin exists
  /\ \A p \in Request : role[p] # r /\ r \notin list[p] \cup seen[p] \cup Ordered(p)
  /\ Begin(q, a, "counting")
  /\ role' = [role EXCEPT ![q] = r]
  /\ UNCHANGED <<wish, order, member, list>>

\* Slip: a server that has them all may have one more.
CountRolesLate(q) ==
  /\ stage[q] = "counting" /\ Cardinality(exists) <= MaxRoles
  /\ Advance(q, "numbering")
  /\ UNCHANGED <<wish, place, seen>>

\* MAX_ROLES_PER_SERVER, by a count that nothing keeps true until the INSERT.
CountRoles(q) ==
  /\ stage[q] = "counting" /\ Cardinality(exists) < MaxRoles
  /\ Advance(q, "numbering")
  /\ UNCHANGED <<wish, place, seen>>

MaxPosition == CHOOSE p \in {position[r] : r \in exists} : \A r \in exists : position[r] <= p

ReadPosition(q) ==
  /\ stage[q] = "numbering"
  /\ Advance(q, "creating")
  /\ place' = [place EXCEPT ![q] = MaxPosition + 1]
  /\ UNCHANGED <<wish, seen>>

\* It permits nothing yet, as the column's default says.
InsertRole(q) ==
  /\ stage[q] = "creating"
  /\ exists' = exists \cup {role[q]}
  /\ position' = [position EXCEPT ![role[q]] = place[q]]
  /\ perms' = [perms EXCEPT ![role[q]] = {}]
  /\ Written(q) /\ Forget(q)
  /\ UNCHANGED <<assigned, granted>>

-----------------------------------------------------------------------------
(* update_role and delete_role.                                              *)

AskUpdate(q, a, r, w) ==
  /\ r \in exists
  /\ Begin(q, a, "to_update")
  /\ role' = [role EXCEPT ![q] = r]
  /\ wish' = [wish EXCEPT ![q] = w]
  /\ UNCHANGED <<order, member, list>>

\* Slip: only the known bits are asked for, not those the caller has.
MaskedByKnown(q, raw) == raw \cap Known

\* Nobody but the owner grants what it has not; what the role had and the
\* caller has not is lost.
Masked(q, raw) == raw \cap Known \cap (IF actor[q] = Owner THEN Known ELSE bits[q])

\* The default role is the owner's and the admins'.  A field that is not given
\* is written back as it is read here.
FindToUpdate(q) ==
  /\ stage[q] = "to_update" /\ role[q] \in exists
  /\ role[q] = Everyone => actor[q] = Owner \/ Admin \in bits[q]
  /\ Outranks(q, position[role[q]])
  /\ Advance(q, "updating")
  /\ wish' = [wish EXCEPT
       ![q] = Masked(q, IF wish[q] = Keep THEN perms[role[q]] ELSE wish[q])]
  /\ UNCHANGED <<place, seen>>

UpdateRole(q) ==
  /\ stage[q] = "updating" /\ role[q] \in exists
  /\ perms' = [perms EXCEPT ![role[q]] = wish[q]]
  /\ granted' = IF actor[q] = Owner THEN granted \cup wish[q] ELSE granted
  /\ Written(q) /\ Forget(q)
  /\ UNCHANGED <<exists, position, assigned>>

AskDelete(q, a, r) ==
  /\ r \in exists
  /\ Begin(q, a, "to_delete")
  /\ role' = [role EXCEPT ![q] = r]
  /\ UNCHANGED <<wish, order, member, list>>

FindToDelete(q) ==
  /\ stage[q] = "to_delete" /\ role[q] \in exists \ {Everyone}
  /\ Outranks(q, position[role[q]])
  /\ Advance(q, "deleting")
  /\ UNCHANGED <<wish, place, seen>>

\* The role goes from every member that holds it.
DeleteRole(q) ==
  /\ stage[q] = "deleting" /\ role[q] \in exists
  /\ exists' = exists \ {role[q]}
  /\ assigned' = [a \in Account |-> assigned[a] \ {role[q]}]
  /\ seen' = [p \in Request |-> IF p = q THEN {} ELSE seen[p] \ {role[q]}]
  /\ Written(q)
  /\ UNCHANGED <<perms, position, granted>>

-----------------------------------------------------------------------------
(* reorder_roles: highest first.                                             *)

AskReorder(q, a, s) ==
  /\ Begin(q, a, "to_reorder")
  /\ order' = [order EXCEPT ![q] = s]
  /\ UNCHANGED <<role, wish, member, list>>

PlaceOf(q, i) == Len(order[q]) - i + 1

FindToReorder(q) ==
  /\ stage[q] = "to_reorder"
  /\ Ordered(q) = exists \ {Everyone}
  /\ \A i \in DOMAIN order[q] :
       Outranks(q, position[order[q][i]]) /\ Outranks(q, PlaceOf(q, i))
  /\ Advance(q, "reordering")
  /\ UNCHANGED <<wish, place, seen>>

\* One transaction: every UPDATE keeps its row locked, so that of two reorders
\* one writes after the other (or the database fails one).  A role deleted
\* meanwhile is passed over.
ReorderRoles(q) ==
  /\ stage[q] = "reordering"
  /\ position' = [r \in Role |->
       IF r \in exists \cap Ordered(q)
       THEN PlaceOf(q, CHOOSE i \in DOMAIN order[q] : order[q][i] = r)
       ELSE position[r]]
  /\ Written(q) /\ Forget(q)
  /\ UNCHANGED <<exists, perms, assigned, granted>>

-----------------------------------------------------------------------------
(* set_member_roles.                                                         *)

AskMemberRoles(q, a, m, l) ==
  /\ Begin(q, a, "to_list")
  /\ member' = [member EXCEPT ![q] = m]
  /\ list' = [list EXCEPT ![q] = l]
  /\ UNCHANGED <<role, wish, order>>

ReadMemberRoles(q) ==
  /\ stage[q] = "to_list"
  /\ Advance(q, "to_check")
  /\ seen' = [seen EXCEPT ![q] = assigned[member[q]]]
  /\ UNCHANGED <<wish, place>>

\* What q adds and what it removes.
Touched(q) == (seen[q] \ list[q]) \cup (list[q] \ seen[q])

\* Every role of the list is there, and every touched one outranked.
CheckMemberRoles(q) ==
  /\ stage[q] = "to_check"
  /\ list[q] \subseteq exists /\ Touched(q) \subseteq exists \ {Everyone}
  /\ \A r \in Touched(q) : Outranks(q, position[r])
  /\ Advance(q, "to_clear")
  /\ UNCHANGED <<wish, place, seen>>

\* The DELETE sees the rows that are there when it starts, ..
StartClear(q) ==
  /\ stage[q] = "to_clear"
  /\ Advance(q, "clearing")
  /\ seen' = [seen EXCEPT ![q] = assigned[member[q]]]
  /\ UNCHANGED <<wish, place>>

\* .. waits for those that another transaction is deleting, ..
ClearRoles(q) ==
  /\ stage[q] = "clearing"
  /\ \A p \in Request : stage[p] = "cleared" /\ member[p] = member[q] => seen[p] \cap seen[q] = {}
  /\ Advance(q, "cleared")
  /\ UNCHANGED <<wish, place, seen>>

\* .. and of the rest none remains.  The list's rows must be new, and refer to
\* roles that are there.
InsertRoles(q) ==
  LET kept == assigned[member[q]] \ seen[q]
  IN /\ stage[q] = "cleared"
     /\ list[q] \subseteq exists /\ list[q] \cap kept = {}
     /\ assigned' = [assigned EXCEPT ![member[q]] = kept \cup list[q]]
     /\ seen' = [p \in Request |->
          IF p = q THEN {}
          ELSE IF stage[p] = "clearing" /\ member[p] = member[q] THEN seen[p] \ seen[q]
          ELSE seen[p]]
     /\ Written(q)
     /\ UNCHANGED <<exists, perms, position, granted>>

-----------------------------------------------------------------------------

\* Clients name the roles they have been shown.
Call(q) ==
  \E a \in Account :
    \/ \E r \in Role :
         \/ AskCreate(q, a, r) \/ AskDelete(q, a, r)
         \/ \E w \in (SUBSET Bit) \cup {Keep} : AskUpdate(q, a, r, w)
    \/ \E s \in OrdersOf(exists) : AskReorder(q, a, s)
    \/ \E m \in Account, l \in SUBSET exists : AskMemberRoles(q, a, m, l)

Step(q) ==
  \/ CountRoles(q) \/ ReadPosition(q) \/ InsertRole(q)
  \/ FindToUpdate(q) \/ UpdateRole(q)
  \/ FindToDelete(q) \/ DeleteRole(q)
  \/ FindToReorder(q) \/ ReorderRoles(q)
  \/ ReadMemberRoles(q) \/ CheckMemberRoles(q)
  \/ StartClear(q) \/ ClearRoles(q) \/ InsertRoles(q)

Next == \E q \in Request : Call(q) \/ Step(q) \/ Fail(q)

Spec == Init /\ [][Next]_vars

-----------------------------------------------------------------------------

Stage == {"idle", "counting", "numbering", "creating", "to_update", "updating", "to_delete",
          "deleting", "to_reorder", "reordering", "to_list", "to_check", "to_clear",
          "clearing", "cleared"}

\* Types.
TypeOK ==
  /\ exists \in SUBSET Role
  /\ perms \in [Role -> SUBSET Known]
  /\ position \in [Role -> Nat]
  /\ assigned \in [Account -> SUBSET exists]
  /\ stage \in [Request -> Stage]
  /\ actor \in [Request -> Account]
  /\ top \in [Request -> Nat]
  /\ bits \in [Request -> SUBSET Known]
  /\ role \in [Request -> Role]
  /\ wish \in [Request -> (SUBSET Bit) \cup {Keep}]
  /\ place \in [Request -> Nat]
  /\ order \in [Request -> Seq(Role)]
  /\ member \in [Request -> Account]
  /\ list \in [Request -> SUBSET Role]
  /\ seen \in [Request -> SUBSET Role]
  /\ calls \in 0..MaxCalls
  /\ granted \in SUBSET Known
  /\ moved \in [Request -> BOOLEAN]

\* However managers edit roles and hand them on, with authority that may be
\* gone when they use it, no role carries a permission that the owner has set
\* on none (update_role's mask, service.rs:1991-2000).
NoEscalation == \A r \in exists : perms[r] \subseteq granted

\* Requests that run together may overrun MAX_ROLES_PER_SERVER, since each
\* counts before any has inserted, but by one role for each of the others and
\* no more: the roles above the limit do not add up from one burst of requests
\* to the next (create_role, service.rs:1920).
OverrunBounded == Cardinality(exists) <= MaxRoles + Cardinality(Request) - 1

\* The roles a step writes on: changed, deleted, moved, given or taken away.
TouchedRoles ==
  {r \in exists : \/ r \notin exists' \/ perms[r] # perms'[r] \/ position[r] # position'[r]
                  \/ \E a \in Account : (r \in assigned[a]) # (r \in assigned'[a])}

\* Unless somebody else wrote meanwhile, whatever a request of a member other
\* than the owner touches is outranked by that member at the moment of the
\* write, and the permissions it adds are the member's (the two axes of
\* permissions.rs:3-7): the authority a request has read is the one it uses.
AuthorityHolds ==
  [][\A q \in Request :
       stage[q] # stage'[q] /\ actor[q] # Owner /\ ~moved[q] =>
         \A r \in TouchedRoles :
           /\ position[r] < TopOf(actor[q])
           /\ perms'[r] \ perms[r] \subseteq PermissionsOf(actor[q])]_vars
=============================================================================
