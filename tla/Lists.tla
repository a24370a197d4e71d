------------------------------- MODULE Lists -------------------------------
(***************************************************************************)
(* The lists made of who sees which channel, beside everything that        *)
(* Channels does: the sidebar (list_channels, and reorder_channels' reply, *)
(* which repeats it), the gateway's ready event (accessible_channel_ids),  *)
(* the accounts that hear of a channel (channel_viewer_account_ids), and   *)
(* the channels of a search.  Each copies the rule of                      *)
(* require_channel_access, and all but the search read the channels, their *)
(* restrictions and their grants in statements of their own, outside any   *)
(* transaction.                                                            *)
(*                                                                         *)
(* One list is made at a time: lists write nothing and hold no connection  *)
(* between two statements, so they do not notice each other.               *)
(***************************************************************************)
EXTENDS Channels

CONSTANTS
  Reader,    \* bound: the accounts that lists are made for
  MaxLists   \* bound: lists made

ASSUME ListsAssumption == Reader \subseteq Account /\ MaxLists \in Nat

VARIABLES
  making,    \* the list being made
  at,        \* how far it is
  topic,     \* the pairs of an account and a channel it is about
  remaining, \* the channels it has still to look up
  pending,   \* the pairs it has found restricted and has to read the grants of
  named,     \* the pairs it says see each other
  failed,    \* the ready list has failed and is sent empty
  lists,     \* how many have begun
  ever,      \* history: the pairs visible at some moment since it was asked for,
  steady,    \*   at every moment,
  lifted,    \*   those whose restriction was lifted while they were pending,
  removed,   \*   the channels removed,
  starved    \*   and whether the pool was used up

readVars == <<making, at, topic, remaining, pending, named, failed, lists>>
seenSinceVars == <<ever, steady, lifted, removed, starved>>
listVars == <<vars, readVars, seenSinceVars>>

ListInit ==
  /\ Init
  /\ making = "none" /\ at = "none"
  /\ topic = {} /\ remaining = {} /\ pending = {} /\ named = {}
  /\ failed = FALSE /\ lists = 0
  /\ ever = {} /\ steady = {} /\ lifted = {} /\ removed = {} /\ starved = FALSE

Pair == Account \X Channel

\* The pairs it is about, of these channels.
About(cs) == {p \in topic : p[2] \in cs}

\* Anything that happens to the channels while a list is made.
Change ==
  /\ Next
  /\ calls' + lists <= MaxCalls
  /\ UNCHANGED readVars
  /\ ever' = ever \cup {p \in topic : Admits(p[1], p[2])'}
  /\ steady' = {p \in steady : Admits(p[1], p[2])'}
  /\ lifted' = lifted \cup {p \in pending : ~EffectiveRestricted(p[2])'}
  /\ removed' = IF at = "none" THEN {} ELSE removed \cup {c \in Channel : Live(c) /\ ~Live(c)'}
  /\ starved' = (at # "none" /\ (starved \/ ~Free'))

\* What a read leaves alone.
Reads == UNCHANGED <<vars, making, topic, lists, seenSinceVars>>

Ask(list, pairs) ==
  /\ at = "none" /\ lists < MaxLists /\ calls + lists < MaxCalls
  /\ making' = list /\ at' = "asked" /\ topic' = pairs /\ lists' = lists + 1
  /\ ever' = {p \in pairs : Admits(p[1], p[2])} /\ steady' = ever'
  /\ starved' = ~Free
  /\ UNCHANGED <<vars, remaining, pending, named, failed, lifted, removed>>

AskFor(a) == \E list \in {"ready", "channels", "search"} : Ask(list, {a} \X Channel)

AskViewers(c) == Ask("viewers", Account \X {c})

\* The list is over: sent, or an error, or its client went away.
Over ==
  /\ making' = "none" /\ at' = "none" /\ failed' = FALSE
  /\ topic' = {} /\ remaining' = {} /\ pending' = {} /\ named' = {}
  /\ ever' = {} /\ steady' = {} /\ lifted' = {} /\ removed' = {} /\ starved' = FALSE
  /\ UNCHANGED <<vars, lists>>

\* The gateway's own task is not dropped before it has sent its list.
Leave == (at = "done" \/ (at # "none" /\ making # "ready")) /\ Over

Rows == {c \in Channel : Live(c)}

-----------------------------------------------------------------------------
(* The ready event.                                                          *)

ListIds ==
  /\ making = "ready" /\ at = "asked" /\ Free
  /\ at' = "walking" /\ remaining' = Rows
  /\ UNCHANGED <<pending, named, failed>> /\ Reads

\* Slip: the row's own column is asked, which for a thread stays false.
LookUpRow(c) ==
  /\ making = "ready" /\ at = "walking" /\ c \in remaining /\ Free /\ Live(c)
  /\ remaining' = remaining \ {c}
  /\ IF c \in Top /\ restricted[c]
     THEN at' = "granting" /\ pending' = About({c}) /\ named' = named
     ELSE named' = named \cup About({c}) /\ UNCHANGED <<at, pending>>
  /\ UNCHANGED failed /\ Reads

\* In any order: the query has none.
LookUp(c) ==
  /\ making = "ready" /\ at = "walking" /\ c \in remaining /\ Free /\ Live(c)
  /\ remaining' = remaining \ {c}
  /\ IF EffectiveRestricted(c)
     THEN at' = "granting" /\ pending' = About({c}) /\ named' = named
     ELSE named' = named \cup About({c}) /\ UNCHANGED <<at, pending>>
  /\ UNCHANGED failed /\ Reads

\* Its grants, after the roles, which do not change here.
ReadGrant ==
  /\ making = "ready" /\ at = "granting" /\ Free
  /\ named' = named \cup {p \in pending : CanView(p[1], Source(p[2]))}
  /\ pending' = {} /\ at' = "walking"
  /\ UNCHANGED <<remaining, failed>> /\ Reads

ReadyFails ==
  /\ at' = "done" /\ failed' = TRUE
  /\ remaining' = {} /\ pending' = {} /\ named' = {}
  /\ Reads

\* One that is deleted since takes the whole list along.
LookUpFails(c) ==
  /\ making = "ready" /\ at = "walking" /\ c \in remaining /\ Free /\ ~Live(c)
  /\ ReadyFails

SendReady ==
  /\ making = "ready" /\ at = "walking" /\ remaining = {}
  /\ at' = "done"
  /\ UNCHANGED <<remaining, pending, named, failed>> /\ Reads

-----------------------------------------------------------------------------
(* The sidebar: rows with their own columns, the parents' columns, grants.   *)

ListRows ==
  /\ making = "channels" /\ at = "asked" /\ Free
  /\ IF \A p \in topic : Bypasses(p[1])
     THEN named' = About(Rows) /\ at' = "done" /\ UNCHANGED <<remaining, pending>>
     ELSE /\ named' = About({c \in Rows \cap Top : ~restricted[c]})
          /\ pending' = About({c \in Rows \cap Top : restricted[c]})
          /\ remaining' = Rows \cap Thread
          /\ at' = "flags"
  /\ UNCHANGED failed /\ Reads

\* No query for no threads.  A removed parent keeps its column.
ReadFlags ==
  /\ making = "channels" /\ at = "flags" /\ (remaining # {} => Free)
  /\ named' = named \cup About({t \in remaining : ~restricted[ParentOf[t]]})
  /\ pending' = pending \cup About({t \in remaining : restricted[ParentOf[t]]})
  /\ remaining' = {} /\ at' = "granting"
  /\ UNCHANGED failed /\ Reads

ReadGrants ==
  /\ making = "channels" /\ at = "granting" /\ Free
  /\ named' = named \cup {p \in pending : RolesHeld(p[1]) \cap grants[Source(p[2])] # {}}
  /\ pending' = {} /\ at' = "done"
  /\ UNCHANGED <<remaining, failed>> /\ Reads

-----------------------------------------------------------------------------
(* Who hears of a channel, and search.                                       *)

ReadAccessRow ==
  /\ making = "viewers" /\ at = "asked" /\ Free
  /\ \A p \in topic : Live(p[2])
  /\ named' = {p \in topic : ~EffectiveRestricted(p[2])}
  /\ pending' = topic \ named'
  /\ at' = IF pending' = {} THEN "done" ELSE "granting"
  /\ UNCHANGED <<remaining, failed>> /\ Reads

\* Nobody hears of a channel that is gone.
NoAccessRow ==
  /\ making = "viewers" /\ at = "asked" /\ Free
  /\ \E p \in topic : ~Live(p[2])
  /\ Over

\* Slip: the grants of the default role are looked for among the assigned roles.
HearsByRole(a, granted) ==
  a = Owner \/ RolesHeld(a) \cap AdminRoles # {} \/ RolesOf[a] \cap granted # {}

\* By member, with the default role apart.
Hears(a, granted) ==
  \/ Everyone \in granted
  \/ a = Owner \/ RolesHeld(a) \cap AdminRoles # {} \/ RolesOf[a] \cap granted # {}

ReadHearers ==
  /\ making = "viewers" /\ at = "granting" /\ Free
  /\ named' = named \cup {p \in pending : Hears(p[1], grants[Source(p[2])])}
  /\ pending' = {} /\ at' = "done"
  /\ UNCHANGED <<remaining, failed>> /\ Reads

\* The channels a search finds messages in: one query, with its own conditions.
Search ==
  /\ making = "search" /\ at = "asked" /\ Free
  /\ named' = {p \in About(Rows) : \/ Bypasses(p[1]) \/ ~restricted[Source(p[2])]
                                   \/ RolesHeld(p[1]) \cap grants[Source(p[2])] # {}}
  /\ at' = "done"
  /\ UNCHANGED <<remaining, pending, failed>> /\ Reads

\* acquire_timeout passes: the gateway sends no channels, the others no list.
Starve ==
  /\ at \notin {"none", "done"} /\ ~Free
  /\ IF making = "ready" THEN ReadyFails ELSE Over

-----------------------------------------------------------------------------

ListStep ==
  \/ ListIds \/ ReadGrant \/ SendReady \/ \E c \in Channel : LookUp(c) \/ LookUpFails(c)
  \/ ListRows \/ ReadFlags \/ ReadGrants
  \/ ReadAccessRow \/ NoAccessRow \/ ReadHearers \/ Search
  \/ Starve \/ Leave

ListNext ==
  \/ Change
  \/ \E a \in Reader : AskFor(a)
  \/ \E c \in created : AskViewers(c)
  \/ ListStep

ListSpec == ListInit /\ [][ListNext]_listVars

\* The handlers' fairness is that of FairSpec; a list that hangs harms nobody.
FairListSpec == ListSpec /\ \A q \in Request : WF_vars(Step(q))

-----------------------------------------------------------------------------

\* Types.
ListTypeOK ==
  /\ TypeOK
  /\ making \in {"none", "ready", "channels", "viewers", "search"}
  /\ at \in {"none", "asked", "walking", "flags", "granting", "done"}
  /\ topic \subseteq Pair /\ remaining \subseteq Channel
  /\ pending \subseteq topic /\ named \subseteq topic
  /\ failed \in BOOLEAN /\ lists \in 0..MaxLists

\* Whoever a list shows a channel could see it at some moment while the list
\* was made (or the channel was removed meanwhile), and whoever could see it
\* all that time is shown it: the only exceptions are a channel whose
\* restriction is lifted after its row and before its grants are read, and the
\* ready event, empty because a channel was removed or the pool used up
\* meanwhile (service.rs:2969-2990, gateway.rs:68-83).
ListsAreTruthful ==
  at = "done" =>
    /\ \A p \in named : p \in ever \/ p[2] \in removed
    /\ failed \/ steady \subseteq named \cup lifted
    /\ failed => making = "ready" /\ (removed # {} \/ starved)
=============================================================================
