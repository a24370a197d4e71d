------------------------------- MODULE Calls -------------------------------
(***************************************************************************)
(* What the hub promises of voice calls to accounts that keep to one open  *)
(* socket, without its locks, tasks and announcements: a caller's socket   *)
(* is registered as long as it is in a call, a call is left as a whole     *)
(* before the next one is entered, and before the socket goes.             *)
(***************************************************************************)
CONSTANTS
  Account,
  Conn,
  Channel,
  Owner       \* Owner[h]: the account whose socket h is

VARIABLES
  sockets,    \* sockets[a]: the registered socket of a, if it has one
  place       \* place[a]: <<c, h>> while a is in c's call through socket h

vars == <<sockets, place>>

Init ==
  /\ sockets = [a \in Account |-> {}]
  /\ place = [a \in Account |-> {}]

Connect(h) ==
  /\ sockets[Owner[h]] = {}
  /\ sockets' = [sockets EXCEPT ![Owner[h]] = {h}]
  /\ UNCHANGED place

\* Only a socket that is in no call may go.
Disconnect(h) ==
  /\ h \in sockets[Owner[h]]
  /\ \A c \in Channel : <<c, h>> \notin place[Owner[h]]
  /\ sockets' = [sockets EXCEPT ![Owner[h]] = {}]
  /\ UNCHANGED place

\* A call is entered from outside any other.
Enter(h, c) ==
  /\ h \in sockets[Owner[h]]
  /\ place[Owner[h]] = {}
  /\ place' = [place EXCEPT ![Owner[h]] = {<<c, h>>}]
  /\ UNCHANGED sockets

\* By its own will, by closing its socket, or evicted.
Leave(a) ==
  /\ place[a] # {}
  /\ place' = [place EXCEPT ![a] = {}]
  /\ UNCHANGED sockets

Next ==
  \/ \E h \in Conn : Connect(h) \/ Disconnect(h)
  \/ \E h \in Conn, c \in Channel : Enter(h, c)
  \/ \E a \in Account : Leave(a)

Spec == Init /\ [][Next]_vars
=============================================================================
