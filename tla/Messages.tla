------------------------------ MODULE Messages ------------------------------
(***************************************************************************)
(* The messages of one text channel of a server (domain/src/service.rs,    *)
(* db/src/message.rs): sending, editing, deleting and pinning them, what   *)
(* the members are told, and a reader who pages through them.              *)
(*                                                                         *)
(* A request runs its checks one after another, each a read of its own,    *)
(* then writes with one statement and announces what that statement        *)
(* returned.  Nothing is locked from one step to the next.  Membership and *)
(* Channels say who belongs and who sees; here somebody belongs or not.    *)
(***************************************************************************)
EXTENDS Integers, FiniteSets, Sequences

CONSTANTS
  Account, Request, Text,
  Moderator,  \* those who hold MANAGE_MESSAGES and PIN_MESSAGES
  Mentioner,  \* those who hold MENTION_EVERYONE
  Ping,       \* the texts that mention everyone
  None,       \* NULL, no text and nobody
  Limit,      \* DEFAULT_MESSAGE_LIMIT
  Size,       \* bound: the messages sent
  MaxCalls    \* bound: the requests begun and the changes of membership

RowType ==
  [author : Account, text : Text, vector : Text, deleted : BOOLEAN, pinned : BOOLEAN]

SummaryType == [text : Text \cup {None}, pinned : BOOLEAN]

ASSUME MessagesAssumption ==
  /\ Moderator \subseteq Account /\ Mentioner \subseteq Account /\ Ping \subseteq Text
  /\ None \notin Account \cup Text \cup RowType \cup SummaryType
  /\ Limit \in Nat \ {0} /\ Size \in Nat \ {0} /\ MaxCalls \in Nat

\* The ids are time-ordered (UUIDv7); 0 stands for none.
Id == 1 .. Size

Operation == {"send", "edit", "delete", "pin", "unpin"}

VARIABLES
  row,      \* row[m]: the message's row, or None
  drawn,    \* the ids drawn so far
  members,  \* who has a membership of the server
  muted,    \* who is timed out
  op,       \* op[q]: what request q does, "none" at rest
  actor, target, words,  \* who asks, which message, which text
  passed,   \* passed[q]: how many of its checks q has passed
  news,     \* news[q]: what q has yet to announce of its message, or None
  told,     \* told[m]: what was last announced of m
  page,     \* the reader: its way, its cursor, the ids it got, whether it is over
  calls,    \* how many requests and changes of membership there were
  tardy,    \* history: requests whose actor left or was timed out since they began
  outrun,   \* history: requests whose message was deleted after they wrote it
  blurred,  \* history: messages of which an announcement was lost, or two were under
            \*   way at once, since they were last written alone
  late      \* history: messages stored behind the reader's back

tableVars == <<row, drawn>>
memberVars == <<members, muted, tardy>>
requestVars == <<op, actor, target, words, passed>>
newsVars == <<news, told, outrun, blurred>>
pageVars == <<page, late>>
messageVars == <<tableVars, memberVars, requestVars, newsVars, pageVars, calls>>

\* There is one message already, of somebody's, without a mention.
MessagesInit ==
  /\ \E a \in Account \ Moderator, w \in Text \ Ping :
       row = [m \in Id |-> IF m # 1 THEN None
                           ELSE [author |-> a, text |-> w, vector |-> w,
                                 deleted |-> FALSE, pinned |-> FALSE]]
  /\ drawn = 1
  /\ members = Account /\ muted = {}
  /\ op = [q \in Request |-> "none"]
  /\ actor = [q \in Request |-> None]
  /\ target = [q \in Request |-> 0]
  /\ words = [q \in Request |-> None]
  /\ passed = [q \in Request |-> 0]
  /\ news = [q \in Request |-> None]
  /\ told = [m \in Id |-> IF m # 1 THEN None
                          ELSE [text |-> row[1].text, pinned |-> FALSE]]
  /\ page \in {[way |-> w, cursor |-> IF w = "newer" THEN 0 ELSE Size + 1,
                got |-> {}, over |-> FALSE] : w \in {"newer", "older"}}
  /\ calls = 0
  /\ tardy = {} /\ outrun = {} /\ blurred = {} /\ late = {}

-----------------------------------------------------------------------------
(* What the readers of the table see.                                        *)

Stored == {m \in Id : row[m] # None}
Kept == {m \in Stored : ~row[m].deleted}

\* A definition commented as a slip is no part of Next: it is a bug that one of
\* the properties must notice when it takes the place of the next definition.
\* Slip: the row's text is handed out whether or not it is deleted.
SummaryInFull(r) == [text |-> r.text, pinned |-> r.pinned]

\* "Soft-deleted rows stay in results but never carry their content back out";
\* a pin they keep.
Summary(r) == [text |-> IF r.deleted THEN None ELSE r.text, pinned |-> r.pinned]

PinnedList == {m \in Stored : row[m].pinned /\ ~row[m].deleted}

\* The full-text search: by the vector, which is written beside the text.
Found(w) == {m \in Stored : ~row[m].deleted /\ row[m].vector = w}

\* The first Limit of a set of ids, counted upwards or downwards.
Lowest(S) == {m \in S : Cardinality({n \in S : n < m}) < Limit}
Highest(S) == {m \in S : Cardinality({n \in S : n > m}) < Limit}

\* Slip: the newest ones first, as the chat wants them.
NewerPageFromTop == Highest({m \in Kept : m > page.cursor})

\* The public thread page, oldest first.
NewerPage == Lowest({m \in Kept : m > page.cursor})

\* The chat's page, newest first, deleted rows included.
OlderPage == Highest({m \in Stored : m < page.cursor})

-----------------------------------------------------------------------------
(* The checks; all but the first are reads made while the request runs.      *)

\* require_channel_access, of a channel that is not restricted.
HasAccess(a) == a \in members

\* require_not_timed_out: a member, and not timed out.
NotTimedOut(q) == actor[q] \in members \ muted

\* check_mention_permissions.
MayMention(q) == words[q] \in Ping => actor[q] \in members \cap Mentioner

\* require_own_message: the row is there, not deleted, and the actor's.
OwnsMessage(q) == target[q] \in Kept /\ row[target[q]].author = actor[q]

\* delete_message: one's own, or anybody's with MANAGE_MESSAGES.
MayDelete(q) ==
  /\ target[q] \in Kept
  /\ row[target[q]].author = actor[q] \/ actor[q] \in members \cap Moderator

MayPin(q) == actor[q] \in members \cap Moderator

SendChecks(q) == <<NotTimedOut(q), MayMention(q)>>

\* Slip: the gates of sending are not those of editing.
OwnEditChecks(q) == <<OwnsMessage(q)>>

\* "the same mention gate send_message runs".
EditChecks(q) == <<OwnsMessage(q), NotTimedOut(q), MayMention(q)>>

DeleteChecks(q) == <<NotTimedOut(q), MayDelete(q)>>

PinChecks(q) == <<NotTimedOut(q), MayPin(q)>>

UnpinChecks(q) == PinChecks(q)

Checks(q) ==
  CASE op[q] = "send" -> SendChecks(q)
    [] op[q] = "edit" -> EditChecks(q)
    [] op[q] = "delete" -> DeleteChecks(q)
    [] op[q] = "pin" -> PinChecks(q)
    [] op[q] = "unpin" -> UnpinChecks(q)

Checked(q) == op[q] # "none" /\ passed[q] = Len(Checks(q)) /\ news[q] = None

-----------------------------------------------------------------------------
(* A request.                                                                *)

\* Every operation checks the access first.
Begin(q, o, a, m, w) ==
  /\ op[q] = "none" /\ calls < MaxCalls
  /\ HasAccess(a)
  /\ calls' = calls + 1
  /\ op' = [op EXCEPT ![q] = o]
  /\ actor' = [actor EXCEPT ![q] = a]
  /\ target' = [target EXCEPT ![q] = m]
  /\ words' = [words EXCEPT ![q] = w]
  /\ UNCHANGED <<tableVars, memberVars, passed, newsVars, pageVars>>

AskSend(q) == \E a \in Account, w \in Text : Begin(q, "send", a, 0, w)
AskEdit(q) == \E a \in Account, m \in Stored, w \in Text : Begin(q, "edit", a, m, w)
AskDelete(q) == \E a \in Account, m \in Stored : Begin(q, "delete", a, m, None)
AskPin(q) == \E a \in Account, m \in Stored : Begin(q, "pin", a, m, None)
AskUnpin(q) == \E a \in Account, m \in Stored : Begin(q, "unpin", a, m, None)

Check(q) ==
  /\ op[q] # "none" /\ passed[q] < Len(Checks(q)) /\ Checks(q)[passed[q] + 1]
  /\ passed' = [passed EXCEPT ![q] = @ + 1]
  /\ UNCHANGED <<tableVars, memberVars, op, actor, target, words, calls, newsVars, pageVars>>

\* Request q is over.
End(q) ==
  /\ op' = [op EXCEPT ![q] = "none"]
  /\ actor' = [actor EXCEPT ![q] = None]
  /\ target' = [target EXCEPT ![q] = 0]
  /\ words' = [words EXCEPT ![q] = None]
  /\ passed' = [passed EXCEPT ![q] = 0]
  /\ news' = [news EXCEPT ![q] = None]
  /\ tardy' = tardy \ {q} /\ outrun' = outrun \ {q}
  /\ UNCHANGED <<tableVars, members, muted, calls, pageVars>>

\* Refused, failed, or the client hung up; what was written goes unannounced.
\* publish drops the event likewise when the query for its hearers fails.
Stop(q) ==
  /\ op[q] # "none"
  /\ End(q)
  /\ blurred' = IF news[q] = None THEN blurred ELSE blurred \cup {target[q]}
  /\ UNCHANGED told

\* The id is drawn before the INSERT is sent.
DrawId(q) ==
  /\ Checked(q) /\ op[q] = "send" /\ target[q] = 0 /\ drawn < Size
  /\ drawn' = drawn + 1
  /\ target' = [target EXCEPT ![q] = drawn']
  /\ UNCHANGED <<row, memberVars, op, actor, words, passed, calls, newsVars, pageVars>>

\* Slip: what is announced is the row as the checks found it.
EventAsRead(q, r) ==
  IF op[q] = "delete" THEN [text |-> None, pinned |-> FALSE]
  ELSE Summary(IF row[target[q]] = None THEN r ELSE row[target[q]])

\* message.delete names the message, and tells nothing of it.
Event(q, r) ==
  IF op[q] = "delete" THEN [text |-> None, pinned |-> FALSE] ELSE Summary(r)

Announcing(m) == {p \in Request : news[p] # None /\ target[p] = m}

\* The one statement of request q: the row becomes r, and is returned.
Write(q, r) ==
  /\ row' = [row EXCEPT ![target[q]] = r]
  /\ news' = [news EXCEPT ![q] = Event(q, r)]
  /\ blurred' = IF Announcing(target[q]) # {} THEN blurred \cup {target[q]}
                ELSE blurred \ {target[q]}
  /\ UNCHANGED <<drawn, memberVars, requestVars, told, page, calls>>

\* The reader has been past the place of message m.
Passed(m) ==
  \/ page.way = "newer" /\ m < page.cursor
  \/ page.way = "older" /\ (m >= page.cursor \/ page.over)

Insert(q) ==
  /\ Checked(q) /\ op[q] = "send" /\ target[q] # 0
  /\ Write(q, [author |-> actor[q], text |-> words[q], vector |-> words[q],
               deleted |-> FALSE, pinned |-> FALSE])
  /\ late' = IF Passed(target[q]) THEN late \cup {target[q]} ELSE late
  /\ UNCHANGED outrun

\* Slip: the vector stays that of the first text.
UpdateText(q) ==
  /\ Checked(q) /\ op[q] = "edit"
  /\ Write(q, [row[target[q]] EXCEPT !.text = words[q]])
  /\ UNCHANGED <<outrun, late>>

\* The UPDATE asks neither for deleted_at nor for the author again.
UpdateContent(q) ==
  /\ Checked(q) /\ op[q] = "edit"
  /\ Write(q, [row[target[q]] EXCEPT !.text = words[q], !.vector = words[q]])
  /\ UNCHANGED <<outrun, late>>

SoftDelete(q) ==
  /\ Checked(q) /\ op[q] = "delete"
  /\ Write(q, [row[target[q]] EXCEPT !.deleted = TRUE])
  /\ outrun' = outrun \cup Announcing(target[q])
  /\ UNCHANGED late

\* The UPDATE finds no row when the message is deleted.
Pin(q) ==
  /\ Checked(q) /\ op[q] = "pin" /\ ~row[target[q]].deleted
  /\ Write(q, [row[target[q]] EXCEPT !.pinned = TRUE])
  /\ UNCHANGED <<outrun, late>>

Unpin(q) ==
  /\ Checked(q) /\ op[q] = "unpin"
  /\ Write(q, [row[target[q]] EXCEPT !.pinned = FALSE])
  /\ UNCHANGED <<outrun, late>>

\* The event reaches whoever may see the channel; a later one replaces it.
Publish(q) ==
  /\ news[q] # None
  /\ End(q)
  /\ told' = [told EXCEPT ![target[q]] = news[q]]
  /\ UNCHANGED blurred

-----------------------------------------------------------------------------
(* The others.                                                               *)

Count == calls < MaxCalls /\ calls' = calls + 1

Outpaced(a) == {q \in Request : actor[q] = a}

\* Somebody leaves, or is kicked or banned; the timeout goes with the row.
Leave(a) ==
  /\ a \in members
  /\ Count
  /\ members' = members \ {a} /\ muted' = muted \ {a}
  /\ tardy' = tardy \cup Outpaced(a)
  /\ UNCHANGED <<tableVars, requestVars, newsVars, pageVars>>

Join(a) ==
  /\ a \notin members
  /\ Count
  /\ members' = members \cup {a}
  /\ UNCHANGED <<tableVars, muted, tardy, requestVars, newsVars, pageVars>>

Timeout(a) ==
  /\ a \in members \ muted
  /\ Count
  /\ muted' = muted \cup {a}
  /\ tardy' = tardy \cup Outpaced(a)
  /\ UNCHANGED <<tableVars, members, requestVars, newsVars, pageVars>>

\* It is lifted, or over.
Unmute(a) ==
  /\ a \in muted
  /\ Count
  /\ muted' = muted \ {a}
  /\ UNCHANGED <<tableVars, members, tardy, requestVars, newsVars, pageVars>>

\* The public page's next cursor is the last id of a page that is not empty.
ReadNewer ==
  /\ page.way = "newer" /\ NewerPage # {}
  /\ page' = [page EXCEPT !.got = @ \cup NewerPage,
                          !.cursor = CHOOSE m \in NewerPage : \A n \in NewerPage : n <= m]
  /\ UNCHANGED <<tableVars, memberVars, requestVars, newsVars, late, calls>>

\* The chat's next cursor is the last id of a page that is full.
ReadOlder ==
  /\ page.way = "older" /\ ~page.over
  /\ page' = [page EXCEPT
       !.got = @ \cup OlderPage,
       !.over = Cardinality(OlderPage) < Limit,
       !.cursor = IF OlderPage = {} THEN @
                  ELSE CHOOSE m \in OlderPage : \A n \in OlderPage : m <= n]
  /\ UNCHANGED <<tableVars, memberVars, requestVars, newsVars, late, calls>>

MessagesNext ==
  \/ \E q \in Request :
       \/ AskSend(q) \/ AskEdit(q) \/ AskDelete(q) \/ AskPin(q) \/ AskUnpin(q)
       \/ Check(q) \/ Stop(q) \/ DrawId(q)
       \/ Insert(q) \/ UpdateContent(q) \/ SoftDelete(q) \/ Pin(q) \/ Unpin(q)
       \/ Publish(q)
  \/ \E a \in Account : Leave(a) \/ Join(a) \/ Timeout(a) \/ Unmute(a)
  \/ ReadNewer \/ ReadOlder

-----------------------------------------------------------------------------
MessagesTypeOK ==
  /\ row \in [Id -> RowType \cup {None}]
  /\ drawn \in 0 .. Size
  /\ members \in SUBSET Account /\ muted \in SUBSET members
  /\ op \in [Request -> Operation \cup {"none"}]
  /\ actor \in [Request -> Account \cup {None}]
  /\ target \in [Request -> 0 .. Size]
  /\ words \in [Request -> Text \cup {None}]
  /\ passed \in [Request -> 0 .. 3]
  /\ news \in [Request -> SummaryType \cup {None}]
  /\ told \in [Id -> SummaryType \cup {None}]
  /\ page \in [way : {"newer", "older"}, cursor : 0 .. Size + 1, got : SUBSET Id,
               over : BOOLEAN]
  /\ calls \in 0 .. MaxCalls
  /\ tardy \in SUBSET Request /\ outrun \in SUBSET Request
  /\ blurred \in SUBSET Id /\ late \in SUBSET Id
=============================================================================
