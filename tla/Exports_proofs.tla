---------------------------- MODULE Exports_proofs ----------------------------
(***************************************************************************)
(* Theorems about Exports and the messages it builds on, for any members,  *)
(* requests, workers, jobs and limit of a page, and for any number of      *)
(* messages: what is read, told, paged through and dumped.                 *)
(***************************************************************************)
EXTENDS Exports, FiniteSetTheorems, WellFoundedInduction, TLAPS

-----------------------------------------------------------------------------
(* Sets of ids.                                                              *)

LEMMA IdSets ==
  /\ IsFiniteSet(Id) /\ Id \subseteq Nat
  /\ \A S \in SUBSET Id : IsFiniteSet(S) /\ Cardinality(S) \in Nat
<1>1. Size \in Nat /\ 1 \in Int /\ Size \in Int
  BY MessagesAssumption
<1>2. IsFiniteSet(1 .. Size)
  BY <1>1, FS_Interval
<1>3. IsFiniteSet(Id) /\ Id \subseteq Nat
  BY <1>1, <1>2 DEF Id
<1>4. ASSUME NEW S \in SUBSET Id PROVE IsFiniteSet(S) /\ Cardinality(S) \in Nat
  <2>1. IsFiniteSet(S)
    BY <1>3, FS_Subset
  <2>2. QED
    BY <2>1, FS_CardinalityType
<1>5. QED
  BY <1>3, <1>4

\* A set of ids has a first and a last one: else a smallest set without one of
\* them would have both without any of its elements.
LEMMA Ends ==
  ASSUME NEW S \in SUBSET Id, S # {}
  PROVE  /\ \E m \in S : \A n \in S : n <= m
         /\ \E m \in S : \A n \in S : m <= n
<1> DEFINE Both(A) == (\E m \in A : \A n \in A : n <= m) /\ (\E m \in A : \A n \in A : m <= n)
           Bad == {A \in SUBSET Id : A # {} /\ ~Both(A)}
<1> SUFFICES ASSUME S \in Bad PROVE FALSE
  OBVIOUS
<1>1. IsWellFoundedOn(StrictSubsetOrdering(Id), SUBSET Id)
  BY IdSets, FS_StrictSubsetOrderingWellFounded, FS_FiniteSubsetsOfFinite
<1>2. PICK A \in Bad : \A B \in Bad : ~(<<B, A>> \in StrictSubsetOrdering(Id))
  BY <1>1, WFMin
<1>3. PICK x \in A : TRUE
  OBVIOUS
<1>4. A \ {x} \notin Bad
  <2>1. <<A \ {x}, A>> \in StrictSubsetOrdering(Id)
    BY <1>3 DEF StrictSubsetOrdering
  <2>2. QED
    BY <1>2, <2>1
<1>5. \A n \in A : n \in Int
  BY MessagesAssumption DEF Id
<1>6. CASE A \ {x} = {}
  <2>1. A = {x}
    BY <1>3, <1>6
  <2>2. QED
    BY <1>5, <2>1
<1>7. CASE A \ {x} # {}
  <2>1. PICK m \in A \ {x} : \A n \in A \ {x} : n <= m
    BY <1>4, <1>7
  <2>2. PICK l \in A \ {x} : \A n \in A \ {x} : l <= n
    BY <1>4, <1>7
  <2>3. \E u \in A : \A n \in A : n <= u
    <3>1. CASE x <= m
      BY <1>3, <2>1, <3>1
    <3>2. CASE ~(x <= m)
      <4>1. \A n \in A : n <= x
        BY <1>3, <1>5, <2>1, <3>2
      <4>2. QED
        BY <1>3, <4>1
    <3>3. QED
      BY <3>1, <3>2
  <2>4. \E u \in A : \A n \in A : u <= n
    <3>1. CASE l <= x
      BY <1>3, <2>2, <3>1
    <3>2. CASE ~(l <= x)
      <4>1. \A n \in A : x <= n
        BY <1>3, <1>5, <2>2, <3>2
      <4>2. QED
        BY <1>3, <4>1
    <3>3. QED
      BY <3>1, <3>2
  <2>5. QED
    BY <2>3, <2>4
<1>8. QED
  BY <1>6, <1>7

-----------------------------------------------------------------------------
(* Types, and what is known of a request at each of its steps.               *)

\* What a request knows of its message.
Asks(q) ==
  /\ op[q] = "none" =>
       target[q] = 0 /\ actor[q] = None /\ words[q] = None /\ passed[q] = 0 /\ news[q] = None
  /\ op[q] # "none" => actor[q] \in Account
  /\ op[q] \in {"send", "edit"} => words[q] \in Text
  /\ op[q] \in {"edit", "delete", "pin", "unpin"} => target[q] \in Stored
  /\ op[q] = "send" /\ target[q] # 0 => target[q] \in 1 .. drawn
  /\ op[q] = "send" /\ target[q] # 0 /\ news[q] = None => row[target[q]] = None
  /\ news[q] # None => target[q] \in Stored

\* An id is drawn for one message.
Drawn ==
  /\ \A m \in Stored : m \in 1 .. drawn
  /\ \A p, q \in Request :
       p # q /\ op[p] = "send" /\ op[q] = "send" /\ target[p] # 0 => target[p] # target[q]

\* Where there is text, the vector is of that text.
Vectors == \A m \in Stored : row[m].vector = row[m].text

Typed == MessagesTypeOK /\ (\A q \in Request : Asks(q)) /\ Drawn /\ Vectors

LEMMA InitTyped == MessagesInit => Typed
<1> SUFFICES ASSUME MessagesInit PROVE Typed
  OBVIOUS
<1> USE MessagesAssumption DEF MessagesInit
<1>1. PICK a \in Account \ Moderator, w \in Text \ Ping :
        row = [m \in Id |-> IF m # 1 THEN None
                            ELSE [author |-> a, text |-> w, vector |-> w,
                                  deleted |-> FALSE, pinned |-> FALSE]]
  OBVIOUS
<1>2. 1 \in Id /\ \A m \in Id : m \in Nat
  BY DEF Id
<1>3. row \in [Id -> RowType \cup {None}] /\ Stored = {1}
  <2>1. [author |-> a, text |-> w, vector |-> w, deleted |-> FALSE, pinned |-> FALSE] \in RowType
    BY <1>1 DEF RowType
  <2>2. QED
    BY <1>1, <1>2, <2>1 DEF Stored
<1>4. row[1].text \in Text /\ row[1].vector = row[1].text
  BY <1>1, <1>2
<1>5. told \in [Id -> SummaryType \cup {None}]
  <2>1. [text |-> row[1].text, pinned |-> FALSE] \in SummaryType
    BY <1>4 DEF SummaryType
  <2>2. QED
    BY <2>1
<1>6. page \in [way : {"newer", "older"}, cursor : 0 .. Size + 1, got : SUBSET Id, over : BOOLEAN]
  <2>1. PICK d \in {"newer", "older"} :
          page = [way |-> d, cursor |-> IF d = "newer" THEN 0 ELSE Size + 1, got |-> {}, over |-> FALSE]
    OBVIOUS
  <2>2. (IF d = "newer" THEN 0 ELSE Size + 1) \in 0 .. Size + 1
    OBVIOUS
  <2>3. QED
    BY <2>1, <2>2
<1>7. MessagesTypeOK
  <2>1. /\ drawn \in 0 .. Size /\ members \in SUBSET Account /\ muted \in SUBSET members
        /\ calls \in 0 .. MaxCalls
        /\ tardy \in SUBSET Request /\ outrun \in SUBSET Request
        /\ blurred \in SUBSET Id /\ late \in SUBSET Id
    OBVIOUS
  <2>2. /\ op \in [Request -> Operation \cup {"none"}] /\ actor \in [Request -> Account \cup {None}]
        /\ target \in [Request -> 0 .. Size] /\ words \in [Request -> Text \cup {None}]
        /\ passed \in [Request -> 0 .. 3] /\ news \in [Request -> SummaryType \cup {None}]
    OBVIOUS
  <2>3. QED
    BY <1>3, <1>5, <1>6, <2>1, <2>2 DEF MessagesTypeOK
<1>8. \A q \in Request : Asks(q)
  BY DEF Asks
<1>9. Drawn /\ Vectors
  BY <1>3, <1>4 DEF Drawn, Vectors
<1>10. QED
  BY <1>7, <1>8, <1>9 DEF Typed

\* The checks of an operation, by number.
LEMMA Gates ==
  ASSUME NEW q \in Request, NEW n \in Nat, n < Len(Checks(q)), Checks(q)[n + 1]
  PROVE  /\ op[q] = "send" => n < 2 /\ (n = 0 => NotTimedOut(q)) /\ (n = 1 => MayMention(q))
         /\ op[q] = "edit" => /\ n < 3 /\ (n = 0 => OwnsMessage(q))
                              /\ (n = 1 => NotTimedOut(q)) /\ (n = 2 => MayMention(q))
         /\ op[q] \in {"delete", "pin", "unpin"} => n < 2
<1>1. CASE op[q] = "send"
  <2>1. Checks(q) = <<NotTimedOut(q), MayMention(q)>>
    BY <1>1 DEF Checks, SendChecks
  <2>2. Len(Checks(q)) = 2 /\ Checks(q)[1] = NotTimedOut(q) /\ Checks(q)[2] = MayMention(q)
    BY <2>1
  <2>3. QED
    BY <1>1, <2>2
<1>2. CASE op[q] = "edit"
  <2>1. Checks(q) = <<OwnsMessage(q), NotTimedOut(q), MayMention(q)>>
    BY <1>2 DEF Checks, EditChecks
  <2>2. /\ Len(Checks(q)) = 3 /\ Checks(q)[1] = OwnsMessage(q)
        /\ Checks(q)[2] = NotTimedOut(q) /\ Checks(q)[3] = MayMention(q)
    BY <2>1
  <2>3. QED
    BY <1>2, <2>2
<1>3. CASE op[q] \in {"delete", "pin", "unpin"}
  <2>1. Checks(q) = <<NotTimedOut(q), MayDelete(q)>> \/ Checks(q) = <<NotTimedOut(q), MayPin(q)>>
    BY <1>3 DEF Checks, DeleteChecks, PinChecks, UnpinChecks
  <2>2. Len(Checks(q)) = 2
    BY <2>1
  <2>3. QED
    BY <1>3, <2>2
<1>4. QED
  BY <1>1, <1>2, <1>3

LEMMA SummaryTypes ==
  ASSUME NEW r \in RowType
  PROVE  Summary(r) \in SummaryType /\ Summary(r) # None /\ r # None
<1>1. r.text \in Text /\ r.pinned \in BOOLEAN
  BY DEF RowType
<1>2. Summary(r) \in SummaryType
  BY <1>1 DEF Summary, SummaryType
<1>3. None \notin SummaryType /\ None \notin RowType
  BY MessagesAssumption
<1>4. QED
  BY <1>2, <1>3

\* An announcement tells what the row written holds.
LEMMA EventTells ==
  ASSUME NEW q \in Request, NEW r \in RowType, op[q] = "delete" => r.deleted
  PROVE  Event(q, r) \in SummaryType /\ Event(q, r) # None /\ Tells(Event(q, r), r)
<1>1. Summary(r) \in SummaryType /\ None \notin SummaryType
  BY SummaryTypes, MessagesAssumption
<1>2. CASE op[q] = "delete"
  <2>1. Event(q, r) = [text |-> None, pinned |-> FALSE]
    BY <1>2 DEF Event
  <2>2. Event(q, r) \in SummaryType
    BY <2>1 DEF SummaryType
  <2>3. Tells(Event(q, r), r)
    <3>1. r.deleted /\ Summary(r).text = None
      BY <1>2 DEF Summary
    <3>2. Event(q, r).text = None
      BY <2>1
    <3>3. QED
      BY <3>1, <3>2 DEF Tells
  <2>4. QED
    BY <1>1, <2>2, <2>3
<1>3. CASE op[q] # "delete"
  <2>1. Event(q, r) = Summary(r)
    BY <1>3 DEF Event
  <2>2. QED
    BY <1>1, <2>1 DEF Tells
<1>4. QED
  BY <1>2, <1>3

LEMMA StoredRow ==
  ASSUME Typed, NEW m \in Stored
  PROVE  m \in Id /\ row[m] \in RowType /\ Summary(row[m]) \in SummaryType
<1>1. m \in Id /\ row[m] \in RowType
  BY DEF Stored, Typed, MessagesTypeOK
<1>2. QED
  BY <1>1, SummaryTypes

LEMMA BeginTyped ==
  ASSUME Typed, NEW q \in Request, NEW o \in Operation, NEW a \in Account, NEW m \in Stored \cup {0},
         NEW w \in Text \cup {None}, Begin(q, o, a, m, w),
         o \in {"send", "edit"} => w \in Text, m = 0 <=> o = "send"
  PROVE  Typed'
<1> USE DEF Begin
<1>1. calls' \in 0 .. MaxCalls /\ m \in 0 .. Size
  BY MessagesAssumption DEF Typed, MessagesTypeOK, Stored, Id
<1>2. /\ op' \in [Request -> Operation \cup {"none"}] /\ actor' \in [Request -> Account \cup {None}]
      /\ target' \in [Request -> 0 .. Size] /\ words' \in [Request -> Text \cup {None}]
  BY <1>1 DEF Typed, MessagesTypeOK
<1>3. UNCHANGED <<row, drawn, members, muted, tardy, passed, news, told, outrun, blurred, page, late>>
  BY DEF tableVars, memberVars, newsVars, pageVars
<1>4. Stored' = Stored
  BY <1>3 DEF Stored
<1>5. MessagesTypeOK'
  BY <1>1, <1>2, <1>3 DEF Typed, MessagesTypeOK
<1>6. ASSUME NEW p \in Request PROVE Asks(p)'
  <2>1. CASE p = q
    <3>1. op'[p] = o /\ actor'[p] = a /\ target'[p] = m /\ words'[p] = w /\ news'[p] = None
      BY <1>3, <2>1 DEF Typed, MessagesTypeOK, Asks
    <3>2. QED
      BY <1>3, <1>4, <3>1 DEF Asks, Operation
  <2>2. CASE p # q
    <3>1. op'[p] = op[p] /\ actor'[p] = actor[p] /\ target'[p] = target[p] /\ words'[p] = words[p]
      BY <2>2 DEF Typed, MessagesTypeOK
    <3>2. QED
      BY <1>3, <1>4, <3>1 DEF Typed, Asks
  <2>3. QED
    BY <2>1, <2>2
<1>7. Drawn'
  <2>1. \A p \in Request : op'[p] = "send" /\ target'[p] # 0 => op[p] = "send" /\ target[p] = target'[p]
    BY <1>1 DEF Typed, MessagesTypeOK
  <2>2. \A p \in Request : op'[p] = "send" => op[p] = "send" \/ target'[p] = 0
    BY DEF Typed, MessagesTypeOK
  <2>3. QED
    BY <1>3, <1>4, <2>1, <2>2 DEF Typed, Drawn
<1>8. Vectors'
  BY <1>3, <1>4 DEF Typed, Vectors
<1>9. QED
  BY <1>5, <1>6, <1>7, <1>8 DEF Typed

LEMMA AskTyped ==
  ASSUME Typed, NEW q \in Request,
         AskSend(q) \/ AskEdit(q) \/ AskDelete(q) \/ AskPin(q) \/ AskUnpin(q)
  PROVE  Typed'
<1>0. \A m \in Stored : m # 0
  BY MessagesAssumption DEF Stored, Id
<1> USE DEF Operation
<1>1. CASE AskSend(q)
  BY <1>1, BeginTyped DEF AskSend
<1>2. CASE AskEdit(q)
  BY <1>0, <1>2, BeginTyped DEF AskEdit
<1>3. CASE AskDelete(q)
  BY <1>0, <1>3, BeginTyped DEF AskDelete
<1>4. CASE AskPin(q)
  BY <1>0, <1>4, BeginTyped DEF AskPin
<1>5. CASE AskUnpin(q)
  BY <1>0, <1>5, BeginTyped DEF AskUnpin
<1>6. QED
  BY <1>1, <1>2, <1>3, <1>4, <1>5

LEMMA EndTyped ==
  ASSUME Typed, NEW q \in Request, End(q), told' \in [Id -> SummaryType \cup {None}],
         blurred' \in SUBSET Id
  PROVE  Typed'
<1> USE DEF End
<1>1. UNCHANGED <<row, drawn, members, muted, calls, page, late>>
  BY DEF tableVars, pageVars
<1>2. Stored' = Stored
  BY <1>1 DEF Stored
<1>3. /\ op' \in [Request -> Operation \cup {"none"}] /\ actor' \in [Request -> Account \cup {None}]
      /\ target' \in [Request -> 0 .. Size] /\ words' \in [Request -> Text \cup {None}]
      /\ passed' \in [Request -> 0 .. 3] /\ news' \in [Request -> SummaryType \cup {None}]
      /\ tardy' \in SUBSET Request /\ outrun' \in SUBSET Request
  BY MessagesAssumption DEF Typed, MessagesTypeOK
<1>4. MessagesTypeOK'
  BY <1>1, <1>3 DEF Typed, MessagesTypeOK
<1>5. ASSUME NEW p \in Request PROVE Asks(p)'
  <2>1. CASE p = q
    <3>1. op'[p] = "none" /\ actor'[p] = None /\ target'[p] = 0 /\ words'[p] = None
          /\ news'[p] = None /\ passed'[p] = 0
      BY <2>1 DEF Typed, MessagesTypeOK
    <3>2. QED
      BY <3>1 DEF Asks
  <2>2. CASE p # q
    <3>1. /\ op'[p] = op[p] /\ actor'[p] = actor[p] /\ target'[p] = target[p] /\ words'[p] = words[p]
          /\ passed'[p] = passed[p] /\ news'[p] = news[p]
      BY <2>2 DEF Typed, MessagesTypeOK
    <3>2. QED
      BY <1>1, <1>2, <3>1 DEF Typed, Asks
  <2>3. QED
    BY <2>1, <2>2
<1>6. Drawn'
  <2>1. \A p \in Request : op'[p] = "send" => op[p] = "send" /\ target'[p] = target[p]
    BY DEF Typed, MessagesTypeOK
  <2>2. QED
    BY <1>1, <1>2, <2>1 DEF Typed, Drawn
<1>7. Vectors'
  BY <1>1, <1>2 DEF Typed, Vectors
<1>8. QED
  BY <1>4, <1>5, <1>6, <1>7 DEF Typed

LEMMA StopTyped ==
  ASSUME Typed, NEW q \in Request, Stop(q) \/ Publish(q)
  PROVE  Typed'
<1>1. CASE Stop(q)
  <2>1. news[q] # None => target[q] \in Id
    BY DEF Typed, Asks, Stored
  <2>2. blurred' \in SUBSET Id
    BY <1>1, <2>1 DEF Stop, Typed, MessagesTypeOK
  <2>3. QED
    BY <1>1, <2>2, EndTyped DEF Stop, Typed, MessagesTypeOK
<1>2. CASE Publish(q)
  <2>1. news[q] # None /\ target[q] \in Id /\ news[q] \in SummaryType
    BY <1>2 DEF Publish, Typed, Asks, Stored, MessagesTypeOK
  <2>2. told' \in [Id -> SummaryType \cup {None}]
    BY <1>2, <2>1 DEF Publish, Typed, MessagesTypeOK
  <2>3. blurred' \in SUBSET Id
    BY <1>2, <2>1 DEF Publish, Typed, MessagesTypeOK
  <2>4. QED
    BY <1>2, <2>2, <2>3, EndTyped DEF Publish
<1>3. QED
  BY <1>1, <1>2

LEMMA CheckTyped ==
  ASSUME Typed, NEW q \in Request, Check(q)
  PROVE  Typed'
<1>1. op[q] # "none" /\ passed[q] \in 0 .. 3 /\ op[q] \in Operation
  BY DEF Check, Typed, MessagesTypeOK
<1>2. passed[q] < 3
  BY <1>1, Gates DEF Check, Operation
<1>3. passed' \in [Request -> 0 .. 3]
  BY <1>1, <1>2 DEF Check, Typed, MessagesTypeOK
<1>4. UNCHANGED <<row, drawn, members, muted, tardy, op, actor, target, words, calls, news, told,
                  outrun, blurred, page, late>>
  BY DEF Check, tableVars, memberVars, newsVars, pageVars
<1>5. \A p \in Request : op[p] = "none" => passed'[p] = passed[p]
  BY <1>1 DEF Check, Typed, MessagesTypeOK
<1>6. Stored' = Stored
  BY <1>4 DEF Stored
<1>7. MessagesTypeOK'
  BY <1>3, <1>4 DEF Typed, MessagesTypeOK
<1>8. \A p \in Request : Asks(p)'
  BY <1>4, <1>5, <1>6 DEF Typed, Asks
<1>9. Drawn' /\ Vectors'
  BY <1>4, <1>6 DEF Typed, Drawn, Vectors
<1>10. QED
  BY <1>7, <1>8, <1>9 DEF Typed

LEMMA DrawTyped ==
  ASSUME Typed, NEW q \in Request, DrawId(q)
  PROVE  Typed'
<1>1. /\ drawn' = drawn + 1 /\ drawn \in 0 .. Size /\ drawn < Size
      /\ op[q] = "send" /\ target[q] = 0 /\ news[q] = None
      /\ target' = [target EXCEPT ![q] = drawn + 1]
  BY DEF DrawId, Checked, Typed, MessagesTypeOK
<1>2. UNCHANGED <<row, members, muted, tardy, op, actor, words, passed, calls, news, told,
                  outrun, blurred, page, late>>
  BY DEF DrawId, memberVars, newsVars, pageVars
<1>3. drawn' \in 0 .. Size /\ drawn + 1 \in 0 .. Size /\ drawn + 1 # 0 /\ Size \in Nat
  BY <1>1, MessagesAssumption
<1>4. target' \in [Request -> 0 .. Size]
  BY <1>1, <1>3 DEF Typed, MessagesTypeOK
<1>5. MessagesTypeOK'
  BY <1>2, <1>3, <1>4 DEF Typed, MessagesTypeOK
<1>6. Stored' = Stored
  BY <1>2 DEF Stored
<1>7. row[drawn + 1] = None
  <2>1. drawn + 1 \in Id /\ drawn + 1 \notin 1 .. drawn
    BY <1>1, MessagesAssumption DEF Id
  <2>2. QED
    BY <2>1 DEF Typed, Drawn, Stored
<1>8. \A i \in 1 .. drawn : i \in 1 .. drawn'
  BY <1>1
<1>9. target'[q] = drawn + 1 /\ drawn + 1 \in 1 .. drawn'
  BY <1>1 DEF Typed, MessagesTypeOK
<1>10. ASSUME NEW p \in Request PROVE Asks(p)'
  <2>1. CASE p = q
    BY <1>1, <1>2, <1>6, <1>7, <1>9, <2>1 DEF Typed, Asks
  <2>2. CASE p # q
    <3>1. target'[p] = target[p]
      BY <1>1, <2>2 DEF Typed, MessagesTypeOK
    <3>2. QED
      BY <1>2, <1>6, <1>8, <3>1 DEF Typed, Asks
  <2>3. QED
    BY <2>1, <2>2
<1>11. Drawn'
  <2>1. \A m \in Stored' : m \in 1 .. drawn'
    BY <1>6, <1>8 DEF Typed, Drawn
  <2>2. ASSUME NEW p \in Request, NEW r \in Request, p # r, op'[p] = "send", op'[r] = "send",
               target'[p] # 0
        PROVE  target'[p] # target'[r]
    <3>1. \A s \in Request : op[s] = "send" => target[s] = 0 \/ target[s] \in 1 .. drawn
      BY DEF Typed, Asks
    <3>2. \A s \in Request : s # q => target'[s] = target[s]
      BY <1>1 DEF Typed, MessagesTypeOK
    <3>3. \A s \in Request : op[s] = "send" => target[s] # drawn + 1
      BY <1>1, <1>3, <3>1
    <3>4. op[p] = "send" /\ op[r] = "send"
      BY <1>2, <2>2
    <3>5. CASE p = q \/ r = q
      BY <1>9, <2>2, <3>2, <3>3, <3>4, <3>5
    <3>6. CASE p # q /\ r # q
      BY <2>2, <3>2, <3>4, <3>6 DEF Typed, Drawn
    <3>7. QED
      BY <3>5, <3>6
  <2>3. QED
    BY <2>1, <2>2 DEF Drawn
<1>12. Vectors'
  BY <1>2, <1>6 DEF Typed, Vectors
<1>13. QED
  BY <1>5, <1>10, <1>11, <1>12 DEF Typed

\* The one statement of a request, whichever it is.
Writes(q) == Insert(q) \/ UpdateContent(q) \/ SoftDelete(q) \/ Pin(q) \/ Unpin(q)

LEMMA WriteStep ==
  ASSUME Typed, NEW q \in Request, Writes(q)
  PROVE  /\ op[q] \in Operation /\ target[q] \in Id /\ news[q] = None
         /\ \E r \in RowType :
              /\ Write(q, r) /\ r.vector = r.text
              /\ row[target[q]] = None => op[q] = "send" /\ target[q] \in 1 .. drawn
              /\ op[q] = "send" => ~r.deleted
              /\ op[q] = "delete" => r.deleted
              /\ row[target[q]] # None =>
                   /\ op[q] # "send"
                   /\ r.author = row[target[q]].author
                   /\ row[target[q]].deleted => r.deleted
                   /\ r.deleted => row[target[q]].deleted \/ SoftDelete(q)
                   /\ r.text # row[target[q]].text => op[q] = "edit" /\ r.text = words[q]
              /\ op[q] = "send" => r.author = actor[q] /\ r.text = words[q]
         /\ UNCHANGED <<drawn, members, muted, tardy, op, actor, target, words, passed, told,
                        page, calls>>
         /\ blurred' = IF Announcing(target[q]) # {} THEN blurred \cup {target[q]}
                       ELSE blurred \ {target[q]}
         /\ late' \in SUBSET Id /\ outrun' \in SUBSET Request
<1> DEFINE m == target[q]
<1>0. /\ op[q] \in Operation \cup {"none"} /\ news[q] \in SummaryType \cup {None}
      /\ late \in SUBSET Id /\ outrun \in SUBSET Request /\ Asks(q) /\ drawn \in 0 .. Size
  BY DEF Typed, MessagesTypeOK
<1>1. op[q] # "none" /\ news[q] = None
  BY DEF Writes, Insert, UpdateContent, SoftDelete, Pin, Unpin, Checked
<1>2. \A x \in Stored : x \in Id /\ row[x] \in RowType /\ row[x].vector = row[x].text /\ row[x] # None
  BY StoredRow DEF Typed, Vectors, Stored
<1>3. ASSUME NEW r, Write(q, r)
      PROVE  /\ UNCHANGED <<drawn, members, muted, tardy, op, actor, target, words, passed, told,
                             page, calls>>
             /\ blurred' = IF Announcing(m) # {} THEN blurred \cup {m} ELSE blurred \ {m}
  BY <1>3 DEF Write, memberVars, requestVars
<1>4. CASE Insert(q)
  <2>1. /\ op[q] = "send" /\ m # 0
        /\ Write(q, [author |-> actor[q], text |-> words[q], vector |-> words[q],
                     deleted |-> FALSE, pinned |-> FALSE])
        /\ late' = IF Passed(m) THEN late \cup {m} ELSE late
        /\ outrun' = outrun
    BY <1>4 DEF Insert, Checked
  <2>2. m \in 1 .. drawn /\ row[m] = None /\ actor[q] \in Account /\ words[q] \in Text
    BY <1>0, <1>1, <2>1 DEF Asks
  <2>3. m \in Id
    BY <1>0, <2>2, MessagesAssumption DEF Id
  <2>4. [author |-> actor[q], text |-> words[q], vector |-> words[q], deleted |-> FALSE,
         pinned |-> FALSE] \in RowType
    BY <2>2 DEF RowType
  <2>5. \E r \in RowType : /\ Write(q, r) /\ r.vector = r.text /\ ~r.deleted
                           /\ r.author = actor[q] /\ r.text = words[q]
    BY <2>1, <2>4
  <2>6. late' \in SUBSET Id
    BY <1>0, <2>1, <2>3
  <2>7. QED
    BY <1>0, <1>1, <1>3, <2>1, <2>2, <2>3, <2>5, <2>6
<1>5. CASE UpdateContent(q)
  <2>1. /\ op[q] = "edit" /\ late' = late /\ outrun' = outrun
        /\ Write(q, [row[m] EXCEPT !.text = words[q], !.vector = words[q]])
    BY <1>5 DEF UpdateContent, Checked
  <2>2. m \in Stored /\ words[q] \in Text
    BY <1>0, <2>1 DEF Asks
  <2>3. /\ [row[m] EXCEPT !.text = words[q], !.vector = words[q]] \in RowType
        /\ [row[m] EXCEPT !.text = words[q], !.vector = words[q]].deleted = row[m].deleted
        /\ [row[m] EXCEPT !.text = words[q], !.vector = words[q]].author = row[m].author
        /\ [row[m] EXCEPT !.text = words[q], !.vector = words[q]].text = words[q]
        /\ [row[m] EXCEPT !.text = words[q], !.vector = words[q]].vector = words[q]
    BY <1>2, <2>2 DEF RowType
  <2>4. QED
    BY <1>0, <1>1, <1>2, <1>3, <2>1, <2>2, <2>3
<1>6. CASE SoftDelete(q)
  <2>1. /\ op[q] = "delete" /\ late' = late /\ outrun' \in SUBSET Request
        /\ Write(q, [row[m] EXCEPT !.deleted = TRUE])
    BY <1>0, <1>6 DEF SoftDelete, Checked, Announcing
  <2>2. m \in Stored
    BY <1>0, <2>1 DEF Asks
  <2>3. /\ [row[m] EXCEPT !.deleted = TRUE] \in RowType
        /\ [row[m] EXCEPT !.deleted = TRUE].deleted = TRUE
        /\ [row[m] EXCEPT !.deleted = TRUE].author = row[m].author
        /\ [row[m] EXCEPT !.deleted = TRUE].text = row[m].text
        /\ [row[m] EXCEPT !.deleted = TRUE].vector = row[m].vector
    BY <1>2, <2>2 DEF RowType
  <2>4. QED
    BY <1>0, <1>1, <1>2, <1>3, <1>6, <2>1, <2>2, <2>3
<1>7. CASE Pin(q) \/ Unpin(q)
  <2>1. /\ op[q] \in {"pin", "unpin"} /\ late' = late /\ outrun' = outrun
        /\ \E b \in BOOLEAN : Write(q, [row[m] EXCEPT !.pinned = b])
    BY <1>7 DEF Pin, Unpin, Checked
  <2>2. m \in Stored
    BY <1>0, <2>1 DEF Asks
  <2>3. ASSUME NEW b \in BOOLEAN
        PROVE  /\ [row[m] EXCEPT !.pinned = b] \in RowType
               /\ [row[m] EXCEPT !.pinned = b].deleted = row[m].deleted
               /\ [row[m] EXCEPT !.pinned = b].author = row[m].author
               /\ [row[m] EXCEPT !.pinned = b].text = row[m].text
               /\ [row[m] EXCEPT !.pinned = b].vector = row[m].vector
    BY <1>2, <2>2 DEF RowType
  <2>4. PICK b \in BOOLEAN : Write(q, [row[m] EXCEPT !.pinned = b])
    BY <2>1
  <2>5. \E r \in RowType : /\ Write(q, r) /\ r.vector = r.text /\ r.deleted = row[m].deleted
                           /\ r.author = row[m].author /\ r.text = row[m].text
    BY <1>2, <2>2, <2>3, <2>4
  <2>6. QED
    BY <1>0, <1>1, <1>2, <1>3, <2>1, <2>2, <2>5
<1>8. QED
  BY <1>4, <1>5, <1>6, <1>7 DEF Writes

LEMMA WriteTyped ==
  ASSUME Typed, NEW q \in Request, Writes(q)
  PROVE  Typed'
<1> DEFINE m == target[q]
<1>1. /\ op[q] \in Operation /\ m \in Id /\ news[q] = None
      /\ UNCHANGED <<drawn, members, muted, tardy, op, actor, target, words, passed, told,
                     page, calls>>
      /\ blurred' = IF Announcing(m) # {} THEN blurred \cup {m} ELSE blurred \ {m}
      /\ late' \in SUBSET Id /\ outrun' \in SUBSET Request
  BY WriteStep
<1>2. PICK r \in RowType :
        /\ Write(q, r) /\ r.vector = r.text
        /\ row[m] = None => op[q] = "send" /\ m \in 1 .. drawn
        /\ row[m] # None => op[q] # "send"
        /\ op[q] = "delete" => r.deleted
  BY WriteStep
<1>3. row' = [row EXCEPT ![m] = r] /\ news' = [news EXCEPT ![q] = Event(q, r)]
  BY <1>2 DEF Write
<1>4. Event(q, r) \in SummaryType /\ Event(q, r) # None /\ r # None
  BY <1>2, EventTells, SummaryTypes
<1>5. row \in [Id -> RowType \cup {None}] /\ news \in [Request -> SummaryType \cup {None}]
  BY DEF Typed, MessagesTypeOK
<1>6. row' \in [Id -> RowType \cup {None}] /\ news' \in [Request -> SummaryType \cup {None}]
  BY <1>1, <1>3, <1>4, <1>5
<1>7. Stored' = Stored \cup {m}
  BY <1>1, <1>3, <1>4, <1>5 DEF Stored
<1>8. MessagesTypeOK'
  <2>1. blurred' \in SUBSET Id
    BY <1>1 DEF Typed, MessagesTypeOK
  <2>2. QED
    BY <1>1, <1>6, <2>1 DEF Typed, MessagesTypeOK
<1>9. ASSUME NEW p \in Request PROVE Asks(p)'
  <2>1. CASE p = q
    <3>1. news'[p] = Event(q, r) /\ m \in Stored'
      BY <1>3, <1>5, <1>7, <2>1
    <3>2. op[p] = "send" => row[m] = None
      BY <1>2, <2>1
    <3>3. QED
      BY <1>1, <1>4, <1>7, <2>1, <3>1 DEF Typed, Asks, Operation
  <2>2. CASE p # q
    <3>1. news'[p] = news[p]
      BY <1>3, <1>5, <2>2
    <3>2. op[p] = "send" /\ target[p] # 0 /\ news[p] = None => row'[target[p]] = None
      <4> SUFFICES ASSUME op[p] = "send", target[p] # 0, news[p] = None
                   PROVE  row'[target[p]] = None
        OBVIOUS
      <4>1. row[target[p]] = None /\ target[p] \in 1 .. drawn /\ drawn \in 0 .. Size
        BY DEF Typed, Asks, MessagesTypeOK
      <4>2. target[p] \in Id
        BY <4>1, MessagesAssumption DEF Id
      <4>3. target[p] # m
        <5>1. CASE row[m] = None
          BY <1>2, <2>2, <5>1 DEF Typed, Drawn
        <5>2. CASE row[m] # None
          BY <4>1, <5>2
        <5>3. QED
          BY <5>1, <5>2
      <4>4. QED
        BY <1>3, <1>5, <4>1, <4>2, <4>3
    <3>3. QED
      BY <1>1, <1>7, <3>1, <3>2 DEF Typed, Asks
  <2>3. QED
    BY <2>1, <2>2
<1>10. Drawn'
  <2>1. m \in 1 .. drawn
    BY <1>1, <1>2 DEF Typed, Drawn, Stored
  <2>2. QED
    BY <1>1, <1>7, <2>1 DEF Typed, Drawn
<1>11. Vectors'
  BY <1>1, <1>2, <1>3, <1>5, <1>7 DEF Typed, Vectors
<1>12. QED
  BY <1>8, <1>9, <1>10, <1>11 DEF Typed

LEMMA MemberTyped ==
  ASSUME Typed, NEW a \in Account, Leave(a) \/ Join(a) \/ Timeout(a) \/ Unmute(a)
  PROVE  Typed'
<1>1. calls' \in 0 .. MaxCalls
  BY MessagesAssumption DEF Leave, Join, Timeout, Unmute, Count, Typed, MessagesTypeOK
<1>2. members' \in SUBSET Account /\ muted' \in SUBSET members' /\ tardy' \in SUBSET Request
  BY DEF Leave, Join, Timeout, Unmute, Outpaced, Typed, MessagesTypeOK
<1>3. UNCHANGED <<row, drawn, op, actor, target, words, passed, news, told, outrun, blurred,
                  page, late>>
  BY DEF Leave, Join, Timeout, Unmute, tableVars, requestVars, newsVars, pageVars
<1>4. Stored' = Stored
  BY <1>3 DEF Stored
<1>5. MessagesTypeOK'
  BY <1>1, <1>2, <1>3 DEF Typed, MessagesTypeOK
<1>6. (\A q \in Request : Asks(q)') /\ Drawn' /\ Vectors'
  BY <1>3, <1>4 DEF Typed, Asks, Drawn, Vectors
<1>7. QED
  BY <1>5, <1>6 DEF Typed

PageType ==
  [way : {"newer", "older"}, cursor : 0 .. Size + 1, got : SUBSET Id, over : BOOLEAN]

\* What a page is of, and where its reader goes on.
LEMMA PageStep ==
  ASSUME Typed, ReadNewer \/ ReadOlder
  PROVE  /\ page' \in PageType /\ page'.way = page.way
         /\ UNCHANGED <<row, drawn, members, muted, tardy, op, actor, target, words, passed, news,
                        told, outrun, blurred, late, calls>>
         /\ ReadNewer => /\ page.way = "newer" /\ NewerPage # {}
                         /\ page'.got = page.got \cup NewerPage /\ page'.over = page.over
                         /\ page'.cursor \in NewerPage /\ \A n \in NewerPage : n <= page'.cursor
         /\ ReadOlder => /\ page.way = "older" /\ ~page.over
                         /\ page'.got = page.got \cup OlderPage
                         /\ page'.over = (Cardinality(OlderPage) < Limit)
                         /\ OlderPage = {} => page'.cursor = page.cursor
                         /\ OlderPage # {} => /\ page'.cursor \in OlderPage
                                              /\ \A n \in OlderPage : page'.cursor <= n
<1>1. page \in PageType
  BY DEF Typed, MessagesTypeOK, PageType
<1>2. UNCHANGED <<row, drawn, members, muted, tardy, op, actor, target, words, passed, news,
                  told, outrun, blurred, late, calls>>
  BY DEF ReadNewer, ReadOlder, tableVars, memberVars, requestVars, newsVars
<1>3. /\ NewerPage \in SUBSET Id /\ OlderPage \in SUBSET Id
      /\ \A m \in Id : m \in 0 .. Size + 1
  BY MessagesAssumption DEF NewerPage, OlderPage, Lowest, Highest, Kept, Stored, Id
<1>4. CASE ReadNewer
  <2> DEFINE c == CHOOSE m \in NewerPage : \A n \in NewerPage : n <= m
  <2>1. /\ page.way = "newer" /\ NewerPage # {}
        /\ page' = [page EXCEPT !.got = @ \cup NewerPage, !.cursor = c]
    BY <1>4 DEF ReadNewer
  <2>2. c \in NewerPage /\ \A n \in NewerPage : n <= c
    BY <1>3, <2>1, Ends
  <2>3. /\ page'.got = page.got \cup NewerPage /\ page'.cursor = c /\ page'.over = page.over
        /\ page'.way = page.way /\ page' \in PageType
    BY <1>1, <1>3, <2>1, <2>2 DEF PageType
  <2>4. ~ReadOlder
    BY <2>1 DEF ReadOlder
  <2>5. QED
    BY <1>2, <1>4, <2>1, <2>2, <2>3, <2>4
<1>5. CASE ReadOlder
  <2> DEFINE c == IF OlderPage = {} THEN page.cursor
                  ELSE CHOOSE m \in OlderPage : \A n \in OlderPage : m <= n
             b == Cardinality(OlderPage) < Limit
  <2>1. /\ page.way = "older" /\ ~page.over
        /\ page' = [page EXCEPT !.got = @ \cup OlderPage, !.over = b, !.cursor = c]
    BY <1>5 DEF ReadOlder
  <2>2. OlderPage # {} => c \in OlderPage /\ \A n \in OlderPage : c <= n
    BY <1>3, Ends
  <2>3. c \in 0 .. Size + 1
    BY <1>1, <1>3, <2>2 DEF PageType
  <2>4. b \in BOOLEAN
    OBVIOUS
  <2> HIDE DEF b
  <2>5. /\ page'.got = page.got \cup OlderPage /\ page'.cursor = c /\ page'.over = b
        /\ page'.way = page.way /\ page' \in PageType
    BY <1>1, <1>3, <2>1, <2>3, <2>4 DEF PageType
  <2>6. ~ReadNewer
    BY <2>1 DEF ReadNewer
  <2>7. QED
    BY <1>2, <1>5, <2>1, <2>2, <2>5, <2>6 DEF b
<1>6. QED
  BY <1>4, <1>5

LEMMA ReadTyped ==
  ASSUME Typed, ReadNewer \/ ReadOlder
  PROVE  Typed'
<1>1. /\ page' \in PageType
      /\ UNCHANGED <<row, drawn, members, muted, tardy, op, actor, target, words, passed, news,
                     told, outrun, blurred, late, calls>>
  BY PageStep
<1>2. Stored' = Stored
  BY <1>1 DEF Stored
<1>3. MessagesTypeOK'
  BY <1>1 DEF Typed, MessagesTypeOK, PageType
<1>4. (\A q \in Request : Asks(q)') /\ Drawn' /\ Vectors'
  BY <1>1, <1>2 DEF Typed, Asks, Drawn, Vectors
<1>5. QED
  BY <1>3, <1>4 DEF Typed

LEMMA MessagesTyped ==
  ASSUME Typed, MessagesNext
  PROVE  Typed'
BY AskTyped, CheckTyped, StopTyped, DrawTyped, WriteTyped, MemberTyped, ReadTyped
   DEF MessagesNext, Writes

LEMMA StutterTyped ==
  ASSUME Typed, UNCHANGED messageVars
  PROVE  Typed'
<1>1. UNCHANGED <<row, drawn, members, muted, tardy, op, actor, target, words, passed, news,
                  told, outrun, blurred, page, late, calls>>
  BY DEF messageVars, tableVars, memberVars, requestVars, newsVars, pageVars
<1>2. Stored' = Stored
  BY <1>1 DEF Stored
<1>3. QED
  BY <1>1, <1>2 DEF Typed, MessagesTypeOK, Asks, Drawn, Vectors

-----------------------------------------------------------------------------
(* What the steps leave alone.                                               *)

Asking(q) == AskSend(q) \/ AskEdit(q) \/ AskDelete(q) \/ AskPin(q) \/ AskUnpin(q)

LEMMA AskStep ==
  ASSUME Typed, NEW q \in Request, Asking(q)
  PROVE  /\ op[q] = "none"
         /\ \A p \in Request \ {q} : /\ op'[p] = op[p] /\ actor'[p] = actor[p]
                                     /\ target'[p] = target[p] /\ words'[p] = words[p]
         /\ UNCHANGED <<row, drawn, members, muted, tardy, passed, news, told, outrun, blurred,
                        page, late>>
<1>1. PICK o, a, m, w : Begin(q, o, a, m, w)
  BY DEF Asking, AskSend, AskEdit, AskDelete, AskPin, AskUnpin
<1>2. QED
  BY <1>1 DEF Begin, Typed, MessagesTypeOK, tableVars, memberVars, newsVars, pageVars

LEMMA EndStep ==
  ASSUME Typed, NEW q \in Request, Stop(q) \/ Publish(q)
  PROVE  /\ \A p \in Request \ {q} :
              /\ op'[p] = op[p] /\ actor'[p] = actor[p] /\ target'[p] = target[p]
              /\ words'[p] = words[p] /\ passed'[p] = passed[p] /\ news'[p] = news[p]
         /\ op'[q] = "none" /\ passed'[q] = 0 /\ news'[q] = None
         /\ tardy' = tardy \ {q} /\ outrun' = outrun \ {q}
         /\ UNCHANGED <<row, drawn, members, muted, page, late>>
BY DEF Stop, Publish, End, Typed, MessagesTypeOK, tableVars, pageVars

LEMMA CheckStep ==
  ASSUME Typed, NEW q \in Request, Check(q)
  PROVE  /\ passed[q] \in Nat /\ passed'[q] = passed[q] + 1
         /\ \A p \in Request \ {q} : passed'[p] = passed[p]
         /\ UNCHANGED <<row, drawn, members, muted, tardy, op, actor, target, words, news, told,
                        outrun, blurred, page, late>>
<1>1. /\ passed' = [passed EXCEPT ![q] = passed[q] + 1]
      /\ UNCHANGED <<tableVars, memberVars, op, actor, target, words, calls, newsVars, pageVars>>
  BY DEF Check
<1>2. passed \in [Request -> 0 .. 3]
  BY DEF Typed, MessagesTypeOK
<1>3. QED
  BY <1>1, <1>2 DEF tableVars, memberVars, newsVars, pageVars

LEMMA DrawStep ==
  ASSUME Typed, NEW q \in Request, DrawId(q)
  PROVE  /\ op[q] = "send" /\ news[q] = None
         /\ \A p \in Request \ {q} : target'[p] = target[p]
         /\ UNCHANGED <<row, members, muted, tardy, op, actor, words, passed, news, told,
                        outrun, blurred, page, late>>
BY DEF DrawId, Checked, Typed, MessagesTypeOK, memberVars, newsVars, pageVars

Moves(a) == Leave(a) \/ Join(a) \/ Timeout(a) \/ Unmute(a)

LEMMA MemberStep ==
  ASSUME Typed, NEW a \in Account, Moves(a)
  PROVE  /\ \A q \in Request : actor[q] \in members \ muted =>
                                 actor[q] \in members' \ muted' \/ q \in tardy'
         /\ tardy \subseteq tardy'
         /\ UNCHANGED <<row, drawn, op, actor, target, words, passed, news, told, outrun, blurred,
                        page, late>>
BY DEF Moves, Leave, Join, Timeout, Unmute, Outpaced, tableVars, requestVars, newsVars, pageVars

\* A row is written by the one statement of a request and stays; a deleted one
\* stays deleted.
LEMMA RowsStay ==
  ASSUME Typed, MessagesNext
  PROVE  /\ row' = row \/ \E q \in Request : Writes(q)
         /\ \A m \in Stored : m \in Stored' /\ (row[m].deleted => row'[m].deleted)
<1>1. row' = row \/ \E q \in Request : Writes(q)
  BY AskStep, EndStep, CheckStep, DrawStep, MemberStep, PageStep
  DEF MessagesNext, Writes, Asking, Moves
<1>2. CASE row' = row
  BY <1>2, <1>1 DEF Stored
<1>3. CASE \E q \in Request : Writes(q)
  <2>1. PICK q \in Request : Writes(q)
    BY <1>3
  <2>2. /\ target[q] \in Id
        /\ \E r \in RowType : /\ Write(q, r)
                              /\ row[target[q]] # None => (row[target[q]].deleted => r.deleted)
    BY <2>1, WriteStep
  <2>3. PICK r \in RowType : /\ Write(q, r)
                             /\ row[target[q]] # None => (row[target[q]].deleted => r.deleted)
    BY <2>2
  <2>4. row' = [row EXCEPT ![target[q]] = r] /\ r # None /\ row \in [Id -> RowType \cup {None}]
    BY <2>3, SummaryTypes DEF Write, Typed, MessagesTypeOK
  <2>5. QED
    BY <1>1, <2>2, <2>3, <2>4 DEF Stored
<1>4. QED
  BY <1>1, <1>2, <1>3

-----------------------------------------------------------------------------
(* Every view of the table agrees with the chat's.                           *)

LEMMA TypedViews == Typed => ViewsAgree
<1> SUFFICES ASSUME Typed, NEW m \in Stored
             PROVE  /\ \A w \in Text : m \in Found(w) <=> Summary(row[m]).text = w
                    /\ m \in PinnedList <=> Summary(row[m]).pinned /\ Summary(row[m]).text # None
                    /\ m \in Kept <=> Summary(row[m]).text # None
  BY DEF ViewsAgree
<1>1. row[m].vector = row[m].text /\ row[m].text \in Text /\ None \notin Text
  BY StoredRow, MessagesAssumption DEF Typed, Vectors, RowType
<1>2. CASE row[m].deleted
  <2>1. Summary(row[m]).text = None
    BY <1>2 DEF Summary
  <2>2. QED
    BY <1>1, <1>2, <2>1 DEF Found, PinnedList, Kept
<1>3. CASE ~row[m].deleted
  <2>1. Summary(row[m]).text = row[m].text /\ Summary(row[m]).pinned = row[m].pinned
    BY <1>3 DEF Summary
  <2>2. QED
    BY <1>1, <1>3, <2>1 DEF Found, PinnedList, Kept
<1>4. QED
  BY <1>2, <1>3

-----------------------------------------------------------------------------
(* What the members were told.                                               *)

\* What the one statement of a request does to the message and to the news.
LEMMA WriteNews ==
  ASSUME Typed, NEW q \in Request, Writes(q)
  PROVE  /\ target[q] \in Id /\ news[q] = None /\ Tells(news'[q], row'[target[q]])
         /\ news'[q] # None /\ Stored' = Stored \cup {target[q]}
         /\ \A p \in Request \ {q} : news'[p] = news[p]
         /\ \A m \in Id \ {target[q]} : row'[m] = row[m]
         /\ row'[target[q]].deleted =>
              \/ target[q] \in Stored /\ row[target[q]].deleted
              \/ \A p \in Request \ {q} : news[p] # None /\ target[p] = target[q] => p \in outrun'
         /\ outrun \subseteq outrun'
<1> DEFINE m == target[q]
<1>1. m \in Id /\ news[q] = None /\ op[q] \in Operation
  BY WriteStep
<1>2. PICK r \in RowType :
        /\ Write(q, r)
        /\ row[m] = None => op[q] = "send"
        /\ op[q] = "send" => ~r.deleted
        /\ op[q] = "delete" => r.deleted
        /\ row[m] # None => (r.deleted => row[m].deleted \/ SoftDelete(q))
  BY WriteStep
<1>3. row' = [row EXCEPT ![m] = r] /\ news' = [news EXCEPT ![q] = Event(q, r)]
  BY <1>2 DEF Write
<1>4. Event(q, r) # None /\ r # None /\ Tells(Event(q, r), r)
  BY <1>2, EventTells, SummaryTypes
<1>5. row \in [Id -> RowType \cup {None}] /\ news \in [Request -> SummaryType \cup {None}]
  BY DEF Typed, MessagesTypeOK
<1>6. row'[m] = r /\ news'[q] = Event(q, r) /\ Stored' = Stored \cup {m}
  BY <1>1, <1>3, <1>4, <1>5 DEF Stored
<1>7. (\A p \in Request \ {q} : news'[p] = news[p]) /\ \A n \in Id \ {m} : row'[n] = row[n]
  BY <1>3, <1>5
<1>8. SoftDelete(q) =>
        \A p \in Request \ {q} : news[p] # None /\ target[p] = m => p \in outrun'
  BY DEF SoftDelete, Announcing
<1>9. outrun \subseteq outrun'
  BY DEF Writes, Insert, UpdateContent, SoftDelete, Pin, Unpin
<1>10. r.deleted => \/ m \in Stored /\ row[m].deleted
                    \/ SoftDelete(q)
  BY <1>1, <1>2 DEF Stored
<1>11. QED
  BY <1>1, <1>4, <1>6, <1>7, <1>8, <1>9, <1>10

\* Of a message that is not blurred one announcement at most is under way; it
\* tells what is there, and when there is none the last one told it.
Clear(m) ==
  /\ \A p, q \in Announcing(m) : p = q
  /\ \A p \in Announcing(m) : Tells(news[p], row[m])
  /\ Announcing(m) = {} => told[m] # None /\ Tells(told[m], row[m])

\* What is due of a deleted message has no text, unless the deletion overtook it.
Discreet(q) ==
  news[q] # None /\ row[target[q]].deleted => news[q].text = None \/ q \in outrun

ToldInv == (\A m \in Stored \ blurred : Clear(m)) /\ \A q \in Request : Discreet(q)

\* Nothing changes for a message whose row, last word and announcements stay.
LEMMA ClearSame ==
  ASSUME NEW m, Clear(m), row'[m] = row[m], told'[m] = told[m],
         Announcing(m)' = Announcing(m), \A p \in Announcing(m) : news'[p] = news[p]
  PROVE  Clear(m)'
BY DEF Clear, Tells, Summary

LEMMA ToldSame ==
  ASSUME Typed, ToldInv,
         UNCHANGED <<row, news, told, outrun, blurred>>,
         \A q \in Request : news[q] # None => target'[q] = target[q]
  PROVE  ToldInv'
<1>1. Stored' = Stored
  BY DEF Stored
<1>2. \A m : Announcing(m)' = Announcing(m)
  BY DEF Announcing
<1>3. ASSUME NEW m \in Stored \ blurred PROVE Clear(m)'
  BY <1>2, ClearSame DEF ToldInv
<1>4. \A q \in Request : Discreet(q)'
  BY DEF ToldInv, Discreet
<1>5. QED
  BY <1>1, <1>3, <1>4 DEF ToldInv

LEMMA ToldMessages ==
  ASSUME Typed, ToldInv, MessagesNext
  PROVE  ToldInv'
<1>1. ASSUME NEW q \in Request, Asking(q) PROVE ToldInv'
  <2>1. op[q] = "none" => news[q] = None
    BY DEF Typed, Asks
  <2>2. QED
    BY <1>1, <2>1, AskStep, ToldSame
<1>2. ASSUME NEW q \in Request, Check(q) PROVE ToldInv'
  BY <1>2, CheckStep, ToldSame
<1>3. ASSUME NEW q \in Request, DrawId(q) PROVE ToldInv'
  BY <1>3, DrawStep, ToldSame
<1>4. ASSUME NEW a \in Account, Moves(a) PROVE ToldInv'
  BY <1>4, MemberStep, ToldSame
<1>5. ASSUME ReadNewer \/ ReadOlder PROVE ToldInv'
  BY <1>5, PageStep, ToldSame
<1>6. ASSUME NEW q \in Request, Stop(q) \/ Publish(q) PROVE ToldInv'
  <2>1. /\ \A p \in Request \ {q} : target'[p] = target[p] /\ news'[p] = news[p]
        /\ news'[q] = None /\ outrun' = outrun \ {q} /\ row' = row
    BY <1>6, EndStep
  <2>2. Stored' = Stored
    BY <2>1 DEF Stored
  <2>3. \A m : Announcing(m)' = Announcing(m) \ {q}
    BY <2>1 DEF Announcing
  <2>4. ASSUME NEW m \in Stored, m \notin blurred' PROVE Clear(m)'
    <3>1. told \in [Id -> SummaryType \cup {None}] /\ m \in Id
      BY DEF Typed, MessagesTypeOK, Stored
    <3>2. CASE q \in Announcing(m)
      <4>1. Publish(q)
        BY <1>6, <2>4, <3>2 DEF Stop, Announcing
      <4>2. told'[m] = news[q] /\ news[q] # None /\ m \notin blurred
        BY <2>4, <3>1, <3>2, <4>1 DEF Publish, Announcing
      <4>3. Clear(m)
        BY <4>2 DEF ToldInv
      <4>4. Announcing(m)' = {} /\ Tells(news[q], row[m])
        BY <2>3, <3>2, <4>3 DEF Clear
      <4>5. told'[m] # None /\ Tells(told[m], row[m])'
        BY <2>1, <4>2, <4>4 DEF Tells, Summary
      <4>6. QED
        BY <4>4, <4>5 DEF Clear
    <3>3. CASE q \notin Announcing(m)
      <4>1. told'[m] = told[m] /\ m \notin blurred
        BY <1>6, <2>4, <3>1, <3>3 DEF Stop, Publish, Announcing
      <4>2. Announcing(m)' = Announcing(m) /\ \A p \in Announcing(m) : news'[p] = news[p]
        BY <2>1, <2>3, <3>3 DEF Announcing
      <4>3. Clear(m)
        BY <4>1 DEF ToldInv
      <4>4. row'[m] = row[m]
        BY <2>1
      <4>5. QED
        BY <4>1, <4>2, <4>3, <4>4, ClearSame
    <3>4. QED
      BY <3>2, <3>3
  <2>5. ASSUME NEW p \in Request PROVE Discreet(p)'
    <3>1. CASE p = q
      BY <2>1, <3>1 DEF Discreet
    <3>2. CASE p # q
      BY <2>1, <3>2 DEF ToldInv, Discreet
    <3>3. QED
      BY <3>1, <3>2
  <2>6. QED
    BY <2>2, <2>4, <2>5 DEF ToldInv
<1>7. ASSUME NEW q \in Request, Writes(q) PROVE ToldInv'
  <2>1. /\ target[q] \in Id /\ news[q] = None /\ Tells(news'[q], row'[target[q]])
        /\ news'[q] # None /\ Stored' = Stored \cup {target[q]}
        /\ \A p \in Request \ {q} : news'[p] = news[p]
        /\ \A m \in Id \ {target[q]} : row'[m] = row[m]
        /\ row'[target[q]].deleted =>
              \/ target[q] \in Stored /\ row[target[q]].deleted
              \/ \A p \in Request \ {q} : news[p] # None /\ target[p] = target[q] => p \in outrun'
        /\ outrun \subseteq outrun'
    BY <1>7, WriteNews
  <2>2. /\ target' = target /\ told' = told
        /\ blurred' = IF Announcing(target[q]) # {} THEN blurred \cup {target[q]}
                      ELSE blurred \ {target[q]}
    BY <1>7, WriteStep
  <2>3. ASSUME NEW m \in Stored', m \notin blurred' PROVE Clear(m)'
    <3>1. CASE m = target[q]
      <4>1. Announcing(m) = {}
        BY <2>2, <2>3, <3>1
      <4>2. Announcing(m)' = {q}
        BY <2>1, <2>2, <3>1, <4>1 DEF Announcing
      <4>3. Tells(news[q], row[m])'
        BY <2>1, <2>2, <3>1 DEF Tells, Summary
      <4>4. QED
        BY <4>2, <4>3 DEF Clear
    <3>2. CASE m # target[q]
      <4>1. m \in Stored /\ m \notin blurred /\ row'[m] = row[m]
        BY <2>1, <2>2, <2>3, <3>2 DEF Stored
      <4>2. Announcing(m)' = Announcing(m) /\ \A p \in Announcing(m) : news'[p] = news[p]
        BY <2>1, <2>2, <3>2 DEF Announcing
      <4>3. Clear(m)
        BY <4>1 DEF ToldInv
      <4>4. told'[m] = told[m]
        BY <2>2
      <4>5. QED
        BY <4>1, <4>2, <4>3, <4>4, ClearSame
    <3>3. QED
      BY <3>1, <3>2
  <2>4. ASSUME NEW p \in Request PROVE Discreet(p)'
    <3>1. CASE p = q
      BY <2>1, <2>2, <3>1 DEF Discreet, Tells, Summary
    <3>2. CASE p # q
      <4>1. news'[p] = news[p] /\ (news[p] # None => target[p] \in Stored /\ target[p] \in Id)
        BY <2>1, <3>2 DEF Typed, Asks, Stored
      <4>2. CASE target[p] = target[q]
        BY <2>1, <2>2, <3>2, <4>1, <4>2 DEF Discreet, ToldInv
      <4>3. CASE target[p] # target[q]
        BY <2>1, <2>2, <4>1, <4>3 DEF Discreet, ToldInv
      <4>4. QED
        BY <4>2, <4>3
    <3>3. QED
      BY <3>1, <3>2
  <2>5. QED
    BY <2>3, <2>4 DEF ToldInv
<1>8. QED
  BY <1>1, <1>2, <1>3, <1>4, <1>5, <1>6, <1>7 DEF MessagesNext, Writes, Asking, Moves

-----------------------------------------------------------------------------
(* Whose words are stored.                                                   *)

Fit(q) == actor[q] \in members \ muted \/ q \in tardy
Allowed(q) == words[q] \in Ping => actor[q] \in Mentioner

\* What a request may rely on, by the number of checks it has passed.
Gated(q) ==
  /\ op[q] = "send" => (passed[q] >= 1 => Fit(q)) /\ (passed[q] >= 2 => Allowed(q))
  /\ op[q] = "edit" => /\ passed[q] >= 1 => row[target[q]].author = actor[q]
                       /\ passed[q] >= 2 => Fit(q)
                       /\ passed[q] >= 3 => Allowed(q)

LEMMA GatedSame ==
  ASSUME Typed, NEW q \in Request, Gated(q),
         op'[q] = op[q], actor'[q] = actor[q], words'[q] = words[q], passed'[q] = passed[q],
         op[q] = "edit" => target'[q] = target[q] /\ row'[target[q]].author = row[target[q]].author,
         Fit(q) => Fit(q)'
  PROVE  Gated(q)'
BY DEF Gated, Allowed

LEMMA GatedMessages ==
  ASSUME Typed, \A q \in Request : Gated(q), MessagesNext, NEW p \in Request
  PROVE  Gated(p)'
<1>0. /\ Gated(p) /\ passed[p] \in 0 .. 3 /\ (op[p] = "none" => passed[p] = 0)
      /\ op[p] = "edit" => target[p] \in Stored
  BY DEF Typed, MessagesTypeOK, Asks
<1>1. ASSUME NEW q \in Request, Asking(q) PROVE Gated(p)'
  <2>1. CASE p = q
    <3>1. passed'[p] = 0
      BY <1>0, <1>1, <2>1, AskStep
    <3>2. QED
      BY <3>1 DEF Gated
  <2>2. CASE p # q
    BY <1>0, <1>1, <2>2, AskStep, GatedSame DEF Fit
  <2>3. QED
    BY <2>1, <2>2
<1>2. ASSUME NEW q \in Request, Stop(q) \/ Publish(q) PROVE Gated(p)'
  <2>1. CASE p = q
    <3>1. op'[p] = "none"
      BY <1>2, <2>1, EndStep
    <3>2. QED
      BY <3>1 DEF Gated
  <2>2. CASE p # q
    BY <1>0, <1>2, <2>2, EndStep, GatedSame DEF Fit
  <2>3. QED
    BY <2>1, <2>2
<1>3. ASSUME NEW q \in Request, Check(q) PROVE Gated(p)'
  <2>1. CASE p = q
    <3>1. /\ passed'[p] = passed[p] + 1
          /\ UNCHANGED <<row, members, muted, tardy, op, actor, target, words>>
      BY <1>3, <2>1, CheckStep
    <3>2. passed[p] < Len(Checks(p)) /\ Checks(p)[passed[p] + 1] /\ passed[p] \in Nat
      BY <1>0, <1>3, <2>1 DEF Check
    <3>3. /\ op[p] = "send" => /\ passed[p] < 2 /\ (passed[p] = 0 => NotTimedOut(p))
                               /\ (passed[p] = 1 => MayMention(p))
          /\ op[p] = "edit" => /\ passed[p] < 3 /\ (passed[p] = 0 => OwnsMessage(p))
                               /\ (passed[p] = 1 => NotTimedOut(p))
                               /\ (passed[p] = 2 => MayMention(p))
      BY <3>2, Gates
    <3>4. /\ NotTimedOut(p) => Fit(p)
          /\ MayMention(p) => Allowed(p)
          /\ OwnsMessage(p) => row[target[p]].author = actor[p]
      BY DEF NotTimedOut, Fit, MayMention, Allowed, OwnsMessage
    <3>5. Fit(p)' = Fit(p) /\ Allowed(p)' = Allowed(p)
      BY <3>1 DEF Fit, Allowed
    <3>6. CASE op[p] = "send"
      <4>1. /\ passed'[p] >= 1 => Fit(p)
            /\ passed'[p] >= 2 => Allowed(p)
        BY <1>0, <3>1, <3>3, <3>4, <3>6 DEF Gated
      <4>2. QED
        BY <3>1, <3>5, <3>6, <4>1 DEF Gated
    <3>7. CASE op[p] = "edit"
      <4>1. /\ passed'[p] >= 1 => row[target[p]].author = actor[p]
            /\ passed'[p] >= 2 => Fit(p)
            /\ passed'[p] >= 3 => Allowed(p)
        BY <1>0, <3>1, <3>3, <3>4, <3>7 DEF Gated
      <4>2. QED
        BY <3>1, <3>5, <3>7, <4>1 DEF Gated
    <3>8. QED
      BY <3>1, <3>6, <3>7 DEF Gated
  <2>2. CASE p # q
    BY <1>0, <1>3, <2>2, CheckStep, GatedSame DEF Fit
  <2>3. QED
    BY <2>1, <2>2
<1>4. ASSUME NEW q \in Request, DrawId(q) PROVE Gated(p)'
  <2>1. op[p] = "edit" => p # q
    BY <1>4, DrawStep
  <2>2. QED
    BY <1>0, <1>4, <2>1, DrawStep, GatedSame DEF Fit
<1>5. ASSUME NEW a \in Account, Moves(a) PROVE Gated(p)'
  <2>1. Fit(p) => Fit(p)'
    BY <1>5, MemberStep DEF Fit
  <2>2. QED
    BY <1>0, <1>5, <2>1, MemberStep, GatedSame
<1>6. ASSUME ReadNewer \/ ReadOlder PROVE Gated(p)'
  BY <1>0, <1>6, PageStep, GatedSame DEF Fit
<1>7. ASSUME NEW q \in Request, Writes(q) PROVE Gated(p)'
  <2>1. /\ UNCHANGED <<members, muted, tardy, op, actor, target, words, passed>>
        /\ target[q] \in Id
    BY <1>7, WriteStep
  <2>2. PICK r \in RowType :
          /\ Write(q, r)
          /\ row[target[q]] # None => r.author = row[target[q]].author
    BY <1>7, WriteStep
  <2>3. row' = [row EXCEPT ![target[q]] = r] /\ row \in [Id -> RowType \cup {None}]
    BY <2>2 DEF Write, Typed, MessagesTypeOK
  <2>4. op[p] = "edit" => row'[target[p]].author = row[target[p]].author
    BY <1>0, <2>1, <2>2, <2>3 DEF Stored
  <2>5. QED
    BY <1>0, <2>1, <2>4, GatedSame DEF Fit
<1>8. QED
  BY <1>1, <1>2, <1>3, <1>4, <1>5, <1>6, <1>7 DEF MessagesNext, Writes, Asking, Moves

\* Who writes text has passed all the checks.
WordsOf(m) ==
  row'[m] # None /\ (row[m] = None \/ row'[m].text # row[m].text) =>
    /\ row'[m].text \in Ping => row'[m].author \in Mentioner
    /\ \E q \in Request :
         /\ target[q] = m /\ actor[q] = row'[m].author
         /\ actor[q] \in members \ muted \/ q \in tardy

LEMMA WriteWords ==
  ASSUME Typed, \A q \in Request : Gated(q), NEW q \in Request, Writes(q), NEW m \in Id
  PROVE  WordsOf(m)
<1>1. PICK r \in RowType :
        /\ Write(q, r)
        /\ row[target[q]] = None => op[q] = "send"
        /\ row[target[q]] # None =>
             /\ op[q] # "send"
             /\ r.author = row[target[q]].author
             /\ r.text # row[target[q]].text => op[q] = "edit" /\ r.text = words[q]
        /\ op[q] = "send" => r.author = actor[q] /\ r.text = words[q]
  BY WriteStep
<1>2. row' = [row EXCEPT ![target[q]] = r] /\ row \in [Id -> RowType \cup {None}]
  BY <1>1 DEF Write, Typed, MessagesTypeOK
<1>3. passed[q] = Len(Checks(q)) /\ Gated(q)
  BY DEF Writes, Insert, UpdateContent, SoftDelete, Pin, Unpin, Checked
<1>4. op[q] = "send" => passed[q] = 2
  BY <1>3 DEF Checks, SendChecks
<1>5. op[q] = "edit" => passed[q] = 3
  BY <1>3 DEF Checks, EditChecks
<1>6. CASE m # target[q]
  BY <1>2, <1>6 DEF WordsOf
<1>7. CASE m = target[q] /\ op[q] = "send"
  <2>1. Fit(q) /\ Allowed(q)
    BY <1>3, <1>4, <1>7 DEF Gated
  <2>2. row'[m] = r
    BY <1>2, <1>7
  <2>3. QED
    BY <1>1, <1>7, <2>1, <2>2 DEF WordsOf, Fit, Allowed
<1>8. CASE m = target[q] /\ op[q] = "edit"
  <2>1. Fit(q) /\ Allowed(q) /\ row[m].author = actor[q]
    BY <1>3, <1>5, <1>8 DEF Gated
  <2>2. row'[m] = r
    BY <1>2, <1>8
  <2>3. row[m] # None
    BY <1>1, <1>8
  <2>4. QED
    BY <1>1, <1>8, <2>1, <2>2, <2>3 DEF WordsOf, Fit, Allowed
<1>9. CASE m = target[q] /\ op[q] \notin {"send", "edit"}
  BY <1>1, <1>2, <1>9 DEF WordsOf
<1>10. QED
  BY <1>6, <1>7, <1>8, <1>9

-----------------------------------------------------------------------------
(* What the reader gets.                                                     *)

\* The cursor of the public page is a message, so that nothing is stored at it.
Paged == NothingSkipped /\ (page.way = "newer" => page.cursor = 0 \/ page.cursor \in Stored)

LEMMA Fewer ==
  ASSUME NEW S \in SUBSET Id, NEW T \in SUBSET S, Cardinality(S) < Limit
  PROVE  Cardinality(T) < Limit
<1>1. IsFiniteSet(S) /\ Cardinality(S) \in Nat /\ Cardinality(T) \in Nat /\ Limit \in Nat
  BY IdSets, MessagesAssumption
<1>2. Cardinality(T) <= Cardinality(S)
  BY <1>1, FS_Subset
<1>3. QED
  BY <1>1, <1>2

\* A page leaves out nothing between its ends.
LEMMA PageWhole ==
  ASSUME NEW S \in SUBSET Id, NEW m \in S
  PROVE  /\ \A c \in Lowest(S) : m <= c => m \in Lowest(S)
         /\ \A c \in Highest(S) : m >= c => m \in Highest(S)
<1>0. \A n \in S : n \in Int
  BY IdSets
<1>1. ASSUME NEW c \in Lowest(S), m <= c PROVE m \in Lowest(S)
  <2>1. {n \in S : n < c} \in SUBSET Id /\ Cardinality({n \in S : n < c}) < Limit /\ c \in S
    BY DEF Lowest
  <2>2. {n \in S : n < m} \in SUBSET {n \in S : n < c}
    BY <1>0, <1>1, <2>1
  <2>3. QED
    BY <2>1, <2>2, Fewer DEF Lowest
<1>2. ASSUME NEW c \in Highest(S), m >= c PROVE m \in Highest(S)
  <2>1. {n \in S : n > c} \in SUBSET Id /\ Cardinality({n \in S : n > c}) < Limit /\ c \in S
    BY DEF Highest
  <2>2. {n \in S : n > m} \in SUBSET {n \in S : n > c}
    BY <1>0, <1>2, <2>1
  <2>3. QED
    BY <2>1, <2>2, Fewer DEF Highest
<1>3. QED
  BY <1>1, <1>2

\* A page that is not full is the rest.
LEMMA PageLast ==
  ASSUME NEW S \in SUBSET Id, Cardinality(Highest(S)) < Limit
  PROVE  Highest(S) = S
<1> SUFFICES ASSUME S \ Highest(S) # {} PROVE FALSE
  BY DEF Highest
<1>1. S \ Highest(S) \in SUBSET Id /\ Highest(S) \in SUBSET Id
  BY DEF Highest
<1>2. PICK m \in S \ Highest(S) : \A n \in S \ Highest(S) : n <= m
  BY <1>1, Ends
<1>3. {n \in S : n > m} \in SUBSET Highest(S)
  <2>1. m \in Int /\ \A n \in S : n \in Int
    BY <1>2, IdSets
  <2>2. \A n \in S : n > m => n \in Highest(S)
    BY <1>2, <2>1
  <2>3. QED
    BY <2>2
<1>4. Cardinality({n \in S : n > m}) < Limit
  BY <1>1, <1>3, Fewer
<1>5. QED
  BY <1>2, <1>4 DEF Highest

LEMMA PagedSame ==
  ASSUME Paged, UNCHANGED <<row, page, late>>
  PROVE  Paged'
<1>1. Stored' = Stored /\ Kept' = Kept
  BY DEF Stored, Kept
<1>2. QED
  BY <1>1 DEF Paged, NothingSkipped

LEMMA PagedWrite ==
  ASSUME Typed, Paged, NEW q \in Request, Writes(q)
  PROVE  Paged'
<1> DEFINE t == target[q]
<1>1. /\ t \in Id /\ Stored' = Stored \cup {t} /\ page' = page
      /\ \A m \in Id \ {t} : row'[m] = row[m]
  BY WriteNews, WriteStep
<1>2. PICK r \in RowType :
        /\ Write(q, r)
        /\ row[t] = None => op[q] = "send"
        /\ row[t] # None => (row[t].deleted => r.deleted)
  BY WriteStep
<1>3. row'[t] = r
  BY <1>1, <1>2 DEF Write, Typed, MessagesTypeOK
<1>4. late \subseteq late' /\ (op[q] = "send" /\ Passed(t) => t \in late')
  BY DEF Writes, Insert, UpdateContent, SoftDelete, Pin, Unpin, Checked
<1>5. \A m \in Stored : m \in Kept' => m \in Kept
  BY <1>1, <1>2, <1>3 DEF Kept, Stored
<1>6. \A m \in Stored' : m \in Int /\ page.cursor \in Int
  BY MessagesAssumption DEF Stored, Id, Typed, MessagesTypeOK
<1>7. ASSUME NEW m \in Stored'
      PROVE  /\ page.way = "newer" /\ m <= page.cursor /\ m \in Kept' => m \in page.got \cup late'
             /\ page.way = "older" /\ (m >= page.cursor \/ page.over) => m \in page.got \cup late'
  <2>1. CASE m \in Stored
    BY <1>4, <1>5, <2>1 DEF Paged, NothingSkipped
  <2>2. CASE m \notin Stored
    <3>1. m = t /\ op[q] = "send" /\ m # 0
      BY <1>1, <1>2, <2>2, MessagesAssumption DEF Stored, Id
    <3>2. page.way = "newer" /\ m <= page.cursor => m < page.cursor
      <4>1. page.way = "newer" => page.cursor = 0 \/ page.cursor # m
        BY <2>2 DEF Paged
      <4>2. m >= 1
        BY <1>1, <3>1 DEF Id
      <4>3. QED
        BY <1>6, <4>1, <4>2
    <3>3. QED
      BY <1>4, <3>1, <3>2 DEF Passed
  <2>3. QED
    BY <2>1, <2>2
<1>8. QED
  BY <1>1, <1>7 DEF Paged, NothingSkipped

LEMMA PagedRead ==
  ASSUME Typed, Paged, ReadNewer \/ ReadOlder
  PROVE  Paged'
<1>1. /\ page'.way = page.way /\ Stored' = Stored /\ Kept' = Kept /\ late' = late
      /\ page.way = "newer" => /\ NewerPage # {} /\ page'.got = page.got \cup NewerPage
                               /\ page'.cursor \in NewerPage
      /\ page.way = "older" => /\ page'.got = page.got \cup OlderPage /\ ~page.over
                               /\ page'.over = (Cardinality(OlderPage) < Limit)
                               /\ OlderPage = {} => page'.cursor = page.cursor
                               /\ OlderPage # {} => page'.cursor \in OlderPage
  <2>1. page.way = "newer" => ReadNewer
    BY DEF ReadNewer, ReadOlder
  <2>2. page.way = "older" => ReadOlder
    BY DEF ReadNewer, ReadOlder
  <2>3. UNCHANGED <<row, late>> /\ page'.way = page.way
    BY PageStep
  <2>4. Stored' = Stored /\ Kept' = Kept
    BY <2>3 DEF Stored, Kept
  <2>5. QED
    BY <2>1, <2>2, <2>3, <2>4, PageStep
<1>2. page.way \in {"newer", "older"} /\ page.cursor \in Int /\ \A m \in Stored : m \in Int
  BY MessagesAssumption DEF Stored, Id, Typed, MessagesTypeOK
<1>3. CASE page.way = "newer"
  <2> DEFINE S == {m \in Kept : m > page.cursor}
  <2>1. S \in SUBSET Id /\ NewerPage = Lowest(S) /\ NewerPage \in SUBSET Stored
    BY DEF Kept, Stored, NewerPage, Lowest
  <2>2. ASSUME NEW m \in Kept, m <= page'.cursor PROVE m \in page'.got \cup late
    <3>1. CASE m <= page.cursor
      BY <1>1, <1>3, <3>1 DEF Paged, NothingSkipped, Kept
    <3>2. CASE ~(m <= page.cursor)
      <4>1. m \in S
        BY <1>2, <3>2 DEF Kept
      <4>2. m \in Lowest(S)
        BY <1>1, <1>3, <2>1, <2>2, <4>1, PageWhole
      <4>3. QED
        BY <1>1, <1>3, <2>1, <4>2
    <3>3. QED
      BY <3>1, <3>2
  <2>3. page'.cursor \in Stored
    BY <1>1, <1>3, <2>1
  <2>4. QED
    BY <1>1, <1>3, <2>2, <2>3 DEF Paged, NothingSkipped
<1>4. CASE page.way = "older"
  <2> DEFINE S == {m \in Stored : m < page.cursor}
  <2>1. S \in SUBSET Id /\ OlderPage = Highest(S)
    BY DEF Stored, OlderPage
  <2>2. ASSUME NEW m \in Stored, m >= page'.cursor \/ page'.over PROVE m \in page'.got \cup late
    <3>1. CASE m >= page.cursor
      BY <1>1, <1>4, <3>1 DEF Paged, NothingSkipped
    <3>2. CASE ~(m >= page.cursor)
      <4>1. m \in S
        BY <1>2, <3>2
      <4>2. m \in Highest(S)
        <5>1. CASE page'.over
          <6>1. Cardinality(Highest(S)) < Limit
            BY <1>1, <1>4, <2>1, <5>1
          <6>2. QED
            BY <2>1, <4>1, <6>1, PageLast
        <5>2. CASE ~page'.over
          <6>1. page'.cursor \in Highest(S)
            BY <1>1, <1>4, <2>1, <2>2, <3>2, <5>2
          <6>2. QED
            BY <2>1, <2>2, <4>1, <5>2, <6>1, PageWhole
        <5>3. QED
          BY <5>1, <5>2
      <4>3. QED
        BY <1>1, <1>4, <2>1, <4>2
    <3>3. QED
      BY <3>1, <3>2
  <2>3. QED
    BY <1>1, <1>4, <2>2 DEF Paged, NothingSkipped
<1>5. QED
  BY <1>2, <1>3, <1>4

LEMMA PagedMessages ==
  ASSUME Typed, Paged, MessagesNext
  PROVE  Paged'
BY AskStep, EndStep, CheckStep, DrawStep, MemberStep, PagedSame, PagedWrite, PagedRead
   DEF MessagesNext, Writes, Asking, Moves

-----------------------------------------------------------------------------
(* The jobs.                                                                 *)

\* Types, and who is at which job.
Jobbed ==
  /\ status \in [Job -> {"none", "pending", "running", "done", "failed"}]
  /\ archive \in [Job -> [Id -> Text \cup {None}]]
  /\ doing \in [Worker -> {"idle", "read", "upload"}]
  /\ job \in [Worker -> 0 .. Jobs]
  /\ dump \in [Worker -> [Id -> Text \cup {None}]]
  /\ crashes \in 0 .. MaxCrashes
  /\ known \in [Job -> SUBSET Id] /\ gone \in [Job -> SUBSET Id]
  /\ dropped \in SUBSET Job
  /\ \A w \in Worker : doing[w] = "idle" <=> job[w] = 0
  /\ \A w \in Worker : job[w] # 0 => status[job[w]] = "running"
  /\ \A v, w \in Worker : v # w /\ job[v] # 0 => job[v] # job[w]

\* What an archive of job j has to have, and may not have.
Right(a, j) ==
  \A m \in Id : /\ m \in known[j] /\ ~row[m].deleted => a[m] # None
                /\ m \in gone[j] => a[m] = None

\* A dump is right from the moment it is read, and stays so.
Dumped ==
  /\ \A j \in Job : /\ known[j] \subseteq Stored
                    /\ gone[j] \subseteq Stored \ Kept
                    /\ status[j] = "done" => Right(archive[j], j)
  /\ \A w \in Worker : doing[w] = "upload" => Right(dump[w], job[w])

LEMMA WorkerJob ==
  ASSUME Jobbed, NEW w \in Worker, doing[w] # "idle"
  PROVE  job[w] \in Job /\ status[job[w]] = "running"
BY ExportsAssumption DEF Jobbed, Job

LEMMA NothingType == Nothing \in [Id -> Text \cup {None}]
BY DEF Nothing

LEMMA InitJobbed == MessagesInit /\ ExportsInit => Jobbed /\ Dumped
<1> SUFFICES ASSUME MessagesInit, ExportsInit PROVE Jobbed /\ Dumped
  OBVIOUS
<1>1. Jobbed
  BY NothingType, ExportsAssumption DEF ExportsInit, Jobbed, Job
<1>2. Dumped
  BY DEF ExportsInit, Dumped, Right
<1>3. QED
  BY <1>1, <1>2

LEMMA DumpedMessages ==
  ASSUME Typed, Jobbed, Dumped, MessagesNext, UNCHANGED exportVars
  PROVE  Jobbed' /\ Dumped'
<1>1. UNCHANGED <<status, archive, doing, job, dump, crashes, known, gone, dropped>>
  BY DEF exportVars
<1>2. Jobbed'
  BY <1>1 DEF Jobbed
<1>3. \A m \in Stored : m \in Stored' /\ (row[m].deleted => row'[m].deleted)
  BY RowsStay
<1>4. (\A m \in Stored : m \in Stored') /\ \A m \in Stored \ Kept : m \in (Stored \ Kept)'
  BY <1>3 DEF Kept
<1>5. ASSUME NEW a, NEW j \in Job, Right(a, j) PROVE Right(a, j)'
  <2>1. known[j] \subseteq Stored
    BY DEF Dumped
  <2>2. QED
    BY <1>1, <1>3, <1>5, <2>1 DEF Right
<1>6. ASSUME NEW j \in Job
      PROVE  (known[j] \subseteq Stored)' /\ (gone[j] \subseteq Stored \ Kept)'
  BY <1>1, <1>4 DEF Dumped
<1>7. ASSUME NEW j \in Job, status'[j] = "done" PROVE Right(archive[j], j)'
  BY <1>1, <1>5, <1>7 DEF Dumped
<1>8. ASSUME NEW w \in Worker, doing'[w] = "upload" PROVE Right(dump[w], job[w])'
  <2>1. job[w] \in Job
    BY <1>1, <1>8, WorkerJob
  <2>2. QED
    BY <1>1, <1>5, <1>8, <2>1 DEF Dumped
<1>9. QED
  BY <1>2, <1>6, <1>7, <1>8 DEF Dumped

LEMMA JobbedExports ==
  ASSUME Typed, Jobbed, ExportsNext, UNCHANGED messageVars
  PROVE  Jobbed'
<1> USE DEF Jobbed
<1>1. CASE RequestExport
  <2>1. PICK j \in Job :
          /\ status[j] = "none" /\ status' = [status EXCEPT ![j] = "pending"]
          /\ known' = [known EXCEPT ![j] = Stored] /\ gone' = [gone EXCEPT ![j] = Stored \ Kept]
          /\ UNCHANGED <<archive, doing, job, dump, crashes, dropped>>
    BY <1>1 DEF RequestExport
  <2>2. Stored \in SUBSET Id /\ Stored \ Kept \in SUBSET Id
    BY DEF Stored
  <2>3. \A w \in Worker : job[w] # 0 => job[w] \in Job /\ job[w] # j
    BY <2>1, ExportsAssumption DEF Job
  <2>4. known' \in [Job -> SUBSET Id] /\ gone' \in [Job -> SUBSET Id]
    BY <2>1, <2>2
  <2>5. \A w \in Worker : job[w] # 0 => status'[job[w]] = "running"
    BY <2>1, <2>3
  <2>6. QED
    BY <2>1, <2>4, <2>5
<1>2. ASSUME NEW w \in Worker, ClaimNextPending(w) PROVE Jobbed'
  <2>1. PICK j \in Pending :
          /\ status' = [status EXCEPT ![j] = "running"] /\ job' = [job EXCEPT ![w] = j]
          /\ doing[w] = "idle" /\ doing' = [doing EXCEPT ![w] = "read"]
          /\ UNCHANGED <<archive, dump, crashes, known, gone, dropped>>
    BY <1>2 DEF ClaimNextPending
  <2>2. j \in Job /\ status[j] = "pending" /\ j # 0 /\ j \in 0 .. Jobs
    BY ExportsAssumption DEF Pending, Job
  <2>3. \A v \in Worker : job[v] # 0 => job[v] # j
    BY <2>2
  <2>4. status' \in [Job -> {"none", "pending", "running", "done", "failed"}]
    BY <2>1
  <2>5. doing' \in [Worker -> {"idle", "read", "upload"}] /\ job' \in [Worker -> 0 .. Jobs]
    BY <2>1, <2>2
  <2>6. \A v \in Worker : doing'[v] = "idle" <=> job'[v] = 0
    BY <2>1, <2>2
  <2>7. \A v \in Worker : job'[v] # 0 => status'[job'[v]] = "running"
    <3>1. \A v \in Worker : job[v] # 0 => job[v] \in Job
      BY ExportsAssumption DEF Job
    <3>2. QED
      BY <2>1, <2>2, <2>3, <3>1
  <2>8. \A u, v \in Worker : u # v /\ job'[u] # 0 => job'[u] # job'[v]
    BY <2>1, <2>2, <2>3
  <2>9. QED
    BY <2>1, <2>4, <2>5, <2>6, <2>7, <2>8
<1>3. ASSUME NEW w \in Worker, ReadMessages(w) PROVE Jobbed'
  <2>1. /\ dump' = [dump EXCEPT ![w] = Dump] /\ doing[w] = "read"
        /\ doing' = [doing EXCEPT ![w] = "upload"]
        /\ UNCHANGED <<status, archive, job, crashes, known, gone, dropped>>
    BY <1>3 DEF ReadMessages
  <2>2. Dump \in [Id -> Text \cup {None}]
    BY DEF Dump, Kept, Stored, Typed, MessagesTypeOK, RowType
  <2>3. QED
    BY <2>1, <2>2
<1>4. ASSUME NEW w \in Worker, MarkDone(w) \/ MarkFailed(w) \/ Crash(w) PROVE Jobbed'
  <2>1. doing[w] # "idle"
    BY <1>4 DEF MarkDone, MarkFailed, Crash
  <2>2. job[w] \in Job
    BY <2>1, WorkerJob
  <2>3. /\ doing' = [doing EXCEPT ![w] = "idle"] /\ job' = [job EXCEPT ![w] = 0]
        /\ dump' = [dump EXCEPT ![w] = Nothing] /\ UNCHANGED <<known, gone>>
    BY <1>4 DEF MarkDone, MarkFailed, Crash, Rest
  <2>4. /\ status' \in [Job -> {"none", "pending", "running", "done", "failed"}]
        /\ \A j \in Job : j # job[w] => status'[j] = status[j]
    BY <1>4, <2>2 DEF MarkDone, MarkFailed, Crash
  <2>5. archive' \in [Job -> [Id -> Text \cup {None}]]
    <3>1. CASE MarkDone(w)
      BY <3>1 DEF MarkDone
    <3>2. CASE ~MarkDone(w)
      BY <1>4, <3>2 DEF MarkFailed, Crash
    <3>3. QED
      BY <3>1, <3>2
  <2>6. crashes' \in 0 .. MaxCrashes /\ dropped' \in SUBSET Job
    BY <1>4, <2>2, ExportsAssumption DEF MarkDone, MarkFailed, Crash
  <2>7. /\ doing' \in [Worker -> {"idle", "read", "upload"}] /\ job' \in [Worker -> 0 .. Jobs]
        /\ dump' \in [Worker -> [Id -> Text \cup {None}]]
    BY <2>3, NothingType, ExportsAssumption
  <2>8. \A v \in Worker : doing'[v] = "idle" <=> job'[v] = 0
    BY <2>3
  <2>9. \A u, v \in Worker : u # v /\ job'[u] # 0 => job'[u] # job'[v]
    BY <2>3
  <2>10. \A v \in Worker : job'[v] # 0 => status'[job'[v]] = "running"
    <3>1. \A v \in Worker \ {w} : job[v] # 0 => job[v] \in Job /\ job[v] # job[w]
      BY ExportsAssumption DEF Job
    <3>2. QED
      BY <2>3, <2>4, <3>1
  <2>11. QED
    BY <2>3, <2>4, <2>5, <2>6, <2>7, <2>8, <2>9, <2>10
<1>5. QED
  BY <1>1, <1>2, <1>3, <1>4 DEF ExportsNext, Work

LEMMA DumpedExports ==
  ASSUME Typed, Jobbed, Dumped, ExportsNext, UNCHANGED messageVars
  PROVE  Dumped'
<1>0. row' = row /\ Stored' = Stored /\ Kept' = Kept
  BY DEF messageVars, tableVars, Stored, Kept
<1>1. CASE RequestExport
  <2>1. PICK j \in Job :
          /\ status[j] = "none" /\ status' = [status EXCEPT ![j] = "pending"]
          /\ known' = [known EXCEPT ![j] = Stored] /\ gone' = [gone EXCEPT ![j] = Stored \ Kept]
          /\ UNCHANGED <<archive, doing, job, dump, crashes, dropped>>
    BY <1>1 DEF RequestExport
  <2>2. \A i \in Job : i # j => known'[i] = known[i] /\ gone'[i] = gone[i] /\ status'[i] = status[i]
    BY <2>1 DEF Jobbed
  <2>3. known'[j] = Stored /\ gone'[j] = Stored \ Kept /\ status'[j] = "pending"
    BY <2>1 DEF Jobbed
  <2>4. ASSUME NEW i \in Job
        PROVE  /\ (known[i] \subseteq Stored)' /\ (gone[i] \subseteq Stored \ Kept)'
               /\ status'[i] = "done" => Right(archive[i], i)'
    BY <1>0, <2>1, <2>2, <2>3 DEF Dumped, Right
  <2>5. ASSUME NEW w \in Worker, doing'[w] = "upload" PROVE Right(dump[w], job[w])'
    <3>1. job[w] \in Job /\ job[w] # j
      BY <2>1, <2>5, WorkerJob
    <3>2. QED
      BY <1>0, <2>1, <2>2, <2>5, <3>1 DEF Dumped, Right
  <2>6. QED
    BY <2>4, <2>5 DEF Dumped
<1>2. ASSUME NEW w \in Worker, ClaimNextPending(w) PROVE Dumped'
  <2>1. PICK j \in Pending :
          /\ status' = [status EXCEPT ![j] = "running"] /\ job' = [job EXCEPT ![w] = j]
          /\ doing' = [doing EXCEPT ![w] = "read"]
          /\ UNCHANGED <<archive, dump, crashes, known, gone, dropped>>
    BY <1>2 DEF ClaimNextPending
  <2>2. \A i \in Job : status'[i] = "done" => status[i] = "done"
    BY <2>1 DEF Jobbed
  <2>3. \A v \in Worker : doing'[v] = "upload" => doing[v] = "upload" /\ job'[v] = job[v]
    BY <2>1 DEF Jobbed
  <2>4. QED
    BY <1>0, <2>1, <2>2, <2>3 DEF Dumped, Right
<1>3. ASSUME NEW w \in Worker, ReadMessages(w) PROVE Dumped'
  <2>1. /\ dump' = [dump EXCEPT ![w] = Dump] /\ doing[w] = "read"
        /\ doing' = [doing EXCEPT ![w] = "upload"]
        /\ UNCHANGED <<status, archive, job, crashes, known, gone, dropped>>
    BY <1>3 DEF ReadMessages
  <2>2. job[w] \in Job
    BY <2>1, WorkerJob
  <2>3. Right(Dump, job[w])
    <3>1. known[job[w]] \subseteq Stored /\ gone[job[w]] \subseteq Stored \ Kept
      BY <2>2 DEF Dumped
    <3>2. \A m \in Kept : m \in Id /\ row[m].text # None
      BY StoredRow, MessagesAssumption DEF Kept, RowType
    <3>3. \A m \in Id : Dump[m] = IF m \in Kept THEN row[m].text ELSE None
      BY DEF Dump
    <3>4. QED
      BY <3>1, <3>2, <3>3 DEF Right, Kept
  <2>4. \A v \in Worker : dump'[v] = IF v = w THEN Dump ELSE dump[v]
    BY <2>1 DEF Jobbed
  <2>5. \A v \in Worker : v # w => doing'[v] = doing[v]
    BY <2>1 DEF Jobbed
  <2>6. ASSUME NEW v \in Worker, doing'[v] = "upload" PROVE Right(dump[v], job[v])'
    BY <1>0, <2>1, <2>3, <2>4, <2>5, <2>6 DEF Dumped, Right
  <2>7. QED
    BY <1>0, <2>1, <2>6 DEF Dumped, Right
<1>4. ASSUME NEW w \in Worker, MarkDone(w) \/ MarkFailed(w) \/ Crash(w) PROVE Dumped'
  <2>1. doing[w] # "idle"
    BY <1>4 DEF MarkDone, MarkFailed, Crash
  <2>2. job[w] \in Job
    BY <2>1, WorkerJob
  <2>3. /\ doing' = [doing EXCEPT ![w] = "idle"] /\ job' = [job EXCEPT ![w] = 0]
        /\ dump' = [dump EXCEPT ![w] = Nothing] /\ UNCHANGED <<known, gone>>
    BY <1>4 DEF MarkDone, MarkFailed, Crash, Rest
  <2>4. \A v \in Worker : doing'[v] = "upload" =>
          doing[v] = "upload" /\ job'[v] = job[v] /\ dump'[v] = dump[v]
    BY <2>3 DEF Jobbed
  <2>5. ASSUME NEW j \in Job, status'[j] = "done" PROVE Right(archive[j], j)'
    <3>1. CASE MarkDone(w) /\ j = job[w]
      <4>1. archive'[j] = dump[w] /\ Right(dump[w], j)
        BY <3>1 DEF MarkDone, Jobbed, Dumped
      <4>2. QED
        BY <1>0, <2>3, <4>1 DEF Right
    <3>2. CASE ~(MarkDone(w) /\ j = job[w])
      <4>1. status[j] = "done" /\ archive'[j] = archive[j]
        BY <1>4, <2>2, <2>5, <3>2 DEF MarkDone, MarkFailed, Crash, Jobbed
      <4>2. QED
        BY <1>0, <2>3, <4>1 DEF Right, Dumped
    <3>3. QED
      BY <3>1, <3>2
  <2>6. QED
    BY <1>0, <2>3, <2>4, <2>5 DEF Dumped, Right
<1>5. QED
  BY <1>1, <1>2, <1>3, <1>4 DEF ExportsNext, Work

-----------------------------------------------------------------------------
(* The theorems.                                                             *)

IInv ==
  /\ Typed /\ ToldInv /\ (\A q \in Request : Gated(q)) /\ Paged
  /\ Jobbed /\ Dumped

LEMMA InitIInv == Init => IInv
<1> SUFFICES ASSUME MessagesInit, ExportsInit PROVE IInv
  BY DEF Init
<1>1. Typed /\ Jobbed /\ Dumped
  BY InitTyped, InitJobbed
<1>2. row = [m \in Id |-> IF m # 1 THEN None ELSE row[1]] /\ Stored \subseteq {1} /\ 1 \in Id
  BY MessagesAssumption DEF MessagesInit, Stored, Id
<1>3. ToldInv
  <2>1. \A m \in Stored : told[m] = [text |-> row[m].text, pinned |-> FALSE]
    BY <1>2 DEF MessagesInit
  <2>2. \A m \in Stored : ~row[m].deleted /\ ~row[m].pinned
    BY <1>2 DEF MessagesInit
  <2>3. \A m \in Stored : told[m] # None /\ Tells(told[m], row[m])
    <3>1. \A m \in Stored : row[m].text \in Text /\ row[m] \in RowType
      BY <1>1, StoredRow DEF RowType
    <3>2. \A m \in Stored : [text |-> row[m].text, pinned |-> FALSE] \in SummaryType
      BY <3>1 DEF SummaryType
    <3>3. \A m \in Stored : told[m] # None
      BY <2>1, <3>2, MessagesAssumption
    <3>4. \A m \in Stored : Summary(row[m]).text = row[m].text /\ Summary(row[m]).pinned = row[m].pinned
      BY <2>2 DEF Summary
    <3>5. \A m \in Stored : row[m].pinned = FALSE
      BY <2>2, <3>1 DEF RowType
    <3>6. ASSUME NEW m \in Stored PROVE told[m].text = row[m].text /\ told[m].pinned = FALSE
      <4>1. told[m] = [text |-> row[m].text, pinned |-> FALSE]
        BY <2>1
      <4>2. QED
        BY <4>1
    <3>7. QED
      BY <3>3, <3>4, <3>5, <3>6 DEF Tells
  <2>4. \A q \in Request : news[q] = None
    BY DEF MessagesInit
  <2>5. QED
    BY <2>3, <2>4 DEF ToldInv, Clear, Discreet, Announcing
<1>4. \A q \in Request : Gated(q)
  BY DEF MessagesInit, Gated
<1>5. Paged
  <2>1. PICK w \in {"newer", "older"} :
          page = [way |-> w, cursor |-> IF w = "newer" THEN 0 ELSE Size + 1,
                  got |-> {}, over |-> FALSE]
    BY DEF MessagesInit
  <2>2. \A m \in Stored : m \in 1 .. Size
    BY DEF Stored, Id
  <2>3. CASE w = "newer"
    <3>1. page.way = "newer" /\ page.cursor = 0
      BY <2>1, <2>3
    <3>2. \A m \in Stored : ~(m <= 0)
      BY <2>2, MessagesAssumption
    <3>3. QED
      BY <3>1, <3>2 DEF Paged, NothingSkipped
  <2>4. CASE w = "older"
    <3>1. page.way = "older" /\ page.cursor = Size + 1 /\ page.over = FALSE
      BY <2>1, <2>4
    <3>2. \A m \in Stored : ~(m >= Size + 1)
      BY <2>2, MessagesAssumption
    <3>3. QED
      BY <3>1, <3>2 DEF Paged, NothingSkipped
  <2>5. QED
    BY <2>3, <2>4
<1>6. QED
  BY <1>1, <1>3, <1>4, <1>5 DEF IInv

LEMMA StepIInv == IInv /\ [Next]_vars => IInv'
<1> SUFFICES ASSUME IInv, [Next]_vars PROVE IInv'
  OBVIOUS
<1> USE DEF IInv
<1>1. CASE MessagesNext /\ UNCHANGED exportVars
  BY <1>1, MessagesTyped, ToldMessages, GatedMessages, PagedMessages, DumpedMessages
<1>2. ASSUME UNCHANGED messageVars PROVE Typed' /\ ToldInv' /\ (\A q \in Request : Gated(q)') /\ Paged'
  <2>1. UNCHANGED <<row, drawn, members, muted, tardy, op, actor, target, words, passed, news, told,
                    outrun, blurred, page, late, calls>>
    BY <1>2 DEF messageVars, tableVars, memberVars, requestVars, newsVars, pageVars
  <2>2. Typed'
    BY <1>2, StutterTyped
  <2>3. ToldInv' /\ Paged'
    BY <2>1, ToldSame, PagedSame
  <2>4. \A q \in Request : Gated(q)'
    BY <2>1 DEF Gated, Fit, Allowed
  <2>5. QED
    BY <2>2, <2>3, <2>4
<1>3. CASE ExportsNext /\ UNCHANGED messageVars
  BY <1>2, <1>3, JobbedExports, DumpedExports
<1>4. CASE UNCHANGED vars
  <2>1. UNCHANGED messageVars /\ UNCHANGED exportVars
    BY <1>4 DEF vars
  <2>2. row' = row /\ Stored' = Stored /\ Kept' = Kept
    BY <2>1 DEF messageVars, tableVars, Stored, Kept
  <2>3. Jobbed' /\ Dumped'
    BY <2>1, <2>2 DEF exportVars, Jobbed, Dumped, Right
  <2>4. QED
    BY <1>2, <2>1, <2>3
<1>5. QED
  BY <1>1, <1>3, <1>4 DEF Next

LEMMA Invariant == Spec => []IInv
<1>1. QED
  BY InitIInv, StepIInv, PTL DEF Spec

\* Every variable keeps its type, and a worker is idle exactly when it has no
\* job.
THEOREM TypeCorrect == Spec => []TypeOK
<1>1. IInv => TypeOK
  BY DEF IInv, Typed, Jobbed, TypeOK
<1>2. QED
  BY <1>1, Invariant, PTL

\* The search, the list of pins, the public page and the exports show of a
\* message what the chat shows, whatever was written in whichever order.
THEOREM ViewsCorrect == Spec => []ViewsAgree
<1>1. IInv => ViewsAgree
  BY TypedViews DEF IInv
<1>2. QED
  BY <1>1, Invariant, PTL

\* Members hold what the row says, or are about to, or the announcement was
\* lost or overtaken; a deleted text goes out only where the deletion overtook.
THEOREM ToldCorrect == Spec => []ToldIsCurrent
<1>1. IInv => ToldIsCurrent
  BY DEF IInv, ToldInv, Clear, Discreet, ToldIsCurrent
<1>2. QED
  BY <1>1, Invariant, PTL

\* Whoever pages through the channel misses only what is stored behind them.
THEOREM PagesCorrect == Spec => []NothingSkipped
<1>1. IInv => NothingSkipped
  BY DEF IInv, Paged
<1>2. QED
  BY <1>1, Invariant, PTL

\* An archive has what was there when it was asked for and nothing that was
\* deleted by then, and no two workers are at one job.
THEOREM ArchivesCorrect == Spec => []ArchivesHold
<1>1. IInv => ArchivesHold
  BY DEF IInv, Jobbed, Dumped, Right, ArchivesHold
<1>2. QED
  BY <1>1, Invariant, PTL

\* Text is stored by its author, who may write there, and mentions everyone
\* only when the author may.
THEOREM WordsCorrect == Spec => WordsAreAllowed
<1>1. ASSUME IInv, [Next]_vars, NEW m \in Id PROVE WordsOf(m)
  <2>1. row' = row \/ \E q \in Request : Writes(q)
    <3>1. CASE MessagesNext
      BY <1>1, <3>1, RowsStay DEF IInv
    <3>2. CASE UNCHANGED messageVars
      BY <3>2 DEF messageVars, tableVars
    <3>3. QED
      BY <1>1, <3>1, <3>2 DEF Next, vars
  <2>2. CASE row' = row
    BY <2>2 DEF WordsOf
  <2>3. CASE \E q \in Request : Writes(q)
    BY <1>1, <2>3, WriteWords DEF IInv
  <2>4. QED
    BY <2>1, <2>2, <2>3
<1>2. IInv /\ [Next]_vars =>
        [\A m \in Id :
           row'[m] # None /\ (row[m] = None \/ row'[m].text # row[m].text) =>
             /\ row'[m].text \in Ping => row'[m].author \in Mentioner
             /\ \E q \in Request :
                  /\ target[q] = m /\ actor[q] = row'[m].author
                  /\ actor[q] \in members \ muted \/ q \in tardy]_vars
  BY <1>1 DEF WordsOf
<1>3. QED
  BY <1>2, Invariant, PTL DEF Spec, WordsAreAllowed
=============================================================================
