------------------------------- MODULE Exports -------------------------------
(***************************************************************************)
(* The export jobs of a server beside the messages they dump               *)
(* (domain/src/service.rs, db/src/export.rs, server/src/lib.rs).           *)
(*                                                                         *)
(* The code runs one worker task in each process and claims jobs so that   *)
(* several processes may share the queue; Worker is the set of processes.  *)
(***************************************************************************)
EXTENDS Messages

CONSTANTS
  Worker,
  Jobs,       \* bound: the jobs requested
  MaxCrashes  \* bound: restarts, and database errors of a worker

ASSUME ExportsAssumption == Jobs \in Nat /\ MaxCrashes \in Nat

\* Jobs are numbered as they are created; 0 stands for none.
Job == 1 .. Jobs

VARIABLES
  status,     \* status[j]: the job's status, "none" before it is requested
  archive,    \* archive[j]: the texts behind its download_url, by message
  doing,      \* doing[w]: what worker w is about to do
  job,        \* job[w]: its job, or 0
  dump,       \* dump[w]: the texts it has read
  crashes,    \* how many crashes and errors there were
  known,      \* history: the messages there were when the job was requested
  gone,       \* history: those that were deleted then
  dropped     \* history: jobs whose worker went away or could not write the result

exportVars == <<status, archive, doing, job, dump, crashes, known, gone, dropped>>
vars == <<messageVars, exportVars>>

Nothing == [m \in Id |-> None]

ExportsInit ==
  /\ status = [j \in Job |-> "none"]
  /\ archive = [j \in Job |-> Nothing]
  /\ doing = [w \in Worker |-> "idle"]
  /\ job = [w \in Worker |-> 0]
  /\ dump = [w \in Worker |-> Nothing]
  /\ crashes = 0
  /\ known = [j \in Job |-> {}] /\ gone = [j \in Job |-> {}]
  /\ dropped = {}

Init == MessagesInit /\ ExportsInit

-----------------------------------------------------------------------------
RequestExport ==
  \E j \in Job :
    /\ status[j] = "none" /\ \A i \in Job : i < j => status[i] # "none"
    /\ status' = [status EXCEPT ![j] = "pending"]
    /\ known' = [known EXCEPT ![j] = Stored]
    /\ gone' = [gone EXCEPT ![j] = Stored \ Kept]
    /\ UNCHANGED <<archive, doing, job, dump, crashes, dropped>>

\* Slip: the claim takes a job that is not finished.
Unfinished == {j \in Job : status[j] \in {"pending", "running"}}

Pending == {j \in Job : status[j] = "pending"}

\* The oldest job: FOR UPDATE SKIP LOCKED keeps it from the other workers until
\* the transaction has marked it running.
ClaimNextPending(w) ==
  /\ doing[w] = "idle"
  /\ \E j \in Pending :
       /\ \A i \in Pending : j <= i
       /\ status' = [status EXCEPT ![j] = "running"]
       /\ job' = [job EXCEPT ![w] = j]
  /\ doing' = [doing EXCEPT ![w] = "read"]
  /\ UNCHANGED <<archive, dump, crashes, known, gone, dropped>>

\* What is dumped of the messages: those not deleted, each with its text.
Dump == [m \in Id |-> IF m \in Kept THEN row[m].text ELSE None]

\* One statement reads them all.
ReadMessages(w) ==
  /\ doing[w] = "read"
  /\ dump' = [dump EXCEPT ![w] = Dump]
  /\ doing' = [doing EXCEPT ![w] = "upload"]
  /\ UNCHANGED <<status, archive, job, crashes, known, gone, dropped>>

Rest(w) ==
  /\ doing' = [doing EXCEPT ![w] = "idle"]
  /\ job' = [job EXCEPT ![w] = 0]
  /\ dump' = [dump EXCEPT ![w] = Nothing]
  /\ UNCHANGED <<known, gone>>

\* The dump is stored, its address signed, and the row says so.
MarkDone(w) ==
  /\ doing[w] = "upload"
  /\ status' = [status EXCEPT ![job[w]] = "done"]
  /\ archive' = [archive EXCEPT ![job[w]] = dump[w]]
  /\ Rest(w)
  /\ UNCHANGED <<crashes, dropped>>

\* Slip: the error is logged, and the row is left as it is.
FailQuietly(w) ==
  /\ doing[w] # "idle"
  /\ Rest(w)
  /\ UNCHANGED <<status, archive, crashes, dropped>>

\* The database, the storage or the signature refused.
MarkFailed(w) ==
  /\ doing[w] # "idle"
  /\ status' = [status EXCEPT ![job[w]] = "failed"]
  /\ Rest(w)
  /\ UNCHANGED <<archive, crashes, dropped>>

\* The process stops, or the UPDATE of the result fails and the loop goes on
\* with the next tick.
Crash(w) ==
  /\ doing[w] # "idle" /\ crashes < MaxCrashes
  /\ crashes' = crashes + 1
  /\ dropped' = dropped \cup {job[w]}
  /\ Rest(w)
  /\ UNCHANGED <<status, archive>>

\* process_next_export_job, one step of it.
Work(w) == ClaimNextPending(w) \/ ReadMessages(w) \/ MarkDone(w) \/ MarkFailed(w)

ExportsNext == RequestExport \/ \E w \in Worker : Work(w) \/ Crash(w)

Next ==
  \/ MessagesNext /\ UNCHANGED exportVars
  \/ ExportsNext /\ UNCHANGED messageVars

Spec == Init /\ [][Next]_vars

\* The worker polls every ten seconds for the life of the process, and goes on
\* after an error; nothing is assumed of the members.
FairSpec == Spec /\ \A w \in Worker : WF_vars(Work(w) /\ UNCHANGED messageVars)

-----------------------------------------------------------------------------
\* Types; a worker is idle when it has no job.
TypeOK ==
  /\ MessagesTypeOK
  /\ status \in [Job -> {"none", "pending", "running", "done", "failed"}]
  /\ archive \in [Job -> [Id -> Text \cup {None}]]
  /\ doing \in [Worker -> {"idle", "read", "upload"}]
  /\ job \in [Worker -> 0 .. Jobs]
  /\ dump \in [Worker -> [Id -> Text \cup {None}]]
  /\ crashes \in 0 .. MaxCrashes
  /\ known \in [Job -> SUBSET Id] /\ gone \in [Job -> SUBSET Id]
  /\ dropped \in SUBSET Job
  /\ \A w \in Worker : doing[w] = "idle" <=> job[w] = 0

\* Every view of the table agrees with the chat's own: what shows its text
\* there is found by that text and by no other, is in the list of pins exactly
\* when it is pinned there, and is in the public page and the exports.  What is
\* deleted is in none of them, though the chat still hands out its pin.
ViewsAgree ==
  \A m \in Stored :
    /\ \A w \in Text : m \in Found(w) <=> Summary(row[m]).text = w
    /\ m \in PinnedList <=> Summary(row[m]).pinned /\ Summary(row[m]).text # None
    /\ m \in Kept <=> Summary(row[m]).text # None

\* An event tells what row r holds: its text, if it is not deleted, and its pin.
Tells(event, r) ==
  event.text = Summary(r).text /\ (~r.deleted => event.pinned = Summary(r).pinned)

\* Announcements follow their writes without any order.  Of a message that was
\* written last while no other announcement of it was under way, and whose own
\* was not lost, the members hold what its row says, or are about to; and what
\* is to be announced of a deleted message has its text only when the deletion
\* came between the writing and the announcing.
ToldIsCurrent ==
  /\ \A m \in Stored \ blurred :
       Announcing(m) # {} \/ (told[m] # None /\ Tells(told[m], row[m]))
  /\ \A q \in Request :
       news[q] # None /\ row[target[q]].deleted =>
         news[q].text = None \/ q \in outrun

\* Text is stored by the message's author alone, who belongs to the server and
\* is not timed out unless that ended while the request ran; and nobody who may
\* not mention everyone has a message that does, sent so or edited into it.
WordsAreAllowed ==
  [][\A m \in Id :
       row'[m] # None /\ (row[m] = None \/ row'[m].text # row[m].text) =>
         /\ row'[m].text \in Ping => row'[m].author \in Mentioner
         /\ \E q \in Request :
              /\ target[q] = m /\ actor[q] = row'[m].author
              /\ actor[q] \in members \ muted \/ q \in tardy]_vars

\* Whoever pages through the channel, upwards on the public page or downwards
\* in the chat, gets every message between its cursors; the ids are drawn
\* before the rows are stored, and what is stored behind the cursor is missed.
NothingSkipped ==
  \A m \in Stored :
    /\ page.way = "newer" /\ m <= page.cursor /\ m \in Kept => m \in page.got \cup late
    /\ page.way = "older" /\ (m >= page.cursor \/ page.over) => m \in page.got \cup late

\* A job that is done has every message that was there when it was requested
\* and is not deleted to this day, and none that was deleted already; and one
\* worker at most is at a job, unless the job was given up.
ArchivesHold ==
  /\ \A j \in Job : status[j] = "done" =>
       \A m \in Id :
         /\ m \in known[j] /\ ~row[m].deleted => archive[j][m] # None
         /\ m \in gone[j] => archive[j][m] = None
  /\ \A v, w \in Worker : v # w /\ job[v] # 0 => job[v] # job[w]

\* Every job that is requested is done or fails, unless its worker stops or
\* cannot write the result, between the claim and the result.
JobsEnd ==
  \A j \in Job :
    status[j] = "pending" ~> status[j] \in {"done", "failed"} \/ j \in dropped
=============================================================================
