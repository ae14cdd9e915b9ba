-------------------------- MODULE StatusReporting --------------------------
(***************************************************************************)
(* How the backend learns the status of a job: JobManager._emit hands it   *)
(* to WebSocketClient.send_status (app/websocket_client.py), which sends   *)
(* it or keeps it; after a reconnect the rows are reported again and what  *)
(* was kept is flushed.                                                    *)
(*                                                                         *)
(* Two coroutines report: the worker (or the recovery loop) and the        *)
(* session, which owns the connection.  They interleave wherever a send is *)
(* suspended because the socket buffer is full.                            *)
(***************************************************************************)
EXTENDS JobStatus, Naturals, Sequences

CONSTANTS
  Jobs,          \* backend job ids
  NoJob,         \* "no job": idle worker, no cancel command under way
  MaxInFlight,   \* bound: messages on the connection
  MaxChanges,    \* bound: changes of rows but to their end
  MaxCuts,       \* bound: connections lost
  MaxCrashes     \* bound: deaths of the agent process

ASSUME NoJobAssumption == NoJob \notin Jobs
ASSUME ReportingAssumption ==
  /\ MaxInFlight \in Nat \ {0} /\ MaxChanges \in Nat
  /\ MaxCuts \in Nat /\ MaxCrashes \in Nat

VARIABLES
  status,    \* the rows (durable)
  refused,   \* history: what was reported of a row that refused it, since its last change
  held,      \* the job the worker (or the recovery loop) is at
  cancelling, \* the job whose CUPS cancel command handle_cancel awaits
  aged,      \* rows whose updated_at is more than 300 s ago
  conn,      \* the connection: "halfopen" is dead unnoticed, "broken" noticed
  session,   \* where _connect_session is
  todo,      \* the reports its loop has still to send
  sending,   \* the report each coroutine is suspended in sending
  pending,   \* _pending_statuses
  channel,   \* messages sent and not yet received
  heard,     \* the last status the backend received
  crossed,   \* history: jobs whose row changed while a report of it was under way
  changes, cuts, crashes

rows == <<status, refused, held, cancelling>>
vars == <<rows, aged, conn, session, todo, sending, pending, channel, heard,
          crossed, changes, cuts, crashes>>

-----------------------------------------------------------------------------

Coroutines == {"worker", "session"}
Reports    == Jobs \X Statuses
NoReport   == <<>>
Nothing    == [j \in Jobs |-> NoRow]

Init ==
  /\ status = Nothing /\ refused = [j \in Jobs |-> {}]
  /\ held = NoJob /\ cancelling = NoJob /\ aged = [j \in Jobs |-> FALSE]
  /\ conn = "down" /\ session = "idle" /\ todo = {}
  /\ sending = [c \in Coroutines |-> NoReport]
  /\ pending = Nothing /\ channel = <<>> /\ heard = Nothing /\ crossed = {}
  /\ changes = 0 /\ cuts = 0 /\ crashes = 0

Ready(c) == sending[c] = NoReport

\* The session reconciles and flushes in one go but for the sends that suspend; it
\* awaits messages, and the cancel command.
LoopFree == session \in {"idle", "receive", "cancel"} \/ ~Ready("session")

\* Mutant: a status that is kept is not replaced by a later one.
KeepFirst(j, s) == IF pending[j] = NoRow THEN [pending EXCEPT ![j] = s] ELSE pending

Keep(j, s) == [pending EXCEPT ![j] = s]

\* send_status, or one round of the flush: kept while there is no connection or
\* when ws.send raises, otherwise written to the socket, where it is lost if the
\* peer is gone.
SendStatus(c, j, s) ==
  \/ /\ conn \in {"down", "broken"}
     /\ pending' = Keep(j, s)
     /\ UNCHANGED <<channel, sending>>
  \/ /\ conn \in {"open", "halfopen"} /\ Len(channel) < MaxInFlight
     /\ channel' = IF conn = "open" THEN Append(channel, <<j, s>>) ELSE channel
     /\ \/ UNCHANGED sending
        \/ sending' = [sending EXCEPT ![c] = <<j, s>>]
     /\ UNCHANGED pending

\* A suspended send returns: the buffer drained, or the connection was lost and
\* it returns or raises.
SendEnds(c) ==
  /\ ~Ready(c) /\ conn # "halfopen" /\ LoopFree
  /\ sending' = [sending EXCEPT ![c] = NoReport]
  /\ \/ UNCHANGED pending
     \/ conn # "open" /\ pending' = Keep(sending[c][1], sending[c][2])
  /\ UNCHANGED <<rows, aged, conn, session, todo, channel, heard, crossed, changes, cuts, crashes>>

-----------------------------------------------------------------------------
(* Reports of the worker and of handle_cancel.                               *)

\* A report of j has been read from its row but not been sent, or is kept for the
\* flush while later reports go out directly.
UnderWay(j) ==
  \/ \E m \in todo : m[1] = j
  \/ pending[j] # NoRow /\ conn \in {"open", "halfopen"}
  \/ \E c \in Coroutines : ~Ready(c) /\ sending[c][1] = j

\* The row takes the status and it is reported, without an await in between.  (A death
\* between the two is one just after them, which loses the report as well.)
WriteAndReport(c, j, s) ==
  /\ LoopFree /\ Ready(c)
  /\ IF s \in TERMINAL_STATUSES THEN UNCHANGED changes
     ELSE changes < MaxChanges /\ changes' = changes + 1
  /\ status' = [status EXCEPT ![j] = s]
  /\ refused' = IF status[j] = s THEN refused ELSE [refused EXCEPT ![j] = {}]
  /\ SendStatus(c, j, s)
  /\ crossed' = crossed \cup {i \in {j} : UnderWay(j) /\ status[j] # s}
  /\ UNCHANGED <<aged, conn, todo, heard, cuts, crashes>>

\* The row refuses the status; InvalidTransitionError is swallowed and the status
\* reported all the same.
ReportRefused(c, j, s) ==
  /\ LoopFree /\ Ready(c)
  /\ ~TransitionOK(status[j], s)
  /\ refused' = [refused EXCEPT ![j] = @ \cup {s}]
  /\ SendStatus(c, j, s)
  /\ UNCHANGED <<status, aged, conn, todo, heard, crossed, changes, cuts, crashes>>

\* handle_assigned of a new job.
Receive(j) ==
  /\ held = NoJob /\ status[j] = NoRow
  /\ held' = j
  /\ WriteAndReport("worker", j, "RECEIVED")
  /\ UNCHANGED <<session, cancelling>>

\* _resume_job of a row that is not over, on a redelivered assignment or in recovery.
Resume(j) ==
  /\ LoopFree /\ Ready("worker") /\ held = NoJob /\ status[j] \in NonTerminal
  /\ held' = j
  /\ UNCHANGED <<status, refused, cancelling, aged, conn, session, todo, sending, pending,
                 channel, heard, crossed, changes, cuts, crashes>>

\* _transition, _schedule_retry and _fail_job move the row of the job in hand; with its
\* end the worker is done with it.
Advance(s) ==
  /\ held # NoJob /\ status[held] # NoRow
  /\ s \in ALLOWED_TRANSITIONS[status[held]] \ {"CANCELLED"}
  /\ held' = IF s \in TERMINAL_STATUSES THEN NoJob ELSE held
  /\ WriteAndReport("worker", held, s)
  /\ UNCHANGED <<session, cancelling>>

\* Mutant: no return after _fail_job, the worker goes on with the job.
FailAndGoOn ==
  /\ held # NoJob /\ status[held] = "CANCELLED"
  /\ ReportRefused("worker", held, "FAILED")
  /\ UNCHANGED <<held, session, cancelling>>

\* _fail_job of a job that was cancelled: the usual end of a cancelled print, whose poll
\* answers CANCELLED.
FailCancelled ==
  /\ held # NoJob /\ status[held] = "CANCELLED"
  /\ held' = NoJob
  /\ ReportRefused("worker", held, "FAILED")
  /\ UNCHANGED <<session, cancelling>>

\* _schedule_retry of a READY job (the printer is unavailable) or of one that was
\* cancelled during its download; the row read again is not RETRY_WAITING.
RetryRefused ==
  /\ held # NoJob /\ status[held] \in {"READY", "CANCELLED"}
  /\ held' = NoJob
  /\ ReportRefused("worker", held, "RETRY_WAITING")
  /\ UNCHANGED <<session, cancelling>>

\* The worker loop logs an exception, or the worker finds the row cancelled, and it
\* leaves the job without a word.
Drop ==
  /\ LoopFree /\ Ready("worker") /\ held # NoJob
  /\ held' = NoJob
  /\ UNCHANGED <<status, refused, cancelling, aged, conn, session, todo, sending, pending,
                 channel, heard, crossed, changes, cuts, crashes>>

\* Mutant: a redelivered assignment of a job that is over starts it again.
StartOver(j) ==
  /\ held = NoJob /\ status[j] \in TERMINAL_STATUSES
  /\ held' = j
  /\ WriteAndReport("worker", j, "RECEIVED")
  /\ UNCHANGED <<session, cancelling>>

\* A redelivered assignment of a terminal job is answered with its status.
RepeatEnd(j) ==
  /\ held = NoJob /\ status[j] \in TERMINAL_STATUSES
  /\ WriteAndReport("worker", j, status[j])
  /\ UNCHANGED <<held, session, cancelling>>

\* handle_cancel from update_status on.
RecordCancel(j) ==
  \/ TransitionOK(status[j], "CANCELLED") /\ WriteAndReport("session", j, "CANCELLED")
  \/ ReportRefused("session", j, "CANCELLED")

\* handle_cancel of an unfinished job that has no CUPS id: READY at most.
Cancel(j) ==
  /\ session = "receive" /\ status[j] \in NonTerminal \ {"SUBMITTED", "PRINTING"}
  /\ RecordCancel(j)
  /\ UNCHANGED <<held, session, cancelling>>

\* handle_cancel of an unfinished job that has one: READY at least.  The command is
\* awaited, and the receive loop with it.
CancelAtPrinter(j) ==
  /\ session = "receive" /\ Ready("session")
  /\ status[j] \in {"READY", "SUBMITTED", "PRINTING"}
  /\ session' = "cancel" /\ cancelling' = j
  /\ UNCHANGED <<status, refused, held, aged, conn, todo, sending, pending, channel, heard,
                 crossed, changes, cuts, crashes>>

\* The command ended; the row may have moved meanwhile.
CancelReturns ==
  /\ session = "cancel"
  /\ session' = "receive" /\ cancelling' = NoJob
  /\ RecordCancel(cancelling)
  /\ UNCHANGED held

-----------------------------------------------------------------------------
(* The session.                                                              *)

\* Mutant: only unfinished jobs are reported again.
UnfinishedOnly == {j \in Jobs : status[j] \in NonTerminal}

\* reconcile_backend_status: unfinished jobs and those ended in the last 300 s.
Reconciled ==
  {j \in Jobs : status[j] \in NonTerminal \/ (status[j] \in TERMINAL_STATUSES /\ ~aged[j])}

\* The new connection is there at the earliest after the reconnect delay of a
\* second; a send suspended on the old one has ended by then.
Connect ==
  /\ conn = "down" /\ session = "idle" /\ Ready("worker")
  /\ conn' = "open" /\ session' = "reconcile"
  /\ todo' = {<<j, status[j]>> : j \in Reconciled}
  /\ UNCHANGED <<rows, aged, sending, pending, channel, heard, crossed, changes, cuts, crashes>>

\* One round of the loop over the rows read, or over the statuses kept.
SendNext ==
  /\ session \in {"reconcile", "flush"} /\ Ready("session")
  /\ \E m \in todo : todo' = todo \ {m} /\ SendStatus("session", m[1], m[2])
  /\ UNCHANGED <<rows, aged, conn, session, heard, crossed, changes, cuts, crashes>>

\* _flush_pending_statuses takes what was kept and clears it.
BeginFlush ==
  /\ session = "reconcile" /\ todo = {} /\ Ready("session")
  /\ session' = "flush"
  /\ todo' = {<<j, pending[j]>> : j \in {i \in Jobs : pending[i] # NoRow}}
  /\ pending' = Nothing
  /\ UNCHANGED <<rows, aged, conn, sending, channel, heard, crossed, changes, cuts, crashes>>

BeginReceive ==
  /\ session = "flush" /\ todo = {} /\ Ready("session")
  /\ session' = "receive"
  /\ UNCHANGED <<rows, aged, conn, todo, sending, pending, channel, heard, crossed, changes, cuts, crashes>>

\* Mutant: the finally block does not drop the socket.
DisconnectKeepsSocket ==
  /\ session = "receive" /\ conn = "broken" /\ Ready("session")
  /\ session' = "idle"
  /\ UNCHANGED <<rows, aged, conn, todo, sending, pending, channel, heard, crossed, changes, cuts, crashes>>

\* The receive loop ends with the connection; only then is _ws dropped.
Disconnect ==
  /\ session = "receive" /\ conn = "broken" /\ Ready("session")
  /\ session' = "idle" /\ conn' = "down"
  /\ UNCHANGED <<rows, aged, todo, sending, pending, channel, heard, crossed, changes, cuts, crashes>>

-----------------------------------------------------------------------------
(* The network, the backend, time and crashes.                               *)

Deliver ==
  /\ channel # <<>>
  /\ heard' = [heard EXCEPT ![Head(channel)[1]] = Head(channel)[2]]
  /\ channel' = Tail(channel)
  /\ UNCHANGED <<rows, aged, conn, session, todo, sending, pending, crossed, changes, cuts, crashes>>

\* The connection dies and takes along what is in flight.
Cut ==
  /\ conn = "open" /\ cuts < MaxCuts
  /\ cuts' = cuts + 1
  /\ conn' = "halfopen" /\ channel' = <<>>
  /\ UNCHANGED <<rows, aged, session, todo, sending, pending, heard, crossed, changes, crashes>>

\* A reset or the keepalive tells the client.
NoticeCut ==
  /\ conn = "halfopen" /\ LoopFree
  /\ conn' = "broken"
  /\ UNCHANGED <<rows, aged, session, todo, sending, pending, channel, heard, crossed, changes, cuts, crashes>>

GrowOld(j) ==
  /\ status[j] \in TERMINAL_STATUSES /\ ~aged[j]
  /\ aged' = [aged EXCEPT ![j] = TRUE]
  /\ UNCHANGED <<rows, conn, session, todo, sending, pending, channel, heard, crossed, changes, cuts, crashes>>

\* The process dies and is started again.
Crash ==
  /\ crashes < MaxCrashes
  /\ crashes' = crashes + 1
  /\ conn' = "down" /\ session' = "idle" /\ todo' = {}
  /\ sending' = [c \in Coroutines |-> NoReport]
  /\ pending' = Nothing /\ channel' = <<>>
  /\ held' = NoJob /\ cancelling' = NoJob
  /\ UNCHANGED <<status, refused, aged, heard, crossed, changes, cuts>>

WorkerStep ==
  \/ \E j \in Jobs : Receive(j) \/ Resume(j) \/ RepeatEnd(j)
  \/ \E s \in Statuses : Advance(s)
  \/ FailCancelled \/ RetryRefused \/ Drop

SessionStep == SendNext \/ BeginFlush \/ BeginReceive \/ CancelReturns

Environment == Cut \/ Crash \/ \E j \in Jobs : Cancel(j) \/ CancelAtPrinter(j) \/ GrowOld(j)

Next ==
  \/ WorkerStep \/ SessionStep \/ Disconnect \/ Connect \/ NoticeCut \/ Deliver
  \/ \E c \in Coroutines : SendEnds(c)
  \/ Environment

Spec == Init /\ [][Next]_vars

(***************************************************************************)
(* Fairness.  The session and suspended sends are run by the event loop,   *)
(* the cancel command is killed at its timeout, the client reconnects for  *)
(* ever, a dead connection is noticed by the keepalive, and a live one     *)
(* delivers: weak fairness.  A lost connection brings no more messages, so *)
(* the receive loop comes to its end between cancels: strong fairness.     *)
(* Nothing makes the worker report.                                        *)
(***************************************************************************)
Fairness ==
  /\ WF_vars(SessionStep) /\ WF_vars(Connect) /\ WF_vars(NoticeCut) /\ WF_vars(Deliver)
  /\ SF_vars(Disconnect)
  /\ \A c \in Coroutines : WF_vars(SendEnds(c))

FairSpec == Spec /\ Fairness

-----------------------------------------------------------------------------
(* Properties.                                                               *)

\* Every variable has its type; a connection is held exactly by a session, only its
\* two loops have reports still to send, and only a cancel in progress has a job, with
\* a row.
TypeOK ==
  /\ status \in [Jobs -> Statuses \cup {NoRow}]
  /\ refused \in [Jobs -> SUBSET Statuses]
  /\ held \in Jobs \cup {NoJob}
  /\ cancelling \in Jobs \cup {NoJob}
  /\ aged \in [Jobs -> BOOLEAN]
  /\ conn \in {"down", "open", "halfopen", "broken"}
  /\ session \in {"idle", "reconcile", "flush", "receive", "cancel"}
  /\ session = "cancel" <=> cancelling # NoJob
  /\ cancelling # NoJob => status[cancelling] # NoRow
  /\ session = "idle" <=> conn = "down"
  /\ todo \subseteq Reports
  /\ session \in {"idle", "receive", "cancel"} => todo = {}
  /\ sending \in [Coroutines -> Reports \cup {NoReport}]
  /\ pending \in [Jobs -> Statuses \cup {NoRow}]
  /\ channel \in Seq(Reports)
  /\ heard \in [Jobs -> Statuses \cup {NoRow}]
  /\ crossed \subseteq Jobs
  /\ changes \in 0..MaxChanges /\ cuts \in 0..MaxCuts /\ crashes \in 0..MaxCrashes

\* The last status of j the backend will have heard once it has read the channel.
LastSaid(j) ==
  LET about == {i \in DOMAIN channel : channel[i][1] = j}
  IN  IF about = {} THEN heard[j]
      ELSE channel[CHOOSE i \in about : \A k \in about : k <= i][2]

\* s is the status of the row of j, or was reported of it as it is although it refused s.
Tells(j, s) == s = status[j] \/ s \in refused[j]

\* What JobManager may report of a row that refuses it (JobManager's RefusedReports):
\* nothing of a row that is RECEIVED, downloading, retrying, submitted or printing, only
\* CANCELLED of one that completed or failed, and of one cancelled never two things.
RefusalsAreFew ==
  \A j \in Jobs :
    /\ refused[j] # {} => status[j] \in TERMINAL_STATUSES \cup {"READY"}
    /\ status[j] = "READY" => refused[j] \subseteq {"CANCELLED", "RETRY_WAITING"}
    /\ status[j] \in {"COMPLETED", "FAILED"} => refused[j] \subseteq {"CANCELLED"}
    /\ status[j] = "CANCELLED" => refused[j] \in {{}, {"FAILED"}, {"RETRY_WAITING"}}

\* On a live connection, once reconciled and flushed, the last word on every job is the
\* status of its row, or one this row refused: nothing that was lost, kept, or sent late
\* stands, but for a job that ended more than 300 s ago or changed during its report.
BackendInSync ==
  conn = "open" /\ session = "receive" /\ (\A c \in Coroutines : Ready(c)) =>
    \A j \in Jobs \ crossed : aged[j] \/ Tells(j, LastSaid(j))

\* A status that is kept is the row's status or one this row refused, unless the row
\* changed during a report: what the flush sends is no older than what the
\* reconciliation sent.
KeptIsCurrent ==
  \A j \in Jobs \ crossed : pending[j] = NoRow \/ Tells(j, pending[j])

\* Once a job was said to have completed or failed, the backend hears nothing else of
\* it, unless the row changed during a report, but CANCELLED: of a row that is
\* cancelled (and refused the failure of its print), or that refused a late cancel.
EndIsLastWord ==
  [][\A j \in Jobs \ crossed :
       heard[j] \in {"COMPLETED", "FAILED"} =>
         heard'[j] = heard[j] \/ (heard'[j] = "CANCELLED" /\ Tells(j, "CANCELLED"))]_heard

\* The end of every job, or what its row refused after it, reaches the backend across
\* cuts and crashes, unless an outage of more than 300 s comes between or the row
\* changed during a report.
EndIsTold ==
  \A j \in Jobs :
    status[j] \in TERMINAL_STATUSES ~>
      Tells(j, heard[j]) \/ aged[j] \/ j \in crossed

=============================================================================
