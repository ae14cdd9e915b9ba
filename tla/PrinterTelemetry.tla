-------------------------- MODULE PrinterTelemetry --------------------------
(***************************************************************************)
(* How the backend learns the state of the printer: the probe of           *)
(* app/printer_telemetry/monitor.py and its adapters, the publishers of    *)
(* service.py, and the sending, keeping and flushing of telemetry in       *)
(* app/websocket_client.py.                                                *)
(*                                                                         *)
(* Three coroutines publish: the poll loop; the session, after each        *)
(* connect; and the worker before it completes a job (main, which starts   *)
(* it, publishes the same way).  A probe is a series of commands, each     *)
(* awaited: another probe may begin and end meanwhile.                     *)
(***************************************************************************)
EXTENDS PrinterState

CONSTANTS
  Conditions,     \* what the printer may be like
  MaxPending,     \* telemetry kept while there is no connection (20)
  MaxInFlight,    \* bound: messages on the connection
  MaxDisturbances \* bound: changes of the printer, commands of a probe that fail,
                  \* connections lost, heartbeats and deaths of the process, together

\* A condition is what the commands would tell at that moment.
PrinterConditions ==
  [enabled : BOOLEAN, accepting : BOOLEAN, printing : BOOLEAN,
   state : PrinterStates, reasons : Seq(Reasons), hp : HpOutputs]

ASSUME TelemetryAssumption ==
  /\ Conditions \subseteq PrinterConditions /\ Conditions # {}
  /\ MaxPending \in Nat \ {0} /\ MaxInFlight \in Nat \ {0}
  /\ MaxDisturbances \in Nat

VARIABLES
  condition,  \* the printer
  job,        \* the job the worker prints; its row is PRINTING to the end
  phase,      \* "starting" until main has published
  probing,    \* how far the probe of each publisher is, and what it has read
  last,       \* _last_snapshot
  sequence,   \* _sequence
  conn,       \* the connection: "halfopen" is dead unnoticed, "broken" noticed
  session,    \* where _connect_session is
  todo,       \* the kept telemetry its flush has still to send
  sending,    \* the telemetry each coroutine is suspended in sending
  pending,    \* _pending_telemetry
  channel,    \* messages sent and not yet received
  backend,    \* the telemetry the backend accepted last
  prior,      \* history: its sequence number when the agent last died
  heartbeats, disturbances

outside == <<condition, prior>>
network == <<conn, session, todo>>
sends   == <<sending, pending, channel>>
probes  == <<probing, last, sequence, heartbeats, disturbances>>
vars    == <<outside, network, sends, probes, job, phase, backend>>

-----------------------------------------------------------------------------

Publishers  == {"poll", "session", "worker"}
NoSnapshot  == [connection |-> "UNKNOWN", operational |-> "UNKNOWN", display |-> "none", reasons |-> <<>>]
NoTelemetry == [sequence |-> 0, shows |-> NoSnapshot, heartbeat |-> FALSE]
Telemetry   ==
  [sequence : Nat, shows : Snapshots \cup {NoSnapshot}, heartbeat : BOOLEAN]

\* What the commands of CupsIppAdapter.probe told a probe that is under way.
CupsReads ==
  [scheduler : BOOLEAN, exists : BOOLEAN, enabled : BOOLEAN, accepting : BOOLEAN,
   printing : BOOLEAN, state : PrinterStates, reasons : Seq(Reasons)]
NoProbe ==
  [scheduler |-> FALSE, exists |-> FALSE, enabled |-> TRUE, accepting |-> TRUE,
   printing |-> FALSE, state |-> 0, reasons |-> <<>>]

Init ==
  /\ condition \in Conditions /\ job = "none" /\ phase = "starting"
  /\ probing = [p \in Publishers |-> NoProbe]
  /\ last = NoSnapshot /\ sequence = 0
  /\ conn = "down" /\ session = "idle" /\ todo = <<>>
  /\ sending = [p \in Publishers |-> NoTelemetry]
  /\ pending = <<>> /\ channel = <<>> /\ backend = NoTelemetry /\ prior = 0
  /\ heartbeats = 0 /\ disturbances = 0

Ready(p) == sending[p] = NoTelemetry

\* The flush runs in one go but for the sends that suspend.
LoopFree == session # "flush" \/ ~Ready("session")

-----------------------------------------------------------------------------
(* Sending and keeping.                                                      *)

\* Mutant: what is kept is never cut.
Uncut(q) == q

\* The while loop: the oldest goes; if it was a heartbeat and that is not
\* enough, the next one goes as well.
Cut(q) ==
  IF Len(q) <= MaxPending THEN q
  ELSE IF Head(q).heartbeat /\ Len(q) > MaxPending + 1 THEN Tail(Tail(q))
  ELSE Tail(q)

\* _queue_pending_telemetry: a heartbeat is kept only if nothing else is.
Keep(e) == IF e.heartbeat /\ pending # <<>> THEN pending ELSE Cut(Append(pending, e))

\* ws.send by p: written, and lost if the peer is gone; it may suspend.
Write(p, e) ==
  /\ conn \in {"open", "halfopen"} /\ Len(channel) < MaxInFlight
  /\ channel' = IF conn = "open" THEN Append(channel, e) ELSE channel
  /\ \/ UNCHANGED sending
     \/ sending' = [sending EXCEPT ![p] = e]
  /\ UNCHANGED pending

\* send_telemetry
Send(p, e) ==
  \/ Write(p, e)
  \/ /\ conn \in {"down", "broken"}
     /\ pending' = Keep(e)
     /\ UNCHANGED <<sending, channel>>

\* A suspended send returns, or raises if the connection was lost.
SendEnds(p) ==
  /\ ~Ready(p) /\ conn # "halfopen" /\ LoopFree
  /\ sending' = [sending EXCEPT ![p] = NoTelemetry]
  /\ \/ UNCHANGED <<pending, todo>>
     \/ /\ conn # "open" /\ (p = "session" => session # "flush")
        /\ pending' = Keep(sending[p])
        /\ UNCHANGED todo
     \/ /\ conn # "open" /\ p = "session" /\ session = "flush"
        /\ pending' = Append(pending, sending[p])
        /\ todo' = <<>>
  /\ UNCHANGED <<outside, conn, session, channel, probes, job, phase, backend>>

-----------------------------------------------------------------------------
(* A probe and its publication.                                              *)

\* Who may begin a probe: the poll loop at any time, the session when it has
\* flushed, the worker when its job has printed, and main before it starts the
\* others.
Turn(p) ==
  \/ p = "poll" /\ phase = "running" /\ LoopFree
  \/ p = "session" /\ session = "flush" /\ todo = <<>>
  \/ p = "worker" /\ (phase = "starting" \/ job = "printing") /\ LoopFree

\* What the outside does to the agent is bounded.
Disturb == heartbeats + disturbances < MaxDisturbances /\ disturbances' = disturbances + 1

\* What the commands would tell now.
CupsNow ==
  [scheduler |-> TRUE, exists |-> TRUE, enabled |-> condition.enabled,
   accepting |-> condition.accepting, printing |-> condition.printing,
   state |-> condition.state, reasons |-> condition.reasons]

\* The same if lpstat -r or -p fails (the queue counts as missing), or if both
\* lpstat -l -p and ipptool do.
QueueUnread(c)      == [c EXCEPT !.exists = FALSE, !.enabled = TRUE, !.accepting = TRUE, !.printing = FALSE]
AttributesUnread(c) == [c EXCEPT !.state = 0, !.reasons = <<>>]

\* The commands of CupsIppAdapter.probe.
ReadCups(p) ==
  /\ Turn(p) /\ Ready(p) /\ probing[p] = NoProbe
  /\ \/ probing' = [probing EXCEPT ![p] = CupsNow] /\ UNCHANGED disturbances
     \/ /\ \E c \in {QueueUnread(CupsNow), AttributesUnread(CupsNow)} :
             probing' = [probing EXCEPT ![p] = c]
        /\ Disturb
  /\ session' = IF p = "session" THEN "publish" ELSE session
  /\ UNCHANGED <<outside, conn, todo, sends, last, sequence, heartbeats, job, phase, backend>>

\* What a probe gathered: with lpstat -p alone, printing is state 4; the presence
\* on the USB comes last.
Gathered(c, usb) ==
  [scheduler |-> c.scheduler, exists |-> c.exists, enabled |-> c.enabled,
   accepting |-> c.accepting, printing |-> c.printing,
   state |-> IF c.printing /\ c.state = 0 THEN 4 ELSE c.state,
   reasons |-> c.reasons, usb |-> usb]

\* has_active_print_job, read after the commands of the probe.
JobPrinting == job \in {"printing", "published"}

\* Mutant: a row stays a hint after its end.
HintOfAnyRow(p) == p = "poll" /\ job # "none"

\* collect_snapshot uses it, collect_snapshot_physical does not.
Hint(p) == p = "poll" /\ JobPrinting

\* Mutants: a reconnect publishes changes only; a change is one of the connection.
ForcedByWorker(p)    == p = "worker"
ConnectionChanged(s) == s.connection # last.connection

Forced(p)  == p # "poll"
Changed(s) == s # last

Emit(p, s, heartbeat) ==
  /\ sequence' = sequence + 1
  /\ Send(p, [sequence |-> sequence', shows |-> s, heartbeat |-> heartbeat])

\* The new snapshot s, and its emission if there is a reason for one: a change, a
\* publication that is forced, or a heartbeat that is due.
Publish(p, s) ==
  /\ last' = s
  /\ \/ (Forced(p) \/ Changed(s)) /\ Emit(p, s, FALSE) /\ UNCHANGED heartbeats
     \/ /\ ~Forced(p) /\ ~Changed(s)
        /\ \/ UNCHANGED <<sequence, sends, heartbeats>>
           \/ /\ heartbeats + disturbances < MaxDisturbances
              /\ heartbeats' = heartbeats + 1
              /\ Emit(p, s, TRUE)

\* hp-probe, then normalize_probe and the publication without an await between.
EndProbe(p) ==
  /\ LoopFree /\ probing[p] # NoProbe
  /\ \/ /\ Publish(p, Normalize(Gathered(probing[p], UsbPresence(condition.hp)), Hint(p)))
        /\ UNCHANGED disturbances
     \/ /\ Publish(p, Normalize(Gathered(probing[p], "unknown"), Hint(p)))
        /\ Disturb
  /\ probing' = [probing EXCEPT ![p] = NoProbe]
  /\ session' = IF p = "session" THEN "receive" ELSE session
  /\ phase' = IF p = "worker" THEN "running" ELSE phase
  /\ job' = IF p # "worker" \/ phase = "starting" THEN job
            ELSE IF Ready(p)' THEN "done" ELSE "published"
  /\ UNCHANGED <<outside, conn, todo, backend>>

-----------------------------------------------------------------------------
(* The worker's job and the session.                                         *)

JobBegins ==
  /\ job = "none" /\ phase = "running" /\ LoopFree
  /\ job' = "printing"
  /\ UNCHANGED <<outside, network, sends, probes, phase, backend>>

\* It fails, without a publication.
JobFails ==
  /\ job = "printing" /\ probing["worker"] = NoProbe
  /\ phase = "running" /\ LoopFree
  /\ job' = "done"
  /\ UNCHANGED <<outside, network, sends, probes, phase, backend>>

\* The publication was suspended; COMPLETED is written after it.
MarkCompleted ==
  /\ job = "published" /\ Ready("worker") /\ LoopFree
  /\ job' = "done"
  /\ UNCHANGED <<outside, network, sends, probes, phase, backend>>

\* A send suspended on the old connection has ended by now.
Connect ==
  /\ conn = "down" /\ phase = "running" /\ \A p \in Publishers : Ready(p)
  /\ conn' = "open" /\ session' = "statuses"
  /\ UNCHANGED <<outside, todo, sends, probes, job, phase, backend>>

\* After the statuses: _flush_pending_telemetry takes what was kept.
BeginFlush ==
  /\ session = "statuses"
  /\ session' = "flush"
  /\ todo' = pending /\ pending' = <<>>
  /\ UNCHANGED <<outside, conn, sending, channel, probes, job, phase, backend>>

\* One round; the first send that raises keeps its message and ends the loop.
FlushNext ==
  /\ session = "flush" /\ Ready("session") /\ todo # <<>>
  /\ \/ Write("session", Head(todo)) /\ todo' = Tail(todo)
     \/ /\ conn = "broken"
        /\ pending' = Append(pending, Head(todo)) /\ todo' = <<>>
        /\ UNCHANGED <<sending, channel>>
  /\ UNCHANGED <<outside, conn, session, probes, job, phase, backend>>

\* Mutant: the socket is not dropped.
DisconnectKeepsSocket ==
  /\ session = "receive" /\ Ready("session") /\ conn = "broken"
  /\ session' = "idle"
  /\ UNCHANGED <<outside, conn, todo, sends, probes, job, phase, backend>>

Disconnect ==
  /\ session = "receive" /\ Ready("session") /\ conn = "broken"
  /\ session' = "idle" /\ conn' = "down"
  /\ UNCHANGED <<outside, todo, sends, probes, job, phase, backend>>

-----------------------------------------------------------------------------
(* The printer, the network, the backend and crashes.                        *)

ConditionChanges ==
  /\ Disturb
  /\ condition' \in Conditions \ {condition}
  /\ UNCHANGED <<prior, network, sends, probing, last, sequence, heartbeats, job, phase, backend>>

\* The backend rejects a sequence number that is not above the last.
Deliver ==
  /\ channel # <<>>
  /\ backend' = IF Head(channel).sequence > backend.sequence THEN Head(channel) ELSE backend
  /\ channel' = Tail(channel)
  /\ UNCHANGED <<outside, network, sending, pending, probes, job, phase>>

\* The connection dies and takes along what is in flight.
CutConnection ==
  /\ conn = "open" /\ Disturb
  /\ conn' = "halfopen" /\ channel' = <<>>
  /\ UNCHANGED <<outside, session, todo, sending, pending, probing, last, sequence,
                 heartbeats, job, phase, backend>>

NoticeCut ==
  /\ conn = "halfopen" /\ LoopFree
  /\ conn' = "broken"
  /\ UNCHANGED <<outside, session, todo, sends, probes, job, phase, backend>>

\* The process dies and is started again: the sequence starts anew.
Crash ==
  /\ Disturb
  /\ prior' = backend.sequence
  /\ job' = IF JobPrinting THEN "printing" ELSE job
  /\ phase' = "starting"
  /\ probing' = [p \in Publishers |-> NoProbe] /\ last' = NoSnapshot /\ sequence' = 0
  /\ conn' = "down" /\ session' = "idle" /\ todo' = <<>>
  /\ sending' = [p \in Publishers |-> NoTelemetry] /\ pending' = <<>> /\ channel' = <<>>
  /\ UNCHANGED <<condition, heartbeats, backend>>

ProbeStep(p) == ReadCups(p) \/ EndProbe(p)

SessionStep == BeginFlush \/ FlushNext \/ Disconnect

WorkerStep == JobBegins \/ JobFails \/ MarkCompleted

Next ==
  \/ \E p \in Publishers : ProbeStep(p) \/ SendEnds(p)
  \/ SessionStep \/ Connect \/ WorkerStep
  \/ ConditionChanges \/ Deliver \/ CutConnection \/ NoticeCut \/ Crash

Spec == Init /\ [][Next]_vars

(***************************************************************************)
(* Fairness.  The poll loop goes on for ever: the event loop runs it and   *)
(* every command of a probe ends or is killed.  Of all else that is under  *)
(* way something happens, for the same reasons, and because the client     *)
(* reconnects for ever, the keepalive notices a dead connection, and a     *)
(* live one delivers.                                                      *)
(***************************************************************************)
UnderWay ==
  \/ SessionStep \/ Connect \/ NoticeCut \/ Deliver \/ MarkCompleted
  \/ \E p \in Publishers : SendEnds(p) \/ (p # "poll" /\ ProbeStep(p))

Fairness == WF_vars(ProbeStep("poll")) /\ WF_vars(UnderWay)

FairSpec == Spec /\ Fairness

-----------------------------------------------------------------------------
(* Properties.                                                               *)

\* Every variable has its type; the flush has telemetry to send only while it
\* runs and a connection is held exactly by a session.
TypeOK ==
  /\ condition \in Conditions
  /\ job \in {"none", "printing", "published", "done"}
  /\ phase \in {"starting", "running"}
  /\ probing \in [Publishers -> CupsReads]
  /\ last \in Snapshots \cup {NoSnapshot}
  /\ sequence \in Nat /\ prior \in Nat
  /\ conn \in {"down", "open", "halfopen", "broken"}
  /\ session \in {"idle", "statuses", "flush", "publish", "receive"}
  /\ session = "idle" <=> conn = "down"
  /\ todo \in Seq(Telemetry)
  /\ todo # <<>> => session = "flush"
  /\ sending \in [Publishers -> Telemetry]
  /\ pending \in Seq(Telemetry) /\ channel \in Seq(Telemetry)
  /\ backend \in Telemetry
  /\ heartbeats \in Nat /\ disturbances \in Nat

\* The kept telemetry never grows past its limit by more than the one message a
\* failing flush puts back uncut.
QueueBounded == Len(pending) <= MaxPending + 1

\* The telemetry on its way to the backend, or accepted by it last.
Told == {backend} \cup {channel[i] : i \in DOMAIN channel}

\* On a live connection, once the session has flushed and published, the newest
\* telemetry is the last snapshot and is accepted or on its way: no change is lost
\* to a cut, a broken flush, the limit of the queue or a late send; unless the
\* backend still rejects the numbers of an agent that was restarted.
BackendInSync ==
  conn = "open" /\ session = "receive" /\ sequence > prior =>
    \E e \in Told :
      /\ e.sequence = sequence /\ e.shows = last
      /\ \A f \in Told : f.sequence <= e.sequence

\* No probe says PRINTING of an idle printer but for the hint of a job that is
\* printing at the moment of the publication: not for a job that has ended while
\* the probe was under way, and not to the publishers that leave the hint aside.
NoPhantomPrinting ==
  [][\A p \in Publishers :
       /\ probing[p] # NoProbe /\ probing'[p] = NoProbe
       /\ last'.display = "PRINTING"
       => \/ p = "poll" /\ JobPrinting
          \/ probing[p].printing \/ probing[p].state = 4]_probing

\* What the poll loop would say of the printer as it is.
Truth ==
  Normalize(Gathered(CupsNow, UsbPresence(condition.hp)), JobPrinting)

\* Once the printer, the connection and the commands hold still, the backend comes
\* to know the printer as it is, whatever older probes were published late, unless
\* it rejects the numbers of an agent that was restarted.
Converges == <>[](sequence <= prior \/ backend.shows = Truth)

=============================================================================
