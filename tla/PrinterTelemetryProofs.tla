----------------------- MODULE PrinterTelemetryProofs -----------------------
(***************************************************************************)
(* Theorems about PrinterTelemetry, for every set of conditions and every  *)
(* bound: the types, the limit of the kept telemetry, and that the backend *)
(* is in sync once a session has flushed.                                  *)
(***************************************************************************)
EXTENDS PrinterTelemetry, PrinterStateProofs

-----------------------------------------------------------------------------
(* Keeping, in any set S of telemetry.                                       *)

\* A sequence of a positive length has a tail.
LEMMA TailOf ==
  ASSUME NEW S, NEW s \in Seq(S), Len(s) > 0
  PROVE  /\ s # <<>> /\ Tail(s) \in Seq(S) /\ Len(Tail(s)) = Len(s) - 1
         /\ Head(s) \in S
<1>1. s # <<>>
  <2> SUFFICES ASSUME s = <<>> PROVE FALSE
    OBVIOUS
  <2>1. Len(s) = 0
    OBVIOUS
  <2> QED
    BY <2>1
<1> QED
  BY <1>1

\* What is kept stays in S.
LEMMA KeepType ==
  ASSUME TelemetryAssumption, NEW S, NEW q \in Seq(S), NEW e \in S, pending = q
  PROVE  Keep(e) \in Seq(S)
<1>1. Append(q, e) \in Seq(S) /\ Len(Append(q, e)) = Len(q) + 1
  OBVIOUS
<1>2. ASSUME NEW r \in Seq(S), Len(r) > MaxPending
      PROVE  /\ Tail(r) \in Seq(S)
             /\ Len(r) > MaxPending + 1 => Tail(Tail(r)) \in Seq(S)
  <2>1. MaxPending \in Nat /\ Len(r) \in Nat
    BY DEF TelemetryAssumption
  <2>2. Tail(r) \in Seq(S) /\ Len(Tail(r)) = Len(r) - 1
    BY <2>1, <1>2, TailOf
  <2>3. Len(r) > MaxPending + 1 => Len(Tail(r)) > 0
    BY <2>1, <2>2
  <2> QED
    BY <2>2, <2>3, TailOf
<1>3. Cut(Append(q, e)) \in Seq(S)
  <2>1. CASE Len(Append(q, e)) <= MaxPending
    BY <1>1, <2>1 DEF Cut
  <2>2. CASE Len(Append(q, e)) > MaxPending
    BY <1>1, <1>2, <2>2 DEF Cut, TelemetryAssumption
  <2> QED
    BY <1>1, <2>1, <2>2 DEF TelemetryAssumption
<1> QED
  BY <1>3 DEF Keep

\* Keeping respects the limit, and one more than it.
LEMMA KeepBound ==
  ASSUME TelemetryAssumption, pending \in Seq(Telemetry), NEW e \in Telemetry,
         NEW n \in {MaxPending, MaxPending + 1}, Len(pending) <= n
  PROVE  Len(Keep(e)) <= n
<1> DEFINE r == Append(pending, e)
<1>1. r \in Seq(Telemetry) /\ Len(r) = Len(pending) + 1 /\ Len(pending) \in Nat /\ n \in Nat /\ MaxPending \in Nat \ {0}
  BY DEF TelemetryAssumption
<1>2. Len(Cut(r)) <= n
  <2> HIDE DEF r
  <2>1. CASE Len(r) <= MaxPending
    BY <1>1, <2>1 DEF Cut
  <2>2. CASE Len(r) > MaxPending
    <3>1. Tail(r) \in Seq(Telemetry) /\ Len(Tail(r)) = Len(r) - 1
      BY <1>1, <2>2
    <3>2. Len(r) > MaxPending + 1 => Len(Tail(Tail(r))) = Len(r) - 2
      BY <1>1, <3>1
    <3> QED
      BY <1>1, <2>2, <3>1, <3>2 DEF Cut
  <2> QED
    BY <1>1, <2>1, <2>2
<1> QED
  BY <1>1, <1>2 DEF Keep

-----------------------------------------------------------------------------
(* Probes.                                                                   *)

\* The rest of a condition's types.
LEMMA ConditionType ==
  ASSUME TelemetryAssumption, condition \in Conditions
  PROVE  CupsNow \in CupsReads /\ UsbPresence(condition.hp) \in UsbPresences
<1>1. condition \in PrinterConditions
  BY DEF TelemetryAssumption
<1>2. CupsNow \in CupsReads
  BY <1>1 DEF PrinterConditions, CupsNow, CupsReads
<1> QED
  BY <1>2 DEF UsbPresence, UsbPresences

\* What is read when commands fail is a reading.
LEMMA UnreadType ==
  ASSUME NEW c \in CupsReads
  PROVE  QueueUnread(c) \in CupsReads /\ AttributesUnread(c) \in CupsReads
<1>1. QueueUnread(c) \in CupsReads
  BY DEF QueueUnread, CupsReads
<1>2. AttributesUnread(c) \in CupsReads
  <2>1. 0 \in PrinterStates /\ <<>> \in Seq(Reasons)
    BY DEF PrinterStates
  <2> QED
    BY <2>1 DEF AttributesUnread, CupsReads
<1> QED
  BY <1>1, <1>2

\* The null values have their types.
LEMMA NullTypes ==
  NoProbe \in CupsReads /\ NoTelemetry \in Telemetry
BY DEF NoProbe, CupsReads, PrinterStates, NoTelemetry, Telemetry

\* A probe gathers signals.
LEMMA GatheredType ==
  ASSUME NEW c \in CupsReads, NEW usb \in UsbPresences
  PROVE  Gathered(c, usb) \in Signals
BY DEF Gathered, Signals, CupsReads, PrinterStates

\* A publication takes a snapshot.
LEMMA PublishedType ==
  ASSUME TypeOK, NEW p \in Publishers, NEW usb \in UsbPresences
  PROVE  Normalize(Gathered(probing[p], usb), Hint(p)) \in Snapshots
<1>1. probing[p] \in CupsReads
  BY DEF TypeOK
<1>2. Hint(p) \in BOOLEAN
  BY DEF Hint, JobPrinting
<1> QED
  BY <1>1, <1>2, GatheredType, NormalizeType

\* EndProbe publishes some snapshot.
LEMMA EndProbePublishes ==
  ASSUME TelemetryAssumption, TypeOK, NEW p \in Publishers, EndProbe(p)
  PROVE  \E s \in Snapshots : Publish(p, s)
<1>1. UsbPresence(condition.hp) \in UsbPresences /\ "unknown" \in UsbPresences
  BY ConditionType DEF TypeOK, UsbPresences
<1> QED
  BY <1>1, PublishedType DEF EndProbe

-----------------------------------------------------------------------------
(* Sending, in any set S of telemetry.                                       *)

\* What is on the way after a send was in S before, or is what is sent.
LEMMA SendType ==
  ASSUME TelemetryAssumption, NEW S, pending \in Seq(S), channel \in Seq(S),
         sending \in [Publishers -> S], NEW p \in Publishers, NEW e \in S, Send(p, e)
  PROVE  /\ pending' \in Seq(S) /\ channel' \in Seq(S)
         /\ sending' \in [Publishers -> S]
<1>1. CASE Write(p, e)
  BY <1>1 DEF Write
<1>2. CASE pending' = Keep(e) /\ UNCHANGED <<sending, channel>>
  BY <1>2, KeepType
<1> QED
  BY <1>1, <1>2 DEF Send

\* The same of a publication of s, whose telemetry is in S.
LEMMA PublishType ==
  ASSUME TelemetryAssumption, NEW S, pending \in Seq(S), channel \in Seq(S),
         sending \in [Publishers -> S], NEW p \in Publishers, NEW s \in Snapshots,
         \A h \in BOOLEAN :
           [sequence |-> sequence + 1, shows |-> s, heartbeat |-> h] \in S,
         Publish(p, s)
  PROVE  /\ pending' \in Seq(S) /\ channel' \in Seq(S)
         /\ sending' \in [Publishers -> S]
<1>1. ASSUME NEW h \in BOOLEAN, Emit(p, s, h)
      PROVE  /\ pending' \in Seq(S) /\ channel' \in Seq(S)
             /\ sending' \in [Publishers -> S]
  <2> DEFINE e == [sequence |-> sequence + 1, shows |-> s, heartbeat |-> h]
  <2>1. e \in S /\ Send(p, e)
    BY <1>1 DEF Emit
  <2> HIDE DEF e
  <2> QED
    BY <2>1, SendType
<1>2. CASE UNCHANGED sends
  BY <1>2 DEF sends
<1> QED
  BY <1>1, <1>2 DEF Publish

\* Counting goes up by at most one; only a heartbeat counts as one.
LEMMA PublishCounts ==
  ASSUME NEW p \in Publishers, NEW s \in Snapshots, Publish(p, s)
  PROVE  /\ last' = s
         /\ sequence' \in {sequence, sequence + 1}
         /\ heartbeats' \in {heartbeats, heartbeats + 1}
BY DEF Publish, Emit, sends

\* A suspended send that ends leaves all telemetry in S.
LEMMA SendEndsType ==
  ASSUME TelemetryAssumption, NEW S, pending \in Seq(S), todo \in Seq(S),
         sending \in [Publishers -> S], NoTelemetry \in S,
         NEW p \in Publishers, SendEnds(p)
  PROVE  /\ pending' \in Seq(S) /\ todo' \in Seq(S)
         /\ sending' \in [Publishers -> S]
<1>1. sending' \in [Publishers -> S]
  BY DEF SendEnds
<1>2. sending[p] \in S
  OBVIOUS
<1>3. CASE UNCHANGED <<pending, todo>>
  BY <1>1, <1>3
<1>4. CASE pending' = Keep(sending[p]) /\ UNCHANGED todo
  BY <1>1, <1>2, <1>4, KeepType
<1>5. CASE pending' = Append(pending, sending[p]) /\ todo' = <<>>
  BY <1>1, <1>2, <1>5
<1> QED
  BY <1>3, <1>4, <1>5 DEF SendEnds

\* So does a round of the flush.
LEMMA FlushNextType ==
  ASSUME NEW S, pending \in Seq(S), todo \in Seq(S), channel \in Seq(S),
         sending \in [Publishers -> S], FlushNext
  PROVE  /\ pending' \in Seq(S) /\ todo' \in Seq(S) /\ channel' \in Seq(S)
         /\ sending' \in [Publishers -> S]
<1>1. todo # <<>> /\ Head(todo) \in S /\ Tail(todo) \in Seq(S)
  BY DEF FlushNext
<1>2. CASE Write("session", Head(todo)) /\ todo' = Tail(todo)
  BY <1>1, <1>2 DEF Write, Publishers
<1>3. CASE /\ pending' = Append(pending, Head(todo)) /\ todo' = <<>>
           /\ UNCHANGED <<sending, channel>>
  BY <1>1, <1>3
<1> QED
  BY <1>2, <1>3 DEF FlushNext

-----------------------------------------------------------------------------
(* Types.                                                                    *)

\* A probe of the session is under way only when the session is publishing.
ProbeOK == probing["session"] # NoProbe => session = "publish"

\* The invariant that carries the types.
Typed == TypeOK /\ ProbeOK

\* It holds at the start.
LEMMA TypedInit ==
  ASSUME TelemetryAssumption, Init
  PROVE  Typed
<1>1. NoTelemetry \in Telemetry /\ NoProbe \in CupsReads
  BY NullTypes
<1> QED
  BY <1>1 DEF Init, Typed, TypeOK, ProbeOK, Publishers

\* The steps of the probes.
LEMMA ReadCupsTyped ==
  ASSUME TelemetryAssumption, Typed, NEW p \in Publishers, ReadCups(p)
  PROVE  Typed'
<1> USE DEF Typed
<1>1. probing' \in [Publishers -> CupsReads]
  <2>1. CupsNow \in CupsReads
    BY ConditionType DEF TypeOK
  <2>2. QueueUnread(CupsNow) \in CupsReads /\ AttributesUnread(CupsNow) \in CupsReads
    BY <2>1, UnreadType
  <2>3. \E c \in CupsReads : probing' = [probing EXCEPT ![p] = c]
    BY <2>1, <2>2 DEF ReadCups
  <2> QED
    BY <2>3 DEF TypeOK
<1>2. disturbances' \in Nat
  BY DEF ReadCups, Disturb, TypeOK
<1>3. /\ session' \in {"idle", "statuses", "flush", "publish", "receive"}
      /\ session' = "idle" <=> session = "idle"
      /\ todo # <<>> => session' = "flush"
      /\ p # "session" => session' = session /\ probing'["session"] = probing["session"]
      /\ p = "session" => session' = "publish"
  BY DEF ReadCups, Turn, TypeOK, Publishers
<1>4. UNCHANGED <<condition, prior, conn, todo, sending, pending, channel, last, sequence,
                  heartbeats, job, phase, backend>>
  BY DEF ReadCups, outside, sends
<1>5. ProbeOK'
  BY <1>3 DEF ProbeOK
<1> QED
  BY <1>1, <1>2, <1>3, <1>4, <1>5 DEF TypeOK

\* The end of a probe.
LEMMA EndProbeTyped ==
  ASSUME TelemetryAssumption, Typed, NEW p \in Publishers, EndProbe(p)
  PROVE  Typed'
<1> USE DEF Typed
<1>1. PICK s \in Snapshots : Publish(p, s)
  BY EndProbePublishes
<1>2. \A h \in BOOLEAN :
        [sequence |-> sequence + 1, shows |-> s, heartbeat |-> h] \in Telemetry
  BY DEF Telemetry, TypeOK
<1>3. /\ pending' \in Seq(Telemetry) /\ channel' \in Seq(Telemetry)
      /\ sending' \in [Publishers -> Telemetry]
  BY <1>1, <1>2, PublishType DEF TypeOK
<1>4. last' \in Snapshots /\ sequence' \in Nat /\ heartbeats' \in Nat
  BY <1>1, PublishCounts DEF TypeOK
<1>5. disturbances' \in Nat
  BY DEF EndProbe, Disturb, TypeOK
<1>6. probing' = [probing EXCEPT ![p] = NoProbe] /\ probing' \in [Publishers -> CupsReads]
  BY NullTypes DEF EndProbe, TypeOK
<1>7. /\ session' \in {"idle", "statuses", "flush", "publish", "receive"}
      /\ session' = "idle" <=> session = "idle"
      /\ todo # <<>> => session' = "flush"
  BY DEF EndProbe, ProbeOK, TypeOK
<1>8. phase' \in {"starting", "running"} /\ job' \in {"none", "printing", "published", "done"}
  BY DEF EndProbe, TypeOK
<1>9. UNCHANGED <<condition, prior, conn, todo, backend>>
  BY DEF EndProbe, outside
<1>10. ProbeOK'
  BY <1>6 DEF EndProbe, ProbeOK, TypeOK, Publishers
<1> QED
  BY <1>3, <1>4, <1>5, <1>6, <1>7, <1>8, <1>9, <1>10 DEF TypeOK

\* The steps of the sends and of the session.
LEMMA SessionTyped ==
  ASSUME TelemetryAssumption, Typed,
         (\E p \in Publishers : SendEnds(p)) \/ SessionStep \/ Connect
  PROVE  Typed'
<1> USE DEF Typed
<1>1. ASSUME NEW p \in Publishers, SendEnds(p)
      PROVE  Typed'
  <2>1. /\ pending' \in Seq(Telemetry) /\ todo' \in Seq(Telemetry)
        /\ sending' \in [Publishers -> Telemetry]
    BY <1>1, SendEndsType, NullTypes DEF TypeOK
  <2>2. todo' \in {todo, <<>>}
    BY <1>1 DEF SendEnds
  <2>3. UNCHANGED <<condition, prior, conn, session, channel, probing, last, sequence,
                    heartbeats, disturbances, job, phase, backend>>
    BY <1>1 DEF SendEnds, outside, probes
  <2> QED
    BY <2>1, <2>2, <2>3 DEF TypeOK, ProbeOK
<1>2. CASE BeginFlush
  <2>1. /\ session = "statuses" /\ session' = "flush"
        /\ todo' \in Seq(Telemetry) /\ pending' \in Seq(Telemetry)
    BY <1>2 DEF BeginFlush, TypeOK
  <2>2. UNCHANGED <<condition, prior, conn, sending, channel, probing, last, sequence,
                    heartbeats, disturbances, job, phase, backend>>
    BY <1>2 DEF BeginFlush, outside, probes
  <2> QED
    BY <2>1, <2>2 DEF TypeOK, ProbeOK
<1>3. CASE FlushNext
  <2>1. /\ pending' \in Seq(Telemetry) /\ todo' \in Seq(Telemetry)
        /\ channel' \in Seq(Telemetry) /\ sending' \in [Publishers -> Telemetry]
    BY <1>3, FlushNextType DEF TypeOK
  <2>2. session = "flush"
    BY <1>3 DEF FlushNext
  <2>3. UNCHANGED <<condition, prior, conn, session, probing, last, sequence,
                    heartbeats, disturbances, job, phase, backend>>
    BY <1>3 DEF FlushNext, outside, probes
  <2> QED
    BY <2>1, <2>2, <2>3 DEF TypeOK, ProbeOK
<1>4. CASE Disconnect
  BY <1>4 DEF Disconnect, TypeOK, ProbeOK, outside, sends, probes
<1>5. CASE Connect
  BY <1>5 DEF Connect, TypeOK, ProbeOK, outside, sends, probes
<1> QED
  BY <1>1, <1>2, <1>3, <1>4, <1>5 DEF SessionStep

\* The steps of the worker and of the outside.
LEMMA OutsideTyped ==
  ASSUME TelemetryAssumption, Typed,
         WorkerStep \/ ConditionChanges \/ Deliver \/ CutConnection \/ NoticeCut \/ Crash
  PROVE  Typed'
<1> USE DEF Typed
<1>1. CASE WorkerStep
  BY <1>1 DEF WorkerStep, JobBegins, JobFails, MarkCompleted, TypeOK, ProbeOK,
              outside, network, sends, probes
<1>2. CASE ConditionChanges
  BY <1>2 DEF ConditionChanges, Disturb, TypeOK, ProbeOK, network, sends
<1>3. CASE Deliver
  <2>1. channel # <<>> /\ Head(channel) \in Telemetry /\ Tail(channel) \in Seq(Telemetry)
    BY <1>3 DEF Deliver, TypeOK
  <2>2. backend' \in Telemetry /\ channel' \in Seq(Telemetry)
    BY <1>3, <2>1 DEF Deliver, TypeOK
  <2>3. UNCHANGED <<condition, prior, conn, session, todo, sending, pending, probing, last,
                    sequence, heartbeats, disturbances, job, phase>>
    BY <1>3 DEF Deliver, outside, network, probes
  <2> QED
    BY <2>2, <2>3 DEF TypeOK, ProbeOK
<1>4. CASE CutConnection
  <2>1. /\ conn = "open" /\ conn' = "halfopen" /\ channel' \in Seq(Telemetry)
        /\ disturbances' \in Nat
    BY <1>4 DEF CutConnection, Disturb, TypeOK
  <2>2. UNCHANGED <<condition, prior, session, todo, sending, pending, probing, last,
                    sequence, heartbeats, job, phase, backend>>
    BY <1>4 DEF CutConnection, outside
  <2> QED
    BY <2>1, <2>2 DEF TypeOK, ProbeOK
<1>5. CASE NoticeCut
  BY <1>5 DEF NoticeCut, TypeOK, ProbeOK, outside, sends, probes
<1>6. CASE Crash
  <2>1. NoTelemetry \in Telemetry /\ NoProbe \in CupsReads
    BY NullTypes
  <2>2. /\ prior' = backend.sequence /\ prior' \in Nat
        /\ disturbances' \in Nat /\ sequence' \in Nat
    BY <1>6 DEF Crash, Disturb, TypeOK, Telemetry
  <2>3. /\ probing' \in [Publishers -> CupsReads] /\ probing'["session"] = NoProbe
        /\ sending' \in [Publishers -> Telemetry]
    BY <1>6, <2>1 DEF Crash, Publishers
  <2>4. /\ pending' \in Seq(Telemetry) /\ channel' \in Seq(Telemetry)
        /\ todo' = <<>> /\ todo' \in Seq(Telemetry)
    BY <1>6 DEF Crash
  <2>5. /\ job' \in {"none", "printing", "published", "done"} /\ phase' = "starting"
        /\ last' = NoSnapshot /\ conn' = "down" /\ session' = "idle"
        /\ UNCHANGED <<condition, heartbeats, backend>>
    BY <1>6 DEF Crash, TypeOK
  <2> QED
    BY <2>2, <2>3, <2>4, <2>5 DEF TypeOK, ProbeOK
<1> QED
  BY <1>1, <1>2, <1>3, <1>4, <1>5, <1>6

\* Every step keeps the types.
LEMMA TypedStep ==
  ASSUME TelemetryAssumption, Typed, [Next]_vars
  PROVE  Typed'
<1>1. CASE UNCHANGED vars
  BY <1>1 DEF vars, outside, network, sends, probes, Typed, TypeOK, ProbeOK
<1>2. CASE Next
  BY <1>2, ReadCupsTyped, EndProbeTyped, SessionTyped, OutsideTyped DEF Next, ProbeStep
<1> QED
  BY <1>1, <1>2

\* Every variable has its type, in every state that is ever reached.
THEOREM TypeCorrect == Spec => []TypeOK
<1>1. Init => Typed
  BY TypedInit, TelemetryAssumption
<1>2. Typed /\ [Next]_vars => Typed'
  BY TypedStep, TelemetryAssumption
<1>3. Typed => TypeOK
  BY DEF Typed
<1> QED
  BY <1>1, <1>2, <1>3, PTL DEF Spec

-----------------------------------------------------------------------------
(* The limit of the kept telemetry.                                          *)

\* While the flush may still fail, the limit itself is kept: the flush has emptied
\* the queue, and only a failing flush puts something back uncut.
Room ==
  session = "flush" /\ (todo # <<>> \/ ~Ready("session")) => Len(pending) <= MaxPending

\* The invariant that carries the limit.
Limited == Typed /\ Room /\ QueueBounded

\* A send respects the limit, and one more than it.
LEMMA SendBound ==
  ASSUME TelemetryAssumption, TypeOK, NEW p \in Publishers, NEW e \in Telemetry,
         NEW n \in {MaxPending, MaxPending + 1}, Len(pending) <= n, Send(p, e)
  PROVE  Len(pending') <= n
<1>1. CASE Write(p, e)
  BY <1>1 DEF Write
<1>2. CASE pending' = Keep(e)
  BY <1>2, KeepBound DEF TypeOK
<1> QED
  BY <1>1, <1>2 DEF Send

\* So does a publication.
LEMMA PublishBound ==
  ASSUME TelemetryAssumption, TypeOK, NEW p \in Publishers, NEW s \in Snapshots,
         NEW n \in {MaxPending, MaxPending + 1}, Len(pending) <= n, Publish(p, s)
  PROVE  Len(pending') <= n
<1>1. ASSUME NEW h \in BOOLEAN, Emit(p, s, h)
      PROVE  Len(pending') <= n
  <2> DEFINE e == [sequence |-> sequence + 1, shows |-> s, heartbeat |-> h]
  <2>1. e \in Telemetry /\ Send(p, e)
    BY <1>1 DEF Emit, Telemetry, TypeOK
  <2> HIDE DEF e
  <2> QED
    BY <2>1, SendBound
<1>2. CASE UNCHANGED sends
  BY <1>2 DEF sends
<1> QED
  BY <1>1, <1>2 DEF Publish

\* What is put back by a failing flush is one more than the limit at most.
LEMMA PutBack ==
  ASSUME TelemetryAssumption, TypeOK, NEW e \in Telemetry, Len(pending) <= MaxPending
  PROVE  Len(Append(pending, e)) <= MaxPending + 1
BY DEF TypeOK, TelemetryAssumption

\* The end of a probe respects the limit.
LEMMA EndProbeLimited ==
  ASSUME TelemetryAssumption, Limited, NEW p \in Publishers, EndProbe(p)
  PROVE  Room' /\ QueueBounded'
<1>1. PICK s \in Snapshots : Publish(p, s)
  BY EndProbePublishes DEF Limited, Typed
<1>2. TypeOK /\ MaxPending \in Nat
  BY DEF Limited, Typed, TelemetryAssumption
<1>3. QueueBounded'
  BY <1>1, <1>2, PublishBound DEF Limited, QueueBounded
<1>4. session' \in {session, "receive"} /\ todo' = todo
  BY DEF EndProbe
<1>5. ASSUME session' = "flush"
      PROVE  p # "session"
  BY <1>5 DEF EndProbe
<1>6. ASSUME session = "flush"
      PROVE  ~Ready("session")
  BY <1>6 DEF EndProbe, LoopFree, Limited, Typed, ProbeOK
<1>7. ASSUME session' = "flush"
      PROVE  Len(pending') <= MaxPending
  <2>1. session = "flush" /\ ~Ready("session")
    BY <1>4, <1>6, <1>7
  <2>2. Len(pending) <= MaxPending
    BY <2>1 DEF Limited, Room
  <2> QED
    BY <1>1, <1>2, <2>2, PublishBound
<1> QED
  BY <1>3, <1>7 DEF Room

\* The end of a suspended send respects it.
LEMMA SendEndsLimited ==
  ASSUME TelemetryAssumption, Limited, NEW p \in Publishers, SendEnds(p)
  PROVE  Room' /\ QueueBounded'
<1>1. /\ TypeOK /\ MaxPending \in Nat /\ sending[p] \in Telemetry /\ Len(pending) \in Nat
      /\ "session" \in Publishers /\ sending \in [Publishers -> Telemetry]
  BY DEF Limited, Typed, TelemetryAssumption, TypeOK, Publishers
<1>2. /\ session' = session /\ ~Ready(p)
      /\ sending' = [sending EXCEPT ![p] = NoTelemetry]
  BY DEF SendEnds
<1>3. Ready("session") => Ready("session")'
  BY <1>1, <1>2 DEF Ready
<1>4. Len(pending) <= MaxPending + 1
  BY DEF Limited, QueueBounded
<1>5. CASE UNCHANGED <<pending, todo>>
  BY <1>2, <1>3, <1>4, <1>5 DEF Limited, Room, QueueBounded
<1>6. CASE pending' = Keep(sending[p]) /\ UNCHANGED todo
  <2>1. \A n \in {MaxPending, MaxPending + 1} : Len(pending) <= n => Len(pending') <= n
    BY <1>1, <1>6, KeepBound DEF TypeOK
  <2> QED
    BY <1>2, <1>3, <1>4, <1>6, <2>1 DEF Limited, Room, QueueBounded
<1>7. CASE /\ p = "session" /\ session = "flush"
           /\ pending' = Append(pending, sending[p]) /\ todo' = <<>>
  <2>1. Len(pending) <= MaxPending
    BY <1>2, <1>7 DEF Limited, Room
  <2>2. Len(pending') <= MaxPending + 1
    BY <1>1, <1>7, <2>1, PutBack
  <2>3. todo' = <<>> /\ Ready("session")'
    BY <1>1, <1>2, <1>7 DEF Ready
  <2> QED
    BY <2>2, <2>3 DEF Room, QueueBounded
<1> QED
  BY <1>5, <1>6, <1>7 DEF SendEnds

\* So does a round of the flush.
LEMMA FlushNextLimited ==
  ASSUME TelemetryAssumption, Limited, FlushNext
  PROVE  Room' /\ QueueBounded'
<1>1. TypeOK /\ MaxPending \in Nat /\ Len(pending) \in Nat
  BY DEF Limited, Typed, TelemetryAssumption, TypeOK
<1>2. Len(pending) <= MaxPending /\ session' = "flush" /\ Ready("session")
  BY DEF FlushNext, Limited, Room
<1>3. CASE UNCHANGED pending
  BY <1>1, <1>2, <1>3 DEF Room, QueueBounded
<1>4. CASE /\ pending' = Append(pending, Head(todo)) /\ todo' = <<>>
           /\ UNCHANGED sending
  <2>1. Head(todo) \in Telemetry
    BY <1>1 DEF FlushNext, TypeOK
  <2>2. Len(pending') <= MaxPending + 1
    BY <1>1, <1>2, <1>4, <2>1, PutBack
  <2>3. todo' = <<>> /\ Ready("session")'
    BY <1>2, <1>4 DEF Ready
  <2> QED
    BY <2>2, <2>3 DEF Room, QueueBounded
<1> QED
  BY <1>3, <1>4 DEF FlushNext, Write

\* Every step respects the limit.
LEMMA LimitedStep ==
  ASSUME TelemetryAssumption, Limited, [Next]_vars
  PROVE  Limited'
<1>1. Typed'
  BY TypedStep DEF Limited
<1> SUFFICES Room' /\ QueueBounded'
  BY <1>1 DEF Limited
<1>2. MaxPending \in Nat /\ Len(<<>>) = 0
  BY DEF TelemetryAssumption
<1>3. ASSUME UNCHANGED <<pending, session, todo, sending>>
      PROVE  Room' /\ QueueBounded'
  BY <1>3 DEF Limited, Room, QueueBounded, Ready
<1>4. ASSUME UNCHANGED pending, session' # "flush"
      PROVE  Room' /\ QueueBounded'
  BY <1>4 DEF Limited, Room, QueueBounded
<1>5. ASSUME pending' = <<>>
      PROVE  Room' /\ QueueBounded'
  BY <1>2, <1>5 DEF Room, QueueBounded
<1>6. ASSUME NEW p \in Publishers, ReadCups(p)
      PROVE  Room' /\ QueueBounded'
  <2>1. CASE p = "session"
    BY <1>4, <1>6, <2>1 DEF ReadCups, sends
  <2>2. CASE p # "session"
    BY <1>3, <1>6, <2>2 DEF ReadCups, sends
  <2> QED
    BY <2>1, <2>2
<1>7. CASE BeginFlush \/ Crash
  BY <1>5, <1>7 DEF BeginFlush, Crash
<1>8. CASE Connect \/ Disconnect
  BY <1>4, <1>8 DEF Connect, Disconnect, sends
<1>9. CASE WorkerStep \/ ConditionChanges \/ Deliver \/ CutConnection \/ NoticeCut
  BY <1>3, <1>9 DEF WorkerStep, JobBegins, JobFails, MarkCompleted, ConditionChanges,
                    Deliver, CutConnection, NoticeCut, network, sends
<1>10. CASE UNCHANGED vars
  BY <1>3, <1>10 DEF vars, network, sends
<1> QED
  BY <1>6, <1>7, <1>8, <1>9, <1>10, EndProbeLimited, SendEndsLimited, FlushNextLimited
     DEF Next, ProbeStep, SessionStep

\* The kept telemetry never exceeds its limit by more than the one message that a
\* failing flush puts back.
THEOREM QueueStaysBounded == Spec => []QueueBounded
<1>1. ASSUME Init
      PROVE  Limited
  <2>1. Typed
    BY <1>1, TypedInit, TelemetryAssumption
  <2>2. pending = <<>> /\ session = "idle" /\ MaxPending \in Nat /\ Len(<<>>) = 0
    BY <1>1, TelemetryAssumption DEF Init, TelemetryAssumption
  <2> QED
    BY <2>1, <2>2 DEF Limited, Room, QueueBounded
<1>2. Limited /\ [Next]_vars => Limited'
  BY LimitedStep, TelemetryAssumption
<1>3. Limited => QueueBounded
  BY DEF Limited
<1>4. Init => Limited
  BY <1>1
<1> QED
  BY <1>2, <1>3, <1>4, PTL DEF Spec

-----------------------------------------------------------------------------
(* The backend is in sync.                                                   *)

\* Telemetry this life of the agent may have emitted: no number is ahead of the
\* counter, and what has the newest number shows the last snapshot.
Genuine ==
  {e \in Telemetry : e.sequence <= sequence /\ (e.sequence = sequence => e.shows = last)}

\* All telemetry in the agent and on the connection is genuine.
AllGenuine ==
  /\ pending \in Seq(Genuine) /\ todo \in Seq(Genuine) /\ channel \in Seq(Genuine)
  /\ sending \in [Publishers -> Genuine]

\* What the backend holds is of an earlier life, or genuine.
BackendGenuine == backend.sequence >= prior /\ (backend.sequence > prior => backend \in Genuine)

\* The newest number is accepted or on its way.
NewestTold ==
  conn = "open" /\ session = "receive" /\ sequence > prior =>
    backend.sequence = sequence \/ \E i \in DOMAIN channel : channel[i].sequence = sequence

\* The first snapshot is always emitted.
FirstEmitted == sequence = 0 => last = NoSnapshot

\* The invariant that carries the synchrony.
Synced == Typed /\ AllGenuine /\ BackendGenuine /\ NewestTold /\ FirstEmitted

\* The null telemetry is genuine: it shows no snapshot, and a snapshot has a number.
LEMMA NullGenuine ==
  ASSUME TypeOK, FirstEmitted
  PROVE  NoTelemetry \in Genuine
BY NullTypes DEF NoTelemetry, Genuine, TypeOK, FirstEmitted

\* It is enough that the newest number was told.
LEMMA SyncedInSync ==
  ASSUME Synced
  PROVE  BackendInSync
<1> SUFFICES ASSUME conn = "open", session = "receive", sequence > prior
             PROVE  \E e \in Told : /\ e.sequence = sequence /\ e.shows = last
                                    /\ \A f \in Told : f.sequence <= e.sequence
  BY DEF BackendInSync
<1>1. sequence \in Nat /\ prior \in Nat /\ backend.sequence \in Nat
  BY DEF Synced, Typed, TypeOK, Telemetry
<1>2. \A i \in DOMAIN channel : channel[i] \in Genuine
  BY DEF Synced, AllGenuine
<1>3. \A f \in Told : f.sequence <= sequence
  <2>1. backend.sequence <= sequence
    BY <1>1 DEF Synced, BackendGenuine, Genuine
  <2> QED
    BY <1>2, <2>1 DEF Told, Genuine
<1>4. CASE backend.sequence = sequence
  <2>1. backend \in Genuine
    BY <1>1, <1>4 DEF Synced, BackendGenuine
  <2>2. backend.shows = last /\ backend \in Told
    BY <1>4, <2>1 DEF Genuine, Told
  <2> QED
    BY <1>3, <1>4, <2>2
<1>5. ASSUME NEW i \in DOMAIN channel, channel[i].sequence = sequence
      PROVE  \E e \in Told : /\ e.sequence = sequence /\ e.shows = last
                             /\ \A f \in Told : f.sequence <= e.sequence
  <2>1. channel[i].shows = last /\ channel[i] \in Told
    BY <1>2, <1>5 DEF Genuine, Told
  <2> QED
    BY <1>3, <1>5, <2>1
<1> QED
  BY <1>4, <1>5 DEF Synced, NewestTold

\* A larger set has more sequences.
LEMMA SeqGrows ==
  ASSUME NEW S, NEW T, S \subseteq T
  PROVE  Seq(S) \subseteq Seq(T)
<1> SUFFICES ASSUME NEW q \in Seq(S) PROVE q \in Seq(T)
  OBVIOUS
<1>1. Len(q) \in Nat /\ q \in [1 .. Len(q) -> T]
  OBVIOUS
<1> QED
  BY <1>1

\* An emission makes the newest number the sequence of a genuine telemetry, on the
\* connection if that is open.
LEMMA EmitSynced ==
  ASSUME TelemetryAssumption, Typed, AllGenuine, BackendGenuine,
         NEW p \in Publishers, NEW s \in Snapshots, NEW h \in BOOLEAN,
         last' = s, Emit(p, s, h), UNCHANGED <<conn, todo, backend, prior>>
  PROVE  AllGenuine' /\ BackendGenuine' /\ NewestTold' /\ FirstEmitted'
<1> DEFINE e == [sequence |-> sequence', shows |-> s, heartbeat |-> h]
<1>1. sequence \in Nat /\ sequence' = sequence + 1 /\ Send(p, e)
  BY DEF Emit, Typed, TypeOK
<1>2. Genuine \subseteq Genuine'
  BY <1>1 DEF Genuine, Telemetry
<1>3. e \in Genuine'
  BY <1>1 DEF Genuine, Telemetry
<1>4. /\ pending \in Seq(Genuine') /\ todo \in Seq(Genuine') /\ channel \in Seq(Genuine')
      /\ sending \in [Publishers -> Genuine']
  <2>1. Seq(Genuine) \subseteq Seq(Genuine')
    BY <1>2, SeqGrows
  <2> QED
    BY <1>2, <2>1 DEF AllGenuine
<1> HIDE DEF e
<1>5. AllGenuine'
  <2>1. /\ pending' \in Seq(Genuine') /\ channel' \in Seq(Genuine')
        /\ sending' \in [Publishers -> Genuine']
    BY <1>1, <1>3, <1>4, SendType
  <2> QED
    BY <1>4, <2>1 DEF AllGenuine
<1>6. BackendGenuine'
  BY <1>2 DEF BackendGenuine
<1>7. NewestTold'
  <2> SUFFICES ASSUME conn = "open"
               PROVE  \E i \in DOMAIN channel' : channel'[i].sequence = sequence'
    BY DEF NewestTold
  <2>1. channel \in Seq(Telemetry) /\ channel' = Append(channel, e)
    BY <1>1 DEF Send, Write, Typed, TypeOK
  <2>2. Len(channel) + 1 \in DOMAIN channel' /\ channel'[Len(channel) + 1] = e
    BY <2>1, <1>3
  <2>3. e.sequence = sequence'
    BY DEF e
  <2> QED
    BY <2>2, <2>3
<1>8. FirstEmitted'
  BY <1>1 DEF FirstEmitted
<1> QED
  BY <1>5, <1>6, <1>7, <1>8

\* What depends on neither counter nor snapshot stays genuine.
LEMMA GenuineStays ==
  ASSUME UNCHANGED <<sequence, last>>
  PROVE  Genuine' = Genuine /\ (FirstEmitted => FirstEmitted')
BY DEF Genuine, FirstEmitted

\* The end of a probe.
LEMMA EndProbeSynced ==
  ASSUME TelemetryAssumption, Synced, NEW p \in Publishers, EndProbe(p)
  PROVE  AllGenuine' /\ BackendGenuine' /\ NewestTold' /\ FirstEmitted'
<1>1. PICK s \in Snapshots : Publish(p, s)
  BY EndProbePublishes DEF Synced, Typed
<1>2. UNCHANGED <<conn, todo, backend, prior>> /\ last' = s
  BY <1>1, PublishCounts DEF EndProbe, outside
<1>3. ASSUME NEW h \in BOOLEAN, Emit(p, s, h)
      PROVE  AllGenuine' /\ BackendGenuine' /\ NewestTold' /\ FirstEmitted'
  BY <1>2, <1>3, EmitSynced DEF Synced
<1>4. CASE ~Forced(p) /\ ~Changed(s) /\ UNCHANGED <<sequence, sends>>
  <2>1. UNCHANGED <<sequence, last, pending, channel, sending>>
    BY <1>2, <1>4 DEF Changed, sends
  <2>2. session' = session
    BY <1>4 DEF EndProbe, Forced
  <2>3. Genuine' = Genuine /\ FirstEmitted'
    BY <2>1, GenuineStays DEF Synced
  <2> QED
    BY <1>2, <2>1, <2>2, <2>3 DEF Synced, AllGenuine, BackendGenuine, NewestTold
<1> QED
  BY <1>1, <1>3, <1>4 DEF Publish

\* The steps that move telemetry about.
LEMMA MovesSynced ==
  ASSUME TelemetryAssumption, Synced,
         (\E p \in Publishers : SendEnds(p)) \/ BeginFlush \/ FlushNext
  PROVE  AllGenuine' /\ BackendGenuine' /\ NewestTold' /\ FirstEmitted'
<1>1. UNCHANGED <<sequence, last, conn, backend, prior>>
  BY DEF SendEnds, BeginFlush, FlushNext, outside, probes
<1>2. Genuine' = Genuine /\ FirstEmitted' /\ NoTelemetry \in Genuine
  BY <1>1, GenuineStays, NullGenuine DEF Synced, Typed
<1>3. BackendGenuine'
  BY <1>1, <1>2 DEF Synced, BackendGenuine
<1>4. AllGenuine'
  <2> SUFFICES /\ pending' \in Seq(Genuine) /\ todo' \in Seq(Genuine)
               /\ channel' \in Seq(Genuine) /\ sending' \in [Publishers -> Genuine]
    BY <1>2 DEF AllGenuine
  <2> USE DEF Synced, AllGenuine
  <2>1. ASSUME NEW p \in Publishers, SendEnds(p)
        PROVE  /\ pending' \in Seq(Genuine) /\ todo' \in Seq(Genuine)
               /\ channel' \in Seq(Genuine) /\ sending' \in [Publishers -> Genuine]
    <3>1. /\ pending' \in Seq(Genuine) /\ todo' \in Seq(Genuine)
          /\ sending' \in [Publishers -> Genuine]
      BY <1>2, <2>1, SendEndsType
    <3> QED
      BY <2>1, <3>1 DEF SendEnds
  <2>2. CASE BeginFlush
    BY <2>2 DEF BeginFlush
  <2>3. CASE FlushNext
    BY <2>3, FlushNextType
  <2> QED
    BY <2>1, <2>2, <2>3
<1>5. NewestTold'
  <2>1. ASSUME session' = "receive"
        PROVE  session = "receive" /\ channel' = channel
    BY <2>1 DEF SendEnds, BeginFlush, FlushNext
  <2> QED
    BY <1>1, <2>1 DEF Synced, NewestTold
<1> QED
  BY <1>2, <1>3, <1>4, <1>5

\* A delivery: the backend takes what is newer and what it rejects it has.
LEMMA DeliverSynced ==
  ASSUME Synced, Deliver
  PROVE  AllGenuine' /\ BackendGenuine' /\ NewestTold' /\ FirstEmitted'
<1> DEFINE h == Head(channel)
<1>1. channel # <<>> /\ channel \in Seq(Genuine) /\ h \in Genuine /\ Tail(channel) \in Seq(Genuine)
  BY DEF Deliver, Synced, AllGenuine
<1>2. /\ UNCHANGED <<sequence, last, conn, session, prior, pending, todo, sending>>
      /\ channel' = Tail(channel)
  BY DEF Deliver, outside, network, probes
<1>3. Genuine' = Genuine /\ FirstEmitted'
  BY <1>2, GenuineStays DEF Synced
<1>4. h.sequence \in Nat /\ h.sequence <= sequence
  BY <1>1 DEF Genuine, Telemetry
<1>5. sequence \in Nat /\ prior \in Nat /\ backend.sequence \in Nat
  BY DEF Synced, Typed, TypeOK, Telemetry
<1>6. backend' = IF h.sequence > backend.sequence THEN h ELSE backend
  BY DEF Deliver
<1> HIDE DEF h
<1>7. AllGenuine'
  BY <1>1, <1>2, <1>3 DEF Synced, AllGenuine
<1>8. BackendGenuine'
  BY <1>1, <1>2, <1>3, <1>4, <1>5, <1>6 DEF Synced, BackendGenuine
<1>9. NewestTold'
  <2> SUFFICES ASSUME conn = "open", session = "receive", sequence > prior
               PROVE  \/ backend'.sequence = sequence
                      \/ \E i \in DOMAIN Tail(channel) : Tail(channel)[i].sequence = sequence
    BY <1>2 DEF NewestTold
  <2>1. CASE backend.sequence = sequence
    BY <1>4, <1>5, <1>6, <2>1
  <2>2. ASSUME NEW i \in DOMAIN channel, channel[i].sequence = sequence, i = 1
        PROVE  backend'.sequence = sequence
    <3>1. h.sequence = sequence
      BY <1>1, <2>2 DEF h
    <3>2. backend.sequence > prior => backend.sequence <= sequence
      BY DEF Synced, BackendGenuine, Genuine
    <3> QED
      BY <1>5, <1>6, <3>1, <3>2
  <2>3. ASSUME NEW i \in DOMAIN channel, channel[i].sequence = sequence, i # 1
        PROVE  \E k \in DOMAIN Tail(channel) : Tail(channel)[k].sequence = sequence
    <3>1. i - 1 \in DOMAIN Tail(channel) /\ Tail(channel)[i - 1] = channel[i]
      BY <1>1, <2>3
    <3> QED
      BY <2>3, <3>1
  <2> QED
    BY <2>1, <2>2, <2>3 DEF Synced, NewestTold
<1> QED
  BY <1>3, <1>7, <1>8, <1>9

\* Every step keeps the synchrony.
LEMMA SyncedStep ==
  ASSUME TelemetryAssumption, Synced, [Next]_vars
  PROVE  Synced'
<1>1. Typed'
  BY TypedStep DEF Synced
<1> SUFFICES AllGenuine' /\ BackendGenuine' /\ NewestTold' /\ FirstEmitted'
  BY <1>1 DEF Synced
<1>2. ASSUME UNCHANGED <<sequence, last, pending, todo, sending, backend, prior>>,
             channel' = channel \/ (channel' = <<>> /\ conn' # "open"),
             (conn' = conn /\ session' = session) \/ conn' # "open" \/ session' # "receive"
      PROVE  AllGenuine' /\ BackendGenuine' /\ NewestTold' /\ FirstEmitted'
  <2>1. Genuine' = Genuine /\ FirstEmitted'
    BY <1>2, GenuineStays DEF Synced
  <2>2. channel' \in Seq(Genuine)
    <3>1. <<>> \in Seq(Genuine) /\ channel \in Seq(Genuine)
      BY DEF Synced, AllGenuine
    <3>2. channel' = channel \/ channel' = <<>>
      BY <1>2
    <3> QED
      BY <3>1, <3>2
  <2>3. AllGenuine'
    BY <1>2, <2>1, <2>2 DEF Synced, AllGenuine
  <2>4. BackendGenuine'
    BY <1>2, <2>1 DEF Synced, BackendGenuine
  <2>5. NewestTold'
    <3>1. CASE conn' # "open" \/ session' # "receive"
      BY <3>1 DEF NewestTold
    <3>2. CASE conn' = conn /\ session' = session /\ conn' = "open"
      BY <1>2, <3>2 DEF Synced, NewestTold
    <3> QED
      BY <1>2, <3>1, <3>2
  <2> QED
    BY <2>1, <2>3, <2>4, <2>5
<1>3. ASSUME NEW p \in Publishers, ReadCups(p)
      PROVE  AllGenuine' /\ BackendGenuine' /\ NewestTold' /\ FirstEmitted'
  BY <1>2, <1>3 DEF ReadCups, outside, sends
<1>4. CASE Connect \/ Disconnect
  BY <1>2, <1>4 DEF Connect, Disconnect, outside, sends, probes
<1>5. CASE WorkerStep \/ ConditionChanges
  BY <1>2, <1>5 DEF WorkerStep, JobBegins, JobFails, MarkCompleted, ConditionChanges,
                    outside, network, sends, probes
<1>6. CASE CutConnection \/ NoticeCut
  BY <1>2, <1>6 DEF CutConnection, NoticeCut, outside, sends, probes
<1>7. CASE UNCHANGED vars
  BY <1>2, <1>7 DEF vars, outside, network, sends, probes
<1>8. CASE Crash
  <2>1. /\ sequence' = 0 /\ last' = NoSnapshot /\ conn' = "down"
        /\ pending' = <<>> /\ todo' = <<>> /\ channel' = <<>>
        /\ sending' = [q \in Publishers |-> NoTelemetry]
    BY <1>8 DEF Crash
  <2>2. prior' = backend.sequence /\ backend' = backend /\ backend.sequence \in Nat
    BY <1>8 DEF Crash, Synced, Typed, TypeOK, Telemetry
  <2>3. FirstEmitted' /\ NewestTold'
    BY <2>1 DEF FirstEmitted, NewestTold
  <2>4. NoTelemetry \in Genuine'
    BY <2>1, NullTypes DEF Genuine, NoTelemetry
  <2>5. AllGenuine'
    BY <2>1, <2>4 DEF AllGenuine
  <2>6. BackendGenuine'
    BY <2>2 DEF BackendGenuine
  <2> QED
    BY <2>3, <2>5, <2>6
<1> QED
  BY <1>3, <1>4, <1>5, <1>6, <1>7, <1>8, EndProbeSynced, MovesSynced, DeliverSynced
     DEF Next, ProbeStep, SessionStep

\* On a live connection, once the session has flushed and published, the newest
\* telemetry shows the last snapshot and is accepted or on its way, for every set of
\* conditions, every limit of the queue and however often the connection is lost;
\* unless the backend still rejects the numbers of an agent that was restarted.
THEOREM BackendStaysInSync == Spec => []BackendInSync
<1>1. ASSUME Init
      PROVE  Synced
  <2>1. Typed
    BY <1>1, TypedInit, TelemetryAssumption
  <2>2. /\ sequence = 0 /\ last = NoSnapshot /\ conn = "down" /\ prior = 0
        /\ pending = <<>> /\ todo = <<>> /\ channel = <<>> /\ backend = NoTelemetry
        /\ sending = [q \in Publishers |-> NoTelemetry]
    BY <1>1 DEF Init
  <2>3. FirstEmitted /\ NewestTold
    BY <2>2 DEF FirstEmitted, NewestTold
  <2>4. NoTelemetry \in Genuine
    BY <2>1, <2>3, NullGenuine DEF Typed
  <2>5. AllGenuine /\ BackendGenuine
    BY <2>2, <2>4 DEF AllGenuine, BackendGenuine, NoTelemetry
  <2> QED
    BY <2>1, <2>3, <2>5 DEF Synced
<1>2. Synced /\ [Next]_vars => Synced'
  BY SyncedStep, TelemetryAssumption
<1>3. Synced => BackendInSync
  BY SyncedInSync
<1>4. Init => Synced
  BY <1>1
<1> QED
  BY <1>2, <1>3, <1>4, PTL DEF Spec

-----------------------------------------------------------------------------
(* What is said of a printer that prints.                                    *)

\* The end of a probe says PRINTING for one of the two reasons there are.
LEMMA EndProbePhantom ==
  ASSUME TelemetryAssumption, Typed, NEW p \in Publishers, EndProbe(p),
         last'.display = "PRINTING"
  PROVE  Hint(p) \/ probing[p].printing \/ probing[p].state = 4
<1>1. probing[p] \in CupsReads
  BY DEF Typed, TypeOK
<1>2. \E usb \in UsbPresences : Publish(p, Normalize(Gathered(probing[p], usb), Hint(p)))
  BY ConditionType DEF EndProbe, Typed, TypeOK, UsbPresences
<1>3. PICK usb \in UsbPresences : last' = Normalize(Gathered(probing[p], usb), Hint(p))
  BY <1>2 DEF Publish
<1>4. Gathered(probing[p], usb) \in Signals /\ Hint(p) \in BOOLEAN
  BY <1>1, GatheredType DEF Hint, JobPrinting
<1>5. \/ Gathered(probing[p], usb).state = 4
      \/ Gathered(probing[p], usb).printing
      \/ Hint(p)
  BY <1>3, <1>4, PrintingIsMeant
<1> QED
  BY <1>5 DEF Gathered

\* No probe says PRINTING of an idle printer but for the hint of a job that prints
\* at the moment of the publication.
THEOREM NoPhantoms == Spec => NoPhantomPrinting
<1> DEFINE Meant ==
      \A p \in Publishers :
        /\ probing[p] # NoProbe /\ probing'[p] = NoProbe
        /\ last'.display = "PRINTING"
        => \/ p = "poll" /\ JobPrinting
           \/ probing[p].printing \/ probing[p].state = 4
<1>1. ASSUME Typed, Next, NEW p \in Publishers,
             probing[p] # NoProbe, probing'[p] = NoProbe, last'.display = "PRINTING"
      PROVE  \/ p = "poll" /\ JobPrinting
             \/ probing[p].printing \/ probing[p].state = 4
  <2>1. probing \in [Publishers -> CupsReads]
    BY <1>1 DEF Typed, TypeOK
  <2>2. CASE EndProbe(p)
    BY <1>1, <2>2, EndProbePhantom, TelemetryAssumption DEF Hint
  <2>3. ASSUME NEW q \in Publishers, q # p, ReadCups(q) \/ EndProbe(q)
        PROVE  FALSE
    BY <1>1, <2>1, <2>3 DEF ReadCups, EndProbe
  <2>4. ~ReadCups(p)
    BY <1>1 DEF ReadCups
  <2>5. CASE Crash
    BY <1>1, <2>5 DEF Crash, NoSnapshot
  <2>6. CASE \/ \E q \in Publishers : SendEnds(q)
             \/ SessionStep \/ Connect \/ WorkerStep
             \/ ConditionChanges \/ Deliver \/ CutConnection \/ NoticeCut
    <3>1. probing' = probing
      BY <2>6 DEF SendEnds, SessionStep, BeginFlush, FlushNext, Disconnect, Connect,
                  WorkerStep, JobBegins, JobFails, MarkCompleted, ConditionChanges, Deliver,
                  CutConnection, NoticeCut, probes
    <3> QED
      BY <1>1, <3>1
  <2> QED
    BY <1>1, <2>2, <2>3, <2>4, <2>5, <2>6 DEF Next, ProbeStep
<1>2. Typed /\ [Next]_vars => [Meant]_probing
  <2>1. UNCHANGED vars => UNCHANGED probing
    BY DEF vars, probes
  <2> QED
    BY <1>1, <2>1
<1>3. Init => Typed
  BY TypedInit, TelemetryAssumption
<1>4. Typed /\ [Next]_vars => Typed'
  BY TypedStep, TelemetryAssumption
<1> QED
  BY <1>2, <1>3, <1>4, PTL DEF Spec, NoPhantomPrinting

=============================================================================
