----------------------- MODULE StatusReportingProofs -----------------------
(***************************************************************************)
(* Theorems about StatusReporting, for every set of jobs and every bound.  *)
(***************************************************************************)
EXTENDS StatusReporting, TLAPS

-----------------------------------------------------------------------------
(* Types.                                                                    *)

\* Statuses are not the absence of a row.
LEMMA NoRowIsNone == NoRow \notin Statuses
BY DEF NoRow, Statuses

\* Sending and keeping keep the types.
LEMMA SendStatusType ==
  ASSUME TypeOK, NEW c \in Coroutines, NEW j \in Jobs, NEW s \in Statuses,
         SendStatus(c, j, s)
  PROVE  /\ pending' \in [Jobs -> Statuses \cup {NoRow}]
         /\ channel' \in Seq(Reports)
         /\ sending' \in [Coroutines -> Reports \cup {NoReport}]
<1>1. <<j, s>> \in Reports
  BY DEF Reports
<1>2. CASE pending' = Keep(j, s) /\ UNCHANGED <<channel, sending>>
  BY <1>2 DEF Keep, TypeOK
<1>3. CASE /\ channel' = IF conn = "open" THEN Append(channel, <<j, s>>) ELSE channel
           /\ UNCHANGED sending \/ sending' = [sending EXCEPT ![c] = <<j, s>>]
           /\ UNCHANGED pending
  <2>1. channel' \in Seq(Reports)
    BY <1>1, <1>3 DEF TypeOK
  <2>2. sending' \in [Coroutines -> Reports \cup {NoReport}]
    BY <1>1, <1>3 DEF TypeOK
  <2> QED
    BY <1>3, <2>1, <2>2 DEF TypeOK
<1> QED
  BY <1>2, <1>3 DEF SendStatus

\* A report by the worker or by handle_cancel, of a row that takes it or refuses it.
Says(c, j, s) ==
  WriteAndReport(c, j, s) \/ (status[j] # NoRow /\ ReportRefused(c, j, s))

\* Nothing is reported, and no row moves.
Silent ==
  UNCHANGED <<status, refused, aged, conn, todo, sending, pending, channel, heard,
              crossed, changes, cuts, crashes>>

\* How the receive loop enters and leaves the wait for a cancel command.
AwaitsCancel ==
  \/ UNCHANGED <<session, cancelling>>
  \/ session = "cancel" /\ session' = "receive" /\ cancelling' = NoJob
  \/ /\ session = "receive" /\ session' = "cancel"
     /\ cancelling' \in Jobs /\ status[cancelling'] # NoRow

Speakers ==
  WorkerStep \/ CancelReturns \/ \E j \in Jobs : Cancel(j) \/ CancelAtPrinter(j)

\* What a report of a row keeps typed.
LEMMA SaysType ==
  ASSUME ReportingAssumption, TypeOK, NEW c \in Coroutines, NEW j \in Jobs,
         NEW s \in Statuses, Says(c, j, s)
  PROVE  /\ pending' \in [Jobs -> Statuses \cup {NoRow}]
         /\ channel' \in Seq(Reports)
         /\ sending' \in [Coroutines -> Reports \cup {NoReport}]
         /\ status' \in [Jobs -> Statuses \cup {NoRow}]
         /\ refused' \in [Jobs -> SUBSET Statuses]
         /\ changes' \in 0..MaxChanges
         /\ crossed' \subseteq Jobs
         /\ UNCHANGED <<aged, conn, todo, heard, cuts, crashes>>
         /\ \A i \in Jobs : status[i] # NoRow => status'[i] # NoRow
<1>1. /\ pending' \in [Jobs -> Statuses \cup {NoRow}]
      /\ channel' \in Seq(Reports)
      /\ sending' \in [Coroutines -> Reports \cup {NoReport}]
  BY SendStatusType DEF Says, WriteAndReport, ReportRefused
<1>2. CASE WriteAndReport(c, j, s)
  <2>1. status' \in [Jobs -> Statuses \cup {NoRow}]
    BY <1>2 DEF WriteAndReport, TypeOK
  <2>2. refused' \in [Jobs -> SUBSET Statuses]
    BY <1>2 DEF WriteAndReport, TypeOK
  <2>3. changes' \in 0..MaxChanges
    BY <1>2 DEF WriteAndReport, TypeOK, ReportingAssumption
  <2>4. crossed' \subseteq Jobs /\ UNCHANGED <<aged, conn, todo, heard, cuts, crashes>>
    BY <1>2 DEF WriteAndReport, TypeOK
  <2>5. \A i \in Jobs : status[i] # NoRow => status'[i] # NoRow
    BY <1>2, NoRowIsNone DEF WriteAndReport, TypeOK
  <2> QED
    BY <1>1, <2>1, <2>2, <2>3, <2>4, <2>5
<1>3. CASE ReportRefused(c, j, s)
  <2>1. refused' \in [Jobs -> SUBSET Statuses]
    BY <1>3 DEF ReportRefused, TypeOK
  <2>2. UNCHANGED <<status, aged, conn, todo, heard, crossed, changes, cuts, crashes>>
    BY <1>3 DEF ReportRefused
  <2> QED
    BY <1>1, <2>1, <2>2 DEF TypeOK
<1> QED
  BY <1>2, <1>3 DEF Says

\* A row that is over refuses everything but what it is.
LEMMA OverRefuses ==
  ASSUME NEW r \in TERMINAL_STATUSES, NEW s, TransitionOK(r, s)
  PROVE  s = r
BY DEF TransitionOK, ALLOWED_TRANSITIONS, TransitionTable, TERMINAL_STATUSES

\* The actions of the worker and of handle_cancel, as what they have in common.
LEMMA Writers ==
  ASSUME TypeOK, NoJobAssumption, Speakers
  PROVE  /\ held' \in Jobs \cup {NoJob} /\ AwaitsCancel
         /\ \/ Silent
            \/ \E c \in Coroutines, j \in Jobs, s \in Statuses :
                 /\ Says(c, j, s)
                 /\ status[j] \in TERMINAL_STATUSES /\ WriteAndReport(c, j, s) => s = status[j]
<1> DEFINE Spoke ==
      \E c \in Coroutines, j \in Jobs, s \in Statuses :
        /\ Says(c, j, s)
        /\ status[j] \in TERMINAL_STATUSES /\ WriteAndReport(c, j, s) => s = status[j]
<1> DEFINE Goal == held' \in Jobs \cup {NoJob} /\ AwaitsCancel /\ (Silent \/ Spoke)
<1>1. "worker" \in Coroutines /\ "session" \in Coroutines
  BY DEF Coroutines
<1>2. /\ {"RECEIVED", "CANCELLED", "FAILED", "RETRY_WAITING"} \subseteq Statuses
      /\ NoRow \notin TERMINAL_STATUSES
  BY DEF Statuses, NoRow, TERMINAL_STATUSES
<1>3. ASSUME NEW j \in Jobs, Receive(j)
      PROVE  Goal
  <2>1. Spoke
    BY <1>1, <1>2, <1>3 DEF Receive, Says
  <2> QED
    BY <1>3, <2>1 DEF Receive, AwaitsCancel
<1>4. ASSUME NEW j \in Jobs, Resume(j)
      PROVE  Goal
  BY <1>4 DEF Resume, Silent, AwaitsCancel
<1>5. ASSUME NEW j \in Jobs, RepeatEnd(j)
      PROVE  Goal
  <2>1. status[j] \in Statuses
    BY <1>5 DEF RepeatEnd, TERMINAL_STATUSES, Statuses
  <2>2. Spoke
    BY <1>1, <1>5, <2>1 DEF RepeatEnd, Says
  <2> QED
    BY <1>5, <2>2 DEF RepeatEnd, AwaitsCancel, TypeOK
<1>6. ASSUME NEW s \in Statuses, Advance(s)
      PROVE  Goal
  <2>1. held \in Jobs /\ status[held] \in Statuses
    BY <1>6 DEF Advance, TypeOK
  <2>2. status[held] \notin TERMINAL_STATUSES
    BY <1>6 DEF Advance, ALLOWED_TRANSITIONS, TransitionTable, TERMINAL_STATUSES
  <2>3. Spoke
    BY <1>1, <1>6, <2>1, <2>2 DEF Advance, Says
  <2> QED
    BY <1>6, <2>1, <2>3 DEF Advance, AwaitsCancel
<1>7. ASSUME NEW s \in Statuses, NEW j \in Jobs, ReportRefused("worker", j, s), status[j] # NoRow
      PROVE  Spoke
  <2>1. ~WriteAndReport("worker", j, s) \/ status[j] \notin TERMINAL_STATUSES
        \/ s = status[j]
    <3>1. CASE WriteAndReport("worker", j, s)
      <4>1. status'[j] = s /\ status' = status
        BY <1>7, <3>1 DEF WriteAndReport, ReportRefused, TypeOK
      <4> QED
        BY <4>1
    <3> QED
      BY <3>1
  <2> QED
    BY <1>1, <1>7, <2>1 DEF Says
<1>8. CASE FailCancelled
  <2>1. held \in Jobs /\ status[held] # NoRow
    BY <1>2, <1>8 DEF FailCancelled, TypeOK, NoRow
  <2>2. Spoke
    BY <1>2, <1>7, <1>8, <2>1 DEF FailCancelled
  <2> QED
    BY <1>8, <2>2 DEF FailCancelled, AwaitsCancel
<1>9. CASE RetryRefused
  <2>1. held \in Jobs /\ status[held] # NoRow
    BY <1>2, <1>9 DEF RetryRefused, TypeOK, NoRow
  <2>2. Spoke
    BY <1>2, <1>7, <1>9, <2>1 DEF RetryRefused
  <2> QED
    BY <1>9, <2>2 DEF RetryRefused, AwaitsCancel
<1>10. CASE Drop
  BY <1>10 DEF Drop, Silent, AwaitsCancel
<1>11. ASSUME NEW j \in Jobs, status[j] # NoRow, RecordCancel(j)
       PROVE  Spoke
  <2>1. CASE TransitionOK(status[j], "CANCELLED") /\ WriteAndReport("session", j, "CANCELLED")
    BY <1>1, <1>2, <2>1, OverRefuses DEF Says
  <2>2. CASE ReportRefused("session", j, "CANCELLED")
    <3>1. WriteAndReport("session", j, "CANCELLED") => status[j] = "CANCELLED"
      BY <2>2 DEF WriteAndReport, ReportRefused, TypeOK
    <3> QED
      BY <1>1, <1>2, <1>11, <2>2, <3>1 DEF Says
  <2> QED
    BY <1>11, <2>1, <2>2 DEF RecordCancel
<1>12. ASSUME NEW j \in Jobs, Cancel(j)
       PROVE  Goal
  <2>1. status[j] # NoRow
    BY <1>12, NoRowIsNone DEF Cancel, NonTerminal
  <2> QED
    BY <1>11, <1>12, <2>1 DEF Cancel, AwaitsCancel, TypeOK
<1>13. ASSUME NEW j \in Jobs, CancelAtPrinter(j)
       PROVE  Goal
  BY <1>13 DEF CancelAtPrinter, AwaitsCancel, Silent, TypeOK, NoRow
<1>14. CASE CancelReturns
  <2>1. cancelling \in Jobs /\ status[cancelling] # NoRow
    BY <1>14 DEF CancelReturns, TypeOK
  <2> QED
    BY <1>11, <1>14, <2>1 DEF CancelReturns, AwaitsCancel, TypeOK
<1> QED
  BY <1>3, <1>4, <1>5, <1>6, <1>8, <1>9, <1>10, <1>12, <1>13, <1>14 DEF Speakers, WorkerStep

\* They keep the types.
LEMMA SpeakersType ==
  ASSUME ReportingAssumption, NoJobAssumption, TypeOK, Speakers
  PROVE  TypeOK'
<1>1. held' \in Jobs \cup {NoJob} /\ AwaitsCancel
  BY Writers
<1>2. /\ pending' \in [Jobs -> Statuses \cup {NoRow}]
      /\ channel' \in Seq(Reports)
      /\ sending' \in [Coroutines -> Reports \cup {NoReport}]
      /\ status' \in [Jobs -> Statuses \cup {NoRow}]
      /\ refused' \in [Jobs -> SUBSET Statuses]
      /\ changes' \in 0..MaxChanges
      /\ crossed' \subseteq Jobs
      /\ UNCHANGED <<aged, conn, todo, heard, cuts, crashes>>
      /\ \A i \in Jobs : status[i] # NoRow => status'[i] # NoRow
  <2>1. CASE Silent
    BY <2>1 DEF Silent, TypeOK
  <2>2. CASE \E c \in Coroutines, j \in Jobs, s \in Statuses : Says(c, j, s)
    BY <2>2, SaysType
  <2> QED
    BY <2>1, <2>2, Writers
<1>3. /\ session' \in {"idle", "reconcile", "flush", "receive", "cancel"}
      /\ session' = "idle" <=> conn' = "down"
      /\ session' = "cancel" <=> cancelling' # NoJob
      /\ session' \in {"idle", "receive", "cancel"} => todo' = {}
  BY <1>1, <1>2 DEF AwaitsCancel, TypeOK, NoJobAssumption
<1>4. cancelling' \in Jobs \cup {NoJob} /\ (cancelling' # NoJob => status'[cancelling'] # NoRow)
  BY <1>1, <1>2 DEF AwaitsCancel, TypeOK
<1> QED
  BY <1>1, <1>2, <1>3, <1>4 DEF TypeOK

\* A round of the session's loops.
LEMMA SendNextType ==
  ASSUME TypeOK, SendNext
  PROVE  TypeOK'
<1>1. PICK m \in todo : todo' = todo \ {m} /\ SendStatus("session", m[1], m[2])
  BY DEF SendNext
<1>2. m[1] \in Jobs /\ m[2] \in Statuses /\ "session" \in Coroutines
  BY DEF TypeOK, Reports, Coroutines
<1>3. /\ pending' \in [Jobs -> Statuses \cup {NoRow}]
      /\ channel' \in Seq(Reports)
      /\ sending' \in [Coroutines -> Reports \cup {NoReport}]
  BY <1>1, <1>2, SendStatusType
<1>4. session \in {"reconcile", "flush"} /\ todo' \subseteq Reports
  BY <1>1 DEF SendNext, TypeOK
<1>5. UNCHANGED <<status, aged, conn, session, heard, crossed, changes, cuts, crashes>>
  BY DEF SendNext, rows
<1>6. UNCHANGED rows
  BY DEF SendNext
<1> QED
  BY <1>3, <1>4, <1>5, <1>6 DEF TypeOK, rows

\* A suspended send that ends.
LEMMA SendEndsType ==
  ASSUME TypeOK, NEW c \in Coroutines, SendEnds(c)
  PROVE  TypeOK'
<1>1. sending[c] \in Reports
  BY DEF SendEnds, Ready, TypeOK
<1>2. sending[c][1] \in Jobs /\ sending[c][2] \in Statuses
  BY <1>1 DEF Reports
<1>3. pending' \in [Jobs -> Statuses \cup {NoRow}]
  BY <1>2 DEF SendEnds, Keep, TypeOK
<1>4. sending' \in [Coroutines -> Reports \cup {NoReport}]
  BY DEF SendEnds, TypeOK
<1>5. UNCHANGED <<status, aged, conn, session, todo, channel, heard, crossed, changes, cuts, crashes>>
  BY DEF SendEnds, rows
<1>6. UNCHANGED rows
  BY DEF SendEnds
<1> QED
  BY <1>3, <1>4, <1>5, <1>6 DEF TypeOK, rows

\* What a delivery takes from the channel.
LEMMA DeliverFields ==
  ASSUME TypeOK, Deliver
  PROVE  /\ channel # <<>> /\ Head(channel) \in Reports
         /\ Head(channel) = channel[1] /\ channel' = Tail(channel)
         /\ channel' \in Seq(Reports)
         /\ Head(channel)[1] \in Jobs /\ Head(channel)[2] \in Statuses
         /\ heard' = [heard EXCEPT ![Head(channel)[1]] = Head(channel)[2]]
         /\ UNCHANGED <<rows, status, refused, aged, conn, session, todo, sending, pending, crossed>>
<1>1. channel # <<>> /\ channel \in Seq(Reports)
  BY DEF Deliver, TypeOK
<1>2. Head(channel) \in Reports /\ Head(channel) = channel[1] /\ Tail(channel) \in Seq(Reports)
  BY <1>1
<1>3. Head(channel)[1] \in Jobs /\ Head(channel)[2] \in Statuses
  BY <1>2 DEF Reports
<1> QED
  BY <1>1, <1>2, <1>3 DEF Deliver, rows

\* Every step keeps the types.
LEMMA TypeStep ==
  ASSUME ReportingAssumption, NoJobAssumption, TypeOK, [Next]_vars
  PROVE  TypeOK'
<1>1. CASE Speakers
  BY <1>1, SpeakersType
<1>2. CASE Connect
  <2>1. todo' \subseteq Reports
    <3>1. ASSUME NEW j \in Reconciled
          PROVE  <<j, status[j]>> \in Reports
      BY DEF Reconciled, Reports, NonTerminal, TERMINAL_STATUSES, Statuses
    <3> QED
      BY <1>2, <3>1 DEF Connect
  <2> QED
    BY <1>2, <2>1 DEF Connect, TypeOK, rows
<1>3. CASE BeginFlush
  <2>1. todo' \subseteq Reports
    BY <1>3 DEF BeginFlush, TypeOK, rows, Reports
  <2>2. pending' \in [Jobs -> Statuses \cup {NoRow}]
    BY <1>3 DEF BeginFlush, Nothing
  <2> QED
    BY <1>3, <2>1, <2>2 DEF BeginFlush, TypeOK, rows
<1>4. CASE BeginReceive \/ Disconnect
  BY <1>4 DEF BeginReceive, Disconnect, TypeOK, rows
<1>5. CASE Deliver
  <2>1. heard' \in [Jobs -> Statuses \cup {NoRow}]
    BY <1>5, DeliverFields DEF TypeOK
  <2> QED
    BY <1>5, <2>1, DeliverFields DEF Deliver, TypeOK, rows
<1>6. CASE Cut
  <2>1. cuts' \in 0..MaxCuts /\ channel' \in Seq(Reports)
    BY <1>6 DEF Cut, TypeOK, rows, ReportingAssumption
  <2> QED
    BY <1>6, <2>1 DEF Cut, TypeOK, rows
<1>7. CASE NoticeCut
  BY <1>7 DEF NoticeCut, TypeOK, rows
<1>8. ASSUME NEW j \in Jobs, GrowOld(j)
      PROVE  TypeOK'
  BY <1>8 DEF GrowOld, TypeOK, rows
<1>9. CASE Crash
  <2>1. crashes' \in 0..MaxCrashes
    BY <1>9 DEF Crash, TypeOK, ReportingAssumption
  <2>2. /\ sending' \in [Coroutines -> Reports \cup {NoReport}]
        /\ pending' \in [Jobs -> Statuses \cup {NoRow}]
        /\ channel' \in Seq(Reports) /\ todo' = {}
    BY <1>9 DEF Crash, Nothing
  <2> QED
    BY <1>9, <2>1, <2>2 DEF Crash, TypeOK
<1>10. CASE UNCHANGED vars
  BY <1>10 DEF vars, rows, TypeOK
<1> QED
  BY <1>1, <1>2, <1>3, <1>4, <1>5, <1>6, <1>7, <1>8, <1>9, <1>10, SendNextType, SendEndsType
     DEF Next, SessionStep, Environment, Speakers

\* The initial state is well typed.
LEMMA TypeInit ==
  ASSUME ReportingAssumption, NoJobAssumption, Init
  PROVE  TypeOK
BY DEF Init, NoJobAssumption, Nothing, TypeOK, ReportingAssumption

\* Every variable has its type, in every state that is ever reached.
THEOREM TypeCorrect == Spec => []TypeOK
<1>1. Init => TypeOK
  BY TypeInit, ReportingAssumption, NoJobAssumption
<1>2. TypeOK /\ [Next]_vars => TypeOK'
  BY TypeStep, ReportingAssumption, NoJobAssumption
<1> QED
  BY <1>1, <1>2, PTL DEF Spec

-----------------------------------------------------------------------------
(* What rows refuse.                                                         *)

\* Tells in the next state, of a job and a status of this one.
WillTell(j, s) == s = status'[j] \/ s \in refused'[j]

\* A cancelled row that refused something is not in the worker's hands again.
HandsOff ==
  \A j \in Jobs : status[j] = "CANCELLED" /\ held = j => refused[j] = {}

Refusals == RefusalsAreFew /\ HandsOff

\* The refusals of a row whose status is written start afresh, and those of others stay.
LEMMA WriteRefusals ==
  ASSUME TypeOK, Refusals, NEW c \in Coroutines, NEW j \in Jobs, NEW s \in Statuses,
         WriteAndReport(c, j, s), held' \in {held, NoJob} \/ (s # "CANCELLED" /\ held' = j)
  PROVE  Refusals'
<1>1. /\ status' = [status EXCEPT ![j] = s]
      /\ refused' = IF status[j] = s THEN refused ELSE [refused EXCEPT ![j] = {}]
  BY DEF WriteAndReport
<1>2. /\ status'[j] = s
      /\ \/ status[j] = s /\ refused'[j] = refused[j]
         \/ refused'[j] = {}
      /\ \A i \in Jobs : i # j => status'[i] = status[i] /\ refused'[i] = refused[i]
  BY <1>1 DEF TypeOK
<1>3. RefusalsAreFew'
  <2> SUFFICES ASSUME NEW i \in Jobs
               PROVE  /\ refused'[i] # {} => status'[i] \in TERMINAL_STATUSES \cup {"READY"}
                      /\ status'[i] = "READY" => refused'[i] \subseteq {"CANCELLED", "RETRY_WAITING"}
                      /\ status'[i] \in {"COMPLETED", "FAILED"} => refused'[i] \subseteq {"CANCELLED"}
                      /\ status'[i] = "CANCELLED" => refused'[i] \in {{}, {"FAILED"}, {"RETRY_WAITING"}}
    BY DEF RefusalsAreFew, TERMINAL_STATUSES
  <2>1. CASE refused'[i] = {}
    BY <2>1
  <2>2. CASE status'[i] = status[i] /\ refused'[i] = refused[i]
    BY <2>2 DEF Refusals, RefusalsAreFew
  <2> QED
    BY <1>2, <2>1, <2>2
<1>4. HandsOff'
  <2> SUFFICES ASSUME NEW i \in Jobs, status'[i] = "CANCELLED", held' = i
               PROVE  refused'[i] = {}
    BY DEF HandsOff
  <2>1. CASE held = i
    BY <1>2, <2>1 DEF Refusals, HandsOff
  <2>2. CASE held # i
    <3>1. held' \notin {held, NoJob} \/ i = NoJob
      BY <2>2
    <3>2. i # NoJob
      BY NoJobAssumption
    <3>3. s # "CANCELLED" /\ i = j
      BY <3>1, <3>2
    <3> QED
      BY <1>2, <3>3
  <2> QED
    BY <2>1, <2>2
<1> QED
  BY <1>3, <1>4 DEF Refusals

\* A refusal is one of the few that are allowed.
LEMMA RefuseRefusals ==
  ASSUME TypeOK, Refusals, NEW c \in Coroutines, NEW j \in Jobs, NEW s \in Statuses,
         ReportRefused(c, j, s), held' \in {held, NoJob},
         \/ status[j] \in {"READY", "COMPLETED", "FAILED"} /\ s = "CANCELLED"
         \/ status[j] = "READY" /\ s = "RETRY_WAITING"
         \/ /\ status[j] = "CANCELLED" /\ s \in {"FAILED", "RETRY_WAITING"}
            /\ held = j /\ held' = NoJob
  PROVE  Refusals'
<1>1. /\ status' = status
      /\ refused' = [refused EXCEPT ![j] = @ \cup {s}]
  BY DEF ReportRefused
<1>2. /\ refused'[j] = refused[j] \cup {s}
      /\ \A i \in Jobs : i # j => refused'[i] = refused[i]
  BY <1>1 DEF TypeOK
<1>3. status[j] = "CANCELLED" => refused[j] = {} /\ held' = NoJob
  BY DEF Refusals, HandsOff
<1>4. RefusalsAreFew'
  <2> SUFFICES ASSUME NEW i \in Jobs
               PROVE  /\ refused'[i] # {} => status'[i] \in TERMINAL_STATUSES \cup {"READY"}
                      /\ status'[i] = "READY" => refused'[i] \subseteq {"CANCELLED", "RETRY_WAITING"}
                      /\ status'[i] \in {"COMPLETED", "FAILED"} => refused'[i] \subseteq {"CANCELLED"}
                      /\ status'[i] = "CANCELLED" => refused'[i] \in {{}, {"FAILED"}, {"RETRY_WAITING"}}
    BY DEF RefusalsAreFew, TERMINAL_STATUSES
  <2>1. CASE i # j
    BY <1>1, <1>2, <2>1 DEF Refusals, RefusalsAreFew
  <2>2. CASE i = j /\ status[j] = "CANCELLED"
    <3>1. refused'[i] = {s} /\ status'[i] = "CANCELLED" /\ s \in {"FAILED", "RETRY_WAITING"}
      BY <1>1, <1>2, <1>3, <2>2
    <3> QED
      BY <3>1 DEF TERMINAL_STATUSES
  <2>3. CASE i = j /\ status[j] \in {"COMPLETED", "FAILED"}
    <3>1. refused[j] \subseteq {"CANCELLED"} /\ s = "CANCELLED" /\ status'[i] = status[j]
      BY <1>1, <2>3 DEF Refusals, RefusalsAreFew
    <3> QED
      BY <1>2, <2>3, <3>1 DEF TERMINAL_STATUSES
  <2>4. CASE i = j /\ status[j] = "READY"
    <3>1. /\ refused[j] \subseteq {"CANCELLED", "RETRY_WAITING"}
          /\ s \in {"CANCELLED", "RETRY_WAITING"} /\ status'[i] = "READY"
      BY <1>1, <2>4 DEF Refusals, RefusalsAreFew
    <3> QED
      BY <1>2, <2>4, <3>1
  <2> QED
    BY <2>1, <2>2, <2>3, <2>4
<1>5. HandsOff'
  <2> SUFFICES ASSUME NEW i \in Jobs, status'[i] = "CANCELLED", held' = i
               PROVE  refused'[i] = {}
    BY DEF HandsOff
  <2>1. i # NoJob
    BY NoJobAssumption
  <2>2. held = i /\ i # j /\ status[i] = "CANCELLED"
    BY <1>1, <1>3, <2>1
  <2> QED
    BY <1>2, <2>2 DEF Refusals, HandsOff
<1> QED
  BY <1>4, <1>5 DEF Refusals

\* Every step keeps the refusals few.
LEMMA RefusalsStep ==
  ASSUME TypeOK, Refusals, [Next]_vars
  PROVE  Refusals'
<1>1. /\ "worker" \in Coroutines /\ "session" \in Coroutines
      /\ {"RECEIVED", "CANCELLED", "FAILED", "RETRY_WAITING"} \subseteq Statuses
  BY DEF Coroutines, Statuses
<1>2. ASSUME NEW j \in Jobs, Receive(j)
      PROVE  Refusals'
  BY <1>1, <1>2, WriteRefusals DEF Receive
<1>3. ASSUME NEW j \in Jobs, RepeatEnd(j)
      PROVE  Refusals'
  <2>1. status[j] \in Statuses
    BY <1>3 DEF RepeatEnd, TERMINAL_STATUSES, Statuses
  <2>2. held' \in {held, NoJob} /\ WriteAndReport("worker", j, status[j])
    BY <1>3 DEF RepeatEnd
  <2> QED
    BY <1>1, <1>3, <2>1, <2>2, WriteRefusals
<1>4. ASSUME NEW s \in Statuses, Advance(s)
      PROVE  Refusals'
  <2>1. held \in Jobs
    BY <1>4 DEF Advance, TypeOK
  <2>2. held' \in {held, NoJob} /\ WriteAndReport("worker", held, s)
    BY <1>4 DEF Advance
  <2> QED
    BY <1>1, <2>1, <2>2, WriteRefusals
<1>5. CASE FailCancelled
  <2>1. held \in Jobs
    BY <1>5 DEF FailCancelled, TypeOK
  <2> QED
    BY <1>1, <1>5, <2>1, RefuseRefusals DEF FailCancelled
<1>6. CASE RetryRefused
  <2>1. held \in Jobs
    BY <1>6 DEF RetryRefused, TypeOK
  <2> QED
    BY <1>1, <1>6, <2>1, RefuseRefusals DEF RetryRefused
<1>7. ASSUME NEW j \in Jobs, status[j] # NoRow, RecordCancel(j), held' = held
      PROVE  Refusals'
  <2>1. CASE WriteAndReport("session", j, "CANCELLED")
    <3>1. held' \in {held, NoJob}
      BY <1>7
    <3> QED
      BY <1>1, <2>1, <3>1, WriteRefusals
  <2>2. CASE ReportRefused("session", j, "CANCELLED")
    <3>1. status[j] \in Statuses /\ ~TransitionOK(status[j], "CANCELLED")
      BY <1>7, <2>2 DEF ReportRefused, TypeOK
    <3>2. status[j] \in {"READY", "COMPLETED", "FAILED"}
      BY <3>1 DEF TransitionOK, ALLOWED_TRANSITIONS, TransitionTable, Statuses, NoRow
    <3> QED
      BY <1>1, <1>7, <2>2, <3>2, RefuseRefusals
  <2> QED
    BY <1>7, <2>1, <2>2 DEF RecordCancel
<1>8. ASSUME NEW j \in Jobs, Cancel(j)
      PROVE  Refusals'
  <2>1. status[j] # NoRow
    BY <1>8, NoRowIsNone DEF Cancel, NonTerminal
  <2> QED
    BY <1>7, <1>8, <2>1 DEF Cancel
<1>9. CASE CancelReturns
  <2>1. cancelling \in Jobs /\ status[cancelling] # NoRow
    BY <1>9 DEF CancelReturns, TypeOK
  <2> QED
    BY <1>7, <1>9, <2>1 DEF CancelReturns
<1>10. ASSUME NEW j \in Jobs, Resume(j)
       PROVE  Refusals'
  <2>1. status[j] # "CANCELLED" /\ UNCHANGED <<status, refused>> /\ held' = j
    BY <1>10 DEF Resume, NonTerminal, TERMINAL_STATUSES
  <2> QED
    BY <2>1 DEF Refusals, RefusalsAreFew, HandsOff, TERMINAL_STATUSES
<1>11. ASSUME UNCHANGED <<status, refused>>, held' \in {held, NoJob}
       PROVE  Refusals'
  BY <1>11, NoJobAssumption DEF Refusals, RefusalsAreFew, HandsOff, TERMINAL_STATUSES
<1>12. CASE Drop \/ Crash
  BY <1>11, <1>12 DEF Drop, Crash
<1>13. ASSUME NEW j \in Jobs, CancelAtPrinter(j)
       PROVE  Refusals'
  BY <1>11, <1>13 DEF CancelAtPrinter
<1>14. CASE SendNext \/ BeginFlush \/ BeginReceive \/ Disconnect \/ Connect
  BY <1>11, <1>14 DEF SendNext, BeginFlush, BeginReceive, Disconnect, Connect, rows
<1>15. CASE NoticeCut \/ Deliver \/ Cut
  BY <1>11, <1>15 DEF NoticeCut, Deliver, Cut, rows
<1>16. ASSUME NEW c \in Coroutines, SendEnds(c)
       PROVE  Refusals'
  BY <1>11, <1>16 DEF SendEnds, rows
<1>17. ASSUME NEW j \in Jobs, GrowOld(j)
       PROVE  Refusals'
  BY <1>11, <1>17 DEF GrowOld, rows
<1>18. CASE UNCHANGED vars
  BY <1>11, <1>18 DEF vars, rows
<1> QED
  BY <1>2, <1>3, <1>4, <1>5, <1>6, <1>8, <1>9, <1>10, <1>12, <1>13, <1>14, <1>15, <1>16,
     <1>17, <1>18
     DEF Next, WorkerStep, SessionStep, Environment

\* At first no row refused anything.
LEMMA RefusalsInit ==
  ASSUME Init
  PROVE  Refusals
BY DEF Init, Nothing, NoRow, Refusals, RefusalsAreFew, HandsOff, TERMINAL_STATUSES

\* What is said of a row that does not take it is one of the few things JobManager may
\* say, of any job and over any interleaving of the worker and the cancels.
THEOREM RefusalsStayFew == Spec => []RefusalsAreFew
<1>1. Init => TypeOK /\ Refusals
  BY TypeInit, RefusalsInit, ReportingAssumption, NoJobAssumption
<1>2. TypeOK /\ Refusals /\ [Next]_vars => (TypeOK /\ Refusals)'
  BY TypeStep, RefusalsStep, ReportingAssumption, NoJobAssumption
<1>3. Refusals => RefusalsAreFew
  BY DEF Refusals
<1> QED
  BY <1>1, <1>2, <1>3, PTL DEF Spec

-----------------------------------------------------------------------------
(* What is on its way to the channel.                                        *)

\* A report of a row as it is, or of one that refused it, unless the row changed
\* during a report.
Faithful(m) ==
  status[m[1]] # NoRow /\ (m[1] \in crossed \/ Tells(m[1], m[2]))

\* All reports still to be written to the socket are.
AllFaithful ==
  /\ \A m \in todo : Faithful(m)
  /\ \A c \in Coroutines : ~Ready(c) => Faithful(sending[c])
  /\ \A j \in Jobs : pending[j] # NoRow => Faithful(<<j, pending[j]>>)

\* The report m is faithful in the next state.
StaysFaithful(m) ==
  status'[m[1]] # NoRow /\ (m[1] \in crossed' \/ WillTell(m[1], m[2]))

\* What the reports of a row do: the row tells what is said, and all it told before
\* unless it changed during a report; a row that is over goes on telling it anyway.
LEMMA SaysFields ==
  ASSUME TypeOK, NEW c \in Coroutines, NEW j \in Jobs, NEW s \in Statuses, Says(c, j, s)
  PROVE  /\ UNCHANGED <<aged, conn, todo, heard>> /\ crossed \subseteq crossed'
         /\ SendStatus(c, j, s)
         /\ status'[j] # NoRow /\ WillTell(j, s)
         /\ \A i \in Jobs : i # j => status'[i] = status[i] /\ refused'[i] = refused[i]
         /\ (\A t : Tells(j, t) => WillTell(j, t)) \/ (UnderWay(j) => j \in crossed')
         /\ (WriteAndReport(c, j, s) /\ s # status[j]) \/ \A t : Tells(j, t) => WillTell(j, t)
<1>1. CASE WriteAndReport(c, j, s)
  <2>1. /\ status' = [status EXCEPT ![j] = s]
        /\ refused' = IF status[j] = s THEN refused ELSE [refused EXCEPT ![j] = {}]
        /\ crossed' = crossed \cup {i \in {j} : UnderWay(j) /\ status[j] # s}
        /\ SendStatus(c, j, s) /\ UNCHANGED <<aged, conn, todo, heard>>
    BY <1>1 DEF WriteAndReport
  <2>2. /\ status'[j] = s /\ s # NoRow
        /\ \A i \in Jobs : i # j => status'[i] = status[i] /\ refused'[i] = refused[i]
    BY <2>1, NoRowIsNone DEF TypeOK
  <2>3. status[j] = s => \A t : Tells(j, t) => WillTell(j, t)
    BY <2>1, <2>2 DEF Tells, WillTell
  <2>4. status[j] # s => (UnderWay(j) => j \in crossed')
    BY <2>1
  <2> QED
    BY <1>1, <2>1, <2>2, <2>3, <2>4 DEF WillTell
<1>2. CASE status[j] # NoRow /\ ReportRefused(c, j, s)
  <2>1. /\ UNCHANGED <<status, aged, conn, todo, heard, crossed>> /\ SendStatus(c, j, s)
        /\ refused' = [refused EXCEPT ![j] = @ \cup {s}]
    BY <1>2 DEF ReportRefused
  <2>2. /\ refused'[j] = refused[j] \cup {s}
        /\ \A i \in Jobs : i # j => refused'[i] = refused[i]
    BY <2>1 DEF TypeOK
  <2> QED
    BY <1>2, <2>1, <2>2 DEF Tells, WillTell
<1> QED
  BY <1>1, <1>2 DEF Says

\* A report that is handed to send_status leaves all reports faithful.
LEMMA SendFaithful ==
  ASSUME TypeOK, NEW c \in Coroutines, NEW j \in Jobs, NEW s \in Statuses,
         SendStatus(c, j, s), StaysFaithful(<<j, s>>),
         \A m \in todo' : StaysFaithful(m),
         \A d \in Coroutines : ~Ready(d) => StaysFaithful(sending[d]),
         \A i \in Jobs : pending[i] # NoRow /\ (i # j \/ conn \in {"open", "halfopen"}) =>
                           StaysFaithful(<<i, pending[i]>>)
  PROVE  AllFaithful'
<1>1. ASSUME NEW m \in todo'
      PROVE  Faithful(m)'
  BY <1>1 DEF StaysFaithful, WillTell, Faithful, Tells
<1>2. ASSUME NEW d \in Coroutines, ~Ready(d)'
      PROVE  Faithful(sending[d])'
  <2>1. sending'[d] = sending[d] \/ sending'[d] = <<j, s>>
    BY DEF SendStatus, TypeOK
  <2>2. StaysFaithful(sending'[d])
    BY <1>2, <2>1 DEF Ready
  <2> QED
    BY <2>2 DEF StaysFaithful, WillTell, Faithful, Tells
<1>3. ASSUME NEW i \in Jobs, pending'[i] # NoRow
      PROVE  Faithful(<<i, pending[i]>>)'
  <2>1. \/ i = j /\ pending'[i] = s
        \/ pending'[i] = pending[i] /\ (i # j \/ conn \in {"open", "halfopen"})
    BY DEF SendStatus, Keep, TypeOK
  <2>2. StaysFaithful(<<i, pending'[i]>>)
    BY <1>3, <2>1
  <2> QED
    BY <2>2 DEF StaysFaithful, WillTell, Faithful, Tells
<1> QED
  BY <1>1, <1>2, <1>3 DEF AllFaithful

\* So does a report of a row by the worker or by handle_cancel.
LEMMA SaysFaithful ==
  ASSUME TypeOK, AllFaithful, NEW c \in Coroutines, NEW j \in Jobs, NEW s \in Statuses,
         Says(c, j, s)
  PROVE  AllFaithful'
<1>1. /\ UNCHANGED <<conn, todo>> /\ crossed \subseteq crossed'
      /\ SendStatus(c, j, s)
      /\ status'[j] # NoRow /\ WillTell(j, s)
      /\ \A i \in Jobs : i # j => status'[i] = status[i] /\ refused'[i] = refused[i]
      /\ (\A t : Tells(j, t) => WillTell(j, t)) \/ (UnderWay(j) => j \in crossed')
  BY SaysFields
<1>2. ASSUME NEW m, m[1] \in Jobs, Faithful(m), m[1] = j => UnderWay(j)
      PROVE  StaysFaithful(m)
  <2>1. CASE m[1] # j
    BY <1>1, <1>2, <2>1 DEF Faithful, StaysFaithful, Tells, WillTell
  <2>2. CASE m[1] = j
    BY <1>1, <1>2, <2>2 DEF Faithful, StaysFaithful
  <2> QED
    BY <2>1, <2>2
<1>3. StaysFaithful(<<j, s>>)
  BY <1>1 DEF StaysFaithful
<1>4. ASSUME NEW m \in todo'
      PROVE  StaysFaithful(m)
  <2>1. m[1] \in Jobs /\ Faithful(m) /\ (m[1] = j => UnderWay(j))
    BY <1>1, <1>4 DEF TypeOK, Reports, AllFaithful, UnderWay
  <2> QED
    BY <1>2, <2>1
<1>5. ASSUME NEW d \in Coroutines, ~Ready(d)
      PROVE  StaysFaithful(sending[d])
  <2>1. sending[d] \in Reports
    BY <1>5 DEF Ready, TypeOK
  <2>2. sending[d][1] \in Jobs /\ Faithful(sending[d]) /\ (sending[d][1] = j => UnderWay(j))
    BY <1>5, <2>1 DEF Reports, AllFaithful, UnderWay
  <2> QED
    BY <1>2, <2>2
<1>6. ASSUME NEW i \in Jobs, pending[i] # NoRow, i # j \/ conn \in {"open", "halfopen"}
      PROVE  StaysFaithful(<<i, pending[i]>>)
  <2>1. Faithful(<<i, pending[i]>>) /\ (i = j => UnderWay(j))
    BY <1>6 DEF AllFaithful, UnderWay
  <2> QED
    BY <1>2, <2>1
<1> QED
  BY <1>1, <1>3, <1>4, <1>5, <1>6, SendFaithful

\* So does a round of the session's loops.
LEMMA SendNextFaithful ==
  ASSUME TypeOK, AllFaithful, SendNext
  PROVE  AllFaithful'
<1>1. PICK m \in todo : todo' = todo \ {m} /\ SendStatus("session", m[1], m[2])
  BY DEF SendNext
<1>2. /\ UNCHANGED <<status, refused, crossed>> /\ Faithful(m)
      /\ m[1] \in Jobs /\ m[2] \in Statuses /\ m = <<m[1], m[2]>>
      /\ "session" \in Coroutines
  BY <1>1 DEF SendNext, rows, AllFaithful, TypeOK, Reports, Coroutines
<1>3. ASSUME NEW n, Faithful(n)
      PROVE  StaysFaithful(n)
  BY <1>2, <1>3 DEF Faithful, StaysFaithful, Tells, WillTell
<1>4. \A n \in todo' : StaysFaithful(n)
  BY <1>1, <1>3 DEF AllFaithful
<1>5. \A d \in Coroutines : ~Ready(d) => StaysFaithful(sending[d])
  BY <1>3 DEF AllFaithful
<1>6. \A i \in Jobs : pending[i] # NoRow => StaysFaithful(<<i, pending[i]>>)
  BY <1>3 DEF AllFaithful
<1>7. StaysFaithful(<<m[1], m[2]>>)
  BY <1>2, <1>3
<1> QED
  BY <1>1, <1>2, <1>4, <1>5, <1>6, <1>7, SendFaithful

\* So does the end of a suspended send.
LEMMA SendEndsFaithful ==
  ASSUME TypeOK, AllFaithful, NEW c \in Coroutines, SendEnds(c)
  PROVE  AllFaithful'
<1>1. /\ UNCHANGED <<status, refused, crossed, todo>> /\ ~Ready(c)
      /\ sending' = [sending EXCEPT ![c] = NoReport]
  BY DEF SendEnds, rows
<1>2. /\ Faithful(sending[c]) /\ sending[c] \in Reports
      /\ sending[c][1] \in Jobs /\ sending[c][2] \in Statuses
  BY <1>1 DEF AllFaithful, Ready, TypeOK, Reports
<1>3. ASSUME NEW n \in todo'
      PROVE  Faithful(n)'
  BY <1>1, <1>3 DEF Faithful, Tells, AllFaithful
<1>4. ASSUME NEW d \in Coroutines, ~Ready(d)'
      PROVE  Faithful(sending[d])'
  <2>1. sending'[d] = sending[d]
    BY <1>1, <1>4 DEF Ready, TypeOK
  <2> QED
    BY <1>1, <1>4, <2>1 DEF Faithful, Tells, AllFaithful, Ready
<1>5. ASSUME NEW i \in Jobs, pending'[i] # NoRow
      PROVE  Faithful(<<i, pending[i]>>)'
  <2>1. CASE pending'[i] = pending[i]
    BY <1>1, <1>5, <2>1 DEF Faithful, Tells, AllFaithful
  <2>2. CASE i = sending[c][1] /\ pending'[i] = sending[c][2]
    BY <1>1, <1>2, <2>2 DEF Faithful, Tells
  <2> QED
    BY <1>2, <2>1, <2>2 DEF SendEnds, Keep, TypeOK
<1> QED
  BY <1>3, <1>4, <1>5 DEF AllFaithful

\* Every step does.
LEMMA FaithfulStep ==
  ASSUME TypeOK, AllFaithful, [Next]_vars
  PROVE  AllFaithful'
<1>1. ASSUME UNCHANGED <<status, refused, crossed, sending, pending>>, todo' \subseteq todo
      PROVE  AllFaithful'
  BY <1>1 DEF AllFaithful, Faithful, Tells, Ready
<1>2. CASE Speakers
  <2>1. CASE Silent
    BY <1>1, <2>1 DEF Silent
  <2>2. CASE \E c \in Coroutines, j \in Jobs, s \in Statuses : Says(c, j, s)
    BY <2>2, SaysFaithful
  <2> QED
    BY <1>2, <2>1, <2>2, Writers, NoJobAssumption
<1>3. CASE BeginReceive \/ Disconnect \/ Deliver \/ Cut \/ NoticeCut
  BY <1>1, <1>3 DEF BeginReceive, Disconnect, Deliver, Cut, NoticeCut, rows
<1>4. ASSUME NEW j \in Jobs, GrowOld(j)
      PROVE  AllFaithful'
  BY <1>1, <1>4 DEF GrowOld, rows
<1>5. CASE UNCHANGED vars
  BY <1>1, <1>5 DEF vars, rows
<1>6. CASE Connect
  <2>1. /\ UNCHANGED <<status, refused, crossed, sending, pending>>
        /\ todo' = {<<j, status[j]>> : j \in Reconciled}
    BY <1>6 DEF Connect, rows
  <2>2. \A j \in Reconciled : status[j] # NoRow
    BY NoRowIsNone DEF Reconciled, NonTerminal, TERMINAL_STATUSES, Statuses
  <2>3. \A m \in todo' : status[m[1]] # NoRow /\ m[2] = status[m[1]]
    BY <2>1, <2>2
  <2> QED
    BY <2>1, <2>3 DEF AllFaithful, Faithful, Tells, Ready
<1>7. CASE BeginFlush
  <2>1. /\ UNCHANGED <<status, refused, crossed, sending>> /\ pending' = Nothing
        /\ todo' = {<<j, pending[j]>> : j \in {i \in Jobs : pending[i] # NoRow}}
    BY <1>7 DEF BeginFlush, rows
  <2>2. \A m \in todo' : Faithful(m)
    BY <2>1 DEF AllFaithful
  <2> QED
    BY <2>1, <2>2 DEF AllFaithful, Faithful, Tells, Ready, Nothing
<1>8. CASE Crash
  BY <1>8 DEF Crash, AllFaithful, Ready, Nothing
<1> QED
  BY <1>2, <1>3, <1>4, <1>5, <1>6, <1>7, <1>8, SendNextFaithful, SendEndsFaithful
     DEF Next, SessionStep, Environment, Speakers

\* A status that is kept is the row's or one this row refused, unless the row changed
\* during a report, for any number of jobs, lost connections and crashes.
THEOREM KeptStaysCurrent == Spec => []KeptIsCurrent
<1>1. Init => TypeOK /\ AllFaithful
  BY TypeInit, ReportingAssumption, NoJobAssumption DEF Init, Nothing, AllFaithful, Ready
<1>2. TypeOK /\ AllFaithful /\ [Next]_vars => (TypeOK /\ AllFaithful)'
  BY TypeStep, FaithfulStep, ReportingAssumption, NoJobAssumption
<1>3. TypeOK /\ AllFaithful => KeptIsCurrent
  BY DEF AllFaithful, Faithful, KeptIsCurrent
<1> QED
  BY <1>1, <1>2, <1>3, PTL DEF Spec

-----------------------------------------------------------------------------
(* What the backend will have heard.                                         *)

\* The last word on j is s.
Said(j, s) ==
  \/ heard[j] = s /\ \A i \in DOMAIN channel : channel[i][1] # j
  \/ \E i \in DOMAIN channel :
       channel[i] = <<j, s>> /\ \A k \in DOMAIN channel : k > i => channel[k][1] # j

\* It is what LastSaid finds.
LEMMA SaidIsLast ==
  ASSUME TypeOK, NEW j \in Jobs, NEW s, Said(j, s)
  PROVE  LastSaid(j) = s
<1> DEFINE about == {i \in DOMAIN channel : channel[i][1] = j}
<1>1. CASE heard[j] = s /\ \A i \in DOMAIN channel : channel[i][1] # j
  BY <1>1 DEF LastSaid
<1>2. ASSUME NEW i \in DOMAIN channel, channel[i] = <<j, s>>,
             \A k \in DOMAIN channel : k > i => channel[k][1] # j
      PROVE  LastSaid(j) = s
  <2>1. DOMAIN channel \subseteq Nat
    BY DEF TypeOK
  <2>2. i \in about /\ \A k \in about : k <= i
    BY <1>2, <2>1
  <2>3. (CHOOSE k \in about : \A n \in about : n <= k) = i
    <3> DEFINE k == CHOOSE k \in about : \A n \in about : n <= k
    <3>1. k \in about /\ \A n \in about : n <= k
      BY <2>2
    <3>2. k <= i /\ i <= k /\ k \in Nat /\ i \in Nat
      BY <2>1, <2>2, <3>1
    <3> HIDE DEF k
    <3> QED
      BY <3>2 DEF k
  <2>4. LastSaid(j) = channel[CHOOSE k \in about : \A n \in about : n <= k][2]
    BY <2>2 DEF LastSaid
  <2>5. channel[i][2] = s
    BY <1>2
  <2> QED
    BY <2>3, <2>4, <2>5
<1> QED
  BY <1>1, <1>2 DEF Said

\* A report that is appended is the last word on its job and on no other.
LEMMA SaidAppend ==
  ASSUME TypeOK, NEW j \in Jobs, NEW s \in Statuses, heard' = heard,
         channel' = Append(channel, <<j, s>>)
  PROVE  /\ Said(j, s)'
         /\ \A i \in Jobs, t \in Statuses \cup {NoRow} : i # j /\ Said(i, t) => Said(i, t)'
<1> DEFINE n == Len(channel)
<1>1. /\ channel \in Seq(Reports) /\ n \in Nat /\ <<j, s>> \in Reports
      /\ DOMAIN channel = 1..n
  BY DEF TypeOK, Reports
<1>2. /\ DOMAIN channel' = 1..(n + 1) /\ channel'[n + 1] = <<j, s>>
      /\ \A i \in 1..n : channel'[i] = channel[i]
  BY <1>1
<1> HIDE DEF n
<1>3. Said(j, s)'
  <2>1. n + 1 \in DOMAIN channel' /\ \A k \in DOMAIN channel' : ~(k > n + 1)
    BY <1>1, <1>2
  <2>2. \E i \in DOMAIN channel' :
          /\ channel'[i] = <<j, s>>
          /\ \A k \in DOMAIN channel' : k > i => channel'[k][1] # j
    BY <1>2, <2>1
  <2> QED
    BY <2>2 DEF Said
<1>4. ASSUME NEW i \in Jobs, NEW t \in Statuses \cup {NoRow}, i # j, Said(i, t)
      PROVE  Said(i, t)'
  <2>1. channel'[n + 1][1] # i
    <3>1. <<j, s>>[1] = j
      OBVIOUS
    <3>2. channel'[n + 1] = <<j, s>> /\ i # j
      BY <1>2, <1>4
    <3> QED
      BY <3>1, <3>2
  <2>2. CASE heard[i] = t /\ \A k \in DOMAIN channel : channel[k][1] # i
    <3>1. \A k \in DOMAIN channel' : channel'[k][1] # i
      BY <1>1, <1>2, <2>1, <2>2
    <3> QED
      BY <2>2, <3>1 DEF Said
  <2>3. ASSUME NEW k \in DOMAIN channel, channel[k] = <<i, t>>,
               \A l \in DOMAIN channel : l > k => channel[l][1] # i
        PROVE  Said(i, t)'
    <3>1. k \in DOMAIN channel' /\ channel'[k] = <<i, t>>
      BY <1>1, <1>2, <2>3
    <3>2. \A l \in DOMAIN channel' : l > k => channel'[l][1] # i
      BY <1>1, <1>2, <2>1, <2>3
    <3> QED
      BY <3>1, <3>2 DEF Said
  <2> QED
    BY <1>4, <2>2, <2>3 DEF Said
<1> QED
  BY <1>3, <1>4

\* A delivery changes no last word.
LEMMA SaidDeliver ==
  ASSUME TypeOK, Deliver, NEW j \in Jobs, NEW s, Said(j, s)
  PROVE  Said(j, s)'
<1> DEFINE n == Len(channel)
<1>1. /\ channel \in Seq(Reports) /\ n \in Nat /\ DOMAIN channel = 1..n /\ n > 0
      /\ channel # <<>>
  BY DEF TypeOK, Deliver
<1>2. /\ DOMAIN channel' = 1..(n - 1)
      /\ \A i \in 1..(n - 1) : channel'[i] = channel[i + 1]
  BY <1>1, DeliverFields
<1>3. heard' = [heard EXCEPT ![channel[1][1]] = channel[1][2]] /\ channel[1][1] \in Jobs
  BY DeliverFields
<1> HIDE DEF n
<1>4. CASE heard[j] = s /\ \A i \in DOMAIN channel : channel[i][1] # j
  <2>1. \A i \in DOMAIN channel' : channel'[i][1] # j
    BY <1>1, <1>2, <1>4
  <2>2. heard'[j] = s
    BY <1>1, <1>3, <1>4 DEF TypeOK
  <2> QED
    BY <2>1, <2>2 DEF Said
<1>5. ASSUME NEW i \in DOMAIN channel, channel[i] = <<j, s>>,
             \A k \in DOMAIN channel : k > i => channel[k][1] # j
      PROVE  Said(j, s)'
  <2>1. CASE i = 1
    <3>1. heard'[j] = s
      BY <1>3, <1>5, <2>1 DEF TypeOK
    <3>2. \A k \in DOMAIN channel' : channel'[k][1] # j
      BY <1>1, <1>2, <1>5, <2>1
    <3> QED
      BY <3>1, <3>2 DEF Said
  <2>2. CASE i # 1
    <3>1. i - 1 \in DOMAIN channel' /\ channel'[i - 1] = <<j, s>>
      BY <1>1, <1>2, <1>5, <2>2
    <3>2. \A k \in DOMAIN channel' : k > i - 1 => channel'[k][1] # j
      BY <1>1, <1>2, <1>5
    <3> QED
      BY <3>1, <3>2 DEF Said
  <2> QED
    BY <2>1, <2>2
<1> QED
  BY <1>4, <1>5 DEF Said

-----------------------------------------------------------------------------
(* The backend is in sync.                                                   *)

\* Nothing is on a connection that is not open, and nothing was ever said of a job
\* without a row.
ChannelOK ==
  /\ conn # "open" => channel = <<>>
  /\ \A j \in Jobs : status[j] = NoRow => Said(j, NoRow)

\* While the connection is live, the status of every row, or one it refused, is still
\* to be reported or is the last word on its job.
Told ==
  conn = "open" =>
    \A j \in Jobs \ crossed :
      \/ aged[j]
      \/ \E s \in Statuses \cup {NoRow} : Tells(j, s) /\ (<<j, s>> \in todo \/ Said(j, s))

\* The invariant that carries the synchrony.
Synced == TypeOK /\ AllFaithful /\ ChannelOK /\ Told

\* What a report does to the channel.
LEMMA SendStatusChannel ==
  ASSUME TypeOK, NEW c \in Coroutines, NEW j \in Jobs, NEW s \in Statuses,
         SendStatus(c, j, s)
  PROVE  /\ conn = "open" => channel' = Append(channel, <<j, s>>)
         /\ conn # "open" => channel' = channel
BY DEF SendStatus

\* A report of a job with a row keeps the channel in order.
LEMMA SendChannelOK ==
  ASSUME Synced, NEW c \in Coroutines, NEW j \in Jobs, NEW s \in Statuses,
         SendStatus(c, j, s), UNCHANGED <<conn, heard>>, status'[j] # NoRow,
         \A i \in Jobs : i # j => status'[i] = status[i]
  PROVE  ChannelOK'
<1>1. conn # "open" => channel' = <<>>
  BY SendStatusChannel DEF Synced, ChannelOK
<1>2. ASSUME NEW i \in Jobs, status'[i] = NoRow
      PROVE  Said(i, NoRow)'
  <2>1. i # j /\ Said(i, NoRow)
    BY <1>2 DEF Synced, ChannelOK
  <2>2. CASE conn = "open"
    BY <2>1, <2>2, SendStatusChannel, SaidAppend DEF Synced
  <2>3. CASE conn # "open"
    BY <2>1, <2>3, SendStatusChannel DEF Synced, Said
  <2> QED
    BY <2>2, <2>3
<1> QED
  BY <1>1, <1>2 DEF ChannelOK

\* A report that is true makes its job told, and what was told of others stays.
LEMMA SendTold ==
  ASSUME TypeOK, Told, NEW c \in Coroutines, NEW j \in Jobs, NEW s \in Statuses,
         SendStatus(c, j, s), UNCHANGED <<aged, conn, heard>>, crossed \subseteq crossed',
         j \in crossed' \/ WillTell(j, s),
         \A i \in Jobs : i # j => status'[i] = status[i] /\ refused'[i] = refused[i],
         \A i \in Jobs, t \in Statuses \cup {NoRow} :
           i # j /\ <<i, t>> \in todo => <<i, t>> \in todo'
  PROVE  Told'
<1> SUFFICES ASSUME conn = "open", NEW i \in Jobs \ crossed', ~aged[i]
             PROVE  \E t \in Statuses \cup {NoRow} :
                      Tells(i, t)' /\ (<<i, t>> \in todo' \/ Said(i, t)')
  BY DEF Told
<1>1. channel' = Append(channel, <<j, s>>)
  BY SendStatusChannel
<1>2. CASE i = j
  <2>1. Said(j, s)'
    BY <1>1, SaidAppend
  <2>2. Tells(j, s)'
    BY <1>2 DEF Tells, WillTell
  <2> QED
    BY <1>2, <2>1, <2>2
<1>3. CASE i # j
  <2>1. PICK t \in Statuses \cup {NoRow} : Tells(i, t) /\ (<<i, t>> \in todo \/ Said(i, t))
    BY DEF Told
  <2>2. Tells(i, t)'
    BY <1>3, <2>1 DEF Tells
  <2>3. Said(i, t) => Said(i, t)'
    BY <1>1, <1>3, SaidAppend
  <2> QED
    BY <1>3, <2>1, <2>2, <2>3
<1> QED
  BY <1>2, <1>3

\* A row that is written and reported is told, and so is one that refused.
LEMMA SaysSynced ==
  ASSUME Synced, NEW c \in Coroutines, NEW j \in Jobs, NEW s \in Statuses, Says(c, j, s)
  PROVE  ChannelOK' /\ Told'
<1>1. /\ UNCHANGED <<aged, conn, todo, heard>> /\ crossed \subseteq crossed'
      /\ SendStatus(c, j, s)
      /\ status'[j] # NoRow /\ WillTell(j, s)
      /\ \A i \in Jobs : i # j => status'[i] = status[i] /\ refused'[i] = refused[i]
  BY SaysFields DEF Synced
<1>2. ChannelOK'
  BY <1>1, SendChannelOK
<1>3. TypeOK /\ Told
  BY DEF Synced
<1>4. \A i \in Jobs, t \in Statuses \cup {NoRow} :
        i # j /\ <<i, t>> \in todo => <<i, t>> \in todo'
  BY <1>1
<1>5. Told'
  BY <1>1, <1>3, <1>4, SendTold
<1> QED
  BY <1>2, <1>5

\* What the session reports is told.
LEMMA SendNextSynced ==
  ASSUME Synced, SendNext
  PROVE  ChannelOK' /\ Told'
<1>1. PICK m \in todo : todo' = todo \ {m} /\ SendStatus("session", m[1], m[2])
  BY DEF SendNext
<1>2. /\ TypeOK /\ UNCHANGED <<status, refused, aged, conn, heard, crossed>>
      /\ Faithful(m) /\ m = <<m[1], m[2]>> /\ m[1] \in Jobs /\ m[2] \in Statuses
      /\ "session" \in Coroutines
  BY <1>1 DEF SendNext, rows, Synced, AllFaithful, TypeOK, Reports, Coroutines
<1>3. ChannelOK'
  BY <1>1, <1>2, SendChannelOK DEF Faithful
<1>4. m[1] \in crossed' \/ WillTell(m[1], m[2])
  BY <1>2 DEF Faithful, Tells, WillTell
<1>5. \A i \in Jobs, t \in Statuses \cup {NoRow} :
        i # m[1] /\ <<i, t>> \in todo => <<i, t>> \in todo'
  BY <1>1
<1>6. Told /\ crossed \subseteq crossed'
  BY <1>2 DEF Synced
<1>7. \A i \in Jobs : i # m[1] => status'[i] = status[i] /\ refused'[i] = refused[i]
  BY <1>2
<1>8. Told'
  BY <1>1, <1>2, <1>4, <1>5, <1>6, <1>7, SendTold
<1> QED
  BY <1>3, <1>8

\* A new connection finds every row among those to report again, but the aged ones.
LEMMA ConnectSynced ==
  ASSUME Synced, Connect
  PROVE  ChannelOK' /\ Told'
<1>1. /\ TypeOK /\ conn = "down" /\ channel = <<>>
      /\ UNCHANGED <<status, refused, aged, channel, heard, crossed>>
      /\ todo' = {<<j, status[j]>> : j \in Reconciled}
  BY DEF Connect, rows, Synced, ChannelOK
<1>2. \A i \in Jobs : \A t : Said(i, t)' <=> Said(i, t)
  BY <1>1 DEF Said
<1>3. ChannelOK'
  BY <1>1, <1>2 DEF Synced, ChannelOK, Said
<1>4. ASSUME NEW i \in Jobs \ crossed, ~aged[i]
      PROVE  \E t \in Statuses \cup {NoRow} :
               Tells(i, t)' /\ (<<i, t>> \in todo' \/ Said(i, t)')
  <2>1. PICK t \in Statuses \cup {NoRow} : t = status[i]
    BY <1>1 DEF TypeOK
  <2>2. Tells(i, t)'
    BY <1>1, <2>1 DEF Tells
  <2>3. CASE t = NoRow
    <3>1. Said(i, t)'
      BY <1>2, <2>1, <2>3 DEF Synced, ChannelOK
    <3> QED
      BY <2>2, <3>1
  <2>4. CASE t \in Statuses
    <3>1. i \in Reconciled
      BY <1>4, <2>1, <2>4 DEF Reconciled, NonTerminal
    <3>2. <<i, t>> \in todo'
      BY <1>1, <2>1, <3>1
    <3> QED
      BY <2>2, <3>2
  <2> QED
    BY <2>3, <2>4
<1>5. Told'
  BY <1>1, <1>4 DEF Told
<1> QED
  BY <1>3, <1>5

\* Every step keeps the synchrony.
LEMMA SyncedStep ==
  ASSUME ReportingAssumption, NoJobAssumption, Synced, [Next]_vars
  PROVE  Synced'
<1>1. TypeOK' /\ AllFaithful'
  BY TypeStep, FaithfulStep DEF Synced
<1> SUFFICES ChannelOK' /\ Told'
  BY <1>1 DEF Synced
<1>2. ASSUME NEW c \in Coroutines, NEW j \in Jobs, NEW s \in Statuses, Says(c, j, s)
      PROVE  ChannelOK' /\ Told'
  BY <1>2, SaysSynced
<1>3. ASSUME UNCHANGED <<status, refused, heard, crossed, channel, conn>>,
             todo' = todo \/ todo = {}, \A j \in Jobs : aged[j] => aged'[j]
      PROVE  ChannelOK' /\ Told'
  <2>1. ChannelOK'
    BY <1>3 DEF Synced, ChannelOK, Said
  <2>2. ASSUME conn = "open", NEW i \in Jobs \ crossed, ~aged'[i]
        PROVE  \E t \in Statuses \cup {NoRow} :
                 Tells(i, t) /\ (<<i, t>> \in todo' \/ Said(i, t))
    BY <1>3, <2>2 DEF Synced, Told
  <2>3. \A i \in Jobs, t \in Statuses \cup {NoRow} :
          (Tells(i, t)' <=> Tells(i, t)) /\ (Said(i, t)' <=> Said(i, t))
    BY <1>3 DEF Tells, Said
  <2>4. Told'
    BY <1>3, <2>2, <2>3 DEF Told
  <2> QED
    BY <2>1, <2>4
<1>4. ASSUME NEW c \in Coroutines, SendEnds(c)
      PROVE  ChannelOK' /\ Told'
  BY <1>3, <1>4 DEF SendEnds, rows
<1>5. CASE BeginFlush \/ BeginReceive
  BY <1>3, <1>5 DEF BeginFlush, BeginReceive, rows
<1>6. ASSUME NEW j \in Jobs, GrowOld(j)
      PROVE  ChannelOK' /\ Told'
  <2>1. \A i \in Jobs : aged[i] => aged'[i]
    BY <1>6 DEF GrowOld, Synced, TypeOK
  <2> QED
    BY <1>3, <1>6, <2>1 DEF GrowOld, rows
<1>7. CASE UNCHANGED vars
  BY <1>3, <1>7 DEF vars, rows
<1>8. ASSUME UNCHANGED <<status, heard>>, conn' # "open", channel' = <<>>
      PROVE  ChannelOK' /\ Told'
  <2>1. ASSUME NEW j \in Jobs, status[j] = NoRow
        PROVE  heard[j] = NoRow
    <3>1. Said(j, NoRow)
      BY <2>1 DEF Synced, ChannelOK
    <3>2. ASSUME NEW i \in DOMAIN channel, channel[i] = <<j, NoRow>>
          PROVE  FALSE
      <4>1. channel \in Seq(Reports)
        BY DEF Synced, TypeOK
      <4>2. channel[i] \in Reports
        BY <3>2, <4>1
      <4> QED
        BY <3>2, <4>2, NoRowIsNone DEF Reports
    <3> QED
      BY <3>1, <3>2 DEF Said
  <2>2. ChannelOK'
    BY <1>8, <2>1 DEF ChannelOK, Said
  <2> QED
    BY <1>8, <2>2 DEF Told
<1>9. CASE Cut \/ Crash
  BY <1>8, <1>9 DEF Cut, Crash, rows
<1>10. CASE NoticeCut \/ Disconnect
  <2>1. conn # "open" /\ channel = <<>>
    BY <1>10 DEF NoticeCut, Disconnect, Synced, ChannelOK
  <2> QED
    BY <1>8, <1>10, <2>1 DEF NoticeCut, Disconnect, rows
<1>11. CASE Deliver
  <2>1. /\ TypeOK /\ UNCHANGED <<status, refused, aged, conn, todo, crossed>>
        /\ channel # <<>>
    BY <1>11, DeliverFields DEF Synced
  <2>2. ASSUME NEW j \in Jobs, NEW s \in Statuses \cup {NoRow}, Said(j, s)
        PROVE  Said(j, s)'
    BY <1>11, <2>1, <2>2, SaidDeliver
  <2>4. ChannelOK'
    BY <2>1, <2>2 DEF Synced, ChannelOK
  <2>5. Told'
    <3> SUFFICES ASSUME conn = "open", NEW j \in Jobs \ crossed, ~aged[j]
                 PROVE  \E s \in Statuses \cup {NoRow} :
                          Tells(j, s)' /\ (<<j, s>> \in todo' \/ Said(j, s)')
      BY <2>1 DEF Told
    <3>1. PICK s \in Statuses \cup {NoRow} : Tells(j, s) /\ (<<j, s>> \in todo \/ Said(j, s))
      BY DEF Synced, Told
    <3>2. Tells(j, s)'
      BY <2>1, <3>1 DEF Tells
    <3> QED
      BY <2>1, <2>2, <3>1, <3>2
  <2> QED
    BY <2>4, <2>5
<1>12. CASE Speakers
  <2>1. CASE Silent
    BY <1>3, <2>1 DEF Silent
  <2>2. CASE \E c \in Coroutines, j \in Jobs, s \in Statuses : Says(c, j, s)
    BY <1>2, <2>2
  <2> QED
    BY <1>12, <2>1, <2>2, Writers DEF Synced
<1> QED
  BY <1>4, <1>5, <1>6, <1>7, <1>9, <1>10, <1>11, <1>12, ConnectSynced, SendNextSynced
     DEF Next, SessionStep, Environment, Speakers

\* On a live connection, once reconciled and flushed, the last word on every job is
\* the status of its row or one this row refused, for any number of jobs, lost
\* connections and crashes; but for a job that ended more than 300 s ago or changed
\* during a report.
THEOREM BackendStaysInSync == Spec => []BackendInSync
<1>1. ASSUME Init
      PROVE  Synced
  <2>1. TypeOK
    BY <1>1, TypeInit, ReportingAssumption, NoJobAssumption
  <2>2. AllFaithful
    BY <1>1 DEF Init, Nothing, AllFaithful, Ready
  <2>3. ChannelOK /\ Told
    BY <1>1 DEF Init, Nothing, ChannelOK, Told, Said
  <2> QED
    BY <2>1, <2>2, <2>3 DEF Synced
<1>2. Synced /\ [Next]_vars => Synced'
  BY SyncedStep, ReportingAssumption, NoJobAssumption
<1>3. ASSUME Synced, conn = "open", session = "receive", NEW j \in Jobs \ crossed, ~aged[j]
      PROVE  Tells(j, LastSaid(j))
  <2>1. todo = {} /\ TypeOK
    BY <1>3 DEF Synced, TypeOK
  <2>2. PICK s \in Statuses \cup {NoRow} : Tells(j, s) /\ Said(j, s)
    BY <1>3, <2>1 DEF Synced, Told
  <2> QED
    BY <2>1, <2>2, SaidIsLast
<1>4. Synced => BackendInSync
  BY <1>3 DEF BackendInSync
<1>5. Init => Synced
  BY <1>1
<1> QED
  BY <1>2, <1>4, <1>5, PTL DEF Spec

-----------------------------------------------------------------------------
(* The end of a job is the last word.                                        *)

Ended == {"COMPLETED", "FAILED"}

\* Once the backend has heard that a job completed or failed, or will, the row is over
\* and tells that and all that follows on the channel; unless it changed during a report.
EndsStand ==
  \A j \in Jobs \ crossed :
    /\ heard[j] \in Ended =>
         /\ Tells(j, heard[j])
         /\ \A k \in DOMAIN channel : channel[k][1] = j => Tells(j, channel[k][2])
    /\ \A i \in DOMAIN channel :
         channel[i][1] = j /\ channel[i][2] \in Ended =>
           \A k \in DOMAIN channel : k >= i /\ channel[k][1] = j => Tells(j, channel[k][2])

\* A row that tells of an end is over.
LEMMA ToldIsOver ==
  ASSUME RefusalsAreFew, NEW j \in Jobs, NEW s \in Ended, Tells(j, s)
  PROVE  status[j] \in TERMINAL_STATUSES
BY DEF RefusalsAreFew, Tells, Ended, TERMINAL_STATUSES

\* And if it tells anything else, that is CANCELLED.
LEMMA ToldAfter ==
  ASSUME RefusalsAreFew, NEW j \in Jobs, NEW s \in Ended, NEW t \in Statuses,
         Tells(j, s), Tells(j, t)
  PROVE  t = s \/ t = "CANCELLED"
<1>1. CASE status[j] \in Ended
  BY <1>1 DEF RefusalsAreFew, Tells, Ended
<1>2. CASE status[j] \notin Ended
  <2>1. s \in refused[j] /\ status[j] \in TERMINAL_STATUSES
    BY <1>2, ToldIsOver DEF Tells
  <2>2. status[j] = "CANCELLED"
    BY <1>2, <2>1 DEF TERMINAL_STATUSES, Ended
  <2>3. refused[j] = {s}
    BY <2>1, <2>2 DEF RefusalsAreFew, Ended
  <2> QED
    BY <2>2, <2>3 DEF Tells
<1> QED
  BY <1>1, <1>2

\* A faithful report that is appended, of a row that does not leave its end.
LEMMA AppendStands ==
  ASSUME TypeOK, RefusalsAreFew, EndsStand, NEW j \in Jobs, NEW s \in Statuses,
         channel' = Append(channel, <<j, s>>) \/ channel' = channel,
         heard' = heard, crossed \subseteq crossed',
         j \in crossed' \/ WillTell(j, s),
         \A i \in Jobs : status[i] \in TERMINAL_STATUSES =>
                           \A t : Tells(i, t) => WillTell(i, t)
  PROVE  EndsStand'
<1> DEFINE n == Len(channel)
<1>1. channel \in Seq(Reports) /\ n \in Nat /\ DOMAIN channel = 1..n
  BY DEF TypeOK
<1> SUFFICES ASSUME NEW i \in Jobs \ crossed'
             PROVE  /\ heard[i] \in Ended =>
                         /\ WillTell(i, heard[i])
                         /\ \A k \in DOMAIN channel' :
                              channel'[k][1] = i => WillTell(i, channel'[k][2])
                    /\ \A l \in DOMAIN channel' :
                         channel'[l][1] = i /\ channel'[l][2] \in Ended =>
                           \A k \in DOMAIN channel' :
                             k >= l /\ channel'[k][1] = i => WillTell(i, channel'[k][2])
  BY DEF EndsStand, Tells, WillTell, Ended
<1>2. i \in Jobs \ crossed
  OBVIOUS
<1>3. ASSUME NEW k \in DOMAIN channel', k \notin DOMAIN channel, channel'[k][1] = i
      PROVE  WillTell(i, channel'[k][2]) /\ \A l \in DOMAIN channel' : l <= k
  <2>1. channel' = Append(channel, <<j, s>>)
    BY <1>3
  <2>2. k = n + 1 /\ channel'[k] = <<j, s>> /\ DOMAIN channel' = 1..(n + 1)
    BY <1>1, <1>3, <2>1
  <2>3. i = j /\ channel'[k][2] = s
    BY <1>3, <2>2
  <2> QED
    BY <1>1, <2>2, <2>3
<1>4. \A k \in DOMAIN channel : k \in DOMAIN channel' /\ channel'[k] = channel[k]
  BY <1>1
<1>5. ASSUME heard[i] \in Ended
      PROVE  /\ WillTell(i, heard[i])
             /\ \A k \in DOMAIN channel' : channel'[k][1] = i => WillTell(i, channel'[k][2])
  <2>1. /\ Tells(i, heard[i])
        /\ \A k \in DOMAIN channel : channel[k][1] = i => Tells(i, channel[k][2])
    BY <1>2, <1>5 DEF EndsStand
  <2>2. \A t : Tells(i, t) => WillTell(i, t)
    BY <1>5, <2>1, ToldIsOver
  <2> QED
    BY <1>3, <1>4, <2>1, <2>2
<1>6. ASSUME NEW l \in DOMAIN channel', channel'[l][1] = i, channel'[l][2] \in Ended,
             NEW k \in DOMAIN channel', k >= l, channel'[k][1] = i
      PROVE  WillTell(i, channel'[k][2])
  <2>1. CASE k \notin DOMAIN channel
    BY <1>3, <1>6, <2>1
  <2>2. CASE k \in DOMAIN channel
    <3>1. l \in DOMAIN channel
      <4>1. l \in Nat /\ k \in Nat /\ l >= 1
        BY <1>1
      <4> QED
        BY <1>1, <1>6, <2>2, <4>1
    <3>2. /\ channel[l][1] = i /\ channel[l][2] \in Ended
          /\ channel[k][1] = i /\ channel'[k] = channel[k]
      BY <1>4, <1>6, <2>2, <3>1
    <3>3. Tells(i, channel[k][2])
      BY <1>2, <1>6, <2>2, <3>1, <3>2 DEF EndsStand
    <3>4. Tells(i, channel[l][2])
      <4>1. l >= l
        BY <1>1, <3>1
      <4> QED
        BY <1>2, <3>1, <3>2, <4>1 DEF EndsStand
    <3>5. \A t : Tells(i, t) => WillTell(i, t)
      BY <3>2, <3>4, ToldIsOver
    <3> QED
      BY <3>2, <3>3, <3>5
  <2> QED
    BY <2>1, <2>2
<1> QED
  BY <1>5, <1>6

\* What is delivered is heard, and the rest of the channel moves up.
LEMMA DeliverStands ==
  ASSUME TypeOK, EndsStand, Deliver
  PROVE  EndsStand'
<1> DEFINE n == Len(channel)
<1>1. /\ channel \in Seq(Reports) /\ n \in Nat /\ DOMAIN channel = 1..n /\ n > 0
      /\ channel # <<>>
  BY DEF TypeOK, Deliver
<1>2. \A k \in DOMAIN channel' :
        k \in Nat /\ k + 1 \in DOMAIN channel /\ k + 1 >= 1 /\ channel'[k] = channel[k + 1]
  BY <1>1, DeliverFields
<1>3. /\ heard' = [heard EXCEPT ![channel[1][1]] = channel[1][2]]
      /\ UNCHANGED <<status, refused, crossed>> /\ 1 \in DOMAIN channel
  BY <1>1, DeliverFields
<1> HIDE DEF n
<1>4. ASSUME NEW j \in Jobs \ crossed, heard'[j] \in Ended
      PROVE  /\ Tells(j, heard'[j])
             /\ \A k \in DOMAIN channel' : channel'[k][1] = j => Tells(j, channel'[k][2])
  <2>1. CASE channel[1][1] = j
    <3>1. heard'[j] = channel[1][2]
      BY <1>3, <2>1 DEF TypeOK
    <3>2. \A k \in DOMAIN channel : k >= 1 /\ channel[k][1] = j => Tells(j, channel[k][2])
      BY <1>3, <1>4, <2>1, <3>1 DEF EndsStand
    <3> QED
      BY <1>2, <1>3, <2>1, <3>1, <3>2
  <2>2. CASE channel[1][1] # j
    <3>1. heard'[j] = heard[j]
      BY <1>3, <2>2 DEF TypeOK
    <3>2. /\ Tells(j, heard[j])
          /\ \A k \in DOMAIN channel : channel[k][1] = j => Tells(j, channel[k][2])
      BY <1>4, <3>1 DEF EndsStand
    <3> QED
      BY <1>2, <3>1, <3>2
  <2> QED
    BY <2>1, <2>2
<1>5. ASSUME NEW j \in Jobs \ crossed, NEW i \in DOMAIN channel',
             channel'[i][1] = j, channel'[i][2] \in Ended,
             NEW k \in DOMAIN channel', k >= i, channel'[k][1] = j
      PROVE  Tells(j, channel'[k][2])
  <2>1. /\ i + 1 \in DOMAIN channel /\ channel[i + 1] = channel'[i]
        /\ k + 1 \in DOMAIN channel /\ channel[k + 1] = channel'[k]
        /\ k + 1 >= i + 1
    BY <1>2, <1>5
  <2>2. channel[i + 1][1] = j /\ channel[i + 1][2] \in Ended /\ channel[k + 1][1] = j
    BY <1>5, <2>1
  <2>3. Tells(j, channel[k + 1][2])
    BY <2>1, <2>2 DEF EndsStand
  <2> QED
    BY <2>1, <2>3
<1>6. \A j \in Jobs : \A t : WillTell(j, t) <=> Tells(j, t)
  BY <1>3 DEF Tells, WillTell
<1>7. \A j \in Jobs \ crossed' :
        /\ heard'[j] \in Ended =>
             /\ WillTell(j, heard'[j])
             /\ \A k \in DOMAIN channel' : channel'[k][1] = j => WillTell(j, channel'[k][2])
        /\ \A i \in DOMAIN channel' :
             channel'[i][1] = j /\ channel'[i][2] \in Ended =>
               \A k \in DOMAIN channel' :
                 k >= i /\ channel'[k][1] = j => WillTell(j, channel'[k][2])
  BY <1>3, <1>4, <1>5, <1>6
<1> QED
  BY <1>7 DEF EndsStand, Tells, WillTell, Ended

\* Every step leaves what is said of an end standing.
LEMMA StandsStep ==
  ASSUME TypeOK, AllFaithful, RefusalsAreFew, EndsStand, [Next]_vars
  PROVE  EndsStand'
<1>1. ASSUME UNCHANGED <<status, refused, heard, crossed>>,
             channel' = channel \/ channel' = <<>>
      PROVE  EndsStand'
  BY <1>1 DEF EndsStand, Tells, Ended
<1>2. ASSUME NEW c \in Coroutines, NEW j \in Jobs, NEW s \in Statuses, Says(c, j, s),
             status[j] \in TERMINAL_STATUSES /\ WriteAndReport(c, j, s) => s = status[j]
      PROVE  EndsStand'
  <2>1. /\ UNCHANGED <<aged, conn, todo, heard>> /\ crossed \subseteq crossed'
        /\ SendStatus(c, j, s) /\ WillTell(j, s)
        /\ \A i \in Jobs : i # j => status'[i] = status[i] /\ refused'[i] = refused[i]
        /\ (WriteAndReport(c, j, s) /\ s # status[j]) \/ \A t : Tells(j, t) => WillTell(j, t)
    BY <1>2, SaysFields
  <2>2. channel' = Append(channel, <<j, s>>) \/ channel' = channel
    BY <2>1, SendStatusChannel
  <2>3. ASSUME NEW i \in Jobs, status[i] \in TERMINAL_STATUSES, NEW t, Tells(i, t)
        PROVE  WillTell(i, t)
    <3>1. CASE i = j
      BY <1>2, <2>1, <2>3, <3>1
    <3>2. CASE i # j
      BY <2>1, <2>3, <3>2 DEF Tells, WillTell
    <3> QED
      BY <3>1, <3>2
  <2> QED
    BY <2>1, <2>2, <2>3, AppendStands
<1>3. CASE Speakers
  <2>1. CASE Silent
    BY <1>1, <2>1 DEF Silent
  <2> QED
    BY <1>2, <1>3, <2>1, Writers, NoJobAssumption
<1>4. CASE SendNext
  <2>1. PICK m \in todo : todo' = todo \ {m} /\ SendStatus("session", m[1], m[2])
    BY <1>4 DEF SendNext
  <2>2. /\ UNCHANGED <<status, refused, heard, crossed>>
        /\ Faithful(m) /\ m[1] \in Jobs /\ m[2] \in Statuses /\ "session" \in Coroutines
    BY <1>4, <2>1 DEF SendNext, rows, AllFaithful, TypeOK, Reports, Coroutines
  <2>3. channel' = Append(channel, <<m[1], m[2]>>) \/ channel' = channel
    BY <2>1, <2>2, SendStatusChannel
  <2>4. m[1] \in crossed' \/ WillTell(m[1], m[2])
    BY <2>2 DEF Faithful, Tells, WillTell
  <2>5. crossed \subseteq crossed'
    BY <2>2
  <2>6. \A i \in Jobs : status[i] \in TERMINAL_STATUSES => \A t : Tells(i, t) => WillTell(i, t)
    BY <2>2 DEF Tells, WillTell
  <2> QED
    BY <2>2, <2>3, <2>4, <2>5, <2>6, AppendStands
<1>5. CASE BeginFlush \/ BeginReceive \/ Disconnect \/ Connect \/ NoticeCut
  BY <1>1, <1>5 DEF BeginFlush, BeginReceive, Disconnect, Connect, NoticeCut, rows
<1>6. CASE Cut \/ Crash
  BY <1>1, <1>6 DEF Cut, Crash, rows
<1>7. ASSUME NEW c \in Coroutines, SendEnds(c)
      PROVE  EndsStand'
  BY <1>1, <1>7 DEF SendEnds, rows
<1>8. ASSUME NEW j \in Jobs, GrowOld(j)
      PROVE  EndsStand'
  BY <1>1, <1>8 DEF GrowOld, rows
<1>9. CASE UNCHANGED vars
  BY <1>1, <1>9 DEF vars, rows
<1> QED
  BY <1>3, <1>4, <1>5, <1>6, <1>7, <1>8, <1>9, DeliverStands
     DEF Next, SessionStep, Environment, Speakers

\* Once a job was said to have completed or failed, the backend hears nothing else of it
\* but the CANCELLED of a row that is cancelled or refused a late cancel, for any number
\* of jobs, lost connections and crashes, unless the row changed during a report.
THEOREM EndStaysLastWord == Spec => EndIsLastWord
<1> DEFINE Stays ==
      \A j \in Jobs \ crossed :
        heard[j] \in {"COMPLETED", "FAILED"} =>
          heard'[j] = heard[j] \/ (heard'[j] = "CANCELLED" /\ Tells(j, "CANCELLED"))
<1> DEFINE Inv == TypeOK /\ AllFaithful /\ Refusals /\ EndsStand
<1>1. ASSUME Inv, Deliver
      PROVE  Stays
  <2> SUFFICES ASSUME NEW j \in Jobs \ crossed, heard[j] \in {"COMPLETED", "FAILED"}
               PROVE  heard'[j] = heard[j]
                      \/ (heard'[j] = "CANCELLED" /\ Tells(j, "CANCELLED"))
    OBVIOUS
  <2>1. /\ heard' = [heard EXCEPT ![channel[1][1]] = channel[1][2]]
        /\ 1 \in DOMAIN channel /\ channel[1][2] \in Statuses
    BY <1>1, DeliverFields DEF TypeOK
  <2>2. heard[j] \in Ended /\ RefusalsAreFew
    BY <1>1 DEF Ended, Refusals
  <2>3. Tells(j, heard[j]) /\ (channel[1][1] = j => Tells(j, channel[1][2]))
    BY <1>1, <2>1, <2>2 DEF EndsStand
  <2>4. channel[1][1] = j => channel[1][2] = heard[j] \/ channel[1][2] = "CANCELLED"
    BY <2>1, <2>2, <2>3, ToldAfter
  <2>5. heard'[j] = IF channel[1][1] = j THEN channel[1][2] ELSE heard[j]
    BY <1>1, <2>1 DEF TypeOK
  <2> QED
    BY <2>3, <2>4, <2>5
<1>2. ASSUME TypeOK, [Next]_vars
      PROVE  Deliver \/ UNCHANGED heard
  <2>1. CASE Speakers
    <3>1. Silent \/ \E c \in Coroutines, j \in Jobs, s \in Statuses : Says(c, j, s)
      BY <1>2, <2>1, Writers, NoJobAssumption
    <3> QED
      BY <3>1 DEF Silent, Says, WriteAndReport, ReportRefused
  <2>2. CASE SessionStep \/ Disconnect \/ Connect \/ NoticeCut \/ \E c \in Coroutines : SendEnds(c)
    <3>1. CASE CancelReturns
      BY <2>1, <3>1 DEF Speakers
    <3> QED
      BY <2>2, <3>1
         DEF SessionStep, SendNext, BeginFlush, BeginReceive, Disconnect, Connect, NoticeCut,
             SendEnds
  <2>3. CASE Cut \/ Crash \/ \E j \in Jobs : GrowOld(j)
    BY <2>3 DEF Cut, Crash, GrowOld
  <2>4. CASE UNCHANGED vars
    BY <2>4 DEF vars
  <2> QED
    BY <1>2, <2>1, <2>2, <2>3, <2>4 DEF Next, Environment, Speakers
<1>3. Inv /\ [Next]_vars => [Stays]_heard
  BY <1>1, <1>2
<1>4. Init => Inv
  BY TypeInit, RefusalsInit, ReportingAssumption, NoJobAssumption
     DEF Init, Nothing, AllFaithful, Ready, EndsStand, NoRow, Ended
<1>5. Inv /\ [Next]_vars => Inv'
  BY TypeStep, FaithfulStep, RefusalsStep, StandsStep, ReportingAssumption, NoJobAssumption
     DEF Refusals
<1> HIDE DEF Inv
<1> QED
  BY <1>3, <1>4, <1>5, PTL DEF Spec, EndIsLastWord

=============================================================================
