--------------------------- MODULE JobOutcomeProofs ---------------------------
(***************************************************************************)
(* What JobManager says of a job and what became of it: the stored ids,    *)
(* the reports, the retries and the claim of COMPLETED, and that every     *)
(* step of the agent is a step of JobLifecycle.                            *)
(***************************************************************************)
EXTENDS JobManagerProofs

-----------------------------------------------------------------------------
(* What the worker may rely on.                                              *)

\* Between acceptance or adoption and the write of the id, and from then on.
Holding    == {"lpAccepted", "persistNew", "persistFound"}
Monitoring == {"markSubmitted", "adoptSubmitted", "poll", "observed", "completing", "markCompleted"}

\* The row of the worker's job exists and is READY while it is being submitted; the id
\* in its hands is of a job CUPS has, and is the stored one once it is monitored.
Grounded ==
  /\ w.pc # "idle" => status[w.job] # NoRow
  /\ w.pc \in Submitting => status[w.job] = "READY"
  /\ w.pc \in Holding => w.id \in Existing(w.job)
  /\ w.pc \in Monitoring => w.id # 0 /\ w.id = cupsId[w.job]

\* Statuses that claim something of a CUPS job.
Claims == {"SUBMITTED", "PRINTING", "COMPLETED"}

\* A step writes s into the row of j.
RowMove(j, s) ==
  /\ status' = [status EXCEPT ![j] = s]
  /\ \/ status[j] = NoRow /\ s = "RECEIVED"
     \/ TransitionOK(status[j], s) /\ (s \in Claims => cupsId[j] # 0)

\* One step moves one row at most.
RowsMove == status' = status \/ \E j \in Jobs, s \in Statuses : RowMove(j, s)

\* A step has s reported of j.
Report(j, s) ==
  /\ Due(j, s)
  /\ s = "FAILED" => status'[j] \in TERMINAL_STATUSES
  /\ s = "COMPLETED" => status'[j] = "COMPLETED"

\* One step has one job reported at most, makes the report that is due, or loses it.
ReportsMove ==
  \/ UNCHANGED said
  \/ \E j \in Jobs, s \in Statuses : Report(j, s)
  \/ Emit
  \/ Crash

\* FinalReportIsTrue of the report that is due.
DueReportIsTrue ==
  emit # NoReport =>
    /\ emit[2] = "FAILED" => status[emit[1]] \in TERMINAL_STATUSES
    /\ emit[2] = "COMPLETED" => status[emit[1]] = "COMPLETED"

Sound == TypeOK /\ Grounded /\ StoredIdIsReal /\ FinalReportIsTrue /\ DueReportIsTrue

-----------------------------------------------------------------------------
(* The rows and the reports, one step at a time.                             *)

\* The worker is typed, and so is what it holds.
LEMMA WorkerFacts ==
  ASSUME TypeOK
  PROVE  /\ w \in Workers /\ w.rec \in Records /\ w.id \in CupsIds \cup {0}
         /\ w.pc # "idle" => w.job \in Jobs
         /\ \A p \in PCs : Goto(p).pc = p /\ Goto(p).job = w.job /\ Goto(p).id = w.id
         /\ Idle.pc = "idle"
BY GotoFields, IdleFields DEF TypeOK, WorkerOK, Workers

\* _transition moves the row as it is asked to, or not at all, and reports alike.
LEMMA TransitionMoves ==
  ASSUME TypeOK, NEW j \in Jobs, NEW s \in Statuses \ {"FAILED"}, NEW next,
         Transition(j, s, next), s \in Claims => cupsId[j] # 0
  PROVE  RowsMove /\ ReportsMove
<1>1. CASE UNCHANGED <<status, said>>
  BY <1>1 DEF RowsMove, ReportsMove
<1>2. CASE /\ TransitionOK(status[j], s)
           /\ status' = [status EXCEPT ![j] = s]
           /\ Due(j, s)
  <2>1. RowMove(j, s)
    BY <1>2 DEF RowMove
  <2>2. Report(j, s)
    BY <1>2 DEF Report, TypeOK
  <2> QED
    BY <2>1, <2>2 DEF RowsMove, ReportsMove
<1> QED
  BY <1>1, <1>2 DEF Transition

\* So does the entry of the pipeline.
LEMMA PipelineMoves ==
  ASSUME TypeOK, NEW j \in Jobs, NEW r, NEW b \in BOOLEAN, Pipeline(j, r, b)
  PROVE  RowsMove /\ ReportsMove
<1>1. CASE UNCHANGED <<status, said>>
  BY <1>1 DEF RowsMove, ReportsMove
<1>2. CASE /\ TransitionOK(status[j], "DOWNLOADING")
           /\ status' = [status EXCEPT ![j] = "DOWNLOADING"]
           /\ Due(j, "DOWNLOADING")
  <2>1. "DOWNLOADING" \in Statuses \ Claims
    BY DEF Statuses, Claims
  <2>2. RowMove(j, "DOWNLOADING") /\ Report(j, "DOWNLOADING")
    BY <1>2, <2>1 DEF RowMove, Report
  <2> QED
    BY <2>1, <2>2 DEF RowsMove, ReportsMove
<1> QED
  BY <1>1, <1>2 DEF Pipeline

\* And the resumption of a job.
LEMMA ResumeMoves ==
  ASSUME TypeOK, NEW j \in Jobs, Resume(j)
  PROVE  RowsMove /\ ReportsMove
<1>1. CASE Pipeline(j, Record(j), FALSE) \/ Pipeline(j, Record(j), TRUE)
  BY <1>1, PipelineMoves
<1>2. CASE UNCHANGED <<durable, said>>
  BY <1>2 DEF RowsMove, ReportsMove, durable
<1> QED
  BY <1>1, <1>2 DEF Resume

\* A cancel moves the row only where the table lets it, but is reported in any case.
LEMMA RecordCancelMoves ==
  ASSUME TypeOK, NEW j \in Jobs, RecordCancel(j)
  PROVE  RowsMove /\ ReportsMove
<1>1. "CANCELLED" \in Statuses \ Claims
  BY DEF Statuses, Claims
<1>2. Report(j, "CANCELLED")
  BY DEF RecordCancel, Report
<1>3. status' = status \/ RowMove(j, "CANCELLED")
  BY <1>1 DEF RecordCancel, RowMove
<1> QED
  BY <1>1, <1>2, <1>3 DEF RowsMove, ReportsMove

\* Any row can fail, or is over.
LEMMA FailureIsOpen ==
  ASSUME NEW c \in Statuses
  PROVE  TransitionOK(c, "FAILED") \/ c \in TERMINAL_STATUSES
BY DEF Statuses, TERMINAL_STATUSES, TransitionOK, ALLOWED_TRANSITIONS, TransitionTable, NoRow

\* Every step moves one row at most, along the table and with an id for what it
\* claims, and reports a job as over only if it is.
LEMMA StepMoves ==
  ASSUME TypeOK, Grounded, [Next]_vars
  PROVE  RowsMove /\ ReportsMove
<1>0. /\ w.pc # "idle" => w.job \in Jobs /\ status[w.job] \in Statuses
      /\ w.rec \in Records
      /\ {"RECEIVED", "READY", "RETRY_WAITING", "SUBMITTED", "PRINTING", "COMPLETED", "FAILED"}
           \subseteq Statuses
  BY WorkerFacts DEF TypeOK, Grounded, Statuses
<1>1. CASE UNCHANGED <<status, said>>
  BY <1>1 DEF RowsMove, ReportsMove
<1>2. CASE TakeJob
  <2> DEFINE j == Head(queue)
  <2>1. j \in Jobs
    BY <1>2 DEF TakeJob, TypeOK
  <2>2. CASE /\ status[j] = NoRow
             /\ status' = [status EXCEPT ![j] = "RECEIVED"]
             /\ Due(j, "RECEIVED")
    <3>1. RowMove(j, "RECEIVED") /\ Report(j, "RECEIVED")
      BY <2>2 DEF RowMove, Report
    <3> QED
      BY <1>0, <2>1, <3>1 DEF RowsMove, ReportsMove
  <2>3. CASE /\ status[j] \in TERMINAL_STATUSES
             /\ Due(j, status[j])
             /\ UNCHANGED durable
    <3>1. status[j] \in Statuses
      BY <2>3 DEF TERMINAL_STATUSES, Statuses
    <3>2. Report(j, status[j]) /\ status' = status
      BY <2>3 DEF Report, durable
    <3> QED
      BY <2>1, <3>1, <3>2 DEF RowsMove, ReportsMove
  <2>4. CASE Resume(j)
    BY <2>1, <2>4, ResumeMoves
  <2> QED
    BY <1>2, <2>2, <2>3, <2>4 DEF TakeJob
<1>3. CASE BeginPipeline \/ (WakeUp /\ ~UNCHANGED <<durable, said>>)
  BY <1>0, <1>3, PipelineMoves DEF BeginPipeline, WakeUp
<1>4. CASE ScheduleRetry
  <2>1. w.job \in Jobs
    BY <1>0, <1>4 DEF ScheduleRetry
  <2>2. status' = status \/ RowMove(w.job, "RETRY_WAITING")
    BY <1>4 DEF ScheduleRetry, RowMove, Claims
  <2>3. UNCHANGED said \/ Report(w.job, "RETRY_WAITING")
    BY <1>4 DEF ScheduleRetry, Report
  <2> QED
    BY <1>0, <2>1, <2>2, <2>3 DEF RowsMove, ReportsMove
<1>5. CASE MarkFailed
  <2>1. w.job \in Jobs /\ status[w.job] \in Statuses
    BY <1>0, <1>5 DEF MarkFailed
  <2>2. status' = status \/ RowMove(w.job, "FAILED")
    BY <1>5 DEF MarkFailed, RowMove, Claims
  <2>3. status'[w.job] \in TERMINAL_STATUSES
    BY <1>5, <2>1, FailureIsOpen DEF MarkFailed, TypeOK, TERMINAL_STATUSES
  <2>4. Report(w.job, "FAILED")
    BY <1>5, <2>3 DEF MarkFailed, Report
  <2> QED
    BY <1>0, <2>1, <2>2, <2>4 DEF RowsMove, ReportsMove
<1>6. CASE MarkReady
  <2>1. "READY" \in Statuses \ {"FAILED"} /\ "READY" \notin Claims
    BY <1>0 DEF Claims
  <2> QED
    BY <1>0, <1>6, <2>1, TransitionMoves DEF MarkReady
<1>7. CASE MarkSubmitted \/ (AdoptSubmitted /\ status[w.job] = "READY")
           \/ HandlePrintingPoll \/ MarkCompleted
  <2>1. w.pc \in Monitoring
    BY <1>7 DEF MarkSubmitted, AdoptSubmitted, HandlePrintingPoll, MarkCompleted, Monitoring
  <2>2. w.job \in Jobs /\ cupsId[w.job] # 0
    BY <1>0, <2>1 DEF Grounded, Monitoring
  <2>3. Claims \subseteq Statuses \ {"FAILED"}
    BY <1>0 DEF Claims
  <2>4. \/ UNCHANGED <<status, said>>
        \/ \E s \in Claims : \E next : Transition(w.job, s, next)
    BY <1>7 DEF MarkSubmitted, AdoptSubmitted, HandlePrintingPoll, MarkCompleted, Claims
  <2> QED
    BY <1>1, <2>2, <2>3, <2>4, TransitionMoves
<1>8. ASSUME NEW j \in Jobs, RecoverNext(j)
      PROVE  RowsMove /\ ReportsMove
  BY <1>8, ResumeMoves DEF RecoverNext
<1>9. ASSUME NEW j \in Jobs, RecordCancel(j)
      PROVE  RowsMove /\ ReportsMove
  BY <1>9, RecordCancelMoves
<1>10. ASSUME WorkerStep PROVE RowsMove /\ ReportsMove
  <2>1. CASE \/ DownloadSucceeds \/ RecordPath \/ DownloadFails \/ CountAttempt \/ AfterSchedule
             \/ FailMovesFile \/ LookupReady \/ StartSubmit \/ LpFails \/ LpReturnsId \/ LpTimesOut
             \/ LookupAfterTimeout \/ PersistId \/ Observe(TRUE) \/ Observe(FALSE)
             \/ HandleQuietPoll \/ HandleFailedPoll \/ HandleCompletedPoll \/ GateOpens \/ ArchiveFile
    <3>1. UNCHANGED <<status, said>>
      BY <2>1 DEF DownloadSucceeds, RecordPath, DownloadFails, CountAttempt, AfterSchedule,
         FailMovesFile, LookupReady, StartSubmit, LpFails, LpReturnsId, LpTimesOut,
         LookupAfterTimeout, PersistId, Observe, HandleQuietPoll, HandleFailedPoll,
         HandleCompletedPoll, GateOpens, ArchiveFile, durable, row
    <3> QED
      BY <1>1, <3>1
  <2>2. CASE AdoptSubmitted /\ status[w.job] # "READY"
    BY <1>1, <2>2 DEF AdoptSubmitted
  <2>3. CASE WakeUp /\ UNCHANGED <<durable, said>>
    BY <1>1, <2>3 DEF durable
  <2> QED
    BY <1>2, <1>3, <1>4, <1>5, <1>6, <1>7, <1>10, <2>1, <2>2, <2>3 DEF WorkerStep
<1>11. CASE Restart \/ RecoveryDone \/ CupsStep \/ \E j \in Jobs : Assign(j)
  <2>1. UNCHANGED <<status, said>>
    BY <1>11 DEF Restart, RecoveryDone, CupsStep, CupsAccepts, CupsPrints, CupsCompletes,
       CupsAborts, CupsCancels, CupsMoves, Assign, durable
  <2> QED
    BY <1>1, <2>1
<1>12. CASE CancelReturns
  <2>1. cancelling \in Jobs /\ RecordCancel(cancelling)
    BY <1>12 DEF CancelReturns, TypeOK
  <2> QED
    BY <1>9, <2>1
<1>13. ASSUME NEW j \in Jobs, Cancel(j)
       PROVE  RowsMove /\ ReportsMove
  <2>1. RecordCancel(j) \/ UNCHANGED <<status, said>>
    BY <1>13 DEF Cancel
  <2> QED
    BY <1>1, <1>9, <2>1
<1>14. CASE UNCHANGED vars
  BY <1>1, <1>14 DEF vars, durable
<1>15. CASE Emit \/ Crash
  BY <1>15 DEF RowsMove, ReportsMove, Emit, Crash, durable
<1> QED
  BY <1>8, <1>10, <1>11, <1>12, <1>13, <1>14, <1>15 DEF Next, ProcessStep, BackendStep

-----------------------------------------------------------------------------
(* The worker stays on firm ground.                                          *)

\* What an end is, stays.
LEMMA TerminalStays ==
  ASSUME NEW c \in TERMINAL_STATUSES, NEW s, TransitionOK(c, s)
  PROVE  s = c
BY DEF TERMINAL_STATUSES, TransitionOK, ALLOWED_TRANSITIONS, TransitionTable

\* No row disappears, and no end is undone.
LEMMA RowsStand ==
  ASSUME TypeOK, RowsMove, NEW j \in Jobs
  PROVE  /\ status[j] # NoRow => status'[j] # NoRow
         /\ status[j] \in TERMINAL_STATUSES => status'[j] = status[j]
         /\ status'[j] \in Claims => status[j] \in Claims \/ cupsId[j] # 0
<1>1. CASE status' = status
  BY <1>1
<1>2. ASSUME NEW i \in Jobs, NEW s \in Statuses, RowMove(i, s)
      PROVE  /\ status[j] # NoRow => status'[j] # NoRow
             /\ status[j] \in TERMINAL_STATUSES => status'[j] = status[j]
             /\ status'[j] \in Claims => status[j] \in Claims \/ cupsId[j] # 0
  <2>1. status'[j] = IF i = j THEN s ELSE status[j]
    BY <1>2 DEF RowMove, TypeOK
  <2>2. CASE i # j
    BY <2>1, <2>2
  <2>3. CASE i = j
    <3>1. s # NoRow
      BY DEF Statuses, NoRow
    <3>2. status[j] \in TERMINAL_STATUSES => s = status[j]
      BY <1>2, <2>3, TerminalStays DEF RowMove, TERMINAL_STATUSES, NoRow
    <3>3. s \in Claims => cupsId[j] # 0
      BY <1>2, <2>3 DEF RowMove, Claims
    <3> QED
      BY <2>1, <2>3, <3>1, <3>2, <3>3
  <2> QED
    BY <2>2, <2>3
<1> QED
  BY <1>1, <1>2 DEF RowsMove

\* The worker keeps what it relies on if it stays with its job and its id and moves on
\* to a place that relies on no more, and no other row is touched.
LEMMA MoveGrounded ==
  ASSUME Grounded, UNCHANGED <<status, cupsId, cups>>,
         \/ w'.pc = "idle"
         \/ /\ w.pc # "idle" /\ w'.job = w.job
            /\ w'.pc \in Submitting => w.pc \in Submitting
            /\ w'.pc \in Holding => w'.id \in Existing(w.job)
            /\ w'.pc \in Monitoring => w'.id = w.id /\ w.pc \in Monitoring
  PROVE  Grounded'
<1>1. \A j : Existing(j)' = Existing(j)
  BY DEF Existing
<1> QED
  BY <1>1 DEF Grounded, Submitting, Holding, Monitoring

\* A place that relies on nothing but the row.
LEMMA FreeGrounded ==
  ASSUME w'.pc \notin Submitting \cup Holding \cup Monitoring,
         w'.pc # "idle" => status'[w'.job] # NoRow
  PROVE  Grounded'
BY DEF Grounded

\* An exception takes the worker to _fail_job or to idle.
LEMMA RaiseGrounded ==
  ASSUME TypeOK, w.pc # "idle", status'[w.job] # NoRow, Raise
  PROVE  Grounded'
<1>1. w' = Goto("fail") \/ w' = Idle
  BY DEF Raise, Die
<1>2. w'.pc = "idle" \/ (w'.pc = "fail" /\ w'.job = w.job)
  BY <1>1, WorkerFacts DEF PCs, RunToCompletion
<1> QED
  BY <1>2, FreeGrounded DEF Submitting, Holding, Monitoring

\* _transition, on the way to a place that relies on the row it has written or on the
\* id the worker holds already.
LEMMA TransitionGrounded ==
  ASSUME TypeOK, Grounded, w.pc # "idle", NEW s \in Statuses, NEW next,
         Transition(w.job, s, next), UNCHANGED <<cupsId, cups>>,
         \/ next = Idle
         \/ next.pc = "submit" /\ next.job = w.job /\ s = "READY"
         \/ next.pc = "poll" /\ next.job = w.job /\ next.id = w.id /\ w.pc \in Monitoring
  PROVE  Grounded'
<1>0. w.job \in Jobs /\ s # NoRow /\ Idle.pc = "idle"
  BY WorkerFacts DEF Statuses, NoRow
<1>1. CASE Raise /\ UNCHANGED status
  BY <1>1, RaiseGrounded DEF Grounded
<1>2. CASE w' = next /\ status' = [status EXCEPT ![w.job] = s]
  <2>1. status'[w.job] = s
    BY <1>0, <1>2 DEF TypeOK
  <2> QED
    BY <1>0, <1>2, <2>1 DEF Grounded, Submitting, Holding, Monitoring
<1> QED
  BY <1>1, <1>2 DEF Transition

\* The entry of the pipeline of a job that has a row.
LEMMA PipelineGrounded ==
  ASSUME TypeOK, NEW j \in Jobs, NEW r, NEW b \in BOOLEAN, Pipeline(j, r, b), status[j] # NoRow
  PROVE  Grounded'
<1>1. w'.pc \in {"downloading", "fail"} /\ w'.job = j
  BY DEF Pipeline, At
<1>2. status'[j] # NoRow
  BY DEF Pipeline, TypeOK, NoRow
<1> QED
  BY <1>1, <1>2, FreeGrounded DEF Submitting, Holding, Monitoring

\* The resumption of a job: the id it goes on with is the stored one.
LEMMA ResumeGrounded ==
  ASSUME TypeOK, NEW j \in Jobs, Resume(j), UNCHANGED cups
  PROVE  Grounded'
<1>1. CASE \/ status[j] = "RECEIVED" /\ Pipeline(j, Record(j), FALSE)
           \/ status[j] = "DOWNLOADING" /\ Pipeline(j, Record(j), TRUE)
  BY <1>1, PipelineGrounded DEF NoRow
<1>2. CASE /\ UNCHANGED <<durable, said>> /\ status[j] # NoRow
           /\ w' \in {At("fail", j, FALSE, NoRecord, 0), At("fail", j, FALSE, NoRecord, cupsId[j]),
                      At("sleep", j, FALSE, Record(j), 0)}
  <2>1. w'.pc \in {"fail", "sleep"} /\ w'.job = j
    BY <1>2 DEF At
  <2> QED
    BY <1>2, <2>1, FreeGrounded DEF Submitting, Holding, Monitoring, durable
<1>3. CASE /\ UNCHANGED <<durable, said>> /\ status[j] = "READY"
           /\ w' = At("lookup", j, FALSE, NoRecord, 0)
  <2>1. w'.pc = "lookup" /\ w'.job = j
    BY <1>3 DEF At
  <2> QED
    BY <1>3, <2>1 DEF Grounded, Submitting, Holding, Monitoring, durable, NoRow
<1>4. CASE /\ UNCHANGED <<durable, said>> /\ status[j] # NoRow /\ cupsId[j] # 0
           /\ w' \in {At("adoptSubmitted", j, FALSE, NoRecord, cupsId[j]),
                      At("poll", j, FALSE, NoRecord, cupsId[j])}
  <2>1. w'.pc \in {"adoptSubmitted", "poll"} /\ w'.job = j /\ w'.id = cupsId[j]
    BY <1>4 DEF At
  <2> QED
    BY <1>4, <2>1 DEF Grounded, Submitting, Holding, Monitoring, durable
<1> QED
  BY <1>1, <1>2, <1>3, <1>4 DEF Resume, NoRow

\* The steps of the worker keep it on firm ground.
LEMMA WorkerStepGrounded ==
  ASSUME TypeOK, Grounded, StoredIdIsReal, RowsMove, WorkerStep
  PROVE  Grounded'
<1>0. /\ w \in Workers
      /\ w.pc # "idle" => w.job \in Jobs /\ status[w.job] # NoRow
      /\ \A p \in PCs : Goto(p).pc = p /\ Goto(p).job = w.job /\ Goto(p).id = w.id
      /\ Idle.pc = "idle"
  BY WorkerFacts DEF Grounded
<1>1. CASE TakeJob
  <2> DEFINE j == Head(queue)
  <2>1. j \in Jobs /\ UNCHANGED cups
    BY <1>1 DEF TakeJob, TypeOK
  <2>2. CASE status' = [status EXCEPT ![j] = "RECEIVED"] /\ w'.pc = "begin" /\ w'.job = j
    <3>1. status'[j] # NoRow
      BY <2>1, <2>2 DEF TypeOK, NoRow
    <3> QED
      BY <2>2, <3>1, FreeGrounded DEF Submitting, Holding, Monitoring
  <2>3. CASE UNCHANGED <<durable, w>>
    BY <1>1, <2>1, <2>3, MoveGrounded DEF TakeJob, durable
  <2>4. CASE Resume(j)
    BY <2>1, <2>4, ResumeGrounded
  <2> QED
    BY <1>1, <2>2, <2>3, <2>4 DEF TakeJob, At
<1>2. CASE BeginPipeline
  BY <1>0, <1>2, PipelineGrounded DEF BeginPipeline
<1>3. CASE DownloadSucceeds \/ RecordPath \/ DownloadFails \/ CountAttempt \/ FailMovesFile
  <2>1. /\ w.pc # "idle" /\ w'.job = w.job /\ UNCHANGED status
        /\ w'.pc \in {"recordPath", "markReady", "preSubmit", "fail", "schedule", "markFailed"}
    BY <1>0, <1>3 DEF DownloadSucceeds, RecordPath, DownloadFails, CountAttempt, FailMovesFile,
                      PCs, RunToCompletion, row, durable
  <2> QED
    BY <1>0, <2>1, FreeGrounded DEF Submitting, Holding, Monitoring
<1>4. CASE MarkReady
  <2>1. Goto("submit").pc = "submit" /\ Goto("submit").job = w.job /\ "READY" \in Statuses
    BY <1>0 DEF PCs, AwaitPoints, Statuses
  <2> QED
    BY <1>4, <2>1, TransitionGrounded DEF MarkReady
<1>5. CASE ScheduleRetry \/ MarkFailed
  <2>1. w.pc # "idle" /\ (w'.pc = "idle" \/ (w'.pc \in {"fail", "scheduled"} /\ w'.job = w.job))
    BY <1>0, <1>5 DEF ScheduleRetry, MarkFailed, PCs, RunToCompletion, AwaitPoints
  <2>2. status'[w.job] # NoRow
    BY <1>0, <2>1, RowsStand
  <2> QED
    BY <2>1, <2>2, FreeGrounded DEF Submitting, Holding, Monitoring
<1>6. CASE AfterSchedule
  <2>1. /\ w.pc # "idle" /\ UNCHANGED status
        /\ w'.pc = "idle" \/ (w'.pc \in {"fail", "sleep"} /\ w'.job = w.job)
    BY <1>0, <1>6 DEF AfterSchedule, PCs, RunToCompletion, Workers, durable
  <2> QED
    BY <1>0, <2>1, FreeGrounded DEF Submitting, Holding, Monitoring
<1>7. CASE WakeUp
  <2>1. CASE w' = Goto("fail") /\ UNCHANGED durable
    <3>1. w.pc # "idle" /\ w'.pc = "fail" /\ w'.job = w.job /\ UNCHANGED status
      BY <1>0, <1>7, <2>1 DEF WakeUp, PCs, RunToCompletion, durable
    <3> QED
      BY <1>0, <3>1, FreeGrounded DEF Submitting, Holding, Monitoring
  <2>2. CASE Pipeline(w.job, w.rec, FALSE)
    BY <1>0, <1>7, <2>2, PipelineGrounded DEF WakeUp
  <2> QED
    BY <1>7, <2>1, <2>2 DEF WakeUp
<1>8. CASE LookupReady \/ LookupAfterTimeout
  <2>1. /\ w.pc \in {"lookup", "lpLookup"} /\ w.pc \in Submitting /\ w.pc # "idle"
        /\ UNCHANGED <<status, cupsId, cups>>
    BY <1>8 DEF LookupReady, LookupAfterTimeout, Submitting, durable
  <2>2. CASE Raise
    BY <1>0, <2>1, <2>2, RaiseGrounded
  <2>3. CASE w' \in {Goto("fail"), Goto("submit")}
    <3>1. w'.pc \in {"fail", "submit"} /\ w'.job = w.job
      BY <1>0, <2>3 DEF PCs, RunToCompletion, AwaitPoints
    <3> QED
      BY <2>1, <3>1, MoveGrounded DEF Submitting, Holding, Monitoring
  <2>4. ASSUME NEW i \in Existing(w.job),
               w' \in {[w EXCEPT !.pc = "persistFound", !.id = i], [w EXCEPT !.pc = "persistNew", !.id = i]}
        PROVE  Grounded'
    <3>1. w'.pc \in {"persistFound", "persistNew"} /\ w'.job = w.job /\ w'.id = i
      BY <1>0, <2>4 DEF Workers
    <3> QED
      BY <2>1, <3>1, MoveGrounded DEF Submitting, Holding, Monitoring
  <2>5. \A m \in Seen(w.job) : m \subseteq Existing(w.job)
    BY DEF Seen
  <2> QED
    BY <1>8, <2>2, <2>3, <2>4, <2>5 DEF LookupReady, LookupAfterTimeout
<1>9. CASE StartSubmit
  <2>1. /\ w.pc = "submit" /\ w.pc \in Submitting /\ w.pc # "idle"
        /\ UNCHANGED <<status, cupsId, cups>>
    BY <1>9 DEF StartSubmit, Submitting, durable
  <2>2. CASE Raise
    BY <1>0, <2>1, <2>2, RaiseGrounded
  <2>3. CASE w' \in {Goto("fail"), Goto("lp"), Goto("preSubmit")}
    <3>1. w'.pc \in {"fail", "lp", "preSubmit"} /\ w'.job = w.job
      BY <1>0, <2>3 DEF PCs, RunToCompletion, AwaitPoints
    <3> QED
      BY <2>1, <3>1, MoveGrounded DEF Submitting, Holding, Monitoring
  <2> QED
    BY <1>9, <2>2, <2>3 DEF StartSubmit
<1>10. CASE LpFails \/ LpReturnsId \/ LpTimesOut
  <2>1. /\ w.pc \in {"lp", "lpAccepted"} /\ UNCHANGED <<status, cupsId, cups>> /\ w'.job = w.job
        /\ w'.pc \in {"fail", "persistNew", "lpLookup"}
        /\ w'.pc = "persistNew" => w'.id = w.id /\ w.pc = "lpAccepted"
    <3>1. CASE LpFails \/ LpTimesOut
      BY <1>0, <3>1 DEF LpFails, LpTimesOut, Workers, durable
    <3>2. CASE LpReturnsId
      BY <1>0, <3>2 DEF LpReturnsId, PCs, RunToCompletion, durable
    <3> QED
      BY <1>10, <3>1, <3>2
  <2> QED
    BY <2>1, MoveGrounded DEF Grounded, Submitting, Holding, Monitoring
<1>11. CASE PersistId
  <2>1. /\ w.pc \in {"persistNew", "persistFound"} /\ cupsId' = [cupsId EXCEPT ![w.job] = w.id]
        /\ w'.pc \in {"markSubmitted", "adoptSubmitted"} /\ w'.job = w.job /\ w'.id = w.id
        /\ UNCHANGED status
    BY <1>0, <1>11 DEF PersistId, PCs, RunToCompletion
  <2>2. w.id # 0 /\ cupsId'[w.job] = w.id
    BY <1>0, <2>1 DEF TypeOK, WorkerOK
  <2> QED
    BY <1>0, <2>1, <2>2 DEF Grounded, Submitting, Holding, Monitoring
<1>12. CASE MarkSubmitted \/ AdoptSubmitted \/ HandlePrintingPoll
  <2>1. /\ w.pc \in Monitoring /\ w.pc # "idle" /\ UNCHANGED <<cupsId, cups>>
        /\ {"SUBMITTED", "PRINTING"} \subseteq Statuses
    BY <1>12 DEF MarkSubmitted, AdoptSubmitted, HandlePrintingPoll, Monitoring, Statuses
  <2>2. /\ Goto("poll").pc = "poll" /\ Goto("poll").job = w.job /\ Goto("poll").id = w.id
        /\ Handled("poll").pc = "poll" /\ Handled("poll").job = w.job /\ Handled("poll").id = w.id
    BY <1>0 DEF Handled, Workers, PCs, AwaitPoints
  <2>3. ASSUME NEW next \in {Goto("poll"), Handled("poll")}, NEW s \in {"SUBMITTED", "PRINTING"},
               Transition(w.job, s, next)
        PROVE  Grounded'
    BY <2>1, <2>2, <2>3, TransitionGrounded
  <2>4. CASE w' \in {Goto("poll"), Handled("poll")} /\ UNCHANGED status
    BY <2>1, <2>2, <2>4, MoveGrounded DEF Submitting, Holding, Monitoring
  <2> QED
    BY <1>12, <2>3, <2>4 DEF MarkSubmitted, AdoptSubmitted, HandlePrintingPoll
<1>13. CASE \/ Observe(TRUE) \/ Observe(FALSE) \/ HandleQuietPoll \/ HandleFailedPoll
            \/ HandleCompletedPoll \/ GateOpens \/ ArchiveFile
  <2>1. /\ w.pc \in Monitoring /\ w.pc # "idle" /\ UNCHANGED <<status, cupsId, cups>>
        /\ \/ w'.pc = "idle"
           \/ /\ w'.pc \in {"observed", "poll", "fail", "completing", "markCompleted"}
              /\ w'.job = w.job /\ w'.id = w.id
    <3>1. \A p \in PCs : Handled(p).pc = p /\ Handled(p).job = w.job /\ Handled(p).id = w.id
      BY <1>0 DEF Handled, Workers
    <3>2. CASE Observe(TRUE) \/ Observe(FALSE)
      BY <1>0, <3>2 DEF Observe, Workers, Monitoring, durable
    <3>3. CASE HandleQuietPoll \/ HandleFailedPoll \/ HandleCompletedPoll \/ GateOpens
      BY <1>0, <3>1, <3>3 DEF HandleQuietPoll, HandleFailedPoll, HandleCompletedPoll, GateOpens,
         PCs, RunToCompletion, AwaitPoints, Monitoring, durable
    <3>4. CASE ArchiveFile
      BY <1>0, <3>4 DEF ArchiveFile, PCs, RunToCompletion, Monitoring, row
    <3> QED
      BY <1>13, <3>2, <3>3, <3>4
  <2> QED
    BY <2>1, MoveGrounded DEF Submitting, Holding, Monitoring
<1>14. CASE MarkCompleted
  <2>1. w.pc # "idle" /\ "COMPLETED" \in Statuses
    BY <1>14 DEF MarkCompleted, Statuses
  <2> QED
    BY <1>14, <2>1, TransitionGrounded DEF MarkCompleted
<1> QED
  BY <1>1, <1>2, <1>3, <1>4, <1>5, <1>6, <1>7, <1>8, <1>9, <1>10, <1>11, <1>12, <1>13, <1>14
     DEF WorkerStep

\* A death leaves the worker idle, a resumed job brings its own ground, and a cancel
\* cannot move a row that is READY.
LEMMA OtherStepGrounded ==
  ASSUME TypeOK, Grounded, RowsMove, ProcessStep \/ BackendStep
  PROVE  Grounded'
<1>0. /\ w.pc # "idle" => w.job \in Jobs /\ status[w.job] # NoRow
      /\ Idle.pc = "idle"
  BY WorkerFacts DEF Grounded
<1>1. CASE Restart \/ RecoveryDone \/ Crash \/ \E j \in Jobs : Assign(j)
  <2>1. UNCHANGED <<status, cupsId, cups>> /\ (w' = w \/ w'.pc = "idle")
    BY <1>0, <1>1 DEF Restart, RecoveryDone, Crash, Die, Assign, durable
  <2> QED
    BY <2>1, MoveGrounded DEF Grounded
<1>2. ASSUME NEW j \in Jobs, RecoverNext(j)
      PROVE  Grounded'
  BY <1>2, ResumeGrounded DEF RecoverNext
<1>3. ASSUME NEW j \in Jobs, Cancel(j) \/ (CancelReturns /\ j = cancelling)
      PROVE  Grounded'
  <2>1. /\ UNCHANGED <<cupsId, cups, w>>
        /\ \/ status' = status
           \/ /\ status' = [status EXCEPT ![j] = "CANCELLED"]
              /\ TransitionOK(status[j], "CANCELLED")
    BY <1>3 DEF Cancel, CancelReturns, RecordCancel
  <2>2. \A k \in Jobs : status[k] = "READY" => status'[k] = "READY"
    BY <2>1, ReadyRefuses DEF TypeOK
  <2>3. w.pc # "idle" => status'[w.job] # NoRow
    BY <1>0, RowsStand
  <2>4. w.pc \in Submitting => status'[w.job] = "READY"
    BY <1>0, <2>2 DEF Grounded, Submitting
  <2> QED
    BY <2>1, <2>3, <2>4 DEF Grounded, Existing
<1>4. CancelReturns => cancelling \in Jobs
  BY DEF CancelReturns, TypeOK
<1> QED
  BY <1>1, <1>2, <1>3, <1>4 DEF ProcessStep, BackendStep

\* CUPS never forgets a job it has, and what it creates is what lp asked for.
LEMMA ExistingGrows ==
  ASSUME TypeOK, [Next]_vars, NEW j \in Jobs
  PROVE  Existing(j) \subseteq Existing(j)'
<1>1. CASE UNCHANGED cups
  BY <1>1 DEF Existing
<1>2. ASSUME NEW i \in CupsIds, CupsAccepts(i)
      PROVE  Existing(j) \subseteq Existing(j)'
  BY <1>2, WorkerFacts DEF CupsAccepts, Existing, TypeOK
<1>3. ASSUME NEW k \in Jobs, NEW i \in CupsIds, NEW from,
             NEW to \in CupsStates \ {"none"}, CupsMoves(k, i, from, to)
      PROVE  Existing(j) \subseteq Existing(j)'
  BY <1>3 DEF CupsMoves, Existing, TypeOK
<1>4. {"printing", "completed", "aborted", "canceled"} \subseteq CupsStates \ {"none"}
  BY DEF CupsStates, CupsActive, CupsEnded
<1>5. CASE CupsStep
  BY <1>2, <1>3, <1>4, <1>5 DEF CupsStep, CupsPrints, CupsCompletes, CupsAborts, CupsCancels
<1>6. CASE ProcessStep \/ BackendStep \/ Emit \/ UNCHANGED vars
  BY <1>1, <1>6 DEF ProcessStep, BackendStep, Emit, Restart, RecoveryDone, Crash, RecoverNext, Assign,
     Cancel, CancelReturns, vars
<1>7. CASE WorkerStep
  BY <1>1, <1>7 DEF WorkerStep, TakeJob, BeginPipeline, DownloadSucceeds, RecordPath, MarkReady,
     DownloadFails, CountAttempt, ScheduleRetry, AfterSchedule, WakeUp, FailMovesFile, MarkFailed,
     LookupReady, StartSubmit, LpFails, LpReturnsId, LpTimesOut, LookupAfterTimeout, PersistId,
     MarkSubmitted, AdoptSubmitted, Observe, HandleQuietPoll, HandleFailedPoll, HandlePrintingPoll,
     HandleCompletedPoll, GateOpens, ArchiveFile, MarkCompleted
<1> QED
  BY <1>5, <1>6, <1>7 DEF Next

\* CUPS itself takes no ground away.
LEMMA CupsStepGrounded ==
  ASSUME TypeOK, Grounded, CupsStep
  PROVE  Grounded'
<1>0. w \in Workers /\ (w.pc # "idle" => w.job \in Jobs)
  BY WorkerFacts
<1>1. \A j \in Jobs : Existing(j) \subseteq Existing(j)'
  BY ExistingGrows DEF Next
<1>2. UNCHANGED <<status, cupsId>>
  BY DEF CupsStep, CupsAccepts, CupsPrints, CupsCompletes, CupsAborts, CupsCancels, CupsMoves, durable
<1>3. ASSUME NEW i \in CupsIds, CupsAccepts(i)
      PROVE  Grounded'
  <2>1. w.pc = "lp" /\ w'.pc = "lpAccepted" /\ w'.job = w.job /\ w'.id = i
    BY <1>0, <1>3 DEF CupsAccepts, Workers
  <2>2. i \in Existing(w.job)'
    BY <1>0, <1>3 DEF CupsAccepts, Existing, TypeOK
  <2> QED
    BY <1>2, <2>1, <2>2 DEF Grounded, Submitting, Holding, Monitoring
<1>4. CASE UNCHANGED w
  BY <1>0, <1>1, <1>2, <1>4 DEF Grounded, Holding
<1> QED
  BY <1>3, <1>4 DEF CupsStep, CupsPrints, CupsCompletes, CupsAborts, CupsCancels, CupsMoves

\* Only update_cups_job_id changes a stored id.
LEMMA OnlyPersist ==
  ASSUME [Next]_vars
  PROVE  UNCHANGED cupsId \/ PersistId
BY DEF Next, WorkerStep, ProcessStep, BackendStep, CupsStep, Emit, Restart, RecoveryDone, Crash,
   RecoverNext, Resume, Pipeline, Assign, Cancel, CancelReturns, CupsAccepts, CupsPrints,
   CupsCompletes, CupsAborts, CupsCancels, CupsMoves, TakeJob, BeginPipeline, DownloadSucceeds,
   RecordPath, MarkReady, DownloadFails, CountAttempt, ScheduleRetry, AfterSchedule, WakeUp,
   FailMovesFile, MarkFailed, LookupReady, StartSubmit, LpFails, LpReturnsId, LpTimesOut,
   LookupAfterTimeout, MarkSubmitted, AdoptSubmitted, Observe, HandleQuietPoll,
   HandleFailedPoll, HandlePrintingPoll, HandleCompletedPoll, GateOpens, ArchiveFile,
   MarkCompleted, vars, durable, row

\* A stored id stays the id of a job CUPS has, and a row that claims one has one.
LEMMA StoredIdKept ==
  ASSUME TypeOK, Grounded, StoredIdIsReal, RowsMove, [Next]_vars
  PROVE  StoredIdIsReal'
<1>1. UNCHANGED cupsId \/ PersistId
  BY OnlyPersist
<1>2. ASSUME NEW j \in Jobs
      PROVE  /\ cupsId'[j] # 0 => cupsId'[j] \in Existing(j)
             /\ cupsId[j] # 0 => cupsId'[j] # 0
  <2>1. CASE UNCHANGED cupsId
    BY <2>1 DEF StoredIdIsReal
  <2>2. CASE PersistId
    <3>1. /\ w.job \in Jobs /\ w.id \in Existing(w.job) /\ w.id # 0
          /\ cupsId' = [cupsId EXCEPT ![w.job] = w.id]
      BY <2>2, WorkerFacts DEF PersistId, Grounded, Holding, TypeOK, WorkerOK
    <3> QED
      BY <3>1 DEF StoredIdIsReal, TypeOK
  <2> QED
    BY <1>1, <2>1, <2>2
<1>3. ASSUME NEW j \in Jobs
      PROVE  /\ cupsId'[j] # 0 => cupsId'[j] \in Existing(j)'
             /\ status'[j] \in Claims => cupsId'[j] # 0
  BY <1>2, RowsStand, ExistingGrows DEF StoredIdIsReal, Claims
<1> QED
  BY <1>3 DEF StoredIdIsReal, Claims

\* A report of an end is true when it becomes due and when it is made, and an end stays.
LEMMA FinalReportKept ==
  ASSUME TypeOK, FinalReportIsTrue, DueReportIsTrue, RowsMove, ReportsMove
  PROVE  FinalReportIsTrue' /\ DueReportIsTrue'
<1>1. \A j \in Jobs :
        /\ status[j] = "COMPLETED" => status'[j] = "COMPLETED"
        /\ status[j] \in TERMINAL_STATUSES => status'[j] \in TERMINAL_STATUSES
  BY RowsStand DEF TERMINAL_STATUSES
<1>2. emit # NoReport => emit[1] \in Jobs
  BY DEF TypeOK, Reports
<1>3. CASE UNCHANGED reported
  <2>1. FinalReportIsTrue'
    BY <1>1, <1>3 DEF FinalReportIsTrue, TERMINAL_STATUSES
  <2>2. ASSUME UNCHANGED said
        PROVE  DueReportIsTrue'
    BY <1>1, <1>2, <2>2 DEF said, DueReportIsTrue, NoReport, TERMINAL_STATUSES
  <2>3. ASSUME emit' = NoReport
        PROVE  DueReportIsTrue'
    BY <2>3 DEF DueReportIsTrue, NoReport
  <2>4. ASSUME NEW j \in Jobs, NEW s \in Statuses, Report(j, s)
        PROVE  DueReportIsTrue'
    BY <2>4 DEF Report, Due, DueReportIsTrue
  <2> QED
    BY <2>1, <2>2, <2>3, <2>4 DEF ReportsMove, Emit, Crash
<1>4. CASE Emit
  <2>1. emit' = NoReport /\ emit[1] \in Jobs /\ UNCHANGED status
        /\ reported' = [reported EXCEPT ![emit[1]] = emit[2]]
    BY <1>2, <1>4 DEF Emit, durable
  <2>2. DueReportIsTrue'
    BY <2>1 DEF DueReportIsTrue
  <2>3. FinalReportIsTrue'
    BY <1>4, <2>1 DEF FinalReportIsTrue, DueReportIsTrue, TypeOK, Emit
  <2> QED
    BY <2>2, <2>3
<1> QED
  BY <1>3, <1>4 DEF ReportsMove, said, Report, Due, Crash

\* The inductive invariant.
LEMMA SoundAlways == Spec => []Sound
<1>1. Init => Grounded /\ StoredIdIsReal /\ FinalReportIsTrue /\ DueReportIsTrue
  <2> SUFFICES ASSUME Init PROVE Grounded /\ StoredIdIsReal /\ FinalReportIsTrue /\ DueReportIsTrue
    OBVIOUS
  <2>1. w.pc = "idle" /\ emit = NoReport
    BY IdleFields DEF Init
  <2>2. \A j \in Jobs : cupsId[j] = 0 /\ status[j] = NoRow /\ reported[j] = NoRow
    BY DEF Init
  <2> QED
    BY <2>1, <2>2 DEF Grounded, StoredIdIsReal, FinalReportIsTrue, DueReportIsTrue, Submitting, Holding,
                       Monitoring, NoRow
<1>2. TypeOK /\ TypeOK' /\ Grounded /\ StoredIdIsReal /\ FinalReportIsTrue /\ DueReportIsTrue
          /\ [Next]_vars
        => Grounded' /\ StoredIdIsReal' /\ FinalReportIsTrue' /\ DueReportIsTrue'
  <2> SUFFICES ASSUME TypeOK, Grounded, StoredIdIsReal, FinalReportIsTrue, DueReportIsTrue,
                      [Next]_vars
               PROVE  Grounded' /\ StoredIdIsReal' /\ FinalReportIsTrue' /\ DueReportIsTrue'
    OBVIOUS
  <2>1. RowsMove /\ ReportsMove
    BY StepMoves
  <2>2. Grounded'
    <3>1. CASE WorkerStep \/ ProcessStep \/ BackendStep \/ CupsStep
      BY <2>1, <3>1, WorkerStepGrounded, OtherStepGrounded, CupsStepGrounded
    <3>2. CASE Emit \/ UNCHANGED vars
      BY <3>2 DEF Emit, vars, durable, Grounded, Existing
    <3> QED
      BY <3>1, <3>2 DEF Next
  <2> QED
    BY <2>1, <2>2, StoredIdKept, FinalReportKept
<1> QED
  BY <1>1, <1>2, TypeCorrect, PTL DEF Spec, Sound

\* Whatever is cut, lost or listed wrongly: a stored id is of a job CUPS has, and
\* SUBMITTED, PRINTING and COMPLETED are never in a row without one.
THEOREM StoredIdsAreReal == Spec => []StoredIdIsReal
<1>1. Sound => StoredIdIsReal
  BY DEF Sound
<1> QED
  BY <1>1, SoundAlways, PTL

\* A job said to have failed is over, and one said to be completed is completed.
THEOREM FinalReportsAreTrue == Spec => []FinalReportIsTrue
<1>1. Sound => FinalReportIsTrue
  BY DEF Sound
<1> QED
  BY <1>1, SoundAlways, PTL

-----------------------------------------------------------------------------
(* Every step of the agent is a step of JobLifecycle.                        *)

\* Only cupsd taking what lp asked for makes a job one that CUPS has.
LEMMA AcceptanceMoves ==
  ASSUME TypeOK, Grounded, [Next]_vars
  PROVE  \/ [j \in Jobs |-> Existing(j) # {}]' = [j \in Jobs |-> Existing(j) # {}]
         \/ /\ w.job \in Jobs /\ status[w.job] = "READY" /\ UNCHANGED status
            /\ [j \in Jobs |-> Existing(j) # {}]'
                 = [[j \in Jobs |-> Existing(j) # {}] EXCEPT ![w.job] = TRUE]
<1>1. CASE UNCHANGED cups
  BY <1>1 DEF Existing
<1>2. ASSUME NEW i \in CupsIds, CupsAccepts(i)
      PROVE  /\ w.job \in Jobs /\ status[w.job] = "READY" /\ UNCHANGED status
             /\ [j \in Jobs |-> Existing(j) # {}]'
                  = [[j \in Jobs |-> Existing(j) # {}] EXCEPT ![w.job] = TRUE]
  <2>1. w.job \in Jobs /\ status[w.job] = "READY" /\ UNCHANGED status
    BY <1>2, WorkerFacts DEF CupsAccepts, Grounded, Submitting, durable
  <2>2. \A j \in Jobs : Existing(j)' = IF j = w.job THEN Existing(j) \cup {i} ELSE Existing(j)
    BY <1>2, <2>1 DEF CupsAccepts, Existing, TypeOK
  <2>3. \A j \in Jobs : (Existing(j) # {})' <=> IF j = w.job THEN TRUE ELSE Existing(j) # {}
    BY <2>2
  <2>4. [j \in Jobs |-> Existing(j) # {}]'
          = [j \in Jobs |-> IF j = w.job THEN TRUE ELSE Existing(j) # {}]
    BY <2>3, Zenon
  <2>5. [j \in Jobs |-> IF j = w.job THEN TRUE ELSE Existing(j) # {}]
          = [[j \in Jobs |-> Existing(j) # {}] EXCEPT ![w.job] = TRUE]
    BY Zenon
  <2> QED
    BY <2>1, <2>4, <2>5
<1>3. ASSUME NEW k \in Jobs, NEW i \in CupsIds, NEW from \in SUBSET CupsActive,
             NEW to \in CupsStates \ {"none"}, CupsMoves(k, i, from, to)
      PROVE  [j \in Jobs |-> Existing(j) # {}]' = [j \in Jobs |-> Existing(j) # {}]
  <2>1. \A j \in Jobs : Existing(j)' = Existing(j)
    BY <1>3 DEF CupsMoves, Existing, TypeOK, CupsActive
  <2> QED
    BY <2>1
<1>4. /\ {"pending"} \in SUBSET CupsActive /\ {"printing"} \in SUBSET CupsActive
      /\ {"printing", "completed", "aborted", "canceled"} \subseteq CupsStates \ {"none"}
  BY DEF CupsStates, CupsActive, CupsEnded
<1>5. CASE CupsStep
  BY <1>2, <1>3, <1>4, <1>5 DEF CupsStep, CupsPrints, CupsCompletes, CupsAborts, CupsCancels
<1>6. CASE ProcessStep \/ BackendStep \/ Emit \/ UNCHANGED vars
  BY <1>1, <1>6 DEF ProcessStep, BackendStep, Emit, Restart, RecoveryDone, Crash, RecoverNext, Assign,
     Cancel, CancelReturns, vars
<1>7. CASE WorkerStep
  BY <1>1, <1>7 DEF WorkerStep, TakeJob, BeginPipeline, DownloadSucceeds, RecordPath, MarkReady,
     DownloadFails, CountAttempt, ScheduleRetry, AfterSchedule, WakeUp, FailMovesFile, MarkFailed,
     LookupReady, StartSubmit, LpFails, LpReturnsId, LpTimesOut, LookupAfterTimeout, PersistId,
     MarkSubmitted, AdoptSubmitted, Observe, HandleQuietPoll, HandleFailedPoll, HandlePrintingPoll,
     HandleCompletedPoll, GateOpens, ArchiveFile, MarkCompleted
<1> QED
  BY <1>5, <1>6, <1>7 DEF Next

\* A step of a sound agent is a step of the abstract specification, or changes nothing it
\* can see.
LEMMA StepImplements ==
  ASSUME Sound, [Next]_vars
  PROVE  [Lifecycle!Next]_(Lifecycle!vars)
<1> DEFINE accepted == [j \in Jobs |-> Existing(j) # {}]
<1>0. TypeOK /\ Grounded /\ StoredIdIsReal
  BY DEF Sound
<1>1. RowsMove
  BY <1>0, StepMoves
<1>2. CASE /\ w.job \in Jobs /\ status[w.job] = "READY" /\ UNCHANGED status
           /\ accepted' = [accepted EXCEPT ![w.job] = TRUE]
  <2>1. CASE accepted[w.job]
    <3>1. accepted' = accepted
      BY <1>2, <2>1
    <3> QED
      BY <1>2, <3>1 DEF Lifecycle!vars
  <2>2. CASE ~accepted[w.job]
    <3>1. Lifecycle!Accept(w.job)
      BY <1>2, <2>2 DEF Lifecycle!Accept
    <3> QED
      BY <1>2, <3>1 DEF Lifecycle!Next
  <2> QED
    BY <2>1, <2>2
<1>3. CASE accepted' = accepted
  <2>1. CASE status' = status
    BY <1>3, <2>1 DEF Lifecycle!vars
  <2>2. ASSUME NEW j \in Jobs, NEW s \in Statuses, RowMove(j, s), status' # status
        PROVE  Lifecycle!Next
    <3>1. CASE status[j] = NoRow /\ s = "RECEIVED"
      <4>1. Lifecycle!Receive(j)
        BY <1>3, <2>2, <3>1 DEF Lifecycle!Receive, Lifecycle!NoRow, NoRow, RowMove
      <4> QED
        BY <4>1 DEF Lifecycle!Next
    <3>2. CASE TransitionOK(status[j], s) /\ (s \in Claims => cupsId[j] # 0)
      <4>1. status[j] # s
        BY <1>0, <2>2 DEF RowMove, TypeOK
      <4>2. s \in Lifecycle!ALLOWED_TRANSITIONS[status[j]] /\ status[j] # NoRow
        BY <3>2, <4>1 DEF TransitionOK, Lifecycle!ALLOWED_TRANSITIONS, ALLOWED_TRANSITIONS,
                          Lifecycle!TransitionTable, TransitionTable
      <4>3. s \in Lifecycle!ClaimsPrint => accepted[j]
        BY <1>0, <3>2 DEF StoredIdIsReal, Claims, Lifecycle!ClaimsPrint
      <4>4. Lifecycle!Advance(j, s)
        BY <1>3, <2>2, <4>2, <4>3 DEF RowMove, Lifecycle!Advance, Lifecycle!NoRow, NoRow
      <4> QED
        BY <4>4 DEF Lifecycle!Next, Lifecycle!Statuses, Statuses
    <3> QED
      BY <2>2, <3>1, <3>2 DEF RowMove
  <2> QED
    BY <1>1, <2>1, <2>2 DEF RowsMove
<1> QED
  BY <1>0, <1>2, <1>3, AcceptanceMoves

\* The agent implements JobLifecycle: whatever crashes, cancels, redeliveries and lost
\* answers do, the rows follow the table, a job reaches the printer from READY only, and
\* nothing is claimed of a job CUPS has not accepted.
THEOREM AgentImplementsLifecycle == Spec => ImplementsLifecycle
<1>1. Init => Lifecycle!Init
  <2> SUFFICES ASSUME Init PROVE Lifecycle!Init
    OBVIOUS
  <2>1. \A j \in Jobs : (Existing(j) # {}) = FALSE
    BY DEF Init, Existing
  <2>2. [j \in Jobs |-> Existing(j) # {}] = [j \in Jobs |-> FALSE]
    BY <2>1, Zenon
  <2>3. status = [j \in Jobs |-> Lifecycle!NoRow]
    BY DEF Init, Lifecycle!NoRow, NoRow
  <2> QED
    BY <2>2, <2>3 DEF Lifecycle!Init
<1>2. Sound /\ [Next]_vars => [Lifecycle!Next]_(Lifecycle!vars)
  BY StepImplements
<1> QED
  BY <1>1, <1>2, SoundAlways, PTL DEF Spec, ImplementsLifecycle, Lifecycle!Spec

\* Only for a job whose row is READY does CUPS get anything.
LEMMA PrintsReady ==
  ASSUME TypeOK, Grounded, [Next]_vars, NEW j \in Jobs, Existing(j)' # Existing(j)
  PROVE  status[j] = "READY"
<1>1. CASE UNCHANGED cups
  BY <1>1 DEF Existing
<1>2. ASSUME NEW i \in CupsIds, CupsAccepts(i)
      PROVE  status[j] = "READY"
  <2>1. w.job \in Jobs /\ status[w.job] = "READY"
    BY <1>2, WorkerFacts DEF CupsAccepts, Grounded, Submitting
  <2>2. j # w.job => Existing(j)' = Existing(j)
    BY <1>2, <2>1 DEF CupsAccepts, Existing, TypeOK
  <2> QED
    BY <2>1, <2>2
<1>3. ASSUME NEW k \in Jobs, NEW i \in CupsIds, NEW from \in SUBSET CupsActive,
             NEW to \in CupsStates \ {"none"}, CupsMoves(k, i, from, to)
      PROVE  Existing(j)' = Existing(j)
  BY <1>3 DEF CupsMoves, Existing, TypeOK, CupsActive
<1>4. /\ {"pending"} \in SUBSET CupsActive /\ {"printing"} \in SUBSET CupsActive
      /\ {"printing", "completed", "aborted", "canceled"} \subseteq CupsStates \ {"none"}
  BY DEF CupsStates, CupsActive, CupsEnded
<1>5. CASE CupsStep
  BY <1>2, <1>3, <1>4, <1>5 DEF CupsStep, CupsPrints, CupsCompletes, CupsAborts, CupsCancels
<1>6. CASE ProcessStep \/ BackendStep \/ Emit \/ UNCHANGED vars
  BY <1>1, <1>6 DEF ProcessStep, BackendStep, Emit, Restart, RecoveryDone, Crash, RecoverNext, Assign,
     Cancel, CancelReturns, vars
<1>7. CASE WorkerStep
  BY <1>1, <1>7 DEF WorkerStep, TakeJob, BeginPipeline, DownloadSucceeds, RecordPath, MarkReady,
     DownloadFails, CountAttempt, ScheduleRetry, AfterSchedule, WakeUp, FailMovesFile, MarkFailed,
     LookupReady, StartSubmit, LpFails, LpReturnsId, LpTimesOut, LookupAfterTimeout, PersistId,
     MarkSubmitted, AdoptSubmitted, Observe, HandleQuietPoll, HandleFailedPoll, HandlePrintingPoll,
     HandleCompletedPoll, GateOpens, ArchiveFile, MarkCompleted
<1> QED
  BY <1>5, <1>6, <1>7 DEF Next

\* A job that is over stays as it ended, and CUPS never gets another job for it: neither
\* recovery, nor a redelivered assignment, nor a late answer brings it back.
THEOREM EndedJobsNeverReturn ==
  Spec => [][\A j \in Jobs : status[j] \in TERMINAL_STATUSES
               => status'[j] = status[j] /\ Existing(j)' = Existing(j)]_vars
<1>1. ASSUME Sound, [Next]_vars, NEW j \in Jobs, status[j] \in TERMINAL_STATUSES
      PROVE  status'[j] = status[j] /\ Existing(j)' = Existing(j)
  BY <1>1, StepMoves, RowsStand, PrintsReady DEF Sound, TERMINAL_STATUSES
<1>2. Sound /\ [Next]_vars
        => [\A j \in Jobs : status[j] \in TERMINAL_STATUSES
              => status'[j] = status[j] /\ Existing(j)' = Existing(j)]_vars
  BY <1>1
<1> QED
  BY <1>2, SoundAlways, PTL DEF Spec

-----------------------------------------------------------------------------
(* Who writes what.                                                          *)

\* A step reports s of j, and writes it into the row unless the row holds it or refuses it
\* and the agent makes nothing of that.
Writes(j, s) ==
  /\ Due(j, s)
  /\ \/ status' = [status EXCEPT ![j] = s]
     \/ status' = status /\ status[j] = s
     \/ status' = status /\ ~TransitionOK(status[j], s) /\ s \in {"RETRY_WAITING", "FAILED", "CANCELLED"}

\* Only _schedule_retry writes RETRY_WAITING, only the end of the monitoring COMPLETED, and
\* only _fail_job FAILED; a redelivered job that is over is reported as it ended.
StepWrites ==
  \E j \in Jobs, s \in Statuses :
    /\ Writes(j, s)
    /\ s = "RETRY_WAITING" => ScheduleRetry /\ j = w.job
    /\ s = "COMPLETED" => (MarkCompleted /\ j = w.job) \/ status[j] = "COMPLETED"
    /\ s = "FAILED" => (MarkFailed /\ j = w.job) \/ status[j] = "FAILED"
    /\ s = "CANCELLED" => j = cancelling \/ status[j] # NoRow

\* What is put somewhere is found there, and nothing else is.
LEMMA Written ==
  ASSUME TypeOK, NEW j \in Jobs, NEW s \in Statuses, Writes(j, s), NEW k \in Jobs
  PROVE  status'[k] = status[k] \/ (k = j /\ status'[k] = s)
BY DEF Writes, TypeOK

\* No report becomes due before the one that is due is made or lost.
LEMMA DueInTurn ==
  ASSUME [Next]_vars
  PROVE  emit = NoReport \/ UNCHANGED said \/ Emit \/ Crash
BY DEF Next, WorkerStep, ProcessStep, BackendStep, CupsStep, Restart, RecoveryDone, RecoverNext,
   Assign, Cancel, CancelReturns, LoopFree, CupsAccepts, CupsPrints, CupsCompletes, CupsAborts,
   CupsCancels, CupsMoves, vars

\* So what is due is the last report, and those of other jobs stand.
LEMMA LastWritten ==
  ASSUME TypeOK, NEW j \in Jobs, NEW s \in Statuses, Due(j, s),
         emit = NoReport \/ UNCHANGED said, NEW k \in Jobs
  PROVE  /\ LastReport(k)' = IF k = j THEN s ELSE LastReport(k)
         /\ k # j => (k \in unsaid' <=> k \in unsaid)
<1>1. emit' = <<j, s>> /\ emit' # NoReport /\ UNCHANGED reported /\ unsaid' = unsaid \ {j}
  BY DEF Due, NoReport
<1>2. emit # NoReport => emit[1] = j
  BY <1>1 DEF said
<1> QED
  BY <1>1, <1>2 DEF LastReport

\* A resumed job is downloaded or left alone.
LEMMA ResumeWrites ==
  ASSUME NEW j \in Jobs,
         Resume(j) \/ \E r : Pipeline(j, r, FALSE) \/ Pipeline(j, r, TRUE)
  PROVE  UNCHANGED <<status, said>> \/ Writes(j, "DOWNLOADING")
<1>1. CASE \E r : Pipeline(j, r, FALSE) \/ Pipeline(j, r, TRUE)
  BY <1>1 DEF Pipeline, Writes
<1>2. CASE UNCHANGED <<durable, said>>
  BY <1>2 DEF durable
<1> QED
  BY <1>1, <1>2 DEF Resume

\* Every step that writes is one of these.
LEMMA StepsWrite ==
  ASSUME TypeOK, [Next]_vars
  PROVE  UNCHANGED <<status, said>> \/ StepWrites \/ Emit \/ Crash
<1>0. /\ w.pc # "idle" => w.job \in Jobs
      /\ {"RECEIVED", "DOWNLOADING", "READY", "RETRY_WAITING", "SUBMITTED", "PRINTING", "COMPLETED",
          "FAILED", "CANCELLED"} = Statuses
  BY WorkerFacts DEF Statuses
<1>1. ASSUME NEW j \in Jobs,
             \/ RecoverNext(j)
             \/ TakeJob /\ j = Head(queue) /\ Resume(j)
             \/ (BeginPipeline \/ WakeUp) /\ j = w.job
      PROVE  UNCHANGED <<status, said>> \/ StepWrites
  <2>1. Writes(j, "DOWNLOADING") \/ UNCHANGED <<status, said>>
    BY <1>1, ResumeWrites DEF RecoverNext, BeginPipeline, WakeUp, durable
  <2> QED
    BY <1>0, <2>1 DEF StepWrites
<1>2. CASE TakeJob
  <2> DEFINE j == Head(queue)
  <2>1. j \in Jobs
    BY <1>2 DEF TakeJob, TypeOK
  <2>2. CASE status' = [status EXCEPT ![j] = "RECEIVED"] /\ Due(j, "RECEIVED")
    BY <1>0, <2>1, <2>2 DEF StepWrites, Writes
  <2>3. CASE status[j] \in TERMINAL_STATUSES /\ Due(j, status[j]) /\ status' = status
    <3>1. status[j] \in Statuses /\ status[j] \notin {NoRow, "RETRY_WAITING"}
      BY <1>0, <2>3 DEF TERMINAL_STATUSES, NoRow
    <3>2. Writes(j, status[j])
      BY <2>3 DEF Writes
    <3> QED
      BY <2>1, <3>1, <3>2 DEF StepWrites
  <2> QED
    BY <1>1, <1>2, <2>1, <2>2, <2>3 DEF TakeJob, durable
<1>3. CASE BeginPipeline \/ WakeUp
  BY <1>0, <1>1, <1>3 DEF BeginPipeline, WakeUp
<1>4. CASE ScheduleRetry
  <2>1. w.job \in Jobs /\ (UNCHANGED <<status, said>> \/ Writes(w.job, "RETRY_WAITING"))
    BY <1>0, <1>4 DEF ScheduleRetry, Writes
  <2> QED
    BY <1>0, <1>4, <2>1 DEF StepWrites
<1>5. CASE MarkFailed
  <2>1. w.job \in Jobs /\ Writes(w.job, "FAILED")
    BY <1>0, <1>5 DEF MarkFailed, Writes
  <2> QED
    BY <1>0, <1>5, <2>1 DEF StepWrites
<1>6. CASE MarkReady \/ MarkSubmitted \/ AdoptSubmitted \/ HandlePrintingPoll
  <2>1. w.job \in Jobs
    BY <1>0, <1>6 DEF MarkReady, MarkSubmitted, AdoptSubmitted, HandlePrintingPoll
  <2>2. \/ UNCHANGED <<status, said>>
        \/ \E s \in {"READY", "SUBMITTED", "PRINTING"} : \E next : Transition(w.job, s, next)
    BY <1>6 DEF MarkReady, MarkSubmitted, AdoptSubmitted, HandlePrintingPoll
  <2>3. UNCHANGED <<status, said>> \/ \E s \in {"READY", "SUBMITTED", "PRINTING"} : Writes(w.job, s)
    BY <2>2 DEF Transition, Writes
  <2> QED
    BY <1>0, <2>1, <2>3 DEF StepWrites
<1>7. CASE MarkCompleted
  <2>1. w.job \in Jobs /\ (UNCHANGED <<status, said>> \/ Writes(w.job, "COMPLETED"))
    BY <1>0, <1>7 DEF MarkCompleted, Transition, Writes
  <2> QED
    BY <1>0, <1>7, <2>1 DEF StepWrites
<1>8. ASSUME NEW j \in Jobs, Cancel(j) \/ (CancelReturns /\ j = cancelling)
      PROVE  UNCHANGED <<status, said>> \/ StepWrites
  <2>1. UNCHANGED <<status, said>> \/ Writes(j, "CANCELLED")
    BY <1>8 DEF Cancel, CancelReturns, RecordCancel, Writes
  <2>2. j = cancelling \/ status[j] # NoRow
    BY <1>8 DEF Cancel, NonTerminal, Statuses, NoRow
  <2> QED
    BY <1>0, <2>1, <2>2 DEF StepWrites
<1>9. CancelReturns => cancelling \in Jobs
  BY DEF CancelReturns, TypeOK
<1>10. CASE \/ DownloadSucceeds \/ RecordPath \/ DownloadFails \/ CountAttempt \/ AfterSchedule
            \/ FailMovesFile \/ LookupReady \/ StartSubmit \/ LpFails \/ LpReturnsId \/ LpTimesOut
            \/ LookupAfterTimeout \/ PersistId \/ Observe(TRUE) \/ Observe(FALSE)
            \/ HandleQuietPoll \/ HandleFailedPoll \/ HandleCompletedPoll \/ GateOpens \/ ArchiveFile
  BY <1>10 DEF DownloadSucceeds, RecordPath, DownloadFails, CountAttempt, AfterSchedule,
     FailMovesFile, LookupReady, StartSubmit, LpFails, LpReturnsId, LpTimesOut,
     LookupAfterTimeout, PersistId, Observe, HandleQuietPoll, HandleFailedPoll,
     HandleCompletedPoll, GateOpens, ArchiveFile, durable, row
<1>11. CASE Restart \/ RecoveryDone \/ CupsStep \/ (\E j \in Jobs : Assign(j)) \/ UNCHANGED vars
  BY <1>11 DEF Restart, RecoveryDone, CupsStep, CupsAccepts, CupsPrints, CupsCompletes,
     CupsAborts, CupsCancels, CupsMoves, Assign, durable, vars
<1> QED
  BY <1>1, <1>2, <1>3, <1>4, <1>5, <1>6, <1>7, <1>8, <1>9, <1>10, <1>11
     DEF Next, WorkerStep, ProcessStep, BackendStep

\* So a row comes to wait for a retry, or to its end, by these steps only.
LEMMA OnlyWriters ==
  ASSUME TypeOK, [Next]_vars, NEW j \in Jobs
  PROVE  /\ status'[j] = "RETRY_WAITING" => status[j] = "RETRY_WAITING" \/ ScheduleRetry
         /\ status'[j] = "COMPLETED" => status[j] = "COMPLETED" \/ (MarkCompleted /\ j = w.job)
         /\ status'[j] = "FAILED" => status[j] = "FAILED" \/ (MarkFailed /\ j = w.job)
<1>1. CASE UNCHANGED <<status, said>> \/ Emit \/ Crash
  BY <1>1 DEF Emit, Crash, durable
<1>2. CASE StepWrites
  BY <1>2, Written DEF StepWrites
<1> QED
  BY <1>1, <1>2, StepsWrite

-----------------------------------------------------------------------------
(* The retry budget.                                                         *)

\* On the way from increment_attempt to the end of a job that has used its budget up.
Spending == {"schedule", "fail", "markFailed"}

\* A download runs, and an attempt is counted and limited, only for a row that does not
\* wait for a retry already and is not yet submitted.
FreshAttempt ==
  w.pc \in {"downloading", "preSubmit", "schedule"} => status[w.job] \in {"DOWNLOADING", "READY", "CANCELLED"}

\* A job whose budget is spent is over or on its way there, so that no further attempt of
\* it is counted.
Budgeted ==
  /\ FreshAttempt
  /\ \A j \in Jobs :
       attempts[j] >= MaxAttempts + crashes =>
         IF w.job = j THEN w.pc \in Spending ELSE status[j] \in TERMINAL_STATUSES

\* The worker stays with its job, and to the end if it is spending the budget, leaves one
\* that is within its budget, takes one that is not over, or dies.
Keeps ==
  \/ crashes' = crashes + 1 /\ w'.pc = "idle" /\ w'.job = NoJob
  \/ /\ crashes' = crashes
     /\ \/ w'.job = w.job /\ (w.pc \in Spending => w'.pc \in Spending)
        \/ w'.pc = "idle" /\ w'.job = NoJob /\ w.pc \notin Spending
        \/ w.job = NoJob /\ status[w'.job] \notin TERMINAL_STATUSES

\* A step that counts no attempt and lets nothing wait for a retry keeps the budget.
LEMMA BudgetKept ==
  ASSUME TypeOK, RowsMove, Budgeted, RetryBudget, UNCHANGED attempts,
         \A j \in Jobs : status'[j] = "RETRY_WAITING" => status[j] = "RETRY_WAITING",
         FreshAttempt', Keeps
  PROVE  Budgeted' /\ RetryBudget'
<1>0. /\ MaxAttempts \in Nat /\ crashes \in Nat
      /\ \A j \in Jobs : attempts[j] \in Nat /\ j # NoJob
  BY BoundsAssumption, NoJobAssumption DEF TypeOK
<1>1. RetryBudget'
  BY <1>0 DEF RetryBudget, Keeps
<1>2. \A j \in Jobs : attempts'[j] >= MaxAttempts + crashes' =>
        IF w'.job = j THEN w'.pc \in Spending ELSE status'[j] \in TERMINAL_STATUSES
  <2> SUFFICES ASSUME NEW j \in Jobs, attempts[j] >= MaxAttempts + crashes'
               PROVE  IF w'.job = j THEN w'.pc \in Spending ELSE status'[j] \in TERMINAL_STATUSES
    OBVIOUS
  <2>1. crashes' = crashes
    BY <1>0 DEF RetryBudget, Keeps
  <2>2. IF w.job = j THEN w.pc \in Spending ELSE status[j] \in TERMINAL_STATUSES
    BY <2>1 DEF Budgeted
  <2>3. status[j] \in TERMINAL_STATUSES => status'[j] \in TERMINAL_STATUSES
    BY RowsStand
  <2> QED
    BY <1>0, <2>1, <2>2, <2>3 DEF Keeps, Spending
<1> QED
  BY <1>1, <1>2 DEF Budgeted

\* increment_attempt is reached only within the budget, and may use it up.
LEMMA CountBudget ==
  ASSUME TypeOK, Budgeted, RetryBudget, CountAttempt, cupsId[w.job] = 0
  PROVE  Budgeted' /\ RetryBudget'
<1>0. /\ MaxAttempts \in Nat /\ crashes \in Nat
      /\ \A j \in Jobs : attempts[j] \in Nat
      /\ w.job \in Jobs /\ w.pc = "preSubmit" /\ w'.pc = "schedule" /\ w'.job = w.job
      /\ attempts' = [attempts EXCEPT ![w.job] = @ + 1]
      /\ UNCHANGED <<status, crashes>>
  BY BoundsAssumption, WorkerFacts DEF TypeOK, CountAttempt, control, PCs, RunToCompletion
<1>1. attempts[w.job] < MaxAttempts + crashes /\ status[w.job] # "RETRY_WAITING"
  BY <1>0 DEF Budgeted, FreshAttempt, Spending
<1>2. \A j \in Jobs : attempts'[j] = IF j = w.job THEN attempts[j] + 1 ELSE attempts[j]
  BY <1>0 DEF TypeOK
<1>3. RetryBudget'
  BY <1>0, <1>1, <1>2 DEF RetryBudget
<1>4. Budgeted'
  BY <1>0, <1>2 DEF Budgeted, FreshAttempt, Spending
<1> QED
  BY <1>3, <1>4

\* The limit check lets only a job within its budget wait, and _fail_job ends the others.
LEMMA SpentBudget ==
  ASSUME TypeOK, Grounded, RowsMove, Budgeted, RetryBudget, ScheduleRetry \/ MarkFailed
  PROVE  Budgeted' /\ RetryBudget'
<1>0. /\ MaxAttempts \in Nat /\ crashes \in Nat
      /\ \A j \in Jobs : attempts[j] \in Nat /\ j # NoJob
      /\ w.job \in Jobs /\ status[w.job] \in Statuses
      /\ UNCHANGED <<attempts, crashes>>
      /\ \A j \in Jobs : j # w.job => status'[j] = status[j]
  BY BoundsAssumption, NoJobAssumption, WorkerFacts
     DEF TypeOK, ScheduleRetry, MarkFailed, control, Grounded
<1>1. CASE ScheduleRetry
  <2>1. /\ w'.job = w.job /\ w'.pc \in {"fail", "scheduled"}
        /\ w'.pc = "fail" => UNCHANGED status
        /\ w'.pc = "scheduled" => attempts[w.job] < MaxAttempts
    BY <1>0, <1>1, WorkerFacts DEF ScheduleRetry, Exhausted, PCs, RunToCompletion, AwaitPoints
  <2>2. RetryBudget'
    BY <1>0, <2>1 DEF RetryBudget
  <2> QED
    BY <1>0, <2>1, <2>2 DEF Budgeted, FreshAttempt, Spending
<1>2. CASE MarkFailed
  <2>1. w'.pc = "idle" /\ w'.job = NoJob
    BY <1>2, IdleFields DEF MarkFailed
  <2>2. status'[w.job] \in TERMINAL_STATUSES
    BY <1>0, <1>2, FailureIsOpen DEF MarkFailed, TypeOK, TERMINAL_STATUSES
  <2>3. RetryBudget'
    BY <1>0, <2>2 DEF RetryBudget, TERMINAL_STATUSES
  <2> QED
    BY <1>0, <2>1, <2>2, <2>3 DEF Budgeted, FreshAttempt
<1> QED
  BY <1>1, <1>2

\* The pipeline downloads only for a row that is DOWNLOADING.
LEMMA PipelineDownloads ==
  ASSUME TypeOK, NEW j \in Jobs, NEW r, NEW b \in BOOLEAN, Pipeline(j, r, b),
         b => status[j] = "DOWNLOADING"
  PROVE  /\ w'.job = j /\ w'.pc \in {"downloading", "fail"}
         /\ w'.pc = "downloading" => status'[j] = "DOWNLOADING"
<1>1. /\ At("downloading", j, TRUE, NoRecord, 0).pc = "downloading"
      /\ At("downloading", j, TRUE, NoRecord, 0).job = j
      /\ At("fail", j, TRUE, NoRecord, 0).pc = "fail"
      /\ At("fail", j, TRUE, NoRecord, 0).job = j
  BY DEF At
<1>2. (status' = [status EXCEPT ![j] = "DOWNLOADING"]) => status'[j] = "DOWNLOADING"
  BY DEF TypeOK
<1> QED
  BY <1>1, <1>2 DEF Pipeline

\* A job that is resumed is not over, and is downloaded only if its row says so.
LEMMA ResumeDownloads ==
  ASSUME TypeOK, NEW j \in Jobs, Resume(j)
  PROVE  /\ w'.job = j /\ w'.pc \notin {"preSubmit", "schedule"}
         /\ w'.pc = "downloading" => status'[j] = "DOWNLOADING"
         /\ status[j] \notin TERMINAL_STATUSES
         /\ UNCHANGED <<cupsId, attempts, filePath, disk>>
<1>1. CASE \/ status[j] = "RECEIVED" /\ Pipeline(j, Record(j), FALSE)
           \/ status[j] = "DOWNLOADING" /\ Pipeline(j, Record(j), TRUE)
  <2>1. /\ w'.job = j /\ w'.pc \in {"downloading", "fail"}
        /\ w'.pc = "downloading" => status'[j] = "DOWNLOADING"
    BY <1>1, PipelineDownloads
  <2> QED
    BY <1>1, <2>1 DEF TERMINAL_STATUSES, Pipeline
<1>2. CASE /\ UNCHANGED <<durable, said>>
           /\ status[j] \in {"RETRY_WAITING", "READY", "SUBMITTED", "PRINTING"}
           /\ \E pc \in {"fail", "sleep", "adoptSubmitted", "lookup", "poll"} : \E r, i :
                w' = At(pc, j, FALSE, r, i)
  <2>1. w'.job = j /\ w'.pc \in {"fail", "sleep", "adoptSubmitted", "lookup", "poll"}
    BY <1>2 DEF At
  <2> QED
    BY <1>2, <2>1 DEF TERMINAL_STATUSES, durable
<1> QED
  BY <1>1, <1>2 DEF Resume

\* An exception keeps the budget.
LEMMA RaiseBudget ==
  ASSUME TypeOK, w.pc \notin Spending, Raise
  PROVE  Keeps /\ w'.pc \in {"fail", "idle"}
<1>1. Goto("fail").pc = "fail" /\ Goto("fail").job = w.job /\ Idle.pc = "idle" /\ Idle.job = NoJob
  BY WorkerFacts, IdleFields DEF PCs, RunToCompletion
<1> QED
  BY <1>1 DEF Raise, Die, control, Keeps

\* A lookup raises, gives up, finds nothing, or finds the job.
LEMMA LookupMoves ==
  ASSUME TypeOK, LookupReady \/ LookupAfterTimeout
  PROVE  \/ Raise
         \/ /\ UNCHANGED control /\ w'.job = w.job
            /\ w'.pc \in {"fail", "submit", "persistFound", "persistNew"}
<1>0. w \in Workers
  BY WorkerFacts
<1>1. ASSUME UNCHANGED control, w' = Goto("fail") \/ w' = Goto("submit")
      PROVE  UNCHANGED control /\ w'.job = w.job /\ w'.pc \in {"fail", "submit"}
  BY <1>1, WorkerFacts DEF PCs, RunToCompletion, AwaitPoints
<1>2. ASSUME NEW i, UNCHANGED control, w' = [w EXCEPT !.pc = "persistFound", !.id = i]
      PROVE  UNCHANGED control /\ w'.job = w.job /\ w'.pc = "persistFound"
  BY <1>0, <1>2 DEF Workers
<1>3. ASSUME NEW i, UNCHANGED control, w' = [w EXCEPT !.pc = "persistNew", !.id = i]
      PROVE  UNCHANGED control /\ w'.job = w.job /\ w'.pc = "persistNew"
  BY <1>0, <1>3 DEF Workers
<1>4. CASE LookupReady
  BY <1>1, <1>2, <1>4, Zenon DEF LookupReady
<1>5. CASE LookupAfterTimeout
  BY <1>1, <1>3, <1>5, Zenon DEF LookupAfterTimeout
<1> QED
  BY <1>4, <1>5

\* The worker sets out to download, or to count an attempt, only for a row that does not
\* wait for a retry.
LEMMA WorkerDownloads ==
  ASSUME TypeOK, Grounded, Budgeted, WorkerStep, ~ScheduleRetry, ~MarkFailed
  PROVE  FreshAttempt'
<1>0. /\ w \in Workers
      /\ w.pc # "idle" => w.job \in Jobs
      /\ w.pc = "idle" => w.job = NoJob
      /\ \A p \in PCs : Goto(p).pc = p /\ Goto(p).job = w.job
      /\ \A p \in PCs : Handled(p).pc = p /\ Handled(p).job = w.job
      /\ Idle.pc = "idle" /\ Idle.job = NoJob
  BY WorkerFacts, IdleFields DEF TypeOK, WorkerOK, Handled, Workers
<1>1. CASE TakeJob
  <2> DEFINE j == Head(queue)
  <2>1. j \in Jobs
    BY <1>1 DEF TakeJob, TypeOK
  <2>2. CASE Resume(j)
    BY <2>1, <2>2, ResumeDownloads DEF FreshAttempt
  <2>3. CASE w'.pc \notin {"downloading", "preSubmit", "schedule"}
    BY <2>3 DEF FreshAttempt
  <2> QED
    BY <1>0, <1>1, <2>2, <2>3 DEF TakeJob, At, FreshAttempt
<1>2. CASE BeginPipeline \/ WakeUp
  <2>1. Pipeline(w.job, w.rec, FALSE) \/ w' = Goto("fail")
    BY <1>2 DEF BeginPipeline, WakeUp
  <2>2. Pipeline(w.job, w.rec, FALSE) =>
          w'.pc = "fail" \/ (w'.job = w.job /\ status'[w.job] = "DOWNLOADING")
    BY <1>0, <1>2, PipelineDownloads DEF BeginPipeline, WakeUp
  <2>3. CASE w' = Goto("fail")
    <3>1. w'.pc = "fail"
      BY <1>0, <2>3 DEF PCs, RunToCompletion
    <3> QED
      BY <3>1 DEF FreshAttempt
  <2>4. CASE Pipeline(w.job, w.rec, FALSE)
    <3>1. CASE w'.pc = "fail"
      BY <3>1 DEF FreshAttempt
    <3>2. CASE w'.job = w.job /\ status'[w.job] = "DOWNLOADING"
      BY <3>2 DEF FreshAttempt
    <3> QED
      BY <2>2, <2>4, <3>1, <3>2
  <2> QED
    BY <2>1, <2>3, <2>4
<1>3. CASE DownloadFails \/ StartSubmit
  <2>1. /\ w.pc \in {"downloading", "submit"} /\ UNCHANGED status
        /\ status[w.job] \in {"DOWNLOADING", "READY", "CANCELLED"}
    BY <1>3 DEF DownloadFails, StartSubmit, durable, Budgeted, FreshAttempt, Grounded, Submitting
  <2>2. Raise => w'.pc \in {"fail", "idle"}
    BY <2>1, RaiseBudget DEF Spending
  <2>3. w' \in {Goto("preSubmit"), Goto("fail"), Goto("lp")} \/ Raise
    BY <1>3 DEF DownloadFails, StartSubmit
  <2> QED
    BY <1>0, <2>1, <2>2, <2>3 DEF PCs, RunToCompletion, AwaitPoints, FreshAttempt
<1>4. CASE MarkReady \/ MarkSubmitted \/ AdoptSubmitted \/ HandlePrintingPoll \/ MarkCompleted
  <2>1. \/ w' \in {Goto("submit"), Goto("poll"), Handled("poll"), Idle}
        \/ Raise /\ w.pc \notin Spending
    BY <1>4 DEF MarkReady, MarkSubmitted, AdoptSubmitted, HandlePrintingPoll, MarkCompleted,
       Transition, Spending
  <2>2. Raise /\ w.pc \notin Spending => w'.pc \in {"fail", "idle"}
    BY RaiseBudget
  <2> QED
    BY <1>0, <2>1, <2>2 DEF PCs, RunToCompletion, AwaitPoints, FreshAttempt
<1>5. CASE LookupReady \/ LookupAfterTimeout
  <2>1. w'.pc \in {"idle", "fail", "submit", "persistFound", "persistNew"}
    BY <1>5, LookupMoves, RaiseBudget DEF LookupReady, LookupAfterTimeout, Spending
  <2> QED
    BY <2>1 DEF FreshAttempt
<1>6. CASE DownloadSucceeds \/ RecordPath \/ FailMovesFile \/ LpReturnsId \/ PersistId \/ ArchiveFile
  BY <1>0, <1>6 DEF DownloadSucceeds, RecordPath, FailMovesFile, LpReturnsId,
     PersistId, ArchiveFile, PCs, RunToCompletion, FreshAttempt
<1>9. CASE CountAttempt
  <2>1. w'.job = w.job /\ w.pc = "preSubmit" /\ status' = status
    BY <1>0, <1>9 DEF CountAttempt, PCs, RunToCompletion
  <2> QED
    BY <2>1 DEF Budgeted, FreshAttempt
<1>7. CASE AfterSchedule \/ LpFails \/ LpTimesOut \/ Observe(TRUE) \/ Observe(FALSE)
  <2>1. w'.pc \in {"idle", "fail", "sleep", "lpLookup", "observed"}
    BY <1>0, <1>7 DEF AfterSchedule, LpFails, LpTimesOut, Observe, Workers, PCs, RunToCompletion
  <2> QED
    BY <2>1 DEF FreshAttempt
<1>8. CASE HandleQuietPoll \/ HandleFailedPoll \/ HandleCompletedPoll \/ GateOpens
  BY <1>0, <1>8 DEF HandleQuietPoll, HandleFailedPoll, HandleCompletedPoll, GateOpens,
     PCs, RunToCompletion, AwaitPoints, FreshAttempt
<1> QED
  BY <1>1, <1>2, <1>3, <1>4, <1>5, <1>6, <1>7, <1>8, <1>9 DEF WorkerStep

\* The worker goes on with a job, ends it or takes the next.
LEMMA WorkerKeeps ==
  ASSUME TypeOK, WorkerStep, ~ScheduleRetry, ~MarkFailed
  PROVE  Keeps
<1>0. /\ w \in Workers
      /\ w.pc # "idle" => w.job \in Jobs
      /\ w.pc = "idle" => w.job = NoJob
      /\ \A p \in PCs : Goto(p).pc = p /\ Goto(p).job = w.job
      /\ \A p \in PCs : Handled(p).pc = p /\ Handled(p).job = w.job
      /\ Idle.pc = "idle" /\ Idle.job = NoJob
  BY WorkerFacts, IdleFields DEF TypeOK, WorkerOK, Handled, Workers
<1>1. CASE TakeJob
  <2> DEFINE j == Head(queue)
  <2>1. j \in Jobs /\ w.job = NoJob /\ w.pc = "idle" /\ crashes' = crashes
    BY <1>0, <1>1 DEF TakeJob, TypeOK
  <2>2. CASE Resume(j)
    BY <2>1, <2>2, ResumeDownloads DEF Keeps
  <2>3. CASE w'.job = j /\ status[j] = NoRow
    BY <2>1, <2>3 DEF TERMINAL_STATUSES, NoRow, Keeps
  <2>4. CASE w' = w
    BY <2>1, <2>4 DEF Spending, Keeps
  <2> QED
    BY <1>1, <2>2, <2>3, <2>4 DEF TakeJob, At
<1>2. CASE BeginPipeline \/ WakeUp
  <2>1. w.pc \in {"begin", "sleep"} /\ w.job \in Jobs /\ crashes' = crashes
    BY <1>0, <1>2 DEF BeginPipeline, WakeUp, control
  <2>2. w'.job = w.job
    BY <1>0, <1>2, <2>1, PipelineDownloads DEF BeginPipeline, WakeUp, PCs, RunToCompletion
  <2> QED
    BY <2>1, <2>2 DEF Spending, Keeps
<1>3. CASE Raise /\ w.pc \notin Spending
  BY <1>3, RaiseBudget
<1>4. CASE \/ DownloadSucceeds \/ RecordPath \/ DownloadFails \/ CountAttempt
           \/ FailMovesFile \/ LpReturnsId \/ PersistId \/ ArchiveFile
  <2>1. crashes' = crashes /\ w'.job = w.job /\ (w.pc \in Spending => w'.pc \in Spending)
    BY <1>0, <1>4 DEF DownloadSucceeds, RecordPath, DownloadFails, CountAttempt, FailMovesFile,
       LpReturnsId, PersistId, ArchiveFile, PCs, RunToCompletion, Spending, control
  <2> QED
    BY <1>0, <2>1 DEF Keeps
<1>5. CASE \/ AfterSchedule \/ LpFails \/ LpTimesOut \/ Observe(TRUE) \/ Observe(FALSE)
  <2>1. crashes' = crashes /\ w.pc \notin Spending
    BY <1>5 DEF AfterSchedule, LpFails, LpTimesOut, Observe, Spending, control
  <2>2. CASE AfterSchedule
    <3>1. w' = Idle \/ w' = Goto("fail") \/ w' = [w EXCEPT !.pc = "sleep", !.rec = Record(w.job)]
      BY <2>2 DEF AfterSchedule
    <3>2. [w EXCEPT !.pc = "sleep", !.rec = Record(w.job)].job = w.job
      BY <1>0 DEF Workers
    <3>3. Goto("fail").job = w.job
      BY <1>0 DEF PCs, RunToCompletion
    <3>4. w'.job = w.job \/ w' = Idle
      BY <1>0, <3>1, <3>2, <3>3
    <3> QED
      BY <1>0, <2>1, <3>4 DEF Keeps
  <2>3. CASE LpFails \/ LpTimesOut \/ Observe(TRUE) \/ Observe(FALSE)
    <3>1. w'.job = w.job
      BY <1>0, <2>3 DEF LpFails, LpTimesOut, Observe, Workers
    <3> QED
      BY <2>1, <3>1 DEF Keeps
  <2> QED
    BY <1>5, <2>2, <2>3
<1>6. CASE HandleQuietPoll \/ HandleFailedPoll \/ HandleCompletedPoll \/ GateOpens
  <2>1. crashes' = crashes /\ (w'.job = w.job \/ w' = Idle) /\ w.pc \notin Spending
    BY <1>0, <1>6 DEF HandleQuietPoll, HandleFailedPoll, HandleCompletedPoll, GateOpens,
       PCs, RunToCompletion, AwaitPoints, Spending, control
  <2> QED
    BY <1>0, <2>1 DEF Keeps
<1>7. CASE MarkReady \/ MarkSubmitted \/ AdoptSubmitted \/ HandlePrintingPoll \/ MarkCompleted
  <2>1. \/ w' \in {Goto("submit"), Goto("poll"), Handled("poll"), Idle} /\ crashes' = crashes
        \/ Raise
    BY <1>7 DEF MarkReady, MarkSubmitted, AdoptSubmitted, HandlePrintingPoll, MarkCompleted,
       Transition, control
  <2>2. w.pc \notin Spending
    BY <1>7 DEF MarkReady, MarkSubmitted, AdoptSubmitted, HandlePrintingPoll, MarkCompleted, Spending
  <2> QED
    BY <1>0, <1>3, <2>1, <2>2 DEF PCs, AwaitPoints, Keeps
<1>8. CASE LookupReady \/ LookupAfterTimeout \/ StartSubmit
  <2>1. w.pc \notin Spending /\ (UNCHANGED control => crashes' = crashes)
    BY <1>8 DEF LookupReady, LookupAfterTimeout, StartSubmit, Spending, control
  <2>2. Raise \/ (UNCHANGED control /\ w'.job = w.job)
    BY <1>0, <1>8, LookupMoves DEF StartSubmit, PCs, RunToCompletion, AwaitPoints
  <2> QED
    BY <1>3, <2>1, <2>2 DEF Keeps
<1> QED
  BY <1>1, <1>2, <1>4, <1>5, <1>6, <1>7, <1>8 DEF WorkerStep

\* The steps of the worker keep the budget.
LEMMA WorkerStepBudget ==
  ASSUME TypeOK, Grounded, RowsMove, Budgeted, RetryBudget, WorkerStep
  PROVE  Budgeted' /\ RetryBudget'
<1>1. CASE ScheduleRetry \/ MarkFailed
  BY <1>1, SpentBudget
<1>2. CASE CountAttempt /\ cupsId[w.job] = 0
  BY <1>2, CountBudget
<1>3. CASE ~ScheduleRetry /\ ~MarkFailed /\ ~(CountAttempt /\ cupsId[w.job] = 0)
  <2>1. \A j \in Jobs : status'[j] = "RETRY_WAITING" => status[j] = "RETRY_WAITING"
    BY <1>3, OnlyWriters DEF Next
  <2>2. UNCHANGED attempts
    BY <1>3 DEF WorkerStep, TakeJob, Resume, Pipeline, BeginPipeline, DownloadSucceeds, RecordPath,
       MarkReady, DownloadFails, CountAttempt, AfterSchedule, WakeUp, FailMovesFile, LookupReady,
       StartSubmit, LpFails, LpReturnsId, LpTimesOut, LookupAfterTimeout, PersistId,
       MarkSubmitted, AdoptSubmitted, Observe, HandleQuietPoll, HandleFailedPoll,
       HandlePrintingPoll, HandleCompletedPoll, GateOpens, ArchiveFile, MarkCompleted, durable, row
  <2> QED
    BY <1>3, <2>1, <2>2, WorkerKeeps, WorkerDownloads, BudgetKept
<1> QED
  BY <1>1, <1>2, <1>3

\* The worker goes on with a job, ends it or takes the next in every other step, too: it
\* dies, or takes one from recovery, which resumes no job that is over.
LEMMA OtherKeeps ==
  ASSUME TypeOK, ProcessStep \/ BackendStep \/ CupsStep \/ Emit \/ UNCHANGED vars
  PROVE  Keeps /\ UNCHANGED attempts
<1>0. /\ w \in Workers
      /\ w.pc = "idle" => w.job = NoJob
      /\ Idle.pc = "idle" /\ Idle.job = NoJob
  BY WorkerFacts, IdleFields DEF TypeOK, WorkerOK
<1>1. ASSUME NEW j \in Jobs, RecoverNext(j)
      PROVE  Keeps /\ UNCHANGED attempts
  <2>1. w.job = NoJob /\ crashes' = crashes /\ Resume(j)
    BY <1>0, <1>1 DEF RecoverNext
  <2> QED
    BY <2>1, ResumeDownloads DEF Keeps
<1>2. CASE Crash
  BY <1>0, <1>2 DEF Crash, Die, durable, Keeps
<1>3. CASE \/ Restart \/ RecoveryDone \/ CancelReturns
           \/ (\E j \in Jobs : Assign(j) \/ Cancel(j)) \/ Emit \/ UNCHANGED vars
  <2>1. UNCHANGED <<attempts, crashes, w>>
    BY <1>3 DEF Emit, Restart, RecoveryDone, CancelReturns, Assign, Cancel, vars, durable, control
  <2> QED
    BY <2>1 DEF Keeps
<1>4. CASE CupsStep
  <2>1. /\ UNCHANGED <<attempts, crashes>>
        /\ w' = w \/ \E i \in CupsIds : w' = [w EXCEPT !.pc = "lpAccepted", !.id = i] /\ w.pc = "lp"
    BY <1>4 DEF CupsStep, CupsAccepts, CupsPrints, CupsCompletes, CupsAborts, CupsCancels,
       CupsMoves, durable, control
  <2>2. w'.job = w.job /\ (w.pc \in Spending => w'.pc \in Spending)
    BY <1>0, <2>1 DEF Workers, Spending
  <2> QED
    BY <2>1, <2>2 DEF Keeps
<1> QED
  BY <1>1, <1>2, <1>3, <1>4 DEF ProcessStep, BackendStep

\* Nor do they set out to download or to count an attempt for a row that is elsewhere.
LEMMA OtherDownloads ==
  ASSUME TypeOK, FreshAttempt, ProcessStep \/ BackendStep \/ CupsStep \/ Emit \/ UNCHANGED vars
  PROVE  FreshAttempt'
<1>0. /\ w \in Workers
      /\ w.pc # "idle" => w.job \in Jobs
      /\ Idle.pc = "idle"
  BY WorkerFacts, IdleFields
<1>1. ASSUME NEW j \in Jobs, RecoverNext(j)
      PROVE  FreshAttempt'
  BY <1>1, ResumeDownloads DEF RecoverNext, FreshAttempt
<1>2. CASE Crash
  BY <1>0, <1>2 DEF Crash, Die, FreshAttempt
<1>3. CASE \/ Restart \/ RecoveryDone \/ CancelReturns
           \/ (\E j \in Jobs : Assign(j) \/ Cancel(j)) \/ Emit \/ UNCHANGED vars
  <2>1. w' = w
    BY <1>3 DEF Emit, Restart, RecoveryDone, CancelReturns, Assign, Cancel, vars
  <2>2. w.job \in Jobs => status'[w.job] \in {status[w.job], "CANCELLED"}
    BY <1>3 DEF Emit, Restart, RecoveryDone, CancelReturns, Assign, Cancel, RecordCancel, vars, durable,
       TypeOK
  <2> QED
    BY <1>0, <2>1, <2>2 DEF FreshAttempt
<1>4. CASE CupsStep
  <2>1. /\ UNCHANGED status
        /\ w' = w \/ \E i \in CupsIds : w' = [w EXCEPT !.pc = "lpAccepted", !.id = i]
    BY <1>4 DEF CupsStep, CupsAccepts, CupsPrints, CupsCompletes, CupsAborts, CupsCancels,
       CupsMoves, durable
  <2>2. w' = w \/ w'.pc = "lpAccepted"
    BY <1>0, <2>1 DEF Workers
  <2> QED
    BY <2>1, <2>2 DEF FreshAttempt
<1> QED
  BY <1>1, <1>2, <1>3, <1>4 DEF ProcessStep, BackendStep

\* So all others keep the budget: a death leaves room for one more attempt.
LEMMA OtherStepBudget ==
  ASSUME TypeOK, RowsMove, Budgeted, RetryBudget,
         ProcessStep \/ BackendStep \/ CupsStep \/ Emit \/ UNCHANGED vars
  PROVE  Budgeted' /\ RetryBudget'
<1>1. \A j \in Jobs : status'[j] = "RETRY_WAITING" => status[j] = "RETRY_WAITING"
  <2>1. ~ScheduleRetry \/ UNCHANGED status
    BY DEF ScheduleRetry, ProcessStep, BackendStep, CupsStep, Emit, Restart, RecoveryDone, Crash,
       RecoverNext, Assign, Cancel, CancelReturns, CupsAccepts, CupsPrints, CupsCompletes,
       CupsAborts, CupsCancels, CupsMoves, vars, durable, LoopFree, RunToCompletion
  <2> QED
    BY <2>1, OnlyWriters DEF Next
<1> QED
  BY <1>1, OtherKeeps, OtherDownloads, BudgetKept DEF Budgeted

\* The inductive invariant of the budget.
LEMMA BudgetedAlways == Spec => [](Budgeted /\ RetryBudget)
<1>1. Init => Budgeted /\ RetryBudget
  <2> SUFFICES ASSUME Init PROVE Budgeted /\ RetryBudget
    OBVIOUS
  <2>1. w.pc = "idle" /\ MaxAttempts \in Nat \ {0} /\ crashes = 0
    BY IdleFields, BoundsAssumption DEF Init
  <2>2. \A j \in Jobs : attempts[j] = 0 /\ status[j] = NoRow
    BY DEF Init
  <2> QED
    BY <2>1, <2>2 DEF Budgeted, FreshAttempt, RetryBudget, NoRow
<1>2. Sound /\ Budgeted /\ RetryBudget /\ [Next]_vars => Budgeted' /\ RetryBudget'
  BY StepMoves, WorkerStepBudget, OtherStepBudget DEF Sound, Next
<1> QED
  BY <1>1, <1>2, SoundAlways, PTL DEF Spec

\* For every limit, and however often the agent dies: no job waits for a retry at the
\* limit, and a death between the count and the check costs one more attempt at most.
THEOREM RetriesStayInBudget == Spec => []RetryBudget
BY BudgetedAlways, PTL

-----------------------------------------------------------------------------
(* The reports and the rows.                                                 *)

\* The row of the worker's job has not completed or failed under it.
HeldRow == w.pc # "idle" => status[w.job] \notin {"COMPLETED", "FAILED"}

\* The job whose cancel command runs has a row.
CancelOfRow == cancelling # NoJob => status[cancelling] # NoRow

\* Only the worker ends its job this way, and then it is idle.
LEMMA HeldKept ==
  ASSUME TypeOK, TypeOK', HeldRow, [Next]_vars
  PROVE  HeldRow'
<1>0. /\ w.pc # "idle" => w.job \in Jobs
      /\ w'.pc # "idle" => w'.job \in Jobs
      /\ w.pc = "idle" <=> w.job = NoJob
      /\ w'.pc = "idle" <=> w'.job = NoJob
      /\ Idle.pc = "idle"
      /\ NoJob \notin Jobs
  BY IdleFields, NoJobAssumption DEF TypeOK, WorkerOK, Workers
<1>1. ASSUME w'.pc # "idle", status'[w'.job] \in {"COMPLETED", "FAILED"}
      PROVE  status[w'.job] = status'[w'.job]
  <2>1. CASE MarkCompleted /\ w'.job = w.job
    BY <1>0, <1>1, <2>1 DEF MarkCompleted, Transition
  <2>2. ~MarkFailed
    BY <1>0, <1>1 DEF MarkFailed
  <2> QED
    BY <1>0, <1>1, <2>1, <2>2, OnlyWriters
<1>2. CASE ScheduleRetry
  <2>1. w'.job = w.job /\ w.pc # "idle"
    BY <1>2, WorkerFacts DEF ScheduleRetry, PCs, RunToCompletion, AwaitPoints
  <2> QED
    BY <1>1, <2>1 DEF HeldRow
<1>3. CASE MarkFailed
  BY <1>0, <1>3 DEF MarkFailed, HeldRow
<1>4. CASE Keeps
  BY <1>0, <1>1, <1>4 DEF Keeps, HeldRow, TERMINAL_STATUSES
<1> QED
  BY <1>2, <1>3, <1>4, WorkerKeeps, OtherKeeps DEF Next

\* A cancel command is started for a row that is there, and rows do not go away.
LEMMA CancelKept ==
  ASSUME TypeOK, RowsMove, CancelOfRow, [Next]_vars
  PROVE  CancelOfRow'
<1>1. cancelling' \in {cancelling, NoJob} \/ (cancelling' \in Jobs /\ status[cancelling'] # NoRow)
  <2>1. CASE WorkerStep
    BY <2>1 DEF WorkerStep, TakeJob, BeginPipeline, DownloadSucceeds, RecordPath, MarkReady,
       DownloadFails, CountAttempt, ScheduleRetry, AfterSchedule, WakeUp, FailMovesFile, MarkFailed,
       LookupReady, StartSubmit, LpFails, LpReturnsId, LpTimesOut, LookupAfterTimeout, PersistId,
       MarkSubmitted, AdoptSubmitted, Observe, HandleQuietPoll, HandleFailedPoll,
       HandlePrintingPoll, HandleCompletedPoll, GateOpens, ArchiveFile, MarkCompleted,
       Transition, Raise, Die, control
  <2>2. ASSUME NEW j \in Jobs, Cancel(j)
        PROVE  cancelling' = cancelling \/ (cancelling' = j /\ status[j] # NoRow)
    BY <2>2 DEF Cancel, NonTerminal, Statuses, NoRow
  <2>3. CASE \/ ProcessStep \/ CancelReturns \/ (\E j \in Jobs : Assign(j)) \/ CupsStep \/ Emit \/ UNCHANGED vars
    BY <2>3 DEF ProcessStep, Emit, Restart, RecoveryDone, Crash, Die, RecoverNext, CancelReturns, Assign,
       CupsStep, CupsAccepts, CupsPrints, CupsCompletes, CupsAborts, CupsCancels, CupsMoves, control,
       vars
  <2> QED
    BY <2>1, <2>2, <2>3 DEF Next, BackendStep
<1>2. cancelling \in Jobs \cup {NoJob}
  BY DEF TypeOK
<1> QED
  BY <1>1, <1>2, RowsStand DEF CancelOfRow

\* What a row makes of a status it refuses.
LEMMA Refusals ==
  ASSUME NEW c \in Statuses
  PROVE  /\ ~TransitionOK(c, "RETRY_WAITING") /\ c \in {"DOWNLOADING", "READY", "CANCELLED"}
              => c \in {"READY", "CANCELLED"}
         /\ ~TransitionOK(c, "FAILED") => c \in {"COMPLETED", "CANCELLED"}
         /\ ~TransitionOK(c, "CANCELLED") => c \in {"READY", "COMPLETED", "FAILED"}
BY DEF Statuses, TransitionOK, ALLOWED_TRANSITIONS, TransitionTable, NoRow

\* A report that the row refuses leaves one of the listed differences, and no other step
\* tells the two apart.
LEMMA ReportKept ==
  ASSUME TypeOK, Grounded, FreshAttempt, HeldRow, CancelOfRow, ReportFollowsRow, [Next]_vars
  PROVE  ReportFollowsRow'
<1>1. CASE UNCHANGED <<status, said>>
  BY <1>1 DEF ReportFollowsRow, LastReport, said
<1>2. ASSUME NEW j \in Jobs, NEW s \in Statuses, Writes(j, s),
             emit = NoReport \/ UNCHANGED said,
             s = "RETRY_WAITING" => ScheduleRetry /\ j = w.job,
             s = "FAILED" => (MarkFailed /\ j = w.job) \/ status[j] = "FAILED",
             s = "CANCELLED" => j = cancelling \/ status[j] # NoRow
      PROVE  ReportFollowsRow'
  <2>1. status'[j] = s \/ <<status'[j], s>> \in RefusedReports
    <3>0. status[j] \in Statuses \cup {NoRow} /\ j # NoJob
      BY NoJobAssumption DEF TypeOK
    <3>1. CASE status' = [status EXCEPT ![j] = s] \/ (status' = status /\ status[j] = s)
      BY <3>1 DEF TypeOK
    <3>2. CASE status' = status /\ ~TransitionOK(status[j], s) /\ s = "RETRY_WAITING"
      <4>1. status[j] \in {"DOWNLOADING", "READY", "CANCELLED"}
        BY <1>2, <3>2 DEF ScheduleRetry, FreshAttempt
      <4>2. status[j] \in {"READY", "CANCELLED"}
        BY <3>2, <4>1, Refusals DEF Statuses
      <4> QED
        BY <3>2, <4>2 DEF RefusedReports
    <3>3. CASE status' = status /\ ~TransitionOK(status[j], s) /\ s = "FAILED"
      <4>1. status[j] # "FAILED"
        BY <3>3 DEF TransitionOK, NoRow
      <4>2. status[j] \in Statuses /\ status[j] # "COMPLETED"
        BY <1>2, <3>0, <3>3, <4>1 DEF MarkFailed, HeldRow, Grounded
      <4> QED
        BY <3>3, <4>2, Refusals DEF RefusedReports
    <3>4. CASE status' = status /\ ~TransitionOK(status[j], s) /\ s = "CANCELLED"
      <4>1. status[j] \in Statuses
        BY <1>2, <3>0, <3>4 DEF CancelOfRow
      <4> QED
        BY <3>4, <4>1, Refusals DEF RefusedReports
    <3> QED
      BY <1>2, <3>1, <3>2, <3>3, <3>4 DEF Writes
  <2>2. LastReport(j)' = s
    BY <1>2, LastWritten DEF Writes
  <2>3. ASSUME NEW k \in Jobs
        PROVE  \/ LastReport(k)' = status'[k] \/ <<status'[k], LastReport(k)'>> \in RefusedReports
               \/ k \in unsaid'
    <3>1. CASE k = j
      BY <2>1, <2>2, <3>1
    <3>2. CASE k # j
      <4>1. status'[k] = status[k]
        BY <1>2, <3>2, Written
      <4>2. LastReport(k)' = LastReport(k) /\ (k \in unsaid' <=> k \in unsaid)
        BY <1>2, <3>2, LastWritten DEF Writes
      <4> QED
        BY <4>1, <4>2 DEF ReportFollowsRow
    <3> QED
      BY <3>1, <3>2
  <2> QED
    BY <2>3 DEF ReportFollowsRow, RefusedReports
<1>3. CASE Emit
  <2>1. UNCHANGED <<status, unsaid>> /\ \A k \in Jobs : LastReport(k)' = LastReport(k)
    BY <1>3 DEF Emit, LastReport, TypeOK, Reports, durable
  <2> QED
    BY <2>1 DEF ReportFollowsRow
<1>4. CASE Crash
  <2>1. UNCHANGED status /\ \A k \in Jobs : LastReport(k)' = LastReport(k) \/ k \in unsaid'
    BY <1>4 DEF Crash, LastReport, durable
  <2>2. unsaid \subseteq unsaid'
    BY <1>4 DEF Crash
  <2> QED
    BY <2>1, <2>2 DEF ReportFollowsRow
<1>5. CASE StepWrites
  BY <1>2, <1>3, <1>4, <1>5, DueInTurn DEF StepWrites
<1> QED
  BY <1>1, <1>3, <1>4, <1>5, StepsWrite

\* Whatever the crashes, redeliveries, lost answers and cancels: the last report of a job,
\* made or due, is the status of its row, or one of the six that RefusedReports lists, or
\* the report after it died with the process.
THEOREM ReportsFollowRows == Spec => []ReportFollowsRow
<1>1. Init => HeldRow /\ CancelOfRow /\ ReportFollowsRow
  <2> SUFFICES ASSUME Init PROVE HeldRow /\ CancelOfRow /\ ReportFollowsRow
    OBVIOUS
  <2>1. w.pc = "idle" /\ cancelling = NoJob /\ \A j \in Jobs : LastReport(j) = status[j]
    BY IdleFields DEF Init, LastReport
  <2> QED
    BY <2>1 DEF HeldRow, CancelOfRow, ReportFollowsRow
<1>2. Sound /\ Sound' /\ Budgeted /\ HeldRow /\ CancelOfRow /\ ReportFollowsRow /\ [Next]_vars
        => HeldRow' /\ CancelOfRow' /\ ReportFollowsRow'
  BY StepMoves, HeldKept, CancelKept, ReportKept DEF Sound, Budgeted
<1> QED
  BY <1>1, <1>2, SoundAlways, BudgetedAlways, PTL DEF Spec

-----------------------------------------------------------------------------
(* COMPLETED was printed.                                                    *)

\* A job that is being submitted has no id yet.
Unclaimed == w.pc \in Submitting => cupsId[w.job] = 0

\* The job the worker is about to complete has ended in CUPS with all its pages.
CompletedSeen ==
  \/ w.pc = "observed" /\ w.obs = "COMPLETED"
  \/ w.pc \in {"completing", "markCompleted"}
  => cups[w.job][w.id] = "completed"

\* Where one of the two speaks of the worker.
Minded == Submitting \cup {"observed", "completing", "markCompleted"}

\* An ended job stays as it ended.
LEMMA CompletedStands ==
  ASSUME TypeOK, [Next]_vars, NEW j \in Jobs, NEW i \in CupsIds, cups[j][i] = "completed"
  PROVE  cups'[j][i] = "completed"
<1>1. CASE UNCHANGED cups
  BY <1>1
<1>2. ASSUME NEW k \in CupsIds, CupsAccepts(k)
      PROVE  cups'[j][i] = "completed"
  BY <1>2, WorkerFacts DEF CupsAccepts, Existing, TypeOK
<1>3. ASSUME NEW k \in Jobs, NEW l \in CupsIds, NEW from \in SUBSET CupsActive, NEW to,
             CupsMoves(k, l, from, to)
      PROVE  cups'[j][i] = "completed"
  BY <1>3 DEF CupsMoves, TypeOK, CupsActive
<1>4. {"pending"} \in SUBSET CupsActive /\ {"printing"} \in SUBSET CupsActive
  BY DEF CupsActive
<1>5. CASE CupsStep
  BY <1>2, <1>3, <1>4, <1>5 DEF CupsStep, CupsPrints, CupsCompletes, CupsAborts, CupsCancels
<1>6. CASE ProcessStep \/ BackendStep \/ Emit \/ UNCHANGED vars
  BY <1>1, <1>6 DEF ProcessStep, BackendStep, Emit, Restart, RecoveryDone, Crash, RecoverNext, Assign,
     Cancel, CancelReturns, vars
<1>7. CASE WorkerStep
  BY <1>1, <1>7 DEF WorkerStep, TakeJob, BeginPipeline, DownloadSucceeds, RecordPath, MarkReady,
     DownloadFails, CountAttempt, ScheduleRetry, AfterSchedule, WakeUp, FailMovesFile, MarkFailed,
     LookupReady, StartSubmit, LpFails, LpReturnsId, LpTimesOut, LookupAfterTimeout, PersistId,
     MarkSubmitted, AdoptSubmitted, Observe, HandleQuietPoll, HandleFailedPoll, HandlePrintingPoll,
     HandleCompletedPoll, GateOpens, ArchiveFile, MarkCompleted
<1> QED
  BY <1>5, <1>6, <1>7 DEF Next

\* While no submission is under way for a job that has an id, no id is replaced.
LEMMA IdStands ==
  ASSUME TypeOK, Unclaimed, [Next]_vars, NEW j \in Jobs, cupsId[j] # 0
  PROVE  cupsId'[j] = cupsId[j]
BY OnlyPersist, WorkerFacts DEF PersistId, Unclaimed, Submitting, TypeOK

\* A file is archived as completed by one step only.
LEMMA OnlyArchive ==
  ASSUME TypeOK, [Next]_vars, NEW j \in Jobs, disk'[j] = "completed"
  PROVE  disk[j] = "completed" \/ (ArchiveFile /\ j = w.job)
<1>0. w.pc # "idle" => w.job \in Jobs
  BY WorkerFacts
<1>1. CASE UNCHANGED disk
  BY <1>1
<1>2. CASE DownloadSucceeds \/ FailMovesFile \/ ArchiveFile
  BY <1>0, <1>2 DEF DownloadSucceeds, FailMovesFile, ArchiveFile, TypeOK
<1>3. CASE ProcessStep \/ BackendStep \/ CupsStep \/ Emit \/ UNCHANGED vars
  BY <1>1, <1>3 DEF ProcessStep, BackendStep, CupsStep, Emit, Restart, RecoveryDone, Crash, RecoverNext,
     Resume, Pipeline, Assign, Cancel, CancelReturns, CupsAccepts, CupsPrints, CupsCompletes,
     CupsAborts, CupsCancels, CupsMoves, vars, durable
<1>4. CASE WorkerStep
  BY <1>1, <1>2, <1>4 DEF WorkerStep, TakeJob, Resume, Pipeline, BeginPipeline, RecordPath,
     MarkReady, DownloadFails, CountAttempt, ScheduleRetry, AfterSchedule, WakeUp, MarkFailed,
     LookupReady, StartSubmit, LpFails, LpReturnsId, LpTimesOut, LookupAfterTimeout, PersistId,
     MarkSubmitted, AdoptSubmitted, Observe, HandleQuietPoll, HandleFailedPoll, HandlePrintingPoll,
     HandleCompletedPoll, GateOpens, MarkCompleted, durable, row
<1> QED
  BY <1>3, <1>4 DEF Next

\* Elsewhere neither speaks of the worker.
LEMMA Unminded ==
  ASSUME w'.pc \notin Minded
  PROVE  Unclaimed' /\ CompletedSeen'
BY DEF Unclaimed, CompletedSeen, Minded

\* Neither does after an exception.
LEMMA RaiseUnminded ==
  ASSUME TypeOK, Raise
  PROVE  Unclaimed' /\ CompletedSeen'
<1>1. w'.pc \in {"fail", "idle"}
  BY WorkerFacts DEF Raise, Die, PCs, RunToCompletion
<1> QED
  BY <1>1, Unminded DEF Minded, Submitting

\* On the way through a submission no id is stored.
LEMMA StillUnclaimed ==
  ASSUME Unclaimed, UNCHANGED cupsId, w'.job = w.job, w.pc \in Submitting,
         w'.pc \notin {"observed", "completing", "markCompleted"}
  PROVE  Unclaimed' /\ CompletedSeen'
BY DEF Unclaimed, CompletedSeen

\* A job that is resumed is looked up in CUPS only if it has no id.
LEMMA ResumeUnclaimed ==
  ASSUME TypeOK, NEW j \in Jobs, Resume(j)
  PROVE  Unclaimed' /\ CompletedSeen'
<1>1. CASE \/ status[j] = "RECEIVED" /\ Pipeline(j, Record(j), FALSE)
           \/ status[j] = "DOWNLOADING" /\ Pipeline(j, Record(j), TRUE)
  BY <1>1, PipelineDownloads, Unminded DEF Minded, Submitting
<1>2. CASE \E pc \in {"fail", "sleep", "adoptSubmitted", "poll"} : \E r, i : w' = At(pc, j, FALSE, r, i)
  <2>1. w'.pc \in {"fail", "sleep", "adoptSubmitted", "poll"}
    BY <1>2 DEF At
  <2> QED
    BY <2>1, Unminded DEF Minded, Submitting
<1>3. CASE cupsId[j] = 0 /\ w' = At("lookup", j, FALSE, NoRecord, 0) /\ UNCHANGED cupsId
  <2>1. w'.pc = "lookup" /\ w'.job = j
    BY <1>3 DEF At
  <2> QED
    BY <1>3, <2>1 DEF Unclaimed, CompletedSeen
<1> QED
  BY <1>1, <1>2, <1>3 DEF Resume, durable

\* Of listings that lose nothing, COMPLETED is read only of a job that has completed.
LEMMA CompletedReading ==
  ASSUME ~LossyListings, NEW s, NEW b \in BOOLEAN,
         "COMPLETED" \in IF b THEN {CupsReading(s)} ELSE Misreadings(s)
  PROVE  s = "completed"
BY DEF CupsReading, Misreadings

\* The steps of the worker: an id is stored only once, and nothing is taken for completed
\* that CUPS has not completed.
LEMMA WorkerStepSeen ==
  ASSUME ~LossyListings, TypeOK, Safe, Grounded, StoredIdIsReal, Unclaimed, CompletedSeen, WorkerStep
  PROVE  Unclaimed' /\ CompletedSeen'
<1>0. /\ w \in Workers
      /\ w.pc # "idle" => w.job \in Jobs
      /\ \A p \in PCs : Goto(p).pc = p /\ Goto(p).job = w.job /\ Goto(p).id = w.id
      /\ \A p \in PCs : Handled(p).pc = p /\ Handled(p).job = w.job /\ Handled(p).id = w.id
      /\ Idle.pc = "idle"
  BY WorkerFacts DEF Handled, Workers
<1>1. CASE Raise
  BY <1>1, RaiseUnminded
<1>2. CASE TakeJob
  <2>1. Head(queue) \in Jobs
    BY <1>2 DEF TakeJob, TypeOK
  <2>2. CASE Resume(Head(queue))
    BY <2>1, <2>2, ResumeUnclaimed
  <2>3. CASE w'.pc \in {"begin", "idle"}
    BY <2>3, Unminded DEF Minded, Submitting
  <2> QED
    BY <1>2, <2>2, <2>3 DEF TakeJob, At
<1>3. CASE BeginPipeline \/ WakeUp
  <2>1. CASE Pipeline(w.job, w.rec, FALSE)
    <3>1. w'.pc \in {"downloading", "fail"}
      BY <1>0, <1>3, <2>1, PipelineDownloads DEF BeginPipeline, WakeUp
    <3> QED
      BY <3>1, Unminded DEF Minded, Submitting
  <2>2. CASE w' = Goto("fail")
    <3>1. w'.pc = "fail"
      BY <1>0, <2>2 DEF PCs, RunToCompletion
    <3> QED
      BY <3>1, Unminded DEF Minded, Submitting
  <2> QED
    BY <1>3, <2>1, <2>2 DEF BeginPipeline, WakeUp
<1>4. CASE \/ DownloadSucceeds \/ RecordPath \/ DownloadFails \/ CountAttempt \/ ScheduleRetry
           \/ FailMovesFile \/ MarkFailed \/ PersistId \/ HandleQuietPoll \/ HandleFailedPoll
  <2>1. w'.pc \in {"recordPath", "markReady", "preSubmit", "fail", "schedule", "scheduled",
                   "markFailed", "idle", "markSubmitted", "adoptSubmitted", "poll"}
    BY <1>0, <1>4 DEF DownloadSucceeds, RecordPath, DownloadFails, CountAttempt, ScheduleRetry,
       FailMovesFile, MarkFailed, PersistId, HandleQuietPoll, HandleFailedPoll,
       PCs, RunToCompletion, AwaitPoints
  <2> QED
    BY <2>1, Unminded DEF Minded, Submitting
<1>5. CASE AfterSchedule \/ LpFails
  <2>1. w'.pc \in {"idle", "fail", "sleep"}
    BY <1>0, <1>5 DEF AfterSchedule, LpFails, Workers, PCs, RunToCompletion
  <2> QED
    BY <2>1, Unminded DEF Minded, Submitting
<1>6. CASE MarkReady
  <2>1. w.pc = "markReady" /\ w.job \in Jobs /\ UNCHANGED cupsId
    BY <1>0, <1>6 DEF MarkReady
  <2>2. cupsId[w.job] = 0
    BY <2>1 DEF Safe, FreshSubmission, StoredIdIsReal
  <2>3. CASE w' = Goto("submit")
    <3>1. w'.pc = "submit" /\ w'.job = w.job
      BY <1>0, <2>3 DEF PCs, AwaitPoints
    <3> QED
      BY <2>1, <2>2, <3>1 DEF Unclaimed, CompletedSeen
  <2> QED
    BY <1>1, <1>6, <2>3 DEF MarkReady, Transition
<1>7. CASE LookupReady \/ LookupAfterTimeout
  <2>1. /\ w.pc \in Submitting /\ UNCHANGED cupsId
        /\ Raise \/ (w'.job = w.job /\ w'.pc \in {"fail", "submit", "persistFound", "persistNew"})
    BY <1>7, LookupMoves DEF LookupReady, LookupAfterTimeout, Submitting, durable
  <2> QED
    BY <1>1, <2>1, StillUnclaimed
<1>8. CASE StartSubmit
  <2>1. w.pc \in Submitting /\ UNCHANGED cupsId
    BY <1>8 DEF StartSubmit, Submitting, durable
  <2>2. CASE w' \in {Goto("fail"), Goto("lp"), Goto("preSubmit")}
    <3>1. w'.job = w.job /\ w'.pc \in {"fail", "lp", "preSubmit"}
      BY <1>0, <2>2 DEF PCs, RunToCompletion, AwaitPoints
    <3> QED
      BY <2>1, <3>1, StillUnclaimed
  <2> QED
    BY <1>1, <1>8, <2>2 DEF StartSubmit
<1>9. CASE LpReturnsId \/ LpTimesOut
  <2>1. /\ w.pc \in Submitting /\ UNCHANGED cupsId
        /\ w'.job = w.job /\ w'.pc \in {"persistNew", "lpLookup"}
    <3>1. CASE LpReturnsId
      BY <1>0, <3>1 DEF LpReturnsId, Submitting, PCs, RunToCompletion, durable
    <3>2. CASE LpTimesOut
      BY <1>0, <3>2 DEF LpTimesOut, Submitting, Workers, durable
    <3> QED
      BY <1>9, <3>1, <3>2
  <2> QED
    BY <2>1, StillUnclaimed
<1>10. CASE MarkSubmitted \/ AdoptSubmitted \/ HandlePrintingPoll \/ MarkCompleted
  <2>1. CASE w' \in {Goto("poll"), Handled("poll"), Idle}
    <3>1. w'.pc \in {"poll", "idle"}
      BY <1>0, <2>1 DEF PCs, AwaitPoints
    <3> QED
      BY <3>1, Unminded DEF Minded, Submitting
  <2> QED
    BY <1>1, <1>10, <2>1 DEF MarkSubmitted, AdoptSubmitted, HandlePrintingPoll, MarkCompleted, Transition
<1>11. ASSUME NEW b \in BOOLEAN, Observe(b)
       PROVE  Unclaimed' /\ CompletedSeen'
  <2> DEFINE s == cups[w.job][w.id]
  <2>1. PICK o \in IF b THEN {CupsReading(s)} ELSE Misreadings(s) :
          w' = [w EXCEPT !.pc = "observed", !.obs = o]
    BY <1>11 DEF Observe
  <2>2. w'.pc = "observed" /\ w'.obs = o /\ w'.job = w.job /\ w'.id = w.id /\ UNCHANGED cups
    BY <1>0, <1>11, <2>1 DEF Workers, Observe
  <2>3. o = "COMPLETED" => s = "completed"
    BY <2>1, CompletedReading
  <2> QED
    BY <2>2, <2>3 DEF Unclaimed, CompletedSeen, Submitting
<1>12. CASE HandleCompletedPoll \/ GateOpens \/ ArchiveFile
  <2>1. /\ UNCHANGED cups
        /\ (w.pc = "observed" /\ w.obs = "COMPLETED") \/ w.pc = "completing"
        /\ \/ w'.pc \in {"idle", "poll"}
           \/ w'.pc \in {"completing", "markCompleted"} /\ w'.job = w.job /\ w'.id = w.id
    BY <1>0, <1>12 DEF HandleCompletedPoll, GateOpens, ArchiveFile, PCs, RunToCompletion, AwaitPoints
  <2> QED
    BY <2>1 DEF Unclaimed, CompletedSeen, Submitting
<1> QED
  BY <1>2, <1>3, <1>4, <1>5, <1>6, <1>7, <1>8, <1>9, <1>10, <1>11, <1>12 DEF WorkerStep

\* The other steps.
LEMMA OtherStepSeen ==
  ASSUME TypeOK, Grounded, Unclaimed, CompletedSeen, [Next]_vars, ~WorkerStep
  PROVE  Unclaimed' /\ CompletedSeen'
<1>0. w \in Workers /\ (w.pc # "idle" => w.job \in Jobs) /\ Idle.pc = "idle"
  BY WorkerFacts
<1>1. CASE UNCHANGED <<w, cupsId>>
  <2>1. Unclaimed'
    BY <1>1 DEF Unclaimed
  <2>2. CompletedSeen'
    <3>1. w.pc \in {"observed", "completing", "markCompleted"} => w.job \in Jobs /\ w.id \in CupsIds
      BY <1>0 DEF Grounded, Monitoring, Workers
    <3> QED
      BY <1>1, <3>1, CompletedStands DEF CompletedSeen
  <2> QED
    BY <2>1, <2>2
<1>2. ASSUME NEW j \in Jobs, RecoverNext(j)
      PROVE  Unclaimed' /\ CompletedSeen'
  BY <1>2, ResumeUnclaimed DEF RecoverNext
<1>3. CASE Crash
  BY <1>0, <1>3, Unminded DEF Crash, Die, Minded, Submitting
<1>4. ASSUME NEW i \in CupsIds, CupsAccepts(i)
      PROVE  Unclaimed' /\ CompletedSeen'
  <2>1. w.pc \in Submitting /\ w'.pc = "lpAccepted" /\ w'.job = w.job /\ UNCHANGED cupsId
    BY <1>0, <1>4 DEF CupsAccepts, Workers, Submitting, durable
  <2> QED
    BY <2>1, StillUnclaimed
<1> QED
  BY <1>1, <1>2, <1>3, <1>4 DEF Next, ProcessStep, BackendStep, CupsStep, Emit, Restart, RecoveryDone,
     CancelReturns, Assign, Cancel, CupsPrints, CupsCompletes, CupsAborts, CupsCancels, CupsMoves,
     vars, durable

\* What is claimed to be completed was printed before, or is what the worker has seen.
LEMMA CompletedKept ==
  ASSUME TypeOK, Grounded, Unclaimed, CompletedSeen, CompletedWasPrinted, FinalReportIsTrue',
         [Next]_vars
  PROVE  CompletedWasPrinted'
<1> SUFFICES ASSUME NEW j \in Jobs,
                    status'[j] = "COMPLETED" \/ reported'[j] = "COMPLETED" \/ disk'[j] = "completed"
             PROVE  cupsId'[j] # 0 /\ cups'[j][cupsId'[j]] = "completed"
  BY DEF CompletedWasPrinted
<1>1. cupsId[j] \in CupsIds \cup {0}
  BY DEF TypeOK
<1>2. cupsId[j] # 0 /\ cups[j][cupsId[j]] = "completed"
  <2>1. CASE status[j] = "COMPLETED" \/ reported[j] = "COMPLETED" \/ disk[j] = "completed"
    BY <2>1 DEF CompletedWasPrinted
  <2>2. CASE (ArchiveFile \/ MarkCompleted) /\ j = w.job
    BY <2>2 DEF ArchiveFile, MarkCompleted, CompletedSeen, Grounded, Monitoring
  <2>3. reported'[j] = "COMPLETED" => status'[j] = "COMPLETED"
    BY DEF FinalReportIsTrue
  <2> QED
    BY <2>1, <2>2, <2>3, OnlyWriters, OnlyArchive
<1>3. cupsId'[j] = cupsId[j]
  BY <1>2, IdStands
<1>4. cups'[j][cupsId[j]] = "completed"
  BY <1>1, <1>2, CompletedStands
<1> QED
  BY <1>2, <1>3, <1>4

\* COMPLETED is true for every set of jobs, provided no listing or detail fails silently:
\* in the row, towards the backend and by the place of the file, it is said only of a job
\* that CUPS printed to its end.
THEOREM CompletedMeansPrinted ==
  ASSUME ~LossyListings
  PROVE  Spec => []CompletedWasPrinted
<1>1. Init => Unclaimed /\ CompletedSeen /\ CompletedWasPrinted
  <2> SUFFICES ASSUME Init PROVE Unclaimed /\ CompletedSeen /\ CompletedWasPrinted
    OBVIOUS
  <2>1. w.pc = "idle"
    BY IdleFields DEF Init
  <2>2. \A j \in Jobs : status[j] = NoRow /\ reported[j] = NoRow /\ disk[j] = "none"
    BY DEF Init
  <2> QED
    BY <2>1, <2>2 DEF Unclaimed, CompletedSeen, CompletedWasPrinted, Submitting, NoRow
<1>2. Safe /\ Sound /\ Sound' /\ Unclaimed /\ CompletedSeen /\ CompletedWasPrinted /\ [Next]_vars
        => Unclaimed' /\ CompletedSeen' /\ CompletedWasPrinted'
  BY WorkerStepSeen, OtherStepSeen, CompletedKept DEF Sound
<1> QED
  BY <1>1, <1>2, SafeAlways, SoundAlways, PTL DEF Spec

=============================================================================
