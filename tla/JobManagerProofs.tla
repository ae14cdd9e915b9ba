-------------------------- MODULE JobManagerProofs --------------------------
(* Theorems about JobManager, for every set of jobs and every bound. *)
EXTENDS JobManager, TLAPS

-----------------------------------------------------------------------------
(* The worker record.                                                        *)

\* Moving the program counter keeps every other field of the worker.
LEMMA GotoFields ==
  ASSUME w \in Workers, NEW p \in PCs
  PROVE  /\ Goto(p) \in Workers
         /\ Goto(p).pc = p
         /\ Goto(p).job = w.job
         /\ Goto(p).inPipeline = w.inPipeline
         /\ Goto(p).rec = w.rec
         /\ Goto(p).id = w.id
         /\ Goto(p).obs = w.obs
BY DEF Goto, Workers

\* At builds a worker state from its parts.
LEMMA AtFields ==
  ASSUME NEW p \in PCs, NEW j \in Jobs \cup {NoJob}, NEW b \in BOOLEAN,
         NEW r \in Records, NEW i \in CupsIds \cup {0}
  PROVE  /\ At(p, j, b, r, i) \in Workers
         /\ At(p, j, b, r, i).pc = p
         /\ At(p, j, b, r, i).job = j
         /\ At(p, j, b, r, i).inPipeline = b
         /\ At(p, j, b, r, i).rec = r
         /\ At(p, j, b, r, i).id = i
BY DEF At, Workers, PollStates

\* The record of a job the worker knows nothing of is a record.
LEMMA NoRecordType == NoRecord \in Records
BY DEF NoRecord, Records

\* What is read from a well-typed table is a record.
LEMMA RecordType ==
  ASSUME TypeOK, NEW j \in Jobs
  PROVE  Record(j) \in Records
BY DEF TypeOK, Record, Records

\* The idle worker holds nothing.
LEMMA IdleFields ==
  /\ Idle \in Workers
  /\ Idle.pc = "idle" /\ Idle.job = NoJob /\ ~Idle.inPipeline /\ Idle.id = 0
<1>1. "idle" \in PCs
  BY DEF PCs
<1>2. QED
  BY <1>1, NoRecordType DEF Idle, At, Workers, PollStates

\* An idle worker is consistent.
LEMMA IdleOK == WorkerOK(Idle)
BY IdleFields DEF WorkerOK

\* A worker sent on with its job, to a place that needs no printer job id or
\* with one in its hands, is consistent.
LEMMA GotoOK ==
  ASSUME TypeOK, w.job # NoJob, NEW p \in PCs \ {"idle"},
         p \in {"lpAccepted", "persistNew", "persistFound", "markSubmitted",
                "adoptSubmitted", "poll", "observed"} => w.id # 0
  PROVE  WorkerOK(Goto(p))
BY GotoFields DEF TypeOK, WorkerOK

\* The same of a worker built from its parts.
LEMMA AtOK ==
  ASSUME NEW p \in PCs \ {"idle"}, NEW j \in Jobs, NEW b \in BOOLEAN,
         NEW r \in Records, NEW i \in CupsIds \cup {0},
         p \in {"lpAccepted", "persistNew", "persistFound", "markSubmitted",
                "adoptSubmitted", "poll", "observed"} => i # 0
  PROVE  WorkerOK(At(p, j, b, r, i))
<1>1. j # NoJob
  BY NoJobAssumption
<1>2. QED
  BY <1>1, AtFields DEF WorkerOK

-----------------------------------------------------------------------------
(* TypeOK: one lemma per operator the actions share, one step per action.    *)

ControlOK ==
  /\ phase \in {"down", "recovering", "running"}
  /\ todo \in SUBSET Jobs
  /\ queue \in Seq(Jobs)
  /\ cancelling \in Jobs \cup {NoJob}
  /\ crashes \in Nat

\* What is and was reported.
SaidOK ==
  /\ emit \in Reports \cup {NoReport}
  /\ reported \in [Jobs -> Statuses \cup {NoRow}]
  /\ unsaid \subseteq Jobs

\* Reports that are left alone stay well typed.
LEMMA SaidKept ==
  ASSUME TypeOK, UNCHANGED said
  PROVE  SaidOK'
BY DEF TypeOK, SaidOK, said

\* A report that becomes due is one.
LEMMA DueType ==
  ASSUME TypeOK, NEW j \in Jobs, NEW s \in Statuses, Due(j, s)
  PROVE  SaidOK'
BY DEF TypeOK, SaidOK, Due, Reports

\* The death of the process leaves well-typed control state and an idle worker.
LEMMA DieType ==
  ASSUME TypeOK, Die
  PROVE  ControlOK' /\ w' = Idle
<1>1. <<>> \in Seq(Jobs)
  OBVIOUS
<1>2. QED
  BY <1>1 DEF TypeOK, Die, ControlOK

\* An exception sends the worker to _fail_job, to idle, or ends the process.
LEMMA RaiseType ==
  ASSUME TypeOK, w.job # NoJob, Raise
  PROVE  ControlOK' /\ WorkerOK(w)'
<1>1. CASE w' = Goto("fail") /\ UNCHANGED control
  <2>1. WorkerOK(Goto("fail"))
    BY GotoOK DEF PCs, RunToCompletion
  <2>2. ControlOK'
    BY <1>1 DEF TypeOK, ControlOK, control
  <2>3. QED
    BY <1>1, <2>1, <2>2 DEF WorkerOK
<1>2. CASE w' = Idle /\ UNCHANGED control
  <2>1. ControlOK'
    BY <1>2 DEF TypeOK, ControlOK, control
  <2>2. QED
    BY <1>2, <2>1, IdleOK DEF WorkerOK
<1>3. CASE Die
  <2>1. ControlOK' /\ w' = Idle
    BY <1>3, DieType
  <2>2. QED
    BY <2>1, IdleOK DEF WorkerOK
<1>4. QED
  BY <1>1, <1>2, <1>3 DEF Raise

\* _transition writes a status or raises.
LEMMA TransitionType ==
  ASSUME TypeOK, NEW j \in Jobs, NEW s \in Statuses, NEW next,
         WorkerOK(next), w.job # NoJob, Transition(j, s, next)
  PROVE  /\ status' \in [Jobs -> Statuses \cup {NoRow}]
         /\ SaidOK'
         /\ ControlOK' /\ WorkerOK(w)'
<1>1. CASE /\ status' = [status EXCEPT ![j] = s]
           /\ Due(j, s)
           /\ w' = next
           /\ UNCHANGED control
  BY <1>1, DueType DEF TypeOK, WorkerOK, ControlOK, control
<1>2. CASE Raise /\ UNCHANGED <<status, said>>
  BY <1>2, RaiseType, SaidKept DEF TypeOK
<1>3. QED
  BY <1>1, <1>2 DEF Transition

\* The entry of the download pipeline.
LEMMA PipelineType ==
  ASSUME TypeOK, NEW j \in Jobs, NEW r \in Records, NEW b \in BOOLEAN,
         Pipeline(j, r, b)
  PROVE  /\ status' \in [Jobs -> Statuses \cup {NoRow}]
         /\ SaidOK'
         /\ WorkerOK(w)'
         /\ UNCHANGED <<cupsId, attempts, filePath, disk>>
<1>1. /\ WorkerOK(At("downloading", j, TRUE, NoRecord, 0))
      /\ WorkerOK(At("fail", j, TRUE, NoRecord, 0))
  BY AtOK, NoRecordType DEF PCs, RunToCompletion, AwaitPoints
<1>2. w' \in {At("downloading", j, TRUE, NoRecord, 0), At("fail", j, TRUE, NoRecord, 0)}
  BY DEF Pipeline
<1>3. WorkerOK(w)'
  BY <1>1, <1>2 DEF WorkerOK
<1>4. "DOWNLOADING" \in Statuses
  BY DEF Statuses
<1>5. /\ status' = status \/ status' = [status EXCEPT ![j] = "DOWNLOADING"]
      /\ UNCHANGED said \/ Due(j, "DOWNLOADING")
      /\ UNCHANGED <<cupsId, attempts, filePath, disk>>
  BY DEF Pipeline
<1>6. QED
  BY <1>3, <1>4, <1>5, SaidKept, DueType DEF TypeOK

\* Resuming a job from its row.
LEMMA ResumeType ==
  ASSUME TypeOK, NEW j \in Jobs, Resume(j)
  PROVE  /\ status' \in [Jobs -> Statuses \cup {NoRow}]
         /\ SaidOK'
         /\ WorkerOK(w)'
         /\ UNCHANGED <<cupsId, attempts, filePath, disk>>
<1>1. CASE Pipeline(j, Record(j), FALSE) \/ Pipeline(j, Record(j), TRUE)
  BY <1>1, PipelineType, RecordType
<1>2. CASE /\ UNCHANGED <<durable, said>>
           /\ w' \in {At("fail", j, FALSE, NoRecord, 0),
                      At("fail", j, FALSE, NoRecord, cupsId[j]),
                      At("sleep", j, FALSE, Record(j), 0),
                      At("lookup", j, FALSE, NoRecord, 0)}
  <2>1. cupsId[j] \in CupsIds \cup {0}
    BY DEF TypeOK
  <2>2. WorkerOK(w')
    BY <1>2, <2>1, AtOK, NoRecordType, RecordType DEF PCs, RunToCompletion, AwaitPoints
  <2>3. QED
    BY <1>2, <2>2, SaidKept DEF TypeOK, WorkerOK, durable
<1>3. CASE /\ UNCHANGED <<durable, said>>
           /\ cupsId[j] # 0
           /\ w' \in {At("adoptSubmitted", j, FALSE, NoRecord, cupsId[j]),
                      At("poll", j, FALSE, NoRecord, cupsId[j])}
  <2>1. cupsId[j] \in CupsIds \cup {0}
    BY DEF TypeOK
  <2>2. WorkerOK(w')
    BY <1>3, <2>1, AtOK, NoRecordType DEF PCs, RunToCompletion, AwaitPoints
  <2>3. QED
    BY <1>3, <2>2, SaidKept DEF TypeOK, WorkerOK, durable
<1>4. QED
  BY <1>1, <1>2, <1>3 DEF Resume

\* The steps of the worker.
LEMMA WorkerStepType ==
  ASSUME TypeOK, WorkerStep
  PROVE  TypeOK'
<1> USE DEF TypeOK, SaidOK, said
<1>0. /\ w \in Workers
      /\ w.pc = "idle" <=> w.job = NoJob
      /\ w.rec \in Records /\ w.id \in CupsIds \cup {0}
      /\ w.pc # "idle" => w.job \in Jobs
      /\ Idle \in Workers /\ WorkerOK(Idle)
  BY IdleFields, IdleOK DEF WorkerOK, Workers
<1>1. ASSUME TakeJob PROVE TypeOK'
  <2> DEFINE j == Head(queue)
  <2>1. j \in Jobs /\ queue' \in Seq(Jobs)
    BY <1>1 DEF TakeJob
  <2>2. /\ status' \in [Jobs -> Statuses \cup {NoRow}]
        /\ SaidOK'
        /\ WorkerOK(w)'
        /\ UNCHANGED <<cupsId, attempts, filePath, disk>>
    <3> DEFINE new == [status |-> "RECEIVED", cups |-> 0, attempts |-> 0]
    <3>1. CASE status' = [status EXCEPT ![j] = "RECEIVED"] /\ w' = At("begin", j, TRUE, new, 0)
               /\ Due(j, "RECEIVED")
               /\ UNCHANGED <<cupsId, attempts, filePath, disk>>
      <4>1. new \in Records
        BY DEF Records, Statuses
      <4>2. WorkerOK(At("begin", j, TRUE, new, 0))
        BY <2>1, <4>1, AtOK DEF PCs, AwaitPoints
      <4>3. WorkerOK(w')
        BY <3>1, <4>2
      <4>4. QED
        BY <3>1, <4>3, <2>1, DueType DEF WorkerOK, Statuses
    <3>2. CASE Due(j, status[j]) /\ status[j] \in TERMINAL_STATUSES /\ UNCHANGED <<durable, w>>
      BY <3>2, <2>1, DueType DEF WorkerOK, durable, TERMINAL_STATUSES, Statuses
    <3>3. CASE Resume(j)
      BY <3>3, <2>1, ResumeType
    <3>4. QED
      BY <1>1, <3>1, <3>2, <3>3 DEF TakeJob
  <2>3. QED
    BY <1>1, <2>1, <2>2 DEF TakeJob
<1>2. ASSUME BeginPipeline PROVE TypeOK'
  <2>1. w.rec \in Records /\ w.job \in Jobs
    BY <1>0, <1>2 DEF BeginPipeline, Workers
  <2>2. QED
    BY <1>2, <2>1, PipelineType DEF BeginPipeline, control
<1>3. ASSUME DownloadSucceeds \/ RecordPath \/ DownloadFails PROVE TypeOK'
  <2>1. WorkerOK(w')
    BY <1>0, <1>3, GotoOK DEF DownloadSucceeds, RecordPath, DownloadFails,
                              PCs, RunToCompletion
  <2>2. QED
    BY <1>0, <1>3, <2>1 DEF DownloadSucceeds, RecordPath, DownloadFails,
                            WorkerOK, durable, row, control, Places
<1>4. ASSUME MarkReady PROVE TypeOK'
  <2>1. WorkerOK(Goto("submit"))
    BY <1>0, <1>4, GotoOK DEF MarkReady, PCs, AwaitPoints
  <2>2. QED
    BY <1>0, <1>4, <2>1, TransitionType DEF MarkReady, ControlOK, Statuses
<1>5. ASSUME CountAttempt \/ ScheduleRetry PROVE TypeOK'
  <2>1. WorkerOK(w')
    BY <1>0, <1>5, GotoOK DEF CountAttempt, ScheduleRetry, PCs, RunToCompletion, AwaitPoints
  <2>2. "RETRY_WAITING" \in Statuses
    BY DEF Statuses
  <2>3. CASE CountAttempt
    <3>1. attempts' \in [Jobs -> Nat]
      <4>1. w.job \in Jobs
        BY <1>0, <2>3 DEF CountAttempt
      <4>2. attempts[w.job] + 1 \in Nat
        BY <4>1
      <4>3. attempts' = attempts \/ attempts' = [attempts EXCEPT ![w.job] = attempts[w.job] + 1]
        BY <2>3 DEF CountAttempt
      <4>4. QED
        BY <4>2, <4>3
    <3>2. QED
      BY <2>3, <2>1, <3>1 DEF CountAttempt, WorkerOK, control
  <2>4. CASE ScheduleRetry
    <3>1. w.job \in Jobs /\ (UNCHANGED said \/ Due(w.job, "RETRY_WAITING"))
      BY <1>0, <2>4 DEF ScheduleRetry
    <3>2. SaidOK'
      BY <3>1, <2>2, SaidKept, DueType
    <3>3. status' \in [Jobs -> Statuses \cup {NoRow}]
      BY <2>4, <2>2 DEF ScheduleRetry
    <3>4. QED
      BY <2>4, <2>1, <3>2, <3>3 DEF ScheduleRetry, WorkerOK, control
  <2>5. QED
    BY <1>5, <2>3, <2>4
<1>6. ASSUME AfterSchedule PROVE TypeOK'
  <2>1. WorkerOK([w EXCEPT !.pc = "sleep", !.rec = Record(w.job)])
    <3>1. Record(w.job) \in Records
      BY <1>0, <1>6, RecordType DEF AfterSchedule
    <3>2. "sleep" \in PCs
      BY DEF PCs, AwaitPoints
    <3>3. QED
      BY <1>0, <1>6, <3>1, <3>2 DEF AfterSchedule, WorkerOK, Workers
  <2>2. WorkerOK(Goto("fail"))
    BY <1>0, <1>6, GotoOK DEF AfterSchedule, PCs, RunToCompletion
  <2>3. WorkerOK(w')
    BY <1>0, <1>6, <2>1, <2>2 DEF AfterSchedule
  <2>4. QED
    BY <1>6, <2>3 DEF AfterSchedule, WorkerOK, durable, control
<1>7. ASSUME WakeUp PROVE TypeOK'
  <2>1. w.rec \in Records /\ w.job \in Jobs
    BY <1>0, <1>7 DEF WakeUp, Workers
  <2>2. CASE w' = Goto("fail") /\ UNCHANGED <<durable, said>>
    <3>1. WorkerOK(w')
      BY <1>0, <1>7, <2>2, GotoOK DEF WakeUp, PCs, RunToCompletion
    <3>2. QED
      BY <1>7, <2>2, <3>1 DEF WakeUp, WorkerOK, durable, control
  <2>3. CASE Pipeline(w.job, w.rec, FALSE)
    BY <1>7, <2>1, <2>3, PipelineType DEF WakeUp, control
  <2>4. QED
    BY <1>7, <2>2, <2>3 DEF WakeUp
<1>8. ASSUME FailMovesFile \/ MarkFailed PROVE TypeOK'
  <2>1. WorkerOK(w')
    BY <1>0, <1>8, GotoOK DEF FailMovesFile, MarkFailed, PCs, RunToCompletion
  <2>2. CASE FailMovesFile
    BY <1>0, <2>1, <2>2 DEF FailMovesFile, WorkerOK, row, control, Places
  <2>3. CASE MarkFailed
    <3>1. w.job \in Jobs /\ "FAILED" \in Statuses
      BY <1>0, <2>3 DEF MarkFailed, Statuses
    <3>2. SaidOK'
      BY <2>3, <3>1, DueType DEF MarkFailed
    <3>3. status' \in [Jobs -> Statuses \cup {NoRow}]
      BY <2>3, <3>1 DEF MarkFailed
    <3>4. QED
      BY <2>3, <2>1, <3>2, <3>3 DEF MarkFailed, WorkerOK, control
  <2>4. QED
    BY <1>8, <2>2, <2>3
<1>9. ASSUME LookupReady \/ LookupAfterTimeout PROVE TypeOK'
  <2>1. w.pc \in {"lookup", "lpLookup"} /\ w.job \in Jobs
    BY <1>0, <1>9 DEF LookupReady, LookupAfterTimeout
  <2>2. CASE Raise
    BY <1>9, <2>1, <2>2, RaiseType, NoJobAssumption
       DEF LookupReady, LookupAfterTimeout, ControlOK, durable
  <2>3. CASE /\ w' \in {Goto("fail"), Goto("submit")}
             /\ UNCHANGED control
    <3>1. WorkerOK(w')
      BY <1>0, <2>1, <2>3, GotoOK DEF PCs, RunToCompletion, AwaitPoints
    <3>2. QED
      BY <1>9, <2>3, <3>1 DEF LookupReady, LookupAfterTimeout, WorkerOK, durable, control
  <2>4. CASE /\ \E i \in Existing(w.job) :
                  w' \in {[w EXCEPT !.pc = "persistFound", !.id = i],
                          [w EXCEPT !.pc = "persistNew", !.id = i]}
             /\ UNCHANGED control
    <3>1. PICK i \in Existing(w.job) :
            w' \in {[w EXCEPT !.pc = "persistFound", !.id = i],
                    [w EXCEPT !.pc = "persistNew", !.id = i]}
      BY <2>4
    <3>2. i \in CupsIds /\ i # 0
      BY BoundsAssumption DEF Existing, CupsIds
    <3>3. WorkerOK(w')
      BY <1>0, <2>1, <3>1, <3>2 DEF WorkerOK, Workers, PCs, RunToCompletion
    <3>4. QED
      BY <1>9, <2>4, <3>3 DEF LookupReady, LookupAfterTimeout, WorkerOK, durable, control
  <2>5. ASSUME NEW m \in Seen(w.job) PROVE m \subseteq Existing(w.job)
    BY DEF Seen
  <2>6. QED
    BY <1>9, <2>2, <2>3, <2>4, <2>5 DEF LookupReady, LookupAfterTimeout
<1>10. ASSUME StartSubmit PROVE TypeOK'
  <2>1. CASE Raise
    BY <1>0, <1>10, <2>1, RaiseType DEF StartSubmit, ControlOK, durable
  <2>2. CASE w' \in {Goto("fail"), Goto("lp"), Goto("preSubmit")} /\ UNCHANGED control
    <3>1. WorkerOK(w')
      BY <1>0, <1>10, <2>2, GotoOK DEF StartSubmit, PCs, RunToCompletion, AwaitPoints
    <3>2. QED
      BY <1>10, <2>2, <3>1 DEF StartSubmit, WorkerOK, durable, control
  <2>3. QED
    BY <1>10, <2>1, <2>2 DEF StartSubmit
<1>11. ASSUME LpFails \/ LpReturnsId \/ LpTimesOut \/ PersistId PROVE TypeOK'
  <2>1. WorkerOK(w')
    <3>1. CASE LpFails \/ LpTimesOut
      BY <1>0, <3>1 DEF LpFails, LpTimesOut, WorkerOK, Workers, PCs, RunToCompletion, AwaitPoints
    <3>2. CASE LpReturnsId \/ PersistId
      BY <1>0, <3>2, GotoOK DEF LpReturnsId, PersistId, WorkerOK, PCs, RunToCompletion
    <3>3. QED
      BY <1>11, <3>1, <3>2
  <2>2. w.id \in CupsIds \cup {0}
    BY <1>0 DEF Workers
  <2>3. QED
    BY <1>0, <1>11, <2>1, <2>2 DEF LpFails, LpReturnsId, LpTimesOut, PersistId,
                                   WorkerOK, durable, control
<1>12. ASSUME MarkSubmitted \/ AdoptSubmitted PROVE TypeOK'
  <2>1. WorkerOK(Goto("poll"))
    BY <1>0, <1>12, GotoOK DEF MarkSubmitted, AdoptSubmitted, WorkerOK, PCs, AwaitPoints
  <2>2. CASE Transition(w.job, "SUBMITTED", Goto("poll"))
    BY <1>0, <1>12, <2>1, <2>2, TransitionType
       DEF MarkSubmitted, AdoptSubmitted, ControlOK, Statuses
  <2>3. CASE w' = Goto("poll") /\ UNCHANGED <<status, said, control>>
    BY <1>12, <2>1, <2>3 DEF MarkSubmitted, AdoptSubmitted, WorkerOK, control
  <2>4. QED
    BY <1>12, <2>2, <2>3 DEF MarkSubmitted, AdoptSubmitted
<1>13. ASSUME Observe(TRUE) \/ Observe(FALSE) PROVE TypeOK'
  <2>1. Misreadings(cups[w.job][w.id]) \cup {CupsReading(cups[w.job][w.id])} \subseteq PollStates
    BY DEF Misreadings, CupsReading, PollStates
  <2>2. PICK o \in PollStates : w' = [w EXCEPT !.pc = "observed", !.obs = o]
    BY <1>13, <2>1 DEF Observe
  <2>3. w.pc = "poll" /\ w \in Workers
    BY <1>0, <1>13 DEF Observe
  <2>4. "observed" \in PCs
    BY DEF PCs, AwaitPoints
  <2>5. w' \in Workers
    BY <2>2, <2>3, <2>4 DEF Workers
  <2>6. w'.pc = "observed" /\ w'.job = w.job /\ w'.id = w.id
    BY <2>2, <2>3 DEF Workers
  <2>7. w.job # NoJob /\ w.id # 0
    BY <1>0, <2>3 DEF WorkerOK
  <2>8. WorkerOK(w')
    BY <2>5, <2>6, <2>7 DEF WorkerOK
  <2>9. QED
    BY <1>13, <2>8 DEF Observe, WorkerOK, durable, control
<1>14. ASSUME w.pc = "observed" PROVE WorkerOK(Handled("poll")) /\ WorkerOK(Handled("fail"))
                                      /\ WorkerOK(Handled("completing"))
  BY <1>0, <1>14 DEF Handled, WorkerOK, Workers, PollStates, PCs, RunToCompletion, AwaitPoints
<1>15. ASSUME HandleQuietPoll \/ HandleFailedPoll \/ HandleCompletedPoll \/ GateOpens
       PROVE  TypeOK'
  <2>1. WorkerOK(w')
    BY <1>0, <1>14, <1>15 DEF HandleQuietPoll, HandleFailedPoll, HandleCompletedPoll, GateOpens
  <2>2. QED
    BY <1>15, <2>1 DEF HandleQuietPoll, HandleFailedPoll, HandleCompletedPoll, GateOpens,
                       WorkerOK, durable, control
<1>16. ASSUME HandlePrintingPoll PROVE TypeOK'
  <2>1. WorkerOK(Handled("poll"))
    BY <1>14, <1>16 DEF HandlePrintingPoll
  <2>2. CASE Transition(w.job, "PRINTING", Handled("poll"))
    BY <1>0, <1>16, <2>1, <2>2, TransitionType DEF HandlePrintingPoll, ControlOK, Statuses
  <2>3. CASE w' = Handled("poll") /\ UNCHANGED <<status, said, control>>
    BY <1>16, <2>1, <2>3 DEF HandlePrintingPoll, WorkerOK, control
  <2>4. QED
    BY <1>16, <2>2, <2>3 DEF HandlePrintingPoll
<1>17. ASSUME ArchiveFile PROVE TypeOK'
  <2>1. WorkerOK(w')
    BY <1>0, <1>17, GotoOK DEF ArchiveFile, PCs, RunToCompletion
  <2>2. QED
    BY <1>0, <1>17, <2>1 DEF ArchiveFile, WorkerOK, row, control, Places
<1>18. ASSUME MarkCompleted PROVE TypeOK'
  BY <1>0, <1>18, TransitionType DEF MarkCompleted, ControlOK, Statuses
<1>19. QED
  BY <1>1, <1>2, <1>3, <1>4, <1>5, <1>6, <1>7, <1>8, <1>9, <1>10, <1>11, <1>12,
     <1>13, <1>15, <1>16, <1>17, <1>18 DEF WorkerStep

\* Start, recovery and death of the process.
LEMMA ProcessStepType ==
  ASSUME TypeOK, ProcessStep
  PROVE  TypeOK'
<1>1. CASE Restart \/ RecoveryDone
  BY <1>1 DEF said, Restart, RecoveryDone, TypeOK, WorkerOK, durable
<1>2. CASE Crash
  <2>1. ControlOK' /\ w' = Idle
    BY <1>2, DieType DEF Crash
  <2>2. WorkerOK(w')
    BY <2>1, IdleOK
  <2>3. QED
    BY <1>2, <2>1, <2>2 DEF Crash, TypeOK, WorkerOK, ControlOK, durable
<1>3. ASSUME NEW j \in Jobs, RecoverNext(j) PROVE TypeOK'
  <2>1. Resume(j)
    BY <1>3 DEF RecoverNext
  <2>2. QED
    BY <1>3, <2>1, ResumeType DEF SaidOK, RecoverNext, TypeOK
<1>4. QED
  BY <1>1, <1>2, <1>3 DEF ProcessStep

\* Assignments and cancels.
LEMMA BackendStepType ==
  ASSUME TypeOK, BackendStep
  PROVE  TypeOK'
<1>0. "CANCELLED" \in Statuses
  BY DEF Statuses
<1>1. CASE CancelReturns
  <2>1. cancelling \in Jobs
    BY <1>1 DEF CancelReturns, TypeOK
  <2>2. QED
    BY <1>0, <1>1, <2>1 DEF Due, Reports, CancelReturns, RecordCancel, TypeOK, WorkerOK
<1>2. ASSUME NEW j \in Jobs, Assign(j) PROVE TypeOK'
  BY <1>2 DEF said, Assign, TypeOK, WorkerOK, durable
<1>3. ASSUME NEW j \in Jobs, Cancel(j) PROVE TypeOK'
  <2>1. SaidOK'
    BY <1>0, <1>3, SaidKept, DueType DEF Cancel, RecordCancel, said
  <2>2. status' \in [Jobs -> Statuses \cup {NoRow}]
    BY <1>0, <1>3 DEF Cancel, RecordCancel, TypeOK
  <2>3. QED
    BY <1>3, <2>1, <2>2 DEF Cancel, SaidOK, TypeOK, WorkerOK
<1>4. QED
  BY <1>1, <1>2, <1>3 DEF BackendStep

\* The report that is due is made.
LEMMA EmitType ==
  ASSUME TypeOK, Emit
  PROVE  TypeOK'
<1>1. emit[1] \in Jobs /\ emit[2] \in Statuses
  BY DEF Emit, TypeOK, Reports
<1>2. QED
  BY <1>1 DEF Emit, TypeOK, WorkerOK, durable, control

\* The steps of CUPS.
LEMMA CupsStepType ==
  ASSUME TypeOK, CupsStep
  PROVE  TypeOK'
<1>1. ASSUME NEW i \in CupsIds, CupsAccepts(i) PROVE TypeOK'
  <2>1. WorkerOK(w')
    <3>1. i # 0
      BY BoundsAssumption DEF CupsIds
    <3>2. QED
      BY <1>1, <3>1 DEF CupsAccepts, TypeOK, WorkerOK, Workers, PCs, AwaitPoints
  <2>2. cups' \in [Jobs -> [CupsIds -> CupsStates]]
    <3>1. w.job \in Jobs
      BY <1>1 DEF CupsAccepts, TypeOK, WorkerOK, Workers
    <3>2. QED
      BY <1>1, <3>1 DEF CupsAccepts, TypeOK, CupsStates, CupsActive
  <2>3. QED
    BY <1>1, <2>1, <2>2 DEF said, CupsAccepts, TypeOK, WorkerOK, durable, control
<1>2. ASSUME NEW j \in Jobs, NEW i \in CupsIds, NEW from, NEW to \in CupsStates,
             CupsMoves(j, i, from, to)
      PROVE  TypeOK'
  BY <1>2 DEF said, CupsMoves, TypeOK, WorkerOK, durable, control
<1>3. {"printing", "completed", "aborted", "canceled"} \subseteq CupsStates
  BY DEF CupsStates, CupsActive, CupsEnded
<1>4. QED
  BY <1>1, <1>2, <1>3 DEF CupsStep, CupsPrints, CupsCompletes, CupsAborts, CupsCancels

\* Type correctness: every reachable state of the agent is well typed and its
\* worker record consistent, whatever the jobs, the bounds and the interleaving.
THEOREM TypeCorrect == Spec => []TypeOK
<1>1. Init => TypeOK
  <2> SUFFICES ASSUME Init PROVE TypeOK
    OBVIOUS
  <2>2. WorkerOK(w)
    <3>1. w = Idle
      BY DEF Init
    <3>2. QED
      BY <3>1, IdleOK
  <2>3. queue \in Seq(Jobs) /\ todo \in SUBSET Jobs /\ crashes \in Nat
    BY DEF Init
  <2>4. /\ status \in [Jobs -> Statuses \cup {NoRow}]
        /\ cupsId \in [Jobs -> CupsIds \cup {0}]
        /\ attempts \in [Jobs -> Nat]
        /\ filePath \in [Jobs -> BOOLEAN]
        /\ emit \in Reports \cup {NoReport} /\ unsaid \subseteq Jobs
        /\ reported \in [Jobs -> Statuses \cup {NoRow}]
    BY DEF Init
  <2>5. /\ disk \in [Jobs -> Places]
        /\ cups \in [Jobs -> [CupsIds -> CupsStates]]
    BY DEF Init, Places, CupsStates
  <2>6. QED
    BY <2>2, <2>3, <2>4, <2>5 DEF Init, TypeOK
<1>2. TypeOK /\ [Next]_vars => TypeOK'
  <2>1. CASE Next
    BY <2>1, WorkerStepType, EmitType, ProcessStepType, BackendStepType, CupsStepType DEF Next
  <2>2. CASE UNCHANGED vars
    BY <2>2 DEF vars, durable, control, said, TypeOK, WorkerOK
  <2>3. QED
    BY <2>1, <2>2
<1>3. QED
  BY <1>1, <1>2, PTL DEF Spec

-----------------------------------------------------------------------------
(* At most one CUPS job per backend job.                                     *)
(*                                                                           *)
(* OneCupsJob alone is not inductive: lp must be known to run only for a job *)
(* without a CUPS job (FreshSubmission), and a fresh download only to start  *)
(* from a row without one (NoPrintBeforeReady).                              *)

Safe == TypeOK /\ OneCupsJob /\ NoPrintBeforeReady /\ FreshSubmission

Unsubmitted == {NoRow, "RECEIVED", "DOWNLOADING", "RETRY_WAITING"}

\* Nothing comes back to the part of the state machine before READY.
LEMMA UnsubmittedClosed ==
  ASSUME NEW c \in Statuses \cup {NoRow}, NEW s \in Unsubmitted, TransitionOK(c, s)
  PROVE  c \in Unsubmitted
BY DEF TransitionOK, Unsubmitted, Statuses, NoRow, ALLOWED_TRANSITIONS, TransitionTable

\* READY is never left for CANCELLED or RETRY_WAITING.
LEMMA ReadyRefuses ==
  ~TransitionOK("READY", "CANCELLED") /\ ~TransitionOK("READY", "RETRY_WAITING")
BY DEF TransitionOK, ALLOWED_TRANSITIONS, TransitionTable

\* A step that leaves the CUPS jobs and ids alone and brings no row back before
\* READY keeps the two invariants that do not mention the worker.
LEMMA JobsKept ==
  ASSUME Safe, UNCHANGED <<cupsId, cups>>,
         \A j \in Jobs : status'[j] \in Unsubmitted => status[j] \in Unsubmitted
  PROVE  OneCupsJob' /\ NoPrintBeforeReady' /\ \A j \in Jobs : Existing(j)' = Existing(j)
BY DEF Safe, OneCupsJob, NoPrintBeforeReady, Existing, Unsubmitted

\* The places FreshSubmission speaks of.
Fetching   == {"downloading", "recordPath", "markReady", "submit", "lp"}
Submitting == {"submit", "lp", "lpAccepted", "lpLookup", "lookup", "persistNew",
               "persistFound"}

\* A worker elsewhere has nothing to keep.
LEMMA FreshElsewhere ==
  ASSUME w'.pc \notin Fetching \cup Submitting
  PROVE  FreshSubmission'
BY DEF FreshSubmission, Fetching, Submitting

\* An exception takes the worker elsewhere.
LEMMA RaiseSafe ==
  ASSUME TypeOK, Raise
  PROVE  FreshSubmission'
<1>1. w'.pc \in {"fail", "idle"}
  BY GotoFields, IdleFields DEF TypeOK, WorkerOK, Raise, Die, PCs, RunToCompletion
<1>2. QED
  BY <1>1, FreshElsewhere DEF Fetching, Submitting

\* A _transition to a status from READY on keeps the invariants, provided the
\* worker goes elsewhere, or to submit with a row that becomes READY.
LEMMA TransitionSafe ==
  ASSUME Safe, NEW j \in Jobs, NEW next,
         NEW s \in {"READY", "SUBMITTED", "PRINTING", "COMPLETED"},
         Transition(j, s, next), UNCHANGED <<cupsId, cups>>,
         \/ next.pc \notin Fetching \cup Submitting
         \/ next.pc = "submit" /\ next.job = j /\ s = "READY" /\ Existing(j) = {}
  PROVE  OneCupsJob' /\ NoPrintBeforeReady' /\ FreshSubmission'
<1>1. OneCupsJob' /\ NoPrintBeforeReady' /\ \A k \in Jobs : Existing(k)' = Existing(k)
  <2>1. \A k \in Jobs : status'[k] \in Unsubmitted => status[k] \in Unsubmitted
    BY DEF Transition, Safe, TypeOK, Unsubmitted, NoRow
  <2>2. QED
    BY <2>1, JobsKept
<1>2. CASE Raise
  BY <1>1, <1>2, RaiseSafe DEF Safe
<1>3. CASE w' = next /\ status' = [status EXCEPT ![j] = s]
  <2>1. CASE next.pc \notin Fetching \cup Submitting
    BY <1>1, <1>3, <2>1, FreshElsewhere
  <2>2. CASE next.pc = "submit" /\ next.job = j /\ s = "READY" /\ Existing(j) = {}
    <3>1. status'[j] = "READY"
      BY <1>3, <2>2 DEF Safe, TypeOK
    <3>2. QED
      BY <1>1, <1>3, <2>2, <3>1 DEF FreshSubmission
  <2>3. QED
    BY <2>1, <2>2
<1>4. QED
  BY <1>2, <1>3 DEF Transition

\* The pipeline starts only for a row without a CUPS job.
LEMMA PipelineSafe ==
  ASSUME Safe, NEW j \in Jobs, NEW r \in Records, NEW b \in BOOLEAN,
         Pipeline(j, r, b), b => status[j] = "DOWNLOADING", UNCHANGED cups
  PROVE  OneCupsJob' /\ NoPrintBeforeReady' /\ FreshSubmission'
<1>0. /\ At("downloading", j, TRUE, NoRecord, 0).pc = "downloading"
      /\ At("downloading", j, TRUE, NoRecord, 0).job = j
      /\ At("fail", j, TRUE, NoRecord, 0).pc = "fail"
  BY DEF At
<1>1. "DOWNLOADING" \in Unsubmitted /\ status[j] \in Statuses \cup {NoRow}
  BY DEF Unsubmitted, Safe, TypeOK
<1>2. \/ /\ TransitionOK(status[j], "DOWNLOADING")
         /\ status' = [status EXCEPT ![j] = "DOWNLOADING"]
         /\ w' = At("downloading", j, TRUE, NoRecord, 0)
      \/ /\ status' = status
         /\ w' = At("fail", j, TRUE, NoRecord, 0)
      \/ /\ status' = status
         /\ status[j] = "DOWNLOADING"
         /\ w' = At("downloading", j, TRUE, NoRecord, 0)
  BY DEF Pipeline
<1>3. /\ \A k \in Jobs : status'[k] \in Unsubmitted => status[k] \in Unsubmitted
      /\ w'.pc # "fail" => status[j] \in Unsubmitted
      /\ w'.pc \in {"fail", "downloading"}
      /\ w'.pc = "downloading" => w'.job = j
  BY <1>0, <1>1, <1>2, UnsubmittedClosed DEF Safe, TypeOK
<1>4. UNCHANGED cupsId
  BY DEF Pipeline
<1>5. OneCupsJob' /\ NoPrintBeforeReady' /\ \A k \in Jobs : Existing(k)' = Existing(k)
  BY <1>3, <1>4, JobsKept
<1>6. status[j] \in Unsubmitted => Existing(j) = {}
  BY DEF Safe, NoPrintBeforeReady, Unsubmitted
<1>7. FreshSubmission'
  BY <1>3, <1>5, <1>6 DEF FreshSubmission
<1>8. QED
  BY <1>5, <1>7

\* Resuming a job goes back to the printer only through the READY lookup.
LEMMA ResumeSafe ==
  ASSUME Safe, NEW j \in Jobs, Resume(j), UNCHANGED cups
  PROVE  OneCupsJob' /\ NoPrintBeforeReady' /\ FreshSubmission'
<1>0. TypeOK
  BY DEF Safe
<1>1. CASE \/ status[j] = "RECEIVED" /\ Pipeline(j, Record(j), FALSE)
           \/ status[j] = "DOWNLOADING" /\ Pipeline(j, Record(j), TRUE)
  BY <1>0, <1>1, PipelineSafe, RecordType
<1>2. CASE /\ UNCHANGED <<durable, said>>
           /\ \/ w'.pc \notin Fetching \cup Submitting
              \/ w'.pc = "lookup" /\ w'.job = j /\ status[j] = "READY"
  <2>1. OneCupsJob' /\ NoPrintBeforeReady'
    BY <1>2, JobsKept DEF durable
  <2>2. CASE w'.pc \notin Fetching \cup Submitting
    BY <2>1, <2>2, FreshElsewhere
  <2>3. CASE w'.pc = "lookup" /\ w'.job = j /\ status[j] = "READY"
    BY <1>2, <2>1, <2>3 DEF FreshSubmission, durable
  <2>4. QED
    BY <1>2, <2>2, <2>3
<1>3. ASSUME NEW p \in PCs, NEW r \in Records, NEW i \in CupsIds \cup {0},
             w' = At(p, j, FALSE, r, i)
      PROVE  w'.pc = p /\ w'.job = j
  BY <1>3 DEF At
<1>4. /\ {"fail", "sleep", "adoptSubmitted", "lookup", "poll"} \subseteq PCs
      /\ Record(j) \in Records /\ NoRecord \in Records
      /\ cupsId[j] \in CupsIds \cup {0}
  BY <1>0, RecordType, NoRecordType DEF PCs, RunToCompletion, AwaitPoints, TypeOK
<1>5. CASE /\ status[j] = "RETRY_WAITING"
           /\ w' = IF cupsId[j] # 0 THEN At("fail", j, FALSE, NoRecord, 0)
                   ELSE At("sleep", j, FALSE, Record(j), 0)
           /\ UNCHANGED <<durable, said>>
  BY <1>2, <1>3, <1>4, <1>5 DEF Fetching, Submitting
<1>6. CASE /\ w' \in {At("fail", j, FALSE, NoRecord, 0),
                      At("fail", j, FALSE, NoRecord, cupsId[j]),
                      At("poll", j, FALSE, NoRecord, cupsId[j]),
                      At("adoptSubmitted", j, FALSE, NoRecord, cupsId[j])}
           /\ UNCHANGED <<durable, said>>
  BY <1>2, <1>3, <1>4, <1>6 DEF Fetching, Submitting
<1>7. CASE /\ status[j] = "READY"
           /\ w' = At("lookup", j, FALSE, NoRecord, 0)
           /\ UNCHANGED <<durable, said>>
  BY <1>2, <1>3, <1>4, <1>7
<1>8. QED
  BY <1>1, <1>5, <1>6, <1>7 DEF Resume

\* A worker that only moves its program counter, within the fetching part or to
\* a place that claims nothing new, keeps the invariants.
LEMMA MoveSafe ==
  ASSUME Safe, UNCHANGED <<status, cupsId, cups>>,
         \/ w'.pc \notin Fetching \cup Submitting
         \/ /\ w'.job = w.job
            /\ w'.pc \in Fetching => w.pc \in Fetching \/ Existing(w.job) = {}
            /\ w'.pc \in Submitting => w.pc \in Submitting
  PROVE  OneCupsJob' /\ NoPrintBeforeReady' /\ FreshSubmission'
<1>1. OneCupsJob' /\ NoPrintBeforeReady' /\ \A k \in Jobs : Existing(k)' = Existing(k)
  BY JobsKept
<1>2. CASE w'.pc \notin Fetching \cup Submitting
  BY <1>1, <1>2, FreshElsewhere
<1>3. CASE /\ w'.job = w.job
           /\ w'.pc \in Fetching => w.pc \in Fetching \/ Existing(w.job) = {}
           /\ w'.pc \in Submitting => w.pc \in Submitting
  <2>1. Existing(w.job)' = Existing(w.job)
    BY <1>3 DEF Existing
  <2>2. QED
    BY <1>1, <1>3, <2>1 DEF FreshSubmission, Safe, Fetching, Submitting
<1>4. QED
  BY <1>2, <1>3

\* The steps of the worker keep the invariants.
LEMMA WorkerStepSafe ==
  ASSUME ~LossyListings, Safe, WorkerStep
  PROVE  OneCupsJob' /\ NoPrintBeforeReady' /\ FreshSubmission'
<1>0. /\ TypeOK /\ w \in Workers
      /\ w.pc # "idle" => w.job \in Jobs
      /\ w.rec \in Records
      /\ \A p \in PCs : Goto(p).pc = p /\ Goto(p).job = w.job
      /\ Idle.pc = "idle"
  BY GotoFields, IdleFields DEF Safe, TypeOK, WorkerOK, Workers
<1>1. CASE TakeJob
  <2> DEFINE j == Head(queue)
  <2>1. j \in Jobs
    BY <1>0, <1>1 DEF TakeJob, TypeOK
  <2>2. CASE /\ status[j] = NoRow
             /\ status' = [status EXCEPT ![j] = "RECEIVED"]
             /\ UNCHANGED <<cupsId, cups>>
             /\ w'.pc = "begin"
    <3>1. \A k \in Jobs : status'[k] \in Unsubmitted => status[k] \in Unsubmitted
      BY <1>0, <2>1, <2>2 DEF TypeOK, Unsubmitted
    <3>2. QED
      BY <2>2, <3>1, JobsKept, FreshElsewhere DEF Fetching, Submitting
  <2>3. CASE UNCHANGED <<durable, w, cups>>
    BY <2>3, MoveSafe DEF Fetching, Submitting, durable
  <2>4. CASE Resume(j) /\ UNCHANGED cups
    BY <2>1, <2>4, ResumeSafe
  <2>5. QED
    BY <1>1, <2>2, <2>3, <2>4 DEF TakeJob, At
<1>2. CASE BeginPipeline
  BY <1>0, <1>2, PipelineSafe DEF BeginPipeline
<1>3. CASE DownloadSucceeds \/ RecordPath \/ DownloadFails
  BY <1>0, <1>3, MoveSafe DEF DownloadSucceeds, RecordPath, DownloadFails, Fetching,
                              Submitting, PCs, RunToCompletion, row, durable
<1>4. CASE MarkReady
  <2>1. Existing(w.job) = {} /\ w.job \in Jobs
    BY <1>0, <1>4 DEF MarkReady, Safe, FreshSubmission
  <2>2. Goto("submit").pc = "submit" /\ Goto("submit").job = w.job
    BY <1>0 DEF PCs, AwaitPoints
  <2>3. QED
    BY <1>4, <2>1, <2>2, TransitionSafe DEF MarkReady
<1>5. CASE CountAttempt \/ AfterSchedule \/ FailMovesFile
  <2>1. w'.pc \in {"fail", "schedule", "idle", "sleep", "markFailed"}
    BY <1>0, <1>5 DEF CountAttempt, AfterSchedule, FailMovesFile, PCs, RunToCompletion, Workers
  <2>2. QED
    BY <1>5, <2>1, MoveSafe DEF CountAttempt, AfterSchedule, FailMovesFile, Fetching,
                                Submitting, row, durable
<1>6. CASE ScheduleRetry
  <2>1. w'.pc \in {"fail", "scheduled"}
    BY <1>0, <1>6 DEF ScheduleRetry, PCs, RunToCompletion, AwaitPoints
  <2>2. \A k \in Jobs : status'[k] \in Unsubmitted => status[k] \in Unsubmitted
    <3>1. w.job \in Jobs /\ status[w.job] \in Statuses \cup {NoRow}
      BY <1>0, <1>6 DEF ScheduleRetry, TypeOK
    <3>2. TransitionOK(status[w.job], "RETRY_WAITING") => status[w.job] \in Unsubmitted
      BY <3>1, UnsubmittedClosed DEF Unsubmitted
    <3>3. QED
      BY <1>0, <1>6, <3>1, <3>2 DEF ScheduleRetry, TypeOK
  <2>3. QED
    BY <1>6, <2>1, <2>2, JobsKept, FreshElsewhere DEF ScheduleRetry, Fetching, Submitting
<1>7. CASE WakeUp
  <2>1. CASE w' = Goto("fail") /\ UNCHANGED durable
    BY <1>0, <1>7, <2>1, MoveSafe DEF WakeUp, durable, Fetching, Submitting, PCs, RunToCompletion
  <2>2. CASE Pipeline(w.job, w.rec, FALSE)
    BY <1>0, <1>7, <2>2, PipelineSafe DEF WakeUp
  <2>3. QED
    BY <1>7, <2>1, <2>2 DEF WakeUp
<1>8. CASE MarkFailed
  <2>1. \A k \in Jobs : status'[k] \in Unsubmitted => status[k] \in Unsubmitted
    BY <1>0, <1>8 DEF MarkFailed, TypeOK, Unsubmitted, NoRow
  <2>2. QED
    BY <1>0, <1>8, <2>1, JobsKept, FreshElsewhere DEF MarkFailed, Fetching, Submitting
<1>9. CASE LookupReady
  <2>1. CASE Raise
    BY <1>0, <1>9, <2>1, RaiseSafe, JobsKept DEF LookupReady, durable
  <2>2. CASE w' = Goto("fail")
    BY <1>0, <1>9, <2>2, MoveSafe DEF LookupReady, durable, Fetching, Submitting, PCs, RunToCompletion
  <2>3. CASE \E i : w' = [w EXCEPT !.pc = "persistFound", !.id = i]
    BY <1>0, <1>9, <2>3, MoveSafe DEF LookupReady, durable, Fetching, Submitting, Workers
  <2>4. CASE w' = Goto("submit") /\ \E m \in Seen(w.job) : Verdict(m) = "NOT_FOUND"
    <3>1. Existing(w.job) = {}
      BY <2>4 DEF Seen, Verdict
    <3>2. QED
      BY <1>0, <1>9, <2>4, <3>1, MoveSafe DEF LookupReady, durable, Fetching, Submitting,
                                             PCs, AwaitPoints
  <2>5. QED
    BY <1>9, <2>1, <2>2, <2>3, <2>4 DEF LookupReady
<1>10. CASE StartSubmit
  <2>1. CASE Raise
    BY <1>0, <1>10, <2>1, RaiseSafe, JobsKept DEF StartSubmit, durable
  <2>2. CASE w' \in {Goto("fail"), Goto("lp"), Goto("preSubmit")}
    BY <1>0, <1>10, <2>2, MoveSafe DEF StartSubmit, durable, Fetching, Submitting, PCs,
                                       RunToCompletion, AwaitPoints
  <2>3. QED
    BY <1>10, <2>1, <2>2 DEF StartSubmit
<1>11. CASE LpFails \/ LpTimesOut \/ LpReturnsId
  <2>1. w'.pc \in {"fail", "lpLookup", "persistNew"} /\ w'.job = w.job
    BY <1>0, <1>11 DEF LpFails, LpTimesOut, LpReturnsId, PCs, RunToCompletion, Workers
  <2>2. QED
    BY <1>11, <2>1, MoveSafe DEF LpFails, LpTimesOut, LpReturnsId, durable, Fetching, Submitting
<1>12. CASE LookupAfterTimeout
  <2>1. CASE Raise
    BY <1>0, <1>12, <2>1, RaiseSafe, JobsKept DEF LookupAfterTimeout, durable
  <2>2. CASE w' = Goto("fail") \/ \E i : w' = [w EXCEPT !.pc = "persistNew", !.id = i]
    BY <1>0, <1>12, <2>2, MoveSafe DEF LookupAfterTimeout, durable, Fetching, Submitting,
                                       PCs, RunToCompletion, Workers
  <2>3. QED
    BY <1>12, <2>1, <2>2 DEF LookupAfterTimeout
<1>13. CASE PersistId
  <2>1. w'.pc \in {"markSubmitted", "adoptSubmitted"}
    BY <1>0, <1>13 DEF PersistId, PCs, RunToCompletion
  <2>2. status[w.job] = "READY"
    BY <1>13 DEF PersistId, Safe, FreshSubmission
  <2>3. UNCHANGED <<status, cups>> /\ \A k \in Jobs : k # w.job => cupsId'[k] = cupsId[k]
    BY <1>0, <1>13 DEF PersistId, TypeOK
  <2>4. QED
    BY <2>1, <2>2, <2>3, FreshElsewhere
       DEF Safe, OneCupsJob, NoPrintBeforeReady, Existing, Fetching, Submitting, NoRow
<1>14. CASE MarkSubmitted \/ AdoptSubmitted
  <2>1. Goto("poll").pc = "poll" /\ w.job \in Jobs
    BY <1>0, <1>14 DEF MarkSubmitted, AdoptSubmitted, PCs, AwaitPoints
  <2>2. CASE Transition(w.job, "SUBMITTED", Goto("poll"))
    BY <1>14, <2>1, <2>2, TransitionSafe DEF MarkSubmitted, AdoptSubmitted, Fetching, Submitting
  <2>3. CASE w' = Goto("poll") /\ UNCHANGED status
    BY <1>14, <2>1, <2>3, MoveSafe DEF MarkSubmitted, AdoptSubmitted, Fetching, Submitting
  <2>4. QED
    BY <1>14, <2>2, <2>3 DEF MarkSubmitted, AdoptSubmitted
<1>15. CASE \/ Observe(TRUE) \/ Observe(FALSE) \/ HandleQuietPoll \/ HandleFailedPoll
            \/ HandleCompletedPoll \/ GateOpens \/ ArchiveFile
  <2>1. w'.pc \in {"observed", "poll", "fail", "completing", "idle", "markCompleted"}
    BY <1>0, <1>15 DEF Observe, HandleQuietPoll, HandleFailedPoll, HandleCompletedPoll,
       GateOpens, ArchiveFile, Handled, Workers, PCs, RunToCompletion
  <2>2. QED
    BY <1>15, <2>1, MoveSafe DEF Observe, HandleQuietPoll, HandleFailedPoll,
       HandleCompletedPoll, GateOpens, ArchiveFile, durable, row, Fetching, Submitting
<1>16. CASE HandlePrintingPoll
  <2>1. Handled("poll").pc = "poll" /\ w.job \in Jobs
    BY <1>0, <1>16 DEF HandlePrintingPoll, Handled, Workers
  <2>2. CASE Transition(w.job, "PRINTING", Handled("poll"))
    BY <1>16, <2>1, <2>2, TransitionSafe DEF HandlePrintingPoll, Fetching, Submitting
  <2>3. CASE w' = Handled("poll") /\ UNCHANGED status
    BY <1>16, <2>1, <2>3, MoveSafe DEF HandlePrintingPoll, Fetching, Submitting
  <2>4. QED
    BY <1>16, <2>2, <2>3 DEF HandlePrintingPoll
<1>17. CASE MarkCompleted
  BY <1>0, <1>17, TransitionSafe DEF MarkCompleted, Fetching, Submitting
<1>18. QED
  BY <1>1, <1>2, <1>3, <1>4, <1>5, <1>6, <1>7, <1>8, <1>9, <1>10, <1>11, <1>12,
     <1>13, <1>14, <1>15, <1>16, <1>17 DEF WorkerStep, Safe

\* Process and backend steps: a cancel cannot move a row that is READY, so no
\* submission under way loses its footing.
LEMMA OtherStepSafe ==
  ASSUME Safe, ProcessStep \/ BackendStep
  PROVE  OneCupsJob' /\ NoPrintBeforeReady' /\ FreshSubmission'
<1>0. TypeOK /\ Idle.pc = "idle"
  BY IdleFields DEF Safe
<1>1. CASE Restart \/ RecoveryDone \/ Crash \/ \E j \in Jobs : Assign(j)
  <2>1. UNCHANGED <<status, cupsId, cups>> /\ (w' = w \/ w'.pc = "idle")
    BY <1>0, <1>1 DEF Restart, RecoveryDone, Crash, Die, Assign, durable
  <2>2. QED
    BY <2>1, MoveSafe DEF Fetching, Submitting
<1>2. ASSUME NEW j \in Jobs, RecoverNext(j)
      PROVE  OneCupsJob' /\ NoPrintBeforeReady' /\ FreshSubmission'
  BY <1>2, ResumeSafe DEF RecoverNext
<1>3. ASSUME NEW j \in Jobs, Cancel(j) \/ (CancelReturns /\ j = cancelling)
      PROVE  OneCupsJob' /\ NoPrintBeforeReady' /\ FreshSubmission'
  <2>1. /\ UNCHANGED <<cupsId, cups, w>>
        /\ \/ status' = status
           \/ /\ status' = [status EXCEPT ![j] = "CANCELLED"]
              /\ TransitionOK(status[j], "CANCELLED")
    BY <1>3 DEF Cancel, CancelReturns, RecordCancel
  <2>2. /\ \A k \in Jobs : status'[k] \in Unsubmitted => status[k] \in Unsubmitted
        /\ \A k \in Jobs : status[k] = "READY" => status'[k] = "READY"
    BY <1>0, <2>1, ReadyRefuses DEF TypeOK, Unsubmitted, NoRow
  <2>3. OneCupsJob' /\ NoPrintBeforeReady'
    BY <2>1, <2>2, JobsKept
  <2>4. w.pc # "idle" => w.job \in Jobs
    BY <1>0 DEF TypeOK, WorkerOK, Workers
  <2>5. FreshSubmission'
    BY <2>1, <2>2, <2>4 DEF FreshSubmission, Safe, Existing
  <2>6. QED
    BY <2>3, <2>5
<1>4. CancelReturns => cancelling \in Jobs
  BY <1>0 DEF CancelReturns, TypeOK
<1>5. QED
  BY <1>1, <1>2, <1>3, <1>4 DEF ProcessStep, BackendStep

\* CUPS creates a job only for lp, and never forgets one it has.
LEMMA CupsStepSafe ==
  ASSUME Safe, CupsStep
  PROVE  OneCupsJob' /\ NoPrintBeforeReady' /\ FreshSubmission'
<1>0. TypeOK
  BY DEF Safe
<1>1. ASSUME NEW i \in CupsIds, CupsAccepts(i)
      PROVE  OneCupsJob' /\ NoPrintBeforeReady' /\ FreshSubmission'
  <2>1. w.job \in Jobs /\ Existing(w.job) = {} /\ status[w.job] = "READY"
    BY <1>0, <1>1 DEF CupsAccepts, Safe, FreshSubmission, TypeOK, WorkerOK, Workers
  <2>2. \A j \in Jobs : Existing(j)' = IF j = w.job THEN {i} ELSE Existing(j)
    BY <1>0, <1>1, <2>1 DEF CupsAccepts, Existing, TypeOK
  <2>3. w'.pc = "lpAccepted" /\ w'.job = w.job /\ UNCHANGED <<status, cupsId>>
    BY <1>0, <1>1 DEF CupsAccepts, TypeOK, WorkerOK, Workers, durable
  <2>4. OneCupsJob'
    BY <2>2 DEF OneCupsJob, Safe
  <2>5. NoPrintBeforeReady'
    BY <2>1, <2>2, <2>3 DEF NoPrintBeforeReady, Safe, NoRow
  <2>6. FreshSubmission'
    BY <2>1, <2>3 DEF FreshSubmission
  <2>7. QED
    BY <2>4, <2>5, <2>6
<1>2. ASSUME NEW j \in Jobs, NEW i \in CupsIds, NEW from \in SUBSET CupsActive,
             NEW to \in CupsStates \ {"none"}, CupsMoves(j, i, from, to)
      PROVE  OneCupsJob' /\ NoPrintBeforeReady' /\ FreshSubmission'
  <2>1. \A k \in Jobs : Existing(k)' = Existing(k)
    BY <1>0, <1>2 DEF CupsMoves, Existing, TypeOK, CupsActive
  <2>2. UNCHANGED <<status, cupsId, w>>
    BY <1>2 DEF CupsMoves, durable
  <2>3. w.pc # "idle" => w.job \in Jobs
    BY <1>0 DEF TypeOK, WorkerOK, Workers
  <2>4. FreshSubmission'
    BY <2>1, <2>2, <2>3 DEF FreshSubmission, Safe
  <2>5. QED
    BY <2>1, <2>2, <2>4 DEF OneCupsJob, NoPrintBeforeReady, Safe
<1>3. /\ {"pending"} \in SUBSET CupsActive /\ {"printing"} \in SUBSET CupsActive
      /\ {"printing", "completed", "aborted", "canceled"} \subseteq CupsStates \ {"none"}
  BY DEF CupsStates, CupsActive, CupsEnded
<1>4. QED
  BY <1>1, <1>2, <1>3 DEF CupsStep, CupsPrints, CupsCompletes, CupsAborts, CupsCancels

\* The inductive invariant.
LEMMA SafeAlways ==
  ASSUME ~LossyListings
  PROVE  Spec => []Safe
<1>1. Init => OneCupsJob /\ NoPrintBeforeReady /\ FreshSubmission
  <2> SUFFICES ASSUME Init PROVE OneCupsJob /\ NoPrintBeforeReady /\ FreshSubmission
    OBVIOUS
  <2>1. \A j \in Jobs : Existing(j) = {} /\ cupsId[j] = 0
    BY DEF Init, Existing
  <2>2. w.pc = "idle"
    BY IdleFields DEF Init
  <2>3. QED
    BY <2>1, <2>2 DEF OneCupsJob, NoPrintBeforeReady, FreshSubmission
<1>2. TypeOK /\ TypeOK' /\ OneCupsJob /\ NoPrintBeforeReady /\ FreshSubmission /\ [Next]_vars
        => OneCupsJob' /\ NoPrintBeforeReady' /\ FreshSubmission'
  <2> SUFFICES ASSUME Safe, [Next]_vars
               PROVE  OneCupsJob' /\ NoPrintBeforeReady' /\ FreshSubmission'
    BY DEF Safe
  <2>1. CASE Next
    <3>1. CASE Emit
      BY <3>1, MoveSafe DEF Emit, durable, Fetching, Submitting
    <3>2. QED
      BY <2>1, <3>1, WorkerStepSafe, OtherStepSafe, CupsStepSafe DEF Next
  <2>2. CASE UNCHANGED vars
    BY <2>2, MoveSafe DEF vars, durable
  <2>3. QED
    BY <2>1, <2>2
<1>3. QED
  BY <1>1, <1>2, TypeCorrect, PTL DEF Spec, Safe

\* At most one CUPS job is ever created for a backend job, provided lpstat does
\* not hide jobs from the READY lookup: over crashes, redelivery, cancels and lp
\* timeouts.
THEOREM NeverTwoCupsJobs ==
  ASSUME ~LossyListings
  PROVE  Spec => []OneCupsJob
<1>1. Safe => OneCupsJob
  BY DEF Safe
<1>2. QED
  BY <1>1, SafeAlways, PTL

\* While a submission is under way the row stays READY and nothing but this
\* submission reaches CUPS: no cancel or redelivery slips in between.
THEOREM SubmissionUndisturbed ==
  ASSUME ~LossyListings
  PROVE  Spec => []FreshSubmission
<1>1. Safe => FreshSubmission
  BY DEF Safe
<1>2. QED
  BY <1>1, SafeAlways, PTL

\* A row that a restart would download afresh has no CUPS job.
THEOREM FreshRowsUnprinted ==
  ASSUME ~LossyListings
  PROVE  Spec => []NoPrintBeforeReady
<1>1. Safe => NoPrintBeforeReady
  BY DEF Safe
<1>2. QED
  BY <1>1, SafeAlways, PTL

=============================================================================
