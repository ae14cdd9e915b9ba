----------------------------- MODULE JobManager -----------------------------
(***************************************************************************)
(* The job pipeline of the agent: JobManager (app/job_manager.py) over the *)
(* SQLite jobs table (app/database.py), the spool directories, the         *)
(* downloader and a CUPS queue.                                            *)
(*                                                                         *)
(* The agent is one asyncio event loop.  A step of the worker is the code  *)
(* between two awaits, cut further at every durable write so that a crash  *)
(* can fall between two of them, or between a write and its report; while  *)
(* the worker is at a RunToCompletion point, or a report is due, the loop  *)
(* has not been given back, so no other coroutine runs.                    *)
(* CUPS is a process of its own and may step at any time.                  *)
(***************************************************************************)
EXTENDS JobStatus, Naturals, Sequences, FiniteSets

CONSTANTS
  Jobs,             \* backend job ids
  NoJob,            \* "no job": idle worker, no cancel in progress
  InvalidSettings,  \* jobs whose print settings validate_print_settings rejects
  MaxAttempts,      \* RETRY_MAX_ATTEMPTS
  LossyListings,    \* may one lpstat listing or detail fail unnoticed?
  MaxQueue,         \* bound: assignments waiting in the in-memory queue
  MaxCupsJobs,      \* bound: CUPS jobs per backend job
  MaxCrashes        \* bound: deaths of the agent process

ASSUME NoJobAssumption == NoJob \notin Jobs
ASSUME BoundsAssumption ==
  /\ InvalidSettings \subseteq Jobs
  /\ MaxAttempts \in Nat \ {0}
  /\ LossyListings \in BOOLEAN
  /\ MaxQueue \in Nat \ {0}
  /\ MaxCupsJobs \in Nat \ {0}
  /\ MaxCrashes \in Nat

VARIABLES
  \* durable: one row of the jobs table per job, and where its file lies
  status, cupsId, attempts, filePath, disk,
  \* volatile: process phase, recovery work list, assignment queue, the
  \* worker coroutine (or the recovery loop), the job whose "cancel" command
  \* handle_cancel is awaiting
  phase, todo, queue, w, cancelling,
  \* the report due: its row is written, _emit has not reached the callback yet
  emit,
  \* the status the pipeline last handed to the state-change callback (what
  \* reconcile_backend_status repeats for a session is in StatusReporting)
  reported,
  \* history: jobs whose last due report died with the process
  unsaid,
  \* external: the CUPS jobs created for each backend job
  cups,
  crashes

row     == <<status, cupsId, attempts, filePath>>
durable == <<status, cupsId, attempts, filePath, disk>>
control == <<phase, todo, queue, cancelling, crashes>>
said    == <<emit, reported, unsaid>>
vars    == <<durable, control, w, said, cups>>

-----------------------------------------------------------------------------

CupsIds    == 1..MaxCupsJobs
CupsActive == {"pending", "printing"}
CupsEnded  == {"completed", "canceled", "aborted"}
CupsStates == CupsActive \cup CupsEnded \cup {"none"}

Places == {"none", "processing", "completed", "failed"}

\* Where the worker may be suspended, or cut by a crash.
RunToCompletion ==
  {"recordPath", "markReady", "persistNew", "persistFound", "markSubmitted",
   "adoptSubmitted", "markCompleted", "fail", "markFailed", "preSubmit",
   "schedule"}
AwaitPoints ==
  {"begin", "downloading", "submit", "lp", "lpAccepted", "lpLookup", "lookup",
   "poll", "observed", "completing", "scheduled", "sleep"}
PCs == {"idle"} \cup RunToCompletion \cup AwaitPoints

PollStates == {"PENDING", "PRINTING", "COMPLETED", "FAILED", "CANCELLED", "UNKNOWN"}

\* A JobRecord read from the table: only the columns a later step still uses.
Records == [status : Statuses \cup {NoRow}, cups : CupsIds \cup {0}, attempts : Nat]
NoRecord == [status |-> NoRow, cups |-> 0, attempts |-> 0]
Record(j) == [status |-> status[j], cups |-> cupsId[j], attempts |-> attempts[j]]

\* Worker states.  "inPipeline" says whether _run_download_pipeline is on the
\* call stack, i.e. whether an exception is turned into _fail_job.
Workers ==
  [pc : PCs, job : Jobs \cup {NoJob}, inPipeline : BOOLEAN, rec : Records,
   id : CupsIds \cup {0}, obs : PollStates]

At(pc, j, inPipeline, rec, id) ==
  [pc |-> pc, job |-> j, inPipeline |-> inPipeline, rec |-> rec, id |-> id,
   obs |-> "UNKNOWN"]
Idle == At("idle", NoJob, FALSE, NoRecord, 0)
Goto(pc) == [w EXCEPT !.pc = pc]

\* A report: whose, and which status.
Reports  == Jobs \X Statuses
NoReport == <<>>

LoopFree == w.pc \notin RunToCompletion /\ emit = NoReport

\* Mutant: one attempt too many.
ExhaustedLate(n) == n > MaxAttempts

\* attempt_count >= max_attempts: no further retry.
Exhausted(n) == n >= MaxAttempts

-----------------------------------------------------------------------------

Init ==
  /\ status = [j \in Jobs |-> NoRow]
  /\ cupsId = [j \in Jobs |-> 0]
  /\ attempts = [j \in Jobs |-> 0]
  /\ filePath = [j \in Jobs |-> FALSE]
  /\ disk = [j \in Jobs |-> "none"]
  /\ phase = "down"
  /\ todo = {}
  /\ queue = <<>>
  /\ w = Idle
  /\ cancelling = NoJob
  /\ emit = NoReport
  /\ reported = [j \in Jobs |-> NoRow]
  /\ unsaid = {}
  /\ cups = [j \in Jobs |-> [i \in CupsIds |-> "none"]]
  /\ crashes = 0

\* The process dies: everything the event loop held is lost.
Die ==
  /\ crashes < MaxCrashes
  /\ crashes' = crashes + 1
  /\ phase' = "down"
  /\ todo' = {}
  /\ queue' = <<>>
  /\ cancelling' = NoJob
  /\ w' = Idle

\* An exception leaves the code the worker runs.  _run_download_pipeline turns
\* it into _fail_job; outside it, the worker loop logs it and goes on, and
\* recovery lets it end the process.
Raise ==
  \/ /\ w.inPipeline
     /\ w' = Goto("fail")
     /\ UNCHANGED control
  \/ /\ ~w.inPipeline /\ phase = "running"
     /\ w' = Idle
     /\ UNCHANGED control
  \/ /\ ~w.inPipeline /\ phase = "recovering"
     /\ Die

\* _emit(j, s) is called.
Due(j, s) ==
  /\ emit' = <<j, s>>
  /\ unsaid' = unsaid \ {j}
  /\ UNCHANGED reported

\* _emit hands the report to the state-change callback.
Emit ==
  /\ emit # NoReport
  /\ reported' = [reported EXCEPT ![emit[1]] = emit[2]]
  /\ emit' = NoReport
  /\ UNCHANGED <<durable, control, w, unsaid, cups>>

\* Mutant: the state-change callback is not called.
TransitionUnreported(j, s, next) ==
  \/ /\ TransitionOK(status[j], s)
     /\ status' = [status EXCEPT ![j] = s]
     /\ w' = next
     /\ UNCHANGED <<said, control>>
  \/ ~TransitionOK(status[j], s) /\ Raise /\ UNCHANGED <<status, said>>

\* _transition(j, s), then continue at next; raises when the row refuses s.
Transition(j, s, next) ==
  \/ /\ TransitionOK(status[j], s)
     /\ status' = [status EXCEPT ![j] = s]
     /\ Due(j, s)
     /\ w' = next
     /\ UNCHANGED control
  \/ /\ ~TransitionOK(status[j], s)
     /\ Raise
     /\ UNCHANGED <<status, said>>

-----------------------------------------------------------------------------
(* Entering the pipeline: handle_assigned, _resume_job, recovery.            *)

\* _run_download_pipeline(job, r, already_downloading) up to the download.
Pipeline(j, r, alreadyDownloading) ==
  LET downloading == At("downloading", j, TRUE, NoRecord, 0)
      fail == At("fail", j, TRUE, NoRecord, 0)
      refused == r.cups # 0 \/ j \in InvalidSettings
      mustMark == ~refused /\ ~alreadyDownloading
  IN  /\ UNCHANGED <<cupsId, attempts, filePath, disk>>
      /\ \/ /\ mustMark /\ TransitionOK(status[j], "DOWNLOADING")
            /\ status' = [status EXCEPT ![j] = "DOWNLOADING"]
            /\ Due(j, "DOWNLOADING")
            /\ w' = downloading
         \/ /\ mustMark /\ ~TransitionOK(status[j], "DOWNLOADING")
            /\ w' = fail
            /\ UNCHANGED <<status, said>>
         \/ /\ refused
            /\ w' = fail
            /\ UNCHANGED <<status, said>>
         \/ /\ ~refused /\ alreadyDownloading
            /\ w' = downloading
            /\ UNCHANGED <<status, said>>

FilePresent(j) == filePath[j] /\ disk[j] = "processing"

\* _resume_job: dispatch on the status the row was read with.
Resume(j) ==
  LET fail == At("fail", j, FALSE, NoRecord, 0)
      stay(pc, id) == /\ w' = At(pc, j, FALSE, NoRecord, id)
                      /\ UNCHANGED <<durable, said>>
  IN  \/ status[j] = "RECEIVED" /\ Pipeline(j, Record(j), FALSE)
      \/ status[j] = "DOWNLOADING" /\ Pipeline(j, Record(j), TRUE)
      \/ /\ status[j] = "RETRY_WAITING"
         /\ w' = IF cupsId[j] # 0 THEN fail
                 ELSE At("sleep", j, FALSE, Record(j), 0)
         /\ UNCHANGED <<durable, said>>
      \/ status[j] = "READY" /\ ~FilePresent(j) /\ stay("fail", 0)
      \/ status[j] = "READY" /\ FilePresent(j) /\ cupsId[j] # 0
         /\ stay("adoptSubmitted", cupsId[j])
      \/ status[j] = "READY" /\ FilePresent(j) /\ cupsId[j] = 0
         /\ stay("lookup", 0)
      \/ status[j] \in {"SUBMITTED", "PRINTING"}
         /\ stay(IF cupsId[j] = 0 THEN "fail" ELSE "poll", cupsId[j])

\* The backend delivers job.assigned (again, perhaps); the receive loop only
\* enqueues it.  While handle_cancel is awaited the receive loop is busy.
Assign(j) ==
  /\ phase = "running" /\ LoopFree /\ cancelling = NoJob
  /\ Len(queue) < MaxQueue
  /\ queue' = Append(queue, j)
  /\ UNCHANGED <<durable, phase, todo, cancelling, crashes, w, said, cups>>

\* _worker_loop takes an assignment and runs handle_assigned to its first await.
TakeJob ==
  /\ phase = "running" /\ w.pc = "idle" /\ queue # <<>>
  /\ queue' = Tail(queue)
  /\ UNCHANGED <<phase, todo, cancelling, crashes, cups>>
  /\ LET j == Head(queue)
     IN  \/ /\ status[j] = NoRow
            /\ status' = [status EXCEPT ![j] = "RECEIVED"]
            /\ Due(j, "RECEIVED")
            /\ w' = At("begin", j, TRUE,
                       [status |-> "RECEIVED", cups |-> 0, attempts |-> 0], 0)
            /\ UNCHANGED <<cupsId, attempts, filePath, disk>>
         \/ /\ status[j] \in TERMINAL_STATUSES
            /\ Due(j, status[j])
            /\ UNCHANGED <<durable, w>>
         \/ /\ status[j] \in NonTerminal
            /\ Resume(j)

\* After emit(RECEIVED) has been awaited: _process_new_job.
BeginPipeline ==
  /\ w.pc = "begin"
  /\ Pipeline(w.job, w.rec, FALSE)
  /\ UNCHANGED <<control, cups>>

\* Mutant: recovery forgets the jobs whose download was under way.
RestartForgetsDownloads ==
  /\ phase = "down"
  /\ phase' = "recovering"
  /\ todo' = {j \in Jobs : status[j] \in NonTerminal \ {"DOWNLOADING"}}
  /\ UNCHANGED <<durable, queue, w, cancelling, said, cups, crashes>>

\* main() starts: recover_unfinished_jobs reads the unfinished rows.
Restart ==
  /\ phase = "down"
  /\ phase' = "recovering"
  /\ todo' = {j \in Jobs : status[j] \in NonTerminal}
  /\ UNCHANGED <<durable, queue, w, cancelling, said, cups, crashes>>

\* The recovery loop resumes one unfinished job and awaits it to the end.
RecoverNext(j) ==
  /\ phase = "recovering" /\ w.pc = "idle" /\ emit = NoReport /\ j \in todo
  /\ todo' = todo \ {j}
  /\ Resume(j)
  /\ UNCHANGED <<phase, queue, cancelling, crashes, cups>>

\* Only then is the WebSocket client started.
RecoveryDone ==
  /\ phase = "recovering" /\ w.pc = "idle" /\ emit = NoReport /\ todo = {}
  /\ phase' = "running"
  /\ UNCHANGED <<durable, todo, queue, w, cancelling, said, cups, crashes>>

\* SIGKILL, power loss, or an orderly stop, which cancels the worker task.  A
\* report that is due is never made.
Crash ==
  /\ phase # "down"
  /\ Die
  /\ emit' = NoReport
  /\ unsaid' = unsaid \cup {j \in Jobs : emit # NoReport /\ j = emit[1]}
  /\ UNCHANGED <<durable, reported, cups>>

-----------------------------------------------------------------------------
(* Download and retry.                                                       *)

\* download returned; _move_to_processing moves the file (same name each time).
DownloadSucceeds ==
  /\ w.pc = "downloading"
  /\ disk' = [disk EXCEPT ![w.job] = "processing"]
  /\ w' = Goto("recordPath")
  /\ UNCHANGED <<row, control, said, cups>>

\* Mutant: the job is submitted without having been marked READY.
RecordPathSkipsReady ==
  /\ w.pc = "recordPath"
  /\ filePath' = [filePath EXCEPT ![w.job] = TRUE]
  /\ w' = Goto("submit")
  /\ UNCHANGED <<status, cupsId, attempts, disk, control, said, cups>>

RecordPath ==
  /\ w.pc = "recordPath"
  /\ filePath' = [filePath EXCEPT ![w.job] = TRUE]
  /\ w' = Goto("markReady")
  /\ UNCHANGED <<status, cupsId, attempts, disk, control, said, cups>>

MarkReady ==
  /\ w.pc = "markReady"
  /\ Transition(w.job, "READY", Goto("submit"))
  /\ UNCHANGED <<cupsId, attempts, filePath, disk, cups>>

\* RetryableDownloadError (or an unclassified DownloadError) / anything else.
DownloadFails ==
  /\ w.pc = "downloading"
  /\ w' \in {Goto("preSubmit"), Goto("fail")}
  /\ UNCHANGED <<durable, control, said, cups>>

\* _handle_pre_submit_failure for a retryable error, up to increment_attempt.
CountAttempt ==
  /\ w.pc = "preSubmit"
  /\ \/ /\ cupsId[w.job] # 0
        /\ w' = Goto("fail")
        /\ UNCHANGED attempts
     \/ /\ cupsId[w.job] = 0
        /\ attempts' = [attempts EXCEPT ![w.job] = @ + 1]
        /\ w' = Goto("schedule")
  /\ UNCHANGED <<status, cupsId, filePath, disk, control, said, cups>>

\* The limit check and _schedule_retry: RETRY_WAITING is reported even when
\* the row refuses it.
ScheduleRetry ==
  /\ w.pc = "schedule"
  /\ \/ /\ Exhausted(attempts[w.job])
        /\ w' = Goto("fail")
        /\ UNCHANGED <<status, said>>
     \/ /\ ~Exhausted(attempts[w.job])
        /\ status' = IF TransitionOK(status[w.job], "RETRY_WAITING")
                     THEN [status EXCEPT ![w.job] = "RETRY_WAITING"]
                     ELSE status
        /\ Due(w.job, "RETRY_WAITING")
        /\ w' = Goto("scheduled")
  /\ UNCHANGED <<cupsId, attempts, filePath, disk, control, cups>>

\* The row is read again: only a row that is RETRY_WAITING is retried, from
\* that reading.
AfterSchedule ==
  /\ w.pc = "scheduled"
  /\ w' = IF status[w.job] # "RETRY_WAITING" THEN Idle
          ELSE IF cupsId[w.job] # 0 THEN Goto("fail")
          ELSE [w EXCEPT !.pc = "sleep", !.rec = Record(w.job)]
  /\ UNCHANGED <<durable, control, said, cups>>

\* _retry_from_waiting after its sleep, still holding the record it was given.
WakeUp ==
  /\ w.pc = "sleep"
  /\ \/ /\ Exhausted(w.rec.attempts)
        /\ w' = Goto("fail")
        /\ UNCHANGED <<durable, said>>
     \/ /\ ~Exhausted(w.rec.attempts)
        /\ Pipeline(w.job, w.rec, FALSE)
  /\ UNCHANGED <<control, cups>>

\* _fail_job moves the file out of processing/, then writes FAILED unless the
\* row refuses it, and reports FAILED in either case.
FailMovesFile ==
  /\ w.pc = "fail"
  /\ disk' = IF FilePresent(w.job) THEN [disk EXCEPT ![w.job] = "failed"] ELSE disk
  /\ w' = Goto("markFailed")
  /\ UNCHANGED <<row, control, said, cups>>

MarkFailed ==
  /\ w.pc = "markFailed"
  /\ status' = IF TransitionOK(status[w.job], "FAILED")
               THEN [status EXCEPT ![w.job] = "FAILED"]
               ELSE status
  /\ Due(w.job, "FAILED")
  /\ w' = Idle
  /\ UNCHANGED <<cupsId, attempts, filePath, disk, control, cups>>

-----------------------------------------------------------------------------
(* Submission.                                                               *)

Existing(j) == {i \in CupsIds : cups[j][i] # "none"}

\* Mutant: the listing of completed jobs is not consulted.
SeenActiveOnly(j) == {{i \in Existing(j) : cups[j][i] \in CupsActive}}

\* What find_existing_job may answer: a timed-out listing is LOOKUP_FAILED, a
\* timed-out detail query raises, otherwise the titles that were seen decide.
\* With LossyListings one listing, or the detail of one job, may have failed
\* silently, so that any part of the matching jobs may be missing.
Seen(j) == IF LossyListings THEN SUBSET Existing(j) ELSE {Existing(j)}
Verdict(m) ==
  IF m = {} THEN "NOT_FOUND" ELSE IF Cardinality(m) = 1 THEN "FOUND" ELSE "AMBIGUOUS"

\* READY recovery without a stored id.
LookupReady ==
  /\ w.pc = "lookup"
  /\ UNCHANGED <<durable, said, cups>>
  /\ \/ Raise
     \/ w' = Goto("fail") /\ UNCHANGED control          \* LOOKUP_FAILED
     \/ \E m \in Seen(w.job) :
          /\ UNCHANGED control
          /\ \/ /\ Verdict(m) = "FOUND"
                /\ \E i \in m : w' = [w EXCEPT !.pc = "persistFound", !.id = i]
             \/ Verdict(m) = "AMBIGUOUS" /\ w' = Goto("fail")
             \/ Verdict(m) = "NOT_FOUND" /\ w' = Goto("submit")

\* submit() up to the start of lp: file checks, then is_available.
StartSubmit ==
  /\ w.pc = "submit"
  /\ UNCHANGED <<durable, said, cups>>
  /\ \/ disk[w.job] # "processing" /\ w' = Goto("fail") /\ UNCHANGED control
     \/ /\ disk[w.job] = "processing"
        /\ \/ w' \in {Goto("lp"), Goto("preSubmit")} /\ UNCHANGED control
           \/ Raise                                     \* lpstat timed out

\* cupsd creates the job lp asked for.
CupsAccepts(i) ==
  /\ w.pc = "lp"
  /\ i \notin Existing(w.job) /\ 1..(i - 1) \subseteq Existing(w.job)
  /\ cups' = [cups EXCEPT ![w.job][i] = "pending"]
  /\ w' = [w EXCEPT !.pc = "lpAccepted", !.id = i]
  /\ UNCHANGED <<durable, control, said>>

\* lp exits non-zero, or (after acceptance) prints no id that can be parsed.
LpFails ==
  /\ w.pc \in {"lp", "lpAccepted"}
  /\ w' = [w EXCEPT !.pc = "fail", !.id = 0]
  /\ UNCHANGED <<durable, control, said, cups>>

\* Mutant: SUBMITTED is written before the id.
LpReturnsMarksFirst ==
  /\ w.pc = "lpAccepted"
  /\ w' = Goto("markSubmitted")
  /\ UNCHANGED <<durable, control, said, cups>>

LpReturnsId ==
  /\ w.pc = "lpAccepted"
  /\ w' = Goto("persistNew")
  /\ UNCHANGED <<durable, control, said, cups>>

\* lp is killed after CUPS_COMMAND_TIMEOUT; whether cupsd took the job is then
\* looked up.
LpTimesOut ==
  /\ w.pc \in {"lp", "lpAccepted"}
  /\ w' = [w EXCEPT !.pc = "lpLookup", !.id = 0]
  /\ UNCHANGED <<durable, control, said, cups>>

\* Anything but FOUND is PrinterSubmissionUncertainError: never resubmitted.
LookupAfterTimeout ==
  /\ w.pc = "lpLookup"
  /\ UNCHANGED <<durable, said, cups>>
  /\ \/ Raise
     \/ w' = Goto("fail") /\ UNCHANGED control
     \/ \E m \in Seen(w.job) :
          /\ Verdict(m) = "FOUND"
          /\ \E i \in m : w' = [w EXCEPT !.pc = "persistNew", !.id = i]
          /\ UNCHANGED control

PersistId ==
  /\ w.pc \in {"persistNew", "persistFound"}
  /\ cupsId' = [cupsId EXCEPT ![w.job] = w.id]
  /\ w' = Goto(IF w.pc = "persistNew" THEN "markSubmitted" ELSE "adoptSubmitted")
  /\ UNCHANGED <<status, attempts, filePath, disk, control, said, cups>>

MarkSubmitted ==
  /\ w.pc = "markSubmitted"
  /\ Transition(w.job, "SUBMITTED", Goto("poll"))
  /\ UNCHANGED <<cupsId, attempts, filePath, disk, cups>>

\* _monitor_existing_submission.
AdoptSubmitted ==
  /\ w.pc = "adoptSubmitted"
  /\ \/ /\ status[w.job] = "READY"
        /\ Transition(w.job, "SUBMITTED", Goto("poll"))
     \/ /\ status[w.job] # "READY"
        /\ w' = Goto("poll")
        /\ UNCHANGED <<status, said, control>>
  /\ UNCHANGED <<cupsId, attempts, filePath, disk, cups>>

-----------------------------------------------------------------------------
(* Monitoring.                                                               *)

\* Mutant: whatever is on the completed listing has completed.
ReadingByListing(s) ==
  CASE s = "pending" -> "PENDING" [] s = "printing" -> "PRINTING"
    [] s \in CupsEnded -> "COMPLETED" [] OTHER -> "UNKNOWN"

CupsReading(s) ==
  CASE s = "pending"   -> "PENDING"
    [] s = "printing"  -> "PRINTING"
    [] s = "completed" -> "COMPLETED"
    [] s = "canceled"  -> "CANCELLED"
    [] s = "aborted"   -> "FAILED"
    [] OTHER           -> "UNKNOWN"

\* What get_status may answer instead (module CupsQueries): UNKNOWN, PRINTING
\* for an ended job that is still taken to be on the active queue, and, if its
\* detail is lost, COMPLETED for a job that ended otherwise.
Misreadings(s) ==
  {"UNKNOWN"} \cup {o \in {"PRINTING"}  : s \in CupsEnded}
              \cup {o \in {"COMPLETED"} : LossyListings /\ s \in CupsEnded}

\* get_status answers: what CUPS holds for the id now, or a misreading.
Observe(truth) ==
  /\ w.pc = "poll"
  /\ \E o \in IF truth THEN {CupsReading(cups[w.job][w.id])}
              ELSE Misreadings(cups[w.job][w.id]) :
       w' = [w EXCEPT !.pc = "observed", !.obs = o]
  /\ UNCHANGED <<durable, control, said, cups>>

\* Mutant: the printer job id is dropped with the observation.
HandledForgetsId(pc) == [w EXCEPT !.pc = pc, !.obs = "UNKNOWN", !.id = 0]

\* The observation is dropped once it has been handled.
Handled(pc) == [w EXCEPT !.pc = pc, !.obs = "UNKNOWN"]

HandleQuietPoll ==
  /\ w.pc = "observed" /\ w.obs \in {"UNKNOWN", "PENDING"}
  /\ w' = Handled("poll")
  /\ UNCHANGED <<durable, control, said, cups>>

\* Mutant: a failed or cancelled printer job does not end the monitoring.
FailedPollGoesOn ==
  /\ w.pc = "observed" /\ w.obs \in {"FAILED", "CANCELLED"}
  /\ w' = Handled("poll")
  /\ UNCHANGED <<durable, control, said, cups>>

HandleFailedPoll ==
  /\ w.pc = "observed" /\ w.obs \in {"FAILED", "CANCELLED"}
  /\ w' = Handled("fail")
  /\ UNCHANGED <<durable, control, said, cups>>

HandlePrintingPoll ==
  /\ w.pc = "observed" /\ w.obs = "PRINTING"
  /\ \/ /\ status[w.job] # "PRINTING"
        /\ Transition(w.job, "PRINTING", Handled("poll"))
     \/ /\ status[w.job] = "PRINTING"
        /\ w' = Handled("poll")
        /\ UNCHANGED <<status, said, control>>
  /\ UNCHANGED <<cupsId, attempts, filePath, disk, cups>>

\* The completion gate (module CompletionGate) is still closed: poll again.
HandleCompletedPoll ==
  /\ w.pc = "observed" /\ w.obs = "COMPLETED"
  /\ w' = IF status[w.job] = "COMPLETED" THEN Idle ELSE Handled("poll")
  /\ UNCHANGED <<durable, control, said, cups>>

\* The gate opens; _notify_before_job_completed is awaited next.
GateOpens ==
  /\ w.pc = "observed" /\ w.obs = "COMPLETED" /\ status[w.job] # "COMPLETED"
  /\ w' = Handled("completing")
  /\ UNCHANGED <<durable, control, said, cups>>

ArchiveFile ==
  /\ w.pc = "completing"
  /\ disk' = IF disk[w.job] = "processing"
             THEN [disk EXCEPT ![w.job] = "completed"] ELSE disk
  /\ w' = Goto("markCompleted")
  /\ UNCHANGED <<row, control, said, cups>>

MarkCompleted ==
  /\ w.pc = "markCompleted"
  /\ Transition(w.job, "COMPLETED", Idle)
  /\ UNCHANGED <<cupsId, attempts, filePath, disk, cups>>

-----------------------------------------------------------------------------
(* handle_cancel, run by the WebSocket receive loop.                         *)

\* update_status(CANCELLED) with the refusal swallowed, then emit(CANCELLED).
RecordCancel(j) ==
  /\ status' = IF TransitionOK(status[j], "CANCELLED")
               THEN [status EXCEPT ![j] = "CANCELLED"] ELSE status
  /\ Due(j, "CANCELLED")

\* A cancel of an unknown or terminal job is ignored (no step).
Cancel(j) ==
  /\ phase = "running" /\ LoopFree /\ cancelling = NoJob
  /\ status[j] \in NonTerminal
  /\ \/ /\ cupsId[j] # 0
        /\ cancelling' = j
        /\ UNCHANGED <<status, said>>
     \/ /\ cupsId[j] = 0
        /\ RecordCancel(j)
        /\ UNCHANGED cancelling
  /\ UNCHANGED <<cupsId, attempts, filePath, disk, phase, todo, queue, w, cups, crashes>>

\* The cancel command ended (its failure is only logged).
CancelReturns ==
  /\ cancelling # NoJob /\ LoopFree
  /\ RecordCancel(cancelling)
  /\ cancelling' = NoJob
  /\ UNCHANGED <<cupsId, attempts, filePath, disk, phase, todo, queue, w, cups, crashes>>

-----------------------------------------------------------------------------
(* CUPS.                                                                     *)

CupsMoves(j, i, from, to) ==
  /\ cups[j][i] \in from
  /\ cups' = [cups EXCEPT ![j][i] = to]
  /\ UNCHANGED <<durable, control, w, said>>

CupsPrints(j, i)    == CupsMoves(j, i, {"pending"}, "printing")
CupsCompletes(j, i) == CupsMoves(j, i, {"printing"}, "completed")
CupsAborts(j, i)    == CupsMoves(j, i, CupsActive, "aborted")
\* The agent's cancel command, or somebody at the queue.
CupsCancels(j, i)   == CupsMoves(j, i, CupsActive, "canceled")

-----------------------------------------------------------------------------

WorkerStep ==
  /\ emit = NoReport
  /\ \/ TakeJob \/ BeginPipeline
     \/ DownloadSucceeds \/ RecordPath \/ MarkReady \/ DownloadFails
     \/ CountAttempt \/ ScheduleRetry \/ AfterSchedule \/ WakeUp
     \/ FailMovesFile \/ MarkFailed
     \/ LookupReady \/ StartSubmit \/ LpFails \/ LpReturnsId \/ LpTimesOut
     \/ LookupAfterTimeout \/ PersistId \/ MarkSubmitted \/ AdoptSubmitted
     \/ Observe(TRUE) \/ Observe(FALSE)
     \/ HandleQuietPoll \/ HandleFailedPoll \/ HandlePrintingPoll
     \/ HandleCompletedPoll \/ GateOpens \/ ArchiveFile \/ MarkCompleted

ProcessStep ==
  \/ Restart \/ RecoveryDone \/ Crash
  \/ \E j \in Jobs : RecoverNext(j)

BackendStep ==
  \/ CancelReturns
  \/ \E j \in Jobs : Assign(j) \/ Cancel(j)

CupsStep ==
  \/ \E i \in CupsIds : CupsAccepts(i)
  \/ \E j \in Jobs, i \in CupsIds :
       CupsPrints(j, i) \/ CupsCompletes(j, i) \/ CupsAborts(j, i) \/ CupsCancels(j, i)

Next == WorkerStep \/ Emit \/ ProcessStep \/ BackendStep \/ CupsStep

Spec == Init /\ [][Next]_vars

(***************************************************************************)
(* Fairness.  Code without an await runs on, every CUPS command is killed  *)
(* at its timeout, a dead agent is restarted (systemd Restart=always) and  *)
(* cupsd works its queue off: weak fairness.  The ready queue of asyncio   *)
(* is first-in, first-out, so the worker's turn comes even if cancels and  *)
(* their reports run in between for ever: strong fairness.  So is what is  *)
(* assumed of CUPS: a poll that can answer is answered sooner or later,    *)
(* and the completion gate opens when asked for ever.  Nothing is assumed  *)
(* of the backend, of downloads or crashes.                                *)
(***************************************************************************)
Fairness ==
  /\ SF_vars(WorkerStep)
  /\ WF_vars(Emit)
  /\ WF_vars(Restart)
  /\ WF_vars(RecoveryDone)
  /\ WF_vars(\E j \in Jobs : RecoverNext(j))
  /\ WF_vars(CancelReturns)
  /\ WF_vars(\E j \in Jobs, i \in CupsIds : CupsPrints(j, i) \/ CupsCompletes(j, i))
  /\ SF_vars(Observe(TRUE))
  /\ SF_vars(GateOpens)

FairSpec == Spec /\ Fairness

-----------------------------------------------------------------------------
(* Properties.                                                               *)

\* The worker holds a job exactly while it is not idle, and a printer job id
\* from acceptance or adoption on.
WorkerOK(x) ==
  /\ x \in Workers
  /\ x.pc = "idle" <=> x.job = NoJob
  /\ x.pc \in {"lpAccepted", "persistNew", "persistFound", "markSubmitted",
              "adoptSubmitted", "poll", "observed"} => x.id # 0

\* Every variable has its type, and the worker record is consistent: what it
\* holds was set on the way to where it is and is dropped when it returns.
TypeOK ==
  /\ status \in [Jobs -> Statuses \cup {NoRow}]
  /\ cupsId \in [Jobs -> CupsIds \cup {0}]
  /\ attempts \in [Jobs -> Nat]
  /\ filePath \in [Jobs -> BOOLEAN]
  /\ disk \in [Jobs -> Places]
  /\ phase \in {"down", "recovering", "running"}
  /\ todo \in SUBSET Jobs
  /\ queue \in Seq(Jobs)
  /\ WorkerOK(w)
  /\ cancelling \in Jobs \cup {NoJob}
  /\ emit \in Reports \cup {NoReport}
  /\ reported \in [Jobs -> Statuses \cup {NoRow}]
  /\ unsaid \subseteq Jobs
  /\ cups \in [Jobs -> [CupsIds -> CupsStates]]
  /\ crashes \in Nat

\* At most one CUPS job exists per backend job, through crashes between lp and
\* the write of its id, redelivered assignments, cancels and lp timeouts (as
\* long as lpstat listings do not fail silently).
OneCupsJob ==
  \A j \in Jobs : \A i, k \in Existing(j) : i = k

\* The worker fetches or submits only a job without a CUPS job, and between
\* lookup or lp and the write of the id its row stays READY: neither a cancel nor
\* anything else moves it while a submission is under way.
FreshSubmission ==
  /\ w.pc \in {"downloading", "recordPath", "markReady", "submit", "lp"}
       => Existing(w.job) = {}
  /\ w.pc \in {"submit", "lp", "lpAccepted", "lpLookup", "lookup", "persistNew",
                "persistFound"} => status[w.job] = "READY"

\* A row that recovery would download and submit afresh has no CUPS job: the
\* "refusing duplicate print" branches are never what saves the agent.
NoPrintBeforeReady ==
  \A j \in Jobs :
    status[j] \in {NoRow, "RECEIVED", "DOWNLOADING", "RETRY_WAITING"}
      => Existing(j) = {} /\ cupsId[j] = 0

\* SUBMITTED and PRINTING name a job CUPS really holds, and a stored id is never
\* of a job that does not exist: recovery can always monitor instead of print.
StoredIdIsReal ==
  \A j \in Jobs :
    /\ cupsId[j] # 0 => cupsId[j] \in Existing(j)
    /\ status[j] \in {"SUBMITTED", "PRINTING", "COMPLETED"} => cupsId[j] # 0

\* COMPLETED is claimed, in the row, towards the backend or by the place of the
\* file, only of a job CUPS finished printing.
CompletedWasPrinted ==
  \A j \in Jobs :
    status[j] = "COMPLETED" \/ reported[j] = "COMPLETED" \/ disk[j] = "completed"
      => cupsId[j] # 0 /\ cups[j][cupsId[j]] = "completed"

\* The retry limit holds across restarts: no retry waits at the limit, and a
\* crash between increment_attempt and the limit check costs at most one more.
RetryBudget ==
  \A j \in Jobs :
    /\ status[j] = "RETRY_WAITING" => attempts[j] < MaxAttempts
    /\ attempts[j] <= MaxAttempts + crashes

\* job.completed, and job.failed from _fail_job, are only said of a job that is
\* over: nothing the agent does later makes it print.
FinalReportIsTrue ==
  \A j \in Jobs :
    /\ reported[j] = "FAILED" => status[j] \in TERMINAL_STATUSES
    /\ reported[j] = "COMPLETED" => status[j] = "COMPLETED"

\* What may have been said last of a row that holds something else.  <<"CANCELLED",
\* "FAILED">> is the usual end of a cancelled print: the poll answers CANCELLED and
\* _fail_job reports FAILED although the row refuses it.  The others are a cancel or a
\* retry that READY refused, a cancel of a job that ended while the cancel command ran,
\* and the retry of a download whose job was cancelled meanwhile.
RefusedReports ==
  {<<"READY", "CANCELLED">>, <<"READY", "RETRY_WAITING">>,
   <<"COMPLETED", "CANCELLED">>, <<"FAILED", "CANCELLED">>,
   <<"CANCELLED", "FAILED">>, <<"CANCELLED", "RETRY_WAITING">>}

\* The last report of j, made or due.
LastReport(j) == IF emit # NoReport /\ emit[1] = j THEN emit[2] ELSE reported[j]

\* The last report of a job is the status of its row, unless the row refused it, in one
\* of six ways, or the process died between a write of the row and its report and no
\* other report followed.
ReportFollowsRow ==
  \A j \in Jobs :
    \/ LastReport(j) = status[j] \/ <<status[j], LastReport(j)>> \in RefusedReports
    \/ j \in unsaid

\* The abstract specification, with acceptance read off the CUPS jobs.
Lifecycle == INSTANCE JobLifecycle
               WITH accepted <- [j \in Jobs |-> Existing(j) # {}]

\* The agent implements JobLifecycle: every step is one of its steps, so a job
\* cancelled, failed or completed stays so and never reaches the printer again.
ImplementsLifecycle == Lifecycle!Spec

\* handle_cancel reports CANCELLED; the job it says so of is over.
CancelReportIsTrue ==
  \A j \in Jobs : reported[j] = "CANCELLED" => status[j] \in TERMINAL_STATUSES

\* A cancel that finds the job terminal is ignored: what was reported as
\* completed is not reported otherwise afterwards.
CompletedReportStands ==
  [][\A j \in Jobs : reported[j] = "COMPLETED" => reported'[j] = "COMPLETED"]_reported

\* The worker never stays with one job for ever, so the queue behind it moves.
WorkerComesBack == (w.pc # "idle") ~> (w.pc = "idle")

\* A job that CUPS has, or that is being fetched or retried, is brought to its
\* end (a fetched job: to READY) over any crash.
UnfinishedJobsSettle ==
  \A j \in Jobs :
    /\ status[j] \in {"SUBMITTED", "PRINTING"} ~> status[j] \in TERMINAL_STATUSES
    /\ status[j] \in {"RECEIVED", "DOWNLOADING", "RETRY_WAITING"}
         ~> status[j] \in TERMINAL_STATUSES \cup {"READY"}

\* A downloaded job is submitted or fails: a printer that is unavailable is a
\* recoverable failure under the bounded retry policy.
ReadyJobsSettle ==
  \A j \in Jobs : status[j] = "READY" ~> status[j] # "READY"

=============================================================================
