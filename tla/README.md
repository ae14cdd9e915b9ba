# A formal model of the QuickPrint Pi agent

The agent (`src/app`) runs on a Raspberry Pi next to a printer. A backend sends
it print jobs over a WebSocket; it downloads the file, submits it to CUPS once,
watches it print and reports each change of its status. This directory holds
TLA+ modules that model how it does so, TLC configurations that check them on
small instances, and theorems that TLAPS proves for every instance.

## 1. The system

Everything but CUPS and the backend runs in one process and one asyncio event
loop. A coroutine gives the loop up only at an `await` that suspends; the modules
are cut at those places, and at every durable write, since the process can die
between two of them.

| component | state | operations | modelled in |
|---|---|---|---|
| store and job state machine (`database.py`, `models.py`) | one SQLite row per job: status, CUPS id, attempts, file path | `create_job`, `update_status`, `set_*`, `increment_attempt`, the listings; `ALLOWED_TRANSITIONS` | `JobStatus`, `JobManager` |
| job pipeline (`job_manager.py`) | assignment queue, the one worker, files in incoming/processing/completed/failed | `handle_assigned`, `_run_download_pipeline`, `_schedule_retry`, `_resume_job`, `_submit_and_monitor`, `_complete_job`, `_fail_job`, `handle_cancel`, `recover_unfinished_jobs` | `JobManager`, `JobLifecycle` |
| completion gate (`job_manager.py`) | `_physical_completion_settling` | `_process_printer_poll_status`, `_evaluate_physical_completion`, `_cups_queue_quiescent` | `CompletionGate` |
| CUPS client (`cups.py`, `cups_job_state.py`, ...) | none | `get_status`, `find_existing_job`, `submit`, `cancel` | `CupsQueries` (the first two), `JobManager` (the last two) |
| status reporting (`websocket_client.py`) | the socket, `_pending_statuses` | `send_status`, the flush, `reconcile_backend_status`, the session and the reconnect loop | `StatusReporting` |
| printer telemetry (`printer_telemetry/`, and the sending of `websocket_client.py`) | sequence number, last snapshot, the probes under way, `_pending_telemetry` | the adapters, `normalize_probe`, the poll loop, `publish_physical_state`, `flush_on_reconnect`, `send_telemetry` | `PrinterTelemetry`, `PrinterState` |
| print settings (`protocol.py`, `models.py`, `cups_options.py`, `page_range.py`) | none | `validate_job_assigned_payload`, `from_dict`, `validate_print_settings`, `build_lp_options` | `PrintSettings` |
| health (`health.py`) | none | `collect_health` | `printer_ok` in `PrinterState` |
| downloader, retry policy | none | `download`, `should_retry` | outcomes in `JobManager` |
| logging, configuration, discovery, mock printer, scripts | none of the above | read, log, install | not modelled |

How they interact: the session coroutine of the WebSocket client puts
assignments on the queue and runs `handle_cancel` itself, so a cancel interleaves
with the worker at every await. The worker calls the downloader, CUPS and the
store; every change of a row is followed by a report through `_emit`. At start-up
the recovery loop takes the unfinished rows before the WebSocket client starts,
while the worker, though started, has nothing in its queue. The telemetry service
probes the printer on three occasions, each a coroutine of its own: in its poll
loop, in the session after a connect, and in the worker before it writes
COMPLETED. All three share one last snapshot, one sequence number and one queue of
kept telemetry, and the poll loop asks the store whether a job is PRINTING.

What is hard here: a crash between `lp` and the write of its id; cancels that
land in any await; assignments delivered again; `lp` killed at its timeout
although CUPS took the job; a CUPS that moves on between two `lpstat` commands,
and commands that fail; lost connections that nobody has noticed yet; reports
read before an await and sent after it; a settling time measured by
samples; probes of the printer that overlap, the older one ending last.
`PROJECT.json` lists each of them at its line.

## 2. The modules

* **`JobStatus`** - the statuses and `ALLOWED_TRANSITIONS` of `models.py`, with
  `assert_transition`.
* **`JobLifecycle`** - the abstract specification: what the agent promises of one
  job. The status follows the table, CUPS accepts a job once and only from READY,
  and nothing that claims a print is said without an accepted job.
* **`JobManager`** - the pipeline. `status`, `cupsId`, `attempts`, `filePath` are
  the row and `disk` the place of the file (durable); `phase`, `todo`, `queue`,
  `w` (the worker, or the recovery loop, with its program counter and the record
  it has read), `cancelling` and `emit` are lost in a crash; `cups` is CUPS. An
  action is the code between two awaits, or between two durable writes: at the points
  `RunToCompletion` the loop has not been given up, so only a crash or CUPS can
  come between. A write of a row leaves its report due in `emit`, and `Emit` hands it
  to the callback (`reported`), so a death between the two is a behaviour of the
  model; `unsaid` remembers the jobs whose report was lost that way.
* **`CupsQueries`** - `get_status` and `find_existing_job`, one `lpstat` command
  per action, while CUPS takes, prints, ends and forgets jobs in between and any
  command may time out or exit non-zero. It justifies what `JobManager` and
  `CompletionGate` take `get_status` to answer (`Misreadings`, `Answers`).
* **`StatusReporting`** - reports on their way to the backend: the two coroutines
  that report, the socket and its three ways of being dead, the kept statuses,
  reconciliation and flush, and crashes. A full socket buffer may suspend any
  send, which is where the two coroutines interleave. `held` is the job the worker
  is at; `CancelAtPrinter` and `CancelReturns` are the two sides of the await in
  `handle_cancel` (`cancelling`), during which the worker goes on and the receive
  loop does not. A report is of a row that takes the status (`WriteAndReport`) or
  refuses it and is reported all the same (`ReportRefused`: `FailCancelled`,
  `RetryRefused` and both kinds of cancel). A row and its report are one step: a
  death between them loses the report and so does one right after them, which
  empties everything the report could have reached.
* **`CompletionGate`** - the polls of a job that CUPS calls completed, the two
  rechecks, the samples of the queue and the settling, with the clock as ticks.
* **`PrinterState`** - what is made of one probe: the reading of hp-probe's output,
  `normalize_probe` with the connection, operational and display state, and
  `printer_ok` of the health snapshot. Pure operators; a reason token is its kind.
* **`PrinterTelemetry`** - the publishers. A probe is two actions, `ReadCups` (the
  `lpstat` and `ipptool` commands) and `EndProbe` (hp-probe, then the normalisation,
  the change detection and the emission, which have no await between them), so
  that probes overlap and the printer changes in the middle of one. `Send`, `Keep`
  and `Cut` are `send_telemetry` and `_queue_pending_telemetry`, `BeginFlush` and
  `FlushNext` the flush with its two ways to end. The connection is that of
  `StatusReporting`, with the statuses left out.
* **`PrintSettings`** - what the reception of an assignment lets through, what the
  worker fails a job for, and the options `lp` gets. Pure operators; a page range
  is its segments, an integer field a number or one of the two kinds of value
  `int()` refuses. `JobManager` has of it the set `InvalidSettings`.
* **`JobManagerProofs`**, **`JobOutcomeProofs`**, **`CupsQueriesProofs`**, **`CompletionGateProofs`**,
  **`StatusReportingProofs`**, **`PrinterStateProofs`**, **`PrinterTelemetryProofs`**,
  **`PrintSettingsProofs`** - the theorems. **`MCJobManager`**, **`MCStatusReporting`** -
  symmetry for TLC; **`MCPrinterTelemetry`** - three printer conditions.

## 3. Runs

| run | instance | shows |
|---|---|---|
| `jobs` | 2 jobs, 2 attempts, 1 crash | `OneCupsJob`, `FreshSubmission`, `NoPrintBeforeReady`: no job is printed twice. `StoredIdIsReal`, `CompletedWasPrinted`, `RetryBudget`, `FinalReportIsTrue`: what rows and reports say is so. `ReportFollowsRow`: they differ only as `RefusedReports` lists, or by a report that died with the process. `ImplementsLifecycle`: `JobManager` refines `JobLifecycle` |
| `jobs_live` | 2 jobs, one with invalid settings, 1 crash | `WorkerComesBack`, `UnfinishedJobsSettle` |
| `cups_queries` | 3 CUPS jobs, one polled, two titled | `FinalAnswerIsTrue`, `FinalAnswerMeansEnd`, `LookupMissesNothing` |
| `reporting` | 2 jobs, 1 cut, 1 crash | `BackendInSync`, `KeptIsCurrent`, `EndIsLastWord` |
| `reporting_live` | 1 job to its end, 2 cuts, 1 crash | `RefusalsAreFew`, `EndIsTold` |
| `gate` | 2 jobs, settling time 4 ticks or 0 | `OpensAfterQuiet`, `CalmOpens` |
| `telemetry` | 3 conditions, queue of 1, 1 disturbance | `QueueBounded`, `BackendInSync`, `NoPhantomPrinting`, `Converges`: the backend comes to know the printer as it is |
| `cancel_ready` | 1 job | a cancel of a READY job is reported CANCELLED, but the job prints |
| `late_cancel` | 1 job | a job reported COMPLETED is reported CANCELLED afterwards |
| `ready_stuck` | 1 job, no crash | a READY job whose printer is unavailable stays READY |
| `lossy_lookup` | 1 job, 1 crash | if a listing or a detail fails unnoticed, recovery prints a job twice |
| `gate_unknown` | 1 job | while polls are answered UNKNOWN the settling time runs on and the queue is not watched |

The last five are violations: the code does not do what a comment, a test or a
document says, quoted under "findings" in `PROJECT.json`.

`ReportFollowsRow` says how far the three about cancels and retries go.
`handle_cancel`, `_schedule_retry` and `_fail_job` report a status even if the row
refuses it, so the last report and the row can part; `RefusedReports` lists the
six ways they do, and TLC reaches each one if it is left out of the list. A
COMPLETED row, for one, can be reported as CANCELLED and as nothing else. The one
met most often is a cancelled print: the cancel writes and reports CANCELLED, the
worker's poll answers CANCELLED, and `_fail_job` reports FAILED over it. Apart from
refusals, a row is ahead of its last report if the process died between the two
(`unsaid`), until the job is reported again. `reported` is what the pipeline itself
reports; what `reconcile_backend_status` repeats after a reconnect is in
`StatusReporting`.

The properties of `StatusReporting` carry the same exception: `Tells(j, s)` is that
`s` is the status of the row of `j`, or was reported of that very status of the row
although the row refused it (`refused`, forgotten when the row changes), and
`RefusalsAreFew` says what that can be. So `BackendInSync`, `KeptIsCurrent`,
`EndIsLastWord` and `EndIsTold` say that nothing else than the row or what it refused
stands at the backend: `late_cancel` (CANCELLED over COMPLETED) and the FAILED over a
cancelled print are behaviours of this module too, and no lost, kept or late report
adds another kind of difference.

**Bounds.** `jobs`: two jobs are enough for the worker to hold one while the
other waits, is cancelled or is delivered again; two CUPS ids per job let a
duplicate happen; two attempts give one retry and one exhaustion; one crash at
any point, followed by a full recovery. `MaxQueue` bounds the assignments that
wait. `cups_queries`: the polled job, a titled one and another are all the roles
there are. `reporting`: with two jobs a send of one suspends the session while
the other changes, which one job cannot show; three changes short of an end, one
cut and one crash reach every combination of a report kept, lost, in flight and
under way, and a cancel that is refused by READY, or by FAILED after its await.
`reporting_live`: five changes take its one job through SUBMITTED and PRINTING to every
end, with two messages in flight. `gate`: rounds of at most two ticks, a settling time of two full rounds
and busy spells of five ticks, so spells begin, end and hide between samples.
`telemetry`: a fine printer, one without paper, and one pulled from its socket in
the middle of a print, of which a probe cut in two by the change shows neither
side; a queue of one message, so that it overflows at the second; the outage the
agent starts with costs nothing, one disturbance more is a change of the printer,
a failing command, a lost connection, a heartbeat or a crash. What needs two of
them was checked by hand with `MaxDisturbances = 2`, too long for a run that is
repeated: two conditions with all properties (712 000 states) and three
conditions with the safety properties (4.1 million), without an error.

**Fairness.** `JobManager`: strong fairness of the worker's steps (every CUPS command
is killed at its timeout, and asyncio runs the tasks whose await is done in the order
they became ready, so the worker has its turn even if cancels and their reports
disable it again and again), weak fairness of a report that is due, of the
recovery loop and of the restart (`systemd/quickprint-agent.service`:
`Restart=always`), and of cupsd working its queue off. Strong fairness of a poll
that answers and of the gate: that CUPS answers now and then, and that the queue
is at times quiet for long enough, is assumed of the outside; `CalmOpens` shows
that the gate then does its part. Nothing is assumed of the backend, of downloads
or of crashes. `StatusReporting`: the session, a cancel command that
ends (it has a timeout), suspended sends, reconnects, the keepalive and delivery on a
live connection; strong fairness of the end of the receive loop, since a lost
connection brings no more messages, though those received may still be cancels. `CompletionGate`: the polls and time.
`PrinterTelemetry`: the poll loop goes on for ever (its commands have timeouts, its
exceptions are caught), and of the rest that is under way - the session, the
reconnect, suspended sends, the other two probes, delivery - something happens.

**Deadlock** is checked, but for `CompletionGate`, which stops when its last job
is over.

**Exceptions the properties make.** They are the places where the code makes no
promise, and each is a history variable or a constant in the module:

* `LossyListings` (`JobManager`): a listing that fails with an exit code other
  than 0 counts as empty. With it, `OneCupsJob` fails (`lossy_lookup`).
* `trouble` (`CupsQueries`): since the call, a command failed about a job that is
  there, or CUPS dropped its history. Then an ended job may be called COMPLETED
  however it ended (`cups.py:418`, the job is on the completed list and its
  details cannot be read), yet never one that has not ended.
* `refused` (`StatusReporting`): what was reported of a row, as it is, that refused it
  (`RefusedReports` in `JobManager`).
* `unsaid` (`JobManager`): the report of the last write of the row died with the
  process.
* `aged` (`StatusReporting`): a job that ended more than 300 s ago is not
  reconciled (`reconcile_backend_status`).
* `crossed` (`StatusReporting`): the row changed while a report of it had been read
  and not been sent. `reconcile_backend_status` and `_flush_pending_statuses` read
  before they await, and a report that goes out directly does not replace the
  kept one; if a send suspends, the older status is heard last, against the order
  BACKEND_INTEGRATION.md gives, until the next reconnect.
* `blind` (`CompletionGate`): a poll was answered UNKNOWN since the settling began;
  nothing is sampled in such a round, and the settling goes on.
* `prior` (`PrinterTelemetry`): the sequence starts anew with the process, while
  "Backend rejects out-of-order `sequence` values per kiosk" (BACKEND_INTEGRATION.md).
  Read as: a number not above the last accepted one is rejected, a restarted agent
  goes unheard until its count has passed that of its predecessor. How the backend
  tells two lives of an agent apart is not in the repository.
* `MinBusy > 2 * MaxRound` (`CompletionGate`): a busy spell that fits between two
  samples cannot be seen.

## 4. What is proved

For every set of jobs, every bound and every setting of the constants that the
named assumptions of the modules allow:

* `JobManagerProofs`: `TypeCorrect`; `NeverTwoCupsJobs`, `SubmissionUndisturbed` and
  `FreshRowsUnprinted` (these under `~LossyListings`). That a job has one CUPS job is
  not inductive alone. The invariant `Safe` joins it with `FreshSubmission` (while
  the worker fetches a job or is on its way to `lp` there is no CUPS job, and the
  row stays READY to the write of the id) and `NoPrintBeforeReady` (a row recovery
  would start afresh has none either). `lp` then adds the first one; a crash
  leaves a READY row, whose only way back to `lp` is through a lookup that finds
  what is there; and no edge leads from READY back to a fresh row.
* `JobOutcomeProofs`, on the same pipeline: what its rows and reports claim.
  * `StoredIdsAreReal`, `FinalReportsAreTrue`. Neither is inductive: SUBMITTED is
    written steps after the id was learned. `Sound` adds `Grounded`, which says what
    the worker may rely on where it is: the row of its job exists, is READY while
    it is submitted, the id in its hands is of a job CUPS has, and once it monitors,
    that id is the stored one. One lemma, `StepMoves`, then says of every step that it
    moves one row at most, along the table, and with an id for what it claims.
  * `AgentImplementsLifecycle`: the refinement. With `accepted` read as
    `Existing(j) # {}`, a step that moves a row is `Receive` or `Advance`
    (`StepMoves`; a claim has an id, and an id a CUPS job), the step of cupsd that
    creates the first job is `Accept` (the row is READY by `Grounded`), and all else
    stutters (`StepImplements`). `EndedJobsNeverReturn` is stronger than what the
    refinement gives: CUPS gets no further job for a row that is over, not even
    a second one.
  * `RetriesStayInBudget`. A job whose attempts are used up must not be counted
    again: `Budgeted` says that it is over, or the worker is on its way to end it, and
    `FreshAttempt`, that an attempt is counted only for a row that is DOWNLOADING,
    READY or CANCELLED. A death on that way leaves room for one attempt more, which
    is why the bound grows with `crashes`.
  * `ReportsFollowRows`. The last report is the one that is due, if there is one
    (`LastReport`): a write makes one due, `Emit` makes it, a crash drops it into
    `unsaid`. Besides `FreshAttempt` the proof takes `HeldRow` (the row of the
    worker's job is not ended by anybody else, but by a cancel) and `CancelOfRow` (the
    job of a running cancel command has a row); which statuses each row refuses is
    then read off the table (`Refusals`).
  * `CompletedMeansPrinted` (under `~LossyListings`, without which a job whose
    detail is lost counts as completed). `Unclaimed` says that a job being submitted
    has no id, so that none is ever replaced, and `CompletedSeen`, that the job
    about to be completed has ended in CUPS with all its pages, and stays so.
* `CupsQueriesProofs`: `TypeCorrect`, `FinalAnswersAreTrue`, `FinalAnswersMeanEnd`,
  `LookupIsComplete`. The invariants say what is known of the job at each command:
  an ended job stays ended, so a titled job that was there at the call is on the
  first listing, or has ended and is on the second.
* `CompletionGateProofs`: `TypeCorrect`, `GateHolds`. While a settling runs, the queue
  has been quiet since it began, or became busy after the last sample and is
  still so at the next: `busy - 1 <= SinceSample`.
* `StatusReportingProofs`: `TypeCorrect`, `RefusalsStayFew`, `KeptStaysCurrent`,
  `BackendStaysInSync`, `EndStaysLastWord`. What a row refuses is read off the table,
  but that a cancelled row gets one such report only needs `HandsOff`: the worker that
  made it has left the job and no redelivery brings it back. What the backend was
  told depends on what was read and not yet sent, so the invariant `AllFaithful` says
  of every such report (still to be sent by the session, suspended, or kept) that its
  row tells it (`Tells`), or the job is `crossed`. `Told`: on a live connection
  something each row tells is still on the session's list or is the last word in the
  channel. `EndsStand`: once COMPLETED or FAILED is in the channel or at the backend,
  the row is over (`ToldIsOver`: no other row is said to be) and tells all that
  follows, which can only be CANCELLED (`ToldAfter`).
* `PrinterTelemetryProofs`: `TypeCorrect`, `QueueStaysBounded`, `BackendStaysInSync`,
  `NoPhantoms`. The bound of the queue needs `Room`: while a flush has something in
  hand, what was kept meanwhile is within the limit, so the one message put back
  uncut exceeds it by one. The synchrony needs `AllGenuine`: of all telemetry kept,
  flushed, suspended or in the channel, the one with the newest number shows the
  last snapshot, and `NewestTold`: once the session has published, that number is
  on the connection or accepted.
* `PrinterStateProofs`: for every gathering of signals `normalize_probe` gives a
  snapshot (`NormalizeType`); `ReadyIsEarned`, `PrintingIsMeant`, `FaultIsShown`,
  `OfflineIsKnown`, `HealthIsEarned` say what each display state, and the health
  snapshot, vouches for; `AbsenceNeedsSilence` when hp-probe counts as absence.
* `PrintSettingsProofs`: `LateRefusals`, what the reception leaves for the worker to
  refuse; `OptionsTellAll`, that the options of `lp` tell any two valid settings
  apart. `PrintSettings` has no run: it has no state, and its theorems cover all
  inputs; a sample of 1152 valid settings was enumerated by hand with the same
  result.

Every safety property that a passing run checks is stated by one of these
theorems. The liveness properties (`WorkerComesBack`, `UnfinishedJobsSettle`,
`EndIsTold`, `CalmOpens`, `Converges`) are out of the prover's reach and checked by
TLC alone. The assumptions are those the modules name (bounds are natural numbers,
"no job" is not a job); `~LossyListings` is a hypothesis of the theorems that need
it, and `lossy_lookup` shows what happens without.

## 5. What is left out

* Moves of files are atomic and succeed; a failing `shutil.move` is not modelled.
* When `lp` was killed at its timeout, cupsd has taken the request by the time of
  the lookup, or never will.
* Timestamps, log lines, message formats and what a job's metadata holds beyond
  its settings being valid. Time in `JobManager`: the length of a retry delay.
* Text parsing of `lpstat` output and the match of titles, beyond what is found.
* `StatusReporting` has of the pipeline what it reports: the rows, which job the worker
  is at, and the await of a cancel. Whether a row at READY has a CUPS id is left open,
  so both kinds of cancel are possible there.
* Reports of two connections do not overtake each other at the backend.
* What a message says beyond its status: `protocol.py` gives FAILED, CANCELLED and
  RETRY_WAITING all the type `job.failed`.
* `PrinterTelemetry`: the commands of a probe are two reads of the printer, those of
  CUPS and that of hp-probe; a failing scheduler and a missing queue are one case
  (`Connection` does not tell them apart); make, model, connection type and
  `active_job_id`, which follow from the rest or never change; the time between
  probes; jobs after the first, and those that the recovery completes before the
  service starts.
* The texts of `lpstat`, `ipptool` and `hp-probe`, beyond what is read from them, and
  the text of a page range.
* The contents of a file. A body cut short by the connection ends the loop of
  `_download_sync` like the end of the file, and is then printed as far as it goes.
* The rest of the health snapshot, the HTTP part of the downloader and the delays
  of the retry policy: they keep no state that another component reads.
* Logging, discovery, configuration, the mock printer and the mock printer monitor,
  installation.

## 6. Plan

1. (done) `JobStatus`, `JobLifecycle`, `JobManager`: the pipeline, its refinement, the
   proof that no job prints twice.
2. (done) `CupsQueries`, `CompletionGate`, `StatusReporting` as parts of their own.
3. (done) `PrinterState`, `PrinterTelemetry`, `PrintSettings`, and the proofs about them
   and about `StatusReporting`.
4. (done) `JobOutcomeProofs`: what rows and reports claim, the retry budget and the
   refinement `Spec => Lifecycle!Spec`.
5. The composition of `StatusReporting` and `PrinterTelemetry` over one socket, whose
   sends share a lock; it takes more states than a run of either.
