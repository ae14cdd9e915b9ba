--------------------------- MODULE CompletionGate ---------------------------
(***************************************************************************)
(* When a job that CUPS calls completed may be called COMPLETED: the       *)
(* completion gate of JobManager (_process_printer_poll_status and         *)
(* _evaluate_physical_completion, app/job_manager.py).  The printer works  *)
(* on after CUPS is done with a job, so the gate wants the queue to have   *)
(* been quiet for PHYSICAL_COMPLETION_STABLE_SECONDS, which it samples     *)
(* once per poll.                                                          *)
(*                                                                         *)
(* Time passes in ticks.  A poll, its commands and the pause after it take *)
(* at most MaxRound ticks; the queue, once busy, is busy for MinBusy ticks *)
(* at least, so that a gate that samples in every round cannot miss it.    *)
(***************************************************************************)
EXTENDS Integers

CONSTANTS
  MaxJobs,       \* bound: jobs monitored one after the other
  Stables,       \* the settling times the agent may be configured with
  MaxRound,      \* ticks from one poll to the next
  MinBusy        \* ticks the queue is busy at least, once it is

ASSUME GateAssumption ==
  /\ MaxJobs \in Nat \ {0}
  /\ Stables \subseteq Nat
  /\ MaxRound \in Nat \ {0}
  /\ MinBusy \in Nat /\ MinBusy > 2 * MaxRound

VARIABLES
  stable,    \* _physical_completion_stable_seconds
  pc,        \* where the worker is in the poll
  current,   \* the job it monitors
  settling,  \* _physical_completion_settling: its job and the age of stable_since
  blind,     \* history: a poll was answered UNKNOWN since the settling began
  round,     \* ticks since the poll began
  job,       \* the state of the current job in CUPS
  ended,     \* ticks since it ended
  busy,      \* 0 when the queue is quiet, else 1 + the ticks it has been busy
  quiet,     \* ticks since the queue was busy last
  calm       \* from now on the job is completed, the queue quiet, and CUPS answers

cupsVars == <<job, ended, busy, quiet, calm>>
vars == <<stable, pc, current, settling, blind, round, cupsVars>>

-----------------------------------------------------------------------------

PCs == {"poll", "recheck", "sample", "recheckFinal", "sampleFinal", "pause",
        "open", "failed"}

NoJob == 0
NotSettling == [owner |-> NoJob, age |-> 0]

\* Ages are not told apart beyond stable, nor busy times beyond MinBusy.
Older(n) == IF n < stable THEN n + 1 ELSE n
Busier(n) == IF n = 0 \/ n > MinBusy THEN n ELSE n + 1

\* What get_status may answer: an ended job is at times taken to be still
\* printing, and one that did not print to have completed (module CupsQueries).
Answers ==
  CASE calm                          -> {"COMPLETED"}
    [] ~calm /\ job = "printing"     -> {"UNKNOWN", "PENDING", "PRINTING"}
    [] ~calm /\ job = "completed"    -> {"UNKNOWN", "PRINTING", "COMPLETED"}
    [] ~calm /\ job = "aborted"      -> {"UNKNOWN", "PRINTING", "COMPLETED", "FAILED"}

Init ==
  /\ stable \in Stables
  /\ pc = "poll" /\ current = 1 /\ settling = NotSettling /\ blind = FALSE /\ round = 0
  /\ job = "printing" /\ ended = 0 /\ busy = 0 /\ quiet = stable /\ calm = FALSE

\* _reset_physical_completion_settling: only the settling of this job.
Reset == IF settling.owner = current THEN NotSettling ELSE settling

\* The settling of this job, begun now if there is none.
Settling == IF settling.owner = current THEN settling ELSE [owner |-> current, age |-> 0]

\* The settling of this job has begun and goes on as s.
GoesOn(s) == settling.owner = current /\ s.owner = current

Go(from, to, s) ==
  /\ pc = from /\ pc' = to /\ settling' = s
  /\ blind' = (blind /\ GoesOn(s))
  /\ UNCHANGED <<stable, current, round, cupsVars>>

-----------------------------------------------------------------------------
(* One poll.                                                                 *)

\* An UNKNOWN ends the poll: no sample is taken, yet the settling goes on.
PollUnknown ==
  /\ "UNKNOWN" \in Answers
  /\ pc = "poll" /\ pc' = "pause"
  /\ blind' = GoesOn(settling)
  /\ UNCHANGED <<stable, current, settling, round, cupsVars>>

\* get_status, then _process_printer_poll_status up to the next await.  Only a
\* PRINTING restarts the settling.
Poll ==
  \/ PollUnknown
  \/ "PENDING" \in Answers /\ Go("poll", "pause", settling)
  \/ "PRINTING" \in Answers /\ Go("poll", "pause", Reset)
  \/ "FAILED" \in Answers /\ Go("poll", "failed", settling)
  \/ "COMPLETED" \in Answers /\ Go("poll", "recheck", settling)

\* Anything but a second COMPLETED restarts the settling.
Recheck(from, to) ==
  \/ "COMPLETED" \in Answers /\ Go(from, to, settling)
  \/ Answers \ {"COMPLETED"} # {} /\ Go(from, "pause", Reset)

\* _cups_queue_quiescent: lpstat -p shows the queue idle, or it does not (or
\* lpstat fails), which restarts the settling.
Quiescent == busy = 0
MaySeemBusy == ~calm

\* Mutants: the time starts again with every sample; a tick is missing; a sample
\* that shows the queue busy does not restart the settling.
SampleStartsAnew ==
  \/ Quiescent /\ Go("sample", "pause", [owner |-> current, age |-> 0])
  \/ MaySeemBusy /\ Go("sample", "pause", Reset)
SampleEarly ==
  \/ Quiescent /\ Settling.age < stable - 1 /\ Go("sample", "pause", Settling)
  \/ Quiescent /\ Settling.age >= stable - 1 /\ Go("sample", "recheckFinal", Settling)
  \/ MaySeemBusy /\ Go("sample", "pause", Reset)
SampleForgives ==
  \/ Quiescent /\ Settling.age < stable /\ Go("sample", "pause", Settling)
  \/ Quiescent /\ Settling.age >= stable /\ Go("sample", "recheckFinal", Settling)
  \/ MaySeemBusy /\ Go("sample", "pause", settling)

\* The completion checker, asked last, may refuse and leaves the settling alone.
Sample ==
  \/ MaySeemBusy /\ Go("sample", "pause", Reset)
  \/ /\ Quiescent /\ stable = 0
     /\ \/ Go("sample", "open", NotSettling)
        \/ ~calm /\ Go("sample", "pause", settling)
  \/ /\ Quiescent /\ stable # 0
     /\ \/ Settling.age < stable /\ Go("sample", "pause", Settling)
        \/ Settling.age >= stable /\ Go("sample", "recheckFinal", Settling)

SampleFinal ==
  \/ MaySeemBusy /\ Go("sampleFinal", "pause", Reset)
  \/ Quiescent /\ Go("sampleFinal", "open", NotSettling)
  \/ Quiescent /\ ~calm /\ Go("sampleFinal", "pause", settling)

\* The pause takes a tick at least.
NextPoll ==
  /\ pc = "pause" /\ round > 0
  /\ pc' = "poll" /\ round' = 0
  /\ UNCHANGED <<stable, current, settling, blind, cupsVars>>

\* The worker goes on to another job; the settling of a failed one is left behind.
NextJob ==
  /\ pc \in {"open", "failed"} /\ current < MaxJobs
  /\ pc' = "poll" /\ current' = current + 1 /\ round' = 0
  /\ job' = "printing" /\ ended' = 0 /\ calm' = FALSE /\ blind' = FALSE
  /\ UNCHANGED <<stable, settling, busy, quiet>>

\* The process dies and recovery monitors the job again.
Restart ==
  /\ pc \notin {"open", "failed"} /\ ~calm
  /\ pc' = "poll" /\ settling' = NotSettling /\ blind' = FALSE /\ round' = 0
  /\ UNCHANGED <<stable, current, cupsVars>>

-----------------------------------------------------------------------------
(* CUPS and time.                                                            *)

JobEnds ==
  /\ job = "printing" /\ job' \in {"completed", "aborted"}
  /\ UNCHANGED <<stable, pc, current, settling, blind, round, ended, busy, quiet, calm>>

QueueStarts ==
  /\ busy = 0 /\ ~calm
  /\ busy' = 1 /\ quiet' = 0
  /\ UNCHANGED <<stable, pc, current, settling, blind, round, job, ended, calm>>

QueueStops ==
  /\ busy > MinBusy
  /\ busy' = 0
  /\ UNCHANGED <<stable, pc, current, settling, blind, round, job, ended, quiet, calm>>

BecomesCalm ==
  /\ job = "completed" /\ busy = 0 /\ ~calm
  /\ calm' = TRUE
  /\ UNCHANGED <<stable, pc, current, settling, blind, round, job, ended, busy, quiet>>

Tick ==
  /\ round < MaxRound /\ pc \notin {"open", "failed"}
  /\ round' = round + 1
  /\ settling' = IF settling.owner = NoJob THEN settling
                 ELSE [settling EXCEPT !.age = Older(@)]
  /\ ended' = IF job = "printing" THEN ended ELSE Older(ended)
  /\ busy' = Busier(busy)
  /\ quiet' = IF busy = 0 THEN Older(quiet) ELSE quiet
  /\ UNCHANGED <<stable, pc, current, blind, job, calm>>

GateStep ==
  \/ Poll \/ Recheck("recheck", "sample") \/ Sample
  \/ Recheck("recheckFinal", "sampleFinal") \/ SampleFinal \/ NextPoll

Next ==
  \/ GateStep \/ NextJob \/ Restart
  \/ JobEnds \/ QueueStarts \/ QueueStops \/ BecomesCalm \/ Tick

Spec == Init /\ [][Next]_vars

\* The event loop runs the worker on, and time passes.
FairSpec == Spec /\ WF_vars(GateStep) /\ WF_vars(Tick)

-----------------------------------------------------------------------------
(* Properties.                                                               *)

\* Every variable has its type; a settling that runs is of a job monitored so
\* far, of the current one only after CUPS was done with it, and the last two
\* checks come when it is complete.
TypeOK ==
  /\ stable \in Stables
  /\ pc \in PCs
  /\ current \in 1..MaxJobs
  /\ settling \in [owner : 0..current, age : 0..stable]
  /\ settling.owner = current => job # "printing"
  /\ pc \in {"recheckFinal", "sampleFinal"} =>
       settling.owner = current /\ settling.age >= stable
  /\ blind \in BOOLEAN
  /\ round \in 0..MaxRound
  /\ job \in {"printing", "completed", "aborted"}
  /\ ended \in 0..stable
  /\ busy \in 0..(MinBusy + 1)
  /\ quiet \in 0..stable
  /\ calm \in BOOLEAN

\* The gate opens only on a quiet queue that has been so, not merely at the
\* samples but all the time, for PHYSICAL_COMPLETION_STABLE_SECONDS, in all of
\* which CUPS was done with this very job; only while polls are answered UNKNOWN
\* the queue is not watched.
OpensAfterQuiet ==
  [][pc' = "open" =>
       /\ busy = 0 /\ (blind \/ quiet >= stable)
       /\ job # "printing" /\ ended >= stable]_pc

\* The gate opens only if the queue has been quiet all the time.
OpensOnlyAfterQuiet ==
  [][pc' = "open" => quiet >= stable]_pc

\* Once the job is completed, the queue quiet and CUPS answers, the gate opens.
CalmOpens == (calm /\ pc # "failed") ~> pc = "open"

=============================================================================
