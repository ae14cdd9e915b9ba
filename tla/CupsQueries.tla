---------------------------- MODULE CupsQueries ----------------------------
(***************************************************************************)
(* The two questions CupsPrinter asks CUPS (app/cups.py): get_status of    *)
(* one job and find_existing_job of one backend job.  Each is a series of  *)
(* lpstat commands, and CUPS moves on between any two of them.  The worker *)
(* asks one question at a time.                                            *)
(***************************************************************************)
EXTENDS Naturals

CONSTANTS
  CupsJobs,      \* the jobs on the queue
  Polled,        \* the job get_status is asked about
  Titled         \* the jobs that carry the title looked for

ASSUME CupsAssumption ==
  /\ Polled \in CupsJobs
  /\ Titled \subseteq CupsJobs

VARIABLES
  job,       \* the state of each job in CUPS
  poll,      \* where get_status is, and its answer
  line,      \* the state the listing line it holds was printed in
  during,    \* history: the states of Polled since get_status was called
  look,      \* where find_existing_job is, and its answer
  unread,    \* the listed jobs whose details are still to be read
  matches,   \* the titled jobs found so far
  failed,    \* how many of the two listings failed
  before,    \* history: the titled jobs when find_existing_job was called
  trouble    \* history: since the call a command exited non-zero for a job or
             \* queue that is there, or CUPS dropped a job from its history

pollVars == <<poll, line, during>>
lookVars == <<look, unread, matches, failed, before>>
vars == <<job, pollVars, lookVars, trouble>>

-----------------------------------------------------------------------------

Active == {"pending", "printing"}
Ended  == {"completed", "canceled", "aborted"}
States == Active \cup Ended \cup {"none", "purged"}

PollAnswers == {"PENDING", "PRINTING", "COMPLETED", "CANCELLED", "FAILED", "UNKNOWN"}
PollPlaces  == {"idle", "active", "activeDetail", "completed", "stillActive",
                "bothDetail", "endedDetail"}
LookAnswers == {"FOUND", "NOT_FOUND", "AMBIGUOUS", "LOOKUP_FAILED", "RAISED"}
LookPlaces  == {"idle", "active", "activeDetails", "completed", "completedDetails"}

\* job-state as parse_lpstat_long_job maps it.
Reading(s) ==
  CASE s = "pending"   -> "PENDING"
    [] s = "printing"  -> "PRINTING"
    [] s = "completed" -> "COMPLETED"
    [] s = "canceled"  -> "CANCELLED"
    [] s = "aborted"   -> "FAILED"
    [] OTHER           -> "UNKNOWN"

ActiveList == {i \in CupsJobs : job[i] \in Active}
EndedList  == {i \in CupsJobs : job[i] \in Ended}
InCups(i)  == job[i] \in Active \cup Ended

\* What lpstat -l -o <id> may come back with: the state now, NONE when it exits
\* non-zero or shows no state, UNKNOWN when it is killed at the timeout.
Details(i) ==
  {"UNKNOWN", "NONE"} \cup {r \in {Reading(job[i])} : InCups(i)}

Init ==
  /\ job = [i \in CupsJobs |-> "none"]
  /\ poll = "idle" /\ line = "none" /\ during = {}
  /\ look = "idle" /\ unread = {} /\ matches = {} /\ failed = 0 /\ before = {}
  /\ trouble = FALSE

-----------------------------------------------------------------------------
(* get_status.                                                               *)

\* No question is being asked.
Unasked == poll \in {"idle"} \cup PollAnswers /\ look \in {"idle"} \cup LookAnswers

\* Only ids that lp returned are asked for.
AskStatus ==
  /\ Unasked /\ job[Polled] # "none"
  /\ poll' = "active" /\ line' = "none" /\ during' = {job[Polled]}
  /\ look' = "idle" /\ unread' = {} /\ matches' = {} /\ failed' = 0 /\ before' = {}
  /\ trouble' = FALSE
  /\ UNCHANGED job

\* get_status answers, or goes on within the call; fault: a command has failed.
PollStep(place, next, fault) ==
  /\ poll = place
  /\ poll' \in next
  /\ trouble' = (trouble \/ fault)
  /\ UNCHANGED <<job, during, lookVars>>

\* lpstat -o: the job is on the active queue or it is looked for among the ended.
ListActive ==
  \/ PollStep("active", {"UNKNOWN"}, FALSE) /\ UNCHANGED line         \* timeout
  \/ PollStep("active", {"completed"}, TRUE) /\ UNCHANGED line        \* non-zero
  \/ /\ PollStep("active", {IF Polled \in ActiveList THEN "activeDetail" ELSE "completed"}, FALSE)
     /\ line' = job[Polled]

\* No state although the job is there.
DetailLost(d) == d = "NONE" /\ InCups(Polled)

\* Without a state in the details the listing line decides, if it says anything.
ActiveDetail ==
  /\ \E d \in Details(Polled) :
       PollStep("activeDetail",
                IF d \in {"NONE", "UNKNOWN"} THEN {Reading(line), "UNKNOWN"} ELSE {d},
                DetailLost(d))
  /\ UNCHANGED line

\* Mutant: a job on neither listing has completed.
ListCompletedByAbsence ==
  /\ PollStep("completed",
              {IF Polled \in EndedList THEN "stillActive" ELSE "COMPLETED", "UNKNOWN"}, FALSE)
  /\ UNCHANGED line

\* UNKNOWN on a timeout, a non-zero exit, or if the job is on neither listing.
ListCompleted ==
  /\ \/ PollStep("completed", {"UNKNOWN"}, FALSE)
     \/ Polled \in EndedList /\ PollStep("completed", {"stillActive"}, FALSE)
  /\ UNCHANGED line

\* _job_still_on_active_queue: a listing that failed counts as still active.
StillActive ==
  /\ \/ PollStep("stillActive", {"bothDetail"}, FALSE)
     \/ Polled \notin ActiveList /\ PollStep("stillActive", {"endedDetail"}, FALSE)
  /\ UNCHANGED line

\* On both queues: printing, unless the details still say pending.
BothDetail ==
  /\ \E d \in Details(Polled) :
       PollStep("bothDetail", {IF d = "PENDING" THEN d ELSE "PRINTING"}, DetailLost(d))
  /\ UNCHANGED line

\* Mutant: a job on the completed queue has completed, details or not.
EndedDetailIgnored ==
  PollStep("endedDetail", {"COMPLETED"}, FALSE) /\ UNCHANGED line

\* A job on the completed queue without details counts as completed.
EndedDetail ==
  /\ \E d \in Details(Polled) :
       PollStep("endedDetail", {IF d = "NONE" THEN "COMPLETED" ELSE d}, DetailLost(d))
  /\ UNCHANGED line

-----------------------------------------------------------------------------
(* find_existing_job.                                                        *)

AskExisting ==
  /\ Unasked
  /\ look' = "active"
  /\ unread' = {} /\ matches' = {} /\ failed' = 0
  /\ before' = {i \in Titled : InCups(i)}
  /\ poll' = "idle" /\ line' = "none" /\ during' = {}
  /\ trouble' = FALSE
  /\ UNCHANGED job

\* One listing: a timeout is LOOKUP_FAILED at once, a non-zero exit is counted.
Listing(place, ids, details) ==
  /\ look = place
  /\ \/ look' = "LOOKUP_FAILED" /\ UNCHANGED <<unread, failed, trouble>>
     \/ look' = details /\ unread' = ids /\ UNCHANGED <<failed, trouble>>
     \/ look' = details /\ failed' = failed + 1 /\ trouble' = TRUE /\ UNCHANGED unread
  /\ UNCHANGED <<job, pollVars, matches, before>>

\* Mutant: both listings ask for the completed jobs.
LookActiveWrongList == Listing("active", EndedList, "activeDetails")

LookActive    == Listing("active", ActiveList, "activeDetails")
LookCompleted == Listing("completed", EndedList, "completedDetails")

\* Mutant: the title in the details is not compared.
LookDetailAnyTitle ==
  /\ look \in {"activeDetails", "completedDetails"}
  /\ \E i \in unread : unread' = unread \ {i} /\ matches' = matches \cup {i}
  /\ UNCHANGED <<job, pollVars, look, failed, before, trouble>>

\* The details of one listed job, whose timeout is not caught.
LookDetail ==
  /\ look \in {"activeDetails", "completedDetails"}
  /\ \E i \in unread :
       \/ look' = "RAISED" /\ UNCHANGED <<unread, matches, trouble>>
       \/ /\ unread' = unread \ {i}
          /\ \/ InCups(i) /\ matches' = matches \cup ({i} \cap Titled) /\ UNCHANGED trouble
             \/ trouble' = (trouble \/ InCups(i)) /\ UNCHANGED matches
          /\ UNCHANGED look
  /\ UNCHANGED <<job, pollVars, failed, before>>

LookVerdict ==
  IF failed = 2 THEN "LOOKUP_FAILED"
  ELSE IF matches = {} THEN "NOT_FOUND"
  ELSE IF \E i \in matches : matches = {i} THEN "FOUND" ELSE "AMBIGUOUS"

LookNext ==
  /\ unread = {}
  /\ \/ look = "activeDetails" /\ look' = "completed"
     \/ look = "completedDetails" /\ look' = LookVerdict
  /\ UNCHANGED <<job, pollVars, unread, matches, failed, before, trouble>>

-----------------------------------------------------------------------------
(* CUPS: jobs arrive, print and end; history may be dropped.                  *)

CupsMoves(i, from, to, fault) ==
  /\ job[i] \in from
  /\ trouble' = (trouble \/ fault)
  /\ job' = [job EXCEPT ![i] = to]
  /\ during' = IF i = Polled THEN during \cup {to} ELSE during
  /\ UNCHANGED <<poll, line, lookVars>>

CupsStep(i) ==
  \/ CupsMoves(i, {"none"}, "pending", FALSE)
  \/ CupsMoves(i, {"pending"}, "printing", FALSE)
  \/ CupsMoves(i, {"printing"}, "completed", FALSE)
  \/ CupsMoves(i, Active, "canceled", FALSE)
  \/ CupsMoves(i, Active, "aborted", FALSE)
  \/ CupsMoves(i, Ended, "purged", TRUE)

StatusStep ==
  \/ AskStatus \/ ListActive \/ ActiveDetail \/ ListCompleted
  \/ StillActive \/ BothDetail \/ EndedDetail

LookupStep ==
  AskExisting \/ LookActive \/ LookCompleted \/ LookDetail \/ LookNext

Next == StatusStep \/ LookupStep \/ \E i \in CupsJobs : CupsStep(i)

Spec == Init /\ [][Next]_vars

-----------------------------------------------------------------------------
(* Properties.                                                               *)

TypeOK ==
  /\ job \in [CupsJobs -> States]
  /\ poll \in PollPlaces \cup PollAnswers
  /\ line \in States
  /\ during \subseteq States
  /\ look \in LookPlaces \cup LookAnswers
  /\ unread \subseteq CupsJobs
  /\ matches \subseteq Titled
  /\ failed \in 0..2
  /\ before \subseteq Titled
  /\ trouble \in BOOLEAN

\* A final answer of get_status is true, if no command failed and no history was
\* dropped: the job had ended that way during the call.  A PENDING or PRINTING
\* may be outdated, never a state that ends a job.
FinalAnswerIsTrue ==
  ~trouble /\ poll \in {"COMPLETED", "CANCELLED", "FAILED"} =>
    \E s \in during \cap Ended : Reading(s) = poll

\* Even if lpstat commands fail and CUPS drops its history, a final answer is only
\* given of a job that had ended: a job that still prints is never given up.
FinalAnswerMeansEnd ==
  poll \in {"COMPLETED", "CANCELLED", "FAILED"} => during \cap Ended # {}

\* NOT_FOUND is said only when no titled job was in CUPS at the time of the call,
\* FOUND of the only one, if no command failed and no history was dropped: a job
\* that ends between the two listings is not missed.
LookupMissesNothing ==
  ~trouble =>
    /\ look = "NOT_FOUND" => before = {}
    /\ look = "FOUND" => before \subseteq matches /\ \E i \in matches : matches = {i}

=============================================================================
