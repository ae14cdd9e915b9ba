---------------------------- MODULE JobLifecycle ----------------------------
(***************************************************************************)
(* What the agent promises about one backend job, whatever the order of    *)
(* downloads, retries, cancels, crashes and recoveries behind it:          *)
(*   - its status only follows the edges of ALLOWED_TRANSITIONS;           *)
(*   - it gets at most one CUPS job, and only while it is READY;           *)
(*   - SUBMITTED, PRINTING and COMPLETED are claimed only of a job CUPS    *)
(*     accepted.                                                           *)
(* JobManager is shown to implement this specification.                    *)
(***************************************************************************)
EXTENDS JobStatus

CONSTANT Jobs

VARIABLES
  status,     \* the status of each job, NoRow before it is received
  accepted    \* whether CUPS ever accepted a print job for it

vars == <<status, accepted>>

Init ==
  /\ status = [j \in Jobs |-> NoRow]
  /\ accepted = [j \in Jobs |-> FALSE]

Receive(j) ==
  /\ status[j] = NoRow
  /\ status' = [status EXCEPT ![j] = "RECEIVED"]
  /\ UNCHANGED accepted

\* The printer takes the job, once, and only from READY.
Accept(j) ==
  /\ status[j] = "READY"
  /\ ~accepted[j]
  /\ accepted' = [accepted EXCEPT ![j] = TRUE]
  /\ UNCHANGED status

\* Statuses that claim something of a CUPS job.
ClaimsPrint == {"SUBMITTED", "PRINTING", "COMPLETED"}

Advance(j, s) ==
  /\ status[j] # NoRow
  /\ s \in ALLOWED_TRANSITIONS[status[j]]
  /\ s \in ClaimsPrint => accepted[j]
  /\ status' = [status EXCEPT ![j] = s]
  /\ UNCHANGED accepted

Next ==
  \E j \in Jobs :
    \/ Receive(j)
    \/ Accept(j)
    \/ \E s \in Statuses : Advance(j, s)

Spec == Init /\ [][Next]_vars

=============================================================================
