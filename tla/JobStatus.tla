----------------------------- MODULE JobStatus -----------------------------
(***************************************************************************)
(* The job state machine of app/models.py: the statuses a row of the jobs  *)
(* table can hold and the transitions Database.update_status lets through. *)
(***************************************************************************)

\* A backend job that has no row yet (get_by_backend_id returns None).
NoRow == "NO_ROW"

Statuses ==
  {"RECEIVED", "DOWNLOADING", "READY", "SUBMITTED", "PRINTING",
   "COMPLETED", "FAILED", "CANCELLED", "RETRY_WAITING"}

TERMINAL_STATUSES == {"COMPLETED", "FAILED", "CANCELLED"}

\* The statuses list_non_terminal_jobs selects.
NonTerminal == Statuses \ TERMINAL_STATUSES

TransitionTable ==
  [RECEIVED      |-> {"DOWNLOADING", "FAILED", "CANCELLED"},
   DOWNLOADING   |-> {"READY", "FAILED", "RETRY_WAITING", "CANCELLED"},
   READY         |-> {"SUBMITTED", "FAILED"},
   SUBMITTED     |-> {"PRINTING", "COMPLETED", "FAILED", "CANCELLED"},
   PRINTING      |-> {"COMPLETED", "FAILED", "CANCELLED"},
   RETRY_WAITING |-> {"DOWNLOADING", "FAILED", "CANCELLED"},
   COMPLETED     |-> {},
   FAILED        |-> {},
   CANCELLED     |-> {}]

\* Mutants: a cancel allowed from READY; READY that cannot fail.
ReadyCancellable == [TransitionTable EXCEPT !["READY"] = @ \cup {"CANCELLED"}]
ReadyCannotFail  == [TransitionTable EXCEPT !["READY"] = @ \ {"FAILED"}]

ALLOWED_TRANSITIONS == TransitionTable

\* Mutant: assert_transition looks at nothing but the presence of the row.
AnyTransition(current, new) == current # NoRow /\ new \in Statuses

\* assert_transition(current, new) returns: rewriting the same status is
\* allowed, any other pair must be listed; otherwise it raises
\* InvalidTransitionError.  A missing row makes update_status raise as well.
TransitionOK(current, new) ==
  /\ current # NoRow
  /\ current = new \/ new \in ALLOWED_TRANSITIONS[current]

=============================================================================
