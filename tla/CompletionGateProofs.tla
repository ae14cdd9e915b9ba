------------------------ MODULE CompletionGateProofs ------------------------
(***************************************************************************)
(* Why the completion gate keeps its promise, for any settling time and    *)
(* any polling interval: while a settling runs, the queue has either been  *)
(* quiet since it began, or it became busy after the last sample and is    *)
(* still so when the next sample is taken; unless a poll answered UNKNOWN. *)
(***************************************************************************)
EXTENDS CompletionGate, TLAPS

\* The ticks since the queue was last sampled, at most.
SinceSample ==
  round + (IF pc \in {"poll", "recheck", "sample"} THEN MaxRound ELSE 0)

\* The queue has been quiet for as long as the settling runs, or has been busy
\* for less time than there can be between two samples, or was not watched.
QuietOrUnseen ==
  \/ blind
  \/ busy = 0 /\ quiet >= settling.age
  \/ busy > 0 /\ busy - 1 <= SinceSample

\* The inductive invariant.
IInv ==
  /\ TypeOK
  /\ calm => job = "completed"
  /\ blind => settling.owner = current
  /\ pc \in {"recheck", "sample"} => job # "printing"
  /\ pc \notin {"open", "failed"} /\ settling.owner = current
       => ended >= settling.age /\ QuietOrUnseen

LEMMA Initially == Init => IInv
<1> SUFFICES ASSUME Init PROVE IInv
  OBVIOUS
<1> USE GateAssumption
<1>1. settling \in [owner : 0..current, age : 0..stable] /\ settling.owner # current
  BY DEF Init, NotSettling, NoJob
<1>2. current \in 1..MaxJobs /\ busy \in 0..(MinBusy + 1) /\ quiet \in 0..stable
      /\ ended \in 0..stable /\ round \in 0..MaxRound
  BY DEF Init
<1>3. QED
  BY <1>1, <1>2 DEF Init, IInv, TypeOK, PCs

\* A COMPLETED is only answered of a job CUPS is done with.
LEMMA CompletedHasEnded ==
  ASSUME IInv, "COMPLETED" \in Answers
  PROVE  job # "printing"
  BY DEF IInv, TypeOK, Answers

\* The records a step may leave as the settling.
LEMMA SettlingTypes ==
  ASSUME IInv
  PROVE  /\ Reset \in [owner : 0..current, age : 0..stable] /\ Reset.owner # current
         /\ Settling \in [owner : 0..current, age : 0..stable] /\ Settling.owner = current
         /\ NotSettling \in [owner : 0..current, age : 0..stable] /\ NotSettling.owner # current
         /\ Settling = settling \/ Settling.age = 0
  BY GateAssumption DEF IInv, TypeOK, Reset, Settling, NotSettling, NoJob

\* The gate's own steps.
LEMMA GateStepKeeps ==
  ASSUME IInv, GateStep
  PROVE  IInv'
<1> USE GateAssumption
<1>1. CASE Poll
  <2>1. CASE PollUnknown
    BY <2>1, SettlingTypes DEF PollUnknown, GoesOn, IInv, TypeOK, PCs, cupsVars, QuietOrUnseen, SinceSample
  <2>2. CASE "PENDING" \in Answers /\ Go("poll", "pause", settling)
    <3>1. settling.owner # current
      BY <2>2 DEF Answers, IInv, TypeOK
    <3>2. ~blind'
      BY <2>2, <3>1 DEF Go, GoesOn
    <3>3. blind' \in BOOLEAN
      BY <3>2, <2>2 DEF Go, GoesOn
    <3>4. pc = "poll" /\ pc' = "pause" /\ UNCHANGED <<stable, current, settling, round, cupsVars>>
      BY <2>2 DEF Go
    <3>5. TypeOK'
      BY <3>3, <3>4 DEF IInv, TypeOK, PCs, cupsVars
    <3>6. QED
      BY <3>1, <3>2, <3>4, <3>5 DEF IInv, cupsVars
  <2>3. CASE Go("poll", "pause", Reset)
    BY <2>3, SettlingTypes DEF GoesOn, Go, IInv, TypeOK, PCs, cupsVars, QuietOrUnseen, SinceSample
  <2>4. CASE Go("poll", "failed", settling)
    BY <2>4, SettlingTypes DEF GoesOn, Go, IInv, TypeOK, PCs, cupsVars, QuietOrUnseen, SinceSample
  <2>5. CASE "COMPLETED" \in Answers /\ Go("poll", "recheck", settling)
    BY <2>5, SettlingTypes, CompletedHasEnded DEF GoesOn, Go, IInv, TypeOK, PCs, cupsVars, QuietOrUnseen, SinceSample
  <2>6. QED
    BY <1>1, <2>1, <2>2, <2>3, <2>4, <2>5 DEF Poll
<1>2. CASE Recheck("recheck", "sample")
  <2>1. CASE "COMPLETED" \in Answers /\ Go("recheck", "sample", settling)
    BY <2>1, SettlingTypes, CompletedHasEnded DEF GoesOn, Go, IInv, TypeOK, PCs, cupsVars, QuietOrUnseen, SinceSample
  <2>2. CASE Go("recheck", "pause", Reset)
    BY <2>2, SettlingTypes DEF GoesOn, Go, IInv, TypeOK, PCs, cupsVars, QuietOrUnseen, SinceSample
  <2>3. QED
    BY <1>2, <2>1, <2>2 DEF Recheck
<1>3. CASE Sample
  <2>1. CASE MaySeemBusy /\ Go("sample", "pause", Reset)
    BY <2>1, SettlingTypes DEF Go, GoesOn, IInv, TypeOK, PCs, cupsVars, QuietOrUnseen, SinceSample
  <2>2. CASE Quiescent /\ stable = 0 /\ Go("sample", "open", NotSettling)
    BY <2>2, SettlingTypes DEF Go, GoesOn, IInv, TypeOK, PCs, cupsVars
  <2>3. CASE Quiescent /\ stable = 0 /\ Go("sample", "pause", settling)
    BY <2>3, SettlingTypes
       DEF Go, GoesOn, IInv, TypeOK, PCs, cupsVars, Quiescent, QuietOrUnseen, SinceSample
  <2>4. CASE Quiescent /\ Go("sample", "pause", Settling)
    BY <2>4, SettlingTypes
       DEF Go, GoesOn, IInv, TypeOK, PCs, cupsVars, Quiescent, QuietOrUnseen, SinceSample
  <2>5. CASE Quiescent /\ Settling.age >= stable /\ Go("sample", "recheckFinal", Settling)
    BY <2>5, SettlingTypes
       DEF Go, GoesOn, IInv, TypeOK, PCs, cupsVars, Quiescent, QuietOrUnseen, SinceSample
  <2>6. QED
    BY <1>3, <2>1, <2>2, <2>3, <2>4, <2>5 DEF Sample
<1>4. CASE Recheck("recheckFinal", "sampleFinal")
  <2>1. CASE Go("recheckFinal", "sampleFinal", settling)
    BY <2>1, SettlingTypes DEF GoesOn, Go, IInv, TypeOK, PCs, cupsVars, QuietOrUnseen, SinceSample
  <2>2. CASE Go("recheckFinal", "pause", Reset)
    BY <2>2, SettlingTypes DEF GoesOn, Go, IInv, TypeOK, PCs, cupsVars, QuietOrUnseen, SinceSample
  <2>3. QED
    BY <1>4, <2>1, <2>2 DEF Recheck
<1>5. CASE SampleFinal
  <2>1. CASE Go("sampleFinal", "pause", Reset)
    BY <2>1, SettlingTypes DEF GoesOn, Go, IInv, TypeOK, PCs, cupsVars, QuietOrUnseen, SinceSample
  <2>2. CASE Go("sampleFinal", "open", NotSettling)
    BY <2>2, SettlingTypes DEF GoesOn, Go, IInv, TypeOK, PCs, cupsVars, QuietOrUnseen, SinceSample
  <2>3. CASE Quiescent /\ Go("sampleFinal", "pause", settling)
    BY <2>3, SettlingTypes DEF Quiescent, GoesOn, Go, IInv, TypeOK, PCs, cupsVars, QuietOrUnseen, SinceSample
  <2>4. QED
    BY <1>5, <2>1, <2>2, <2>3 DEF SampleFinal
<1>6. CASE NextPoll
  BY <1>6 DEF NextPoll, IInv, TypeOK, PCs, cupsVars, QuietOrUnseen, SinceSample
<1>7. QED
  BY <1>1, <1>2, <1>3, <1>4, <1>5, <1>6 DEF GateStep

\* The queue cannot have been busy and quiet again between two samples.
LEMMA NoUnseenStop ==
  ASSUME IInv, QueueStops
  PROVE  IInv'
  BY GateAssumption
     DEF IInv, TypeOK, QueueStops, QuietOrUnseen, SinceSample

\* Time: what has to grow together does.
LEMMA TickKeeps ==
  ASSUME IInv, Tick
  PROVE  IInv'
<1> USE GateAssumption
<1>1. settling' \in [owner : 0..current, age : 0..stable] /\ settling'.owner = settling.owner
      /\ settling'.age \in {settling.age, Older(settling.age)} /\ settling'.age >= settling.age
  BY DEF IInv, TypeOK, Tick, Older
<1>2. TypeOK'
  BY <1>1 DEF IInv, TypeOK, Tick, Older, Busier
<1>3. ASSUME settling.owner = current PROVE ended' >= settling'.age /\ QuietOrUnseen'
  BY <1>1, <1>3 DEF IInv, TypeOK, Tick, Older, Busier, QuietOrUnseen, SinceSample
<1>4. QED
  BY <1>1, <1>2, <1>3 DEF IInv, Tick

LEMMA StepKeeps ==
  ASSUME IInv, [Next]_vars
  PROVE  IInv'
<1> USE GateAssumption
<1>1. CASE GateStep
  BY <1>1, GateStepKeeps
<1>2. CASE NextJob
  <2>1. settling \in [owner : 0..current, age : 0..stable] /\ settling.owner # current + 1
    BY DEF IInv, TypeOK
  <2>2. current' = current + 1 /\ current' \in 1..MaxJobs /\ 0..current \subseteq 0..current'
    BY <1>2 DEF NextJob, IInv, TypeOK
  <2>3. settling' \in [owner : 0..current', age : 0..stable] /\ settling'.owner # current'
    <3>1. settling' = settling
      BY <1>2 DEF NextJob
    <3>2. QED
      BY <2>1, <2>2, <3>1
  <2>4. TypeOK'
    <3>1. pc' = "poll" /\ round' = 0 /\ job' = "printing" /\ ended' = 0 /\ calm' = FALSE
          /\ busy' = busy /\ quiet' = quiet /\ blind' = FALSE /\ stable' = stable
      BY <1>2 DEF NextJob
    <3>2. busy \in 0..(MinBusy + 1) /\ quiet \in 0..stable
      BY DEF IInv, TypeOK
    <3>3. 0 \in 0..MaxRound /\ 0 \in 0..stable /\ stable \in Stables
      BY DEF IInv, TypeOK
    <3>4. blind' \in BOOLEAN
      BY <3>1
    <3>5. QED
      BY <2>2, <2>3, <3>1, <3>2, <3>3, <3>4 DEF TypeOK, PCs
  <2>5. QED
    BY <1>2, <2>3, <2>4 DEF NextJob, IInv
<1>3. CASE Restart
  <2>1. pc' = "poll" /\ settling' = NotSettling /\ blind' = FALSE /\ round' = 0
        /\ UNCHANGED <<stable, current, cupsVars>>
    BY <1>3 DEF Restart
  <2>2. 0 \in 0..MaxRound
    OBVIOUS
  <2>2a. blind' \in BOOLEAN
    BY <2>1
  <2>3. TypeOK'
    BY <2>1, <2>2, <2>2a, SettlingTypes DEF IInv, TypeOK, PCs, cupsVars
  <2>4. QED
    BY <2>1, <2>3, SettlingTypes DEF IInv, cupsVars
<1>4. CASE JobEnds
  BY <1>4 DEF JobEnds, IInv, TypeOK, QuietOrUnseen, SinceSample
<1>5. CASE QueueStarts \/ BecomesCalm
  <2>1. CASE QueueStarts
    <3>1. SinceSample >= 0 /\ SinceSample' = SinceSample
      BY <2>1 DEF QueueStarts, IInv, TypeOK, SinceSample
    <3>2. QuietOrUnseen'
      BY <2>1, <3>1 DEF QueueStarts, QuietOrUnseen
    <3>3. QED
      BY <2>1, <3>2 DEF QueueStarts, IInv, TypeOK
  <2>2. CASE BecomesCalm
    BY <2>2 DEF BecomesCalm, IInv, TypeOK, QuietOrUnseen, SinceSample
  <2>3. QED
    BY <1>5, <2>1, <2>2
<1>6. CASE QueueStops
  BY <1>6, NoUnseenStop
<1>7. CASE Tick
  BY <1>7, TickKeeps
<1>8. CASE UNCHANGED vars
  BY <1>8 DEF vars, cupsVars, IInv, TypeOK, QuietOrUnseen, SinceSample
<1>9. QED
  BY <1>1, <1>2, <1>3, <1>4, <1>5, <1>6, <1>7, <1>8 DEF Next

\* The gate opens from a sample that shows the queue quiet.
LEMMA OpeningStep ==
  ASSUME IInv, Next, pc' # pc, pc' = "open"
  PROVE  /\ busy = 0 /\ (blind \/ quiet >= stable)
         /\ job # "printing" /\ ended >= stable
<1> USE GateAssumption
<1>1. CASE Go("sample", "open", NotSettling) /\ Quiescent /\ stable = 0
  BY <1>1 DEF IInv, TypeOK, Go, Quiescent
<1>2. CASE Go("sampleFinal", "open", NotSettling) /\ Quiescent
  BY <1>2 DEF IInv, TypeOK, Go, Quiescent, QuietOrUnseen
<1>3. QED
  BY <1>1, <1>2
     DEF Next, GateStep, Poll, PollUnknown, Recheck, Sample, SampleFinal, NextPoll, Go, NextJob,
         Restart, JobEnds, QueueStarts, QueueStops, BecomesCalm, Tick

\* Every variable has its type, and a settling that runs is of a job monitored so
\* far that CUPS was done with.
THEOREM TypeCorrect == Spec => []TypeOK
<1>1. Init => IInv
  BY Initially
<1>2. IInv /\ [Next]_vars => IInv'
  BY StepKeeps
<1>3. IInv => TypeOK
  BY DEF IInv
<1>4. QED
  BY <1>1, <1>2, <1>3, PTL DEF Spec

\* The gate opens only after continuous quiet of the settling time, in all of
\* which CUPS was done with this very job: for every settling time, if no busy spell
\* fits between two samples, and as long as no poll answers UNKNOWN.
THEOREM GateHolds == Spec => OpensAfterQuiet
<1>1. Init => IInv
  BY Initially
<1>2. IInv /\ [Next]_vars => IInv'
  BY StepKeeps
<1>3. IInv /\ [Next]_vars =>
        [pc' = "open" =>
           /\ busy = 0 /\ (blind \/ quiet >= stable)
           /\ job # "printing" /\ ended >= stable]_pc
  BY OpeningStep DEF vars
<1>4. QED
  BY <1>1, <1>2, <1>3, PTL DEF Spec, OpensAfterQuiet

=============================================================================
