------------------------- MODULE CupsQueriesProofs -------------------------
(* Theorems about CupsQueries, for every queue and every set of titles. *)
EXTENDS CupsQueries, TLAPS

-----------------------------------------------------------------------------
(* Types.                                                                    *)

\* What the details of a job can read as is an answer, or NONE.
LEMMA DetailsType ==
  ASSUME NEW i \in CupsJobs
  PROVE  Details(i) \subseteq PollAnswers \cup {"NONE"}
BY DEF Details, Reading, PollAnswers

\* No listing and no detail puts a variable out of its type; at most the two
\* listings are counted as failed.
IndType ==
  /\ TypeOK
  /\ look = "active" => failed = 0
  /\ look \in {"activeDetails", "completed"} => failed \in 0..1

\* The typing invariant is inductive.
LEMMA IndTypeStep ==
  ASSUME IndType, [Next]_vars
  PROVE  IndType'
<1> USE DEF IndType, TypeOK, PollPlaces, LookPlaces, LookAnswers
<1>0. Polled \in CupsJobs /\ Titled \subseteq CupsJobs
  BY CupsAssumption
<1>0a. CASE AskStatus
  <2>1. job' = job /\ job[Polled] \in States
    BY <1>0, <1>0a DEF AskStatus
  <2>2. poll' = "active" /\ line' = "none" /\ during' \subseteq States
    BY <1>0a, <2>1 DEF AskStatus
  <2>3. look' = "idle" /\ unread' = {} /\ matches' = {} /\ failed' = 0 /\ before' = {}
        /\ trouble' \in BOOLEAN
    BY <1>0a DEF AskStatus
  <2>4. "none" \in States
    BY DEF States
  <2>5. QED
    BY <2>1, <2>2, <2>3, <2>4
<1>1. CASE StatusStep /\ ~AskStatus
  <2>1. /\ UNCHANGED lookVars /\ UNCHANGED job
        /\ poll' \in PollPlaces \cup PollAnswers
    BY <1>0, <1>1, DetailsType
       DEF StatusStep, ListActive, ActiveDetail, ListCompleted, StillActive,
           BothDetail, EndedDetail, PollStep, Reading, PollAnswers
  <2>2. line' \in States /\ during' \subseteq States
    BY <1>0, <1>1
       DEF StatusStep, ListActive, ActiveDetail, ListCompleted, StillActive,
           BothDetail, EndedDetail, PollStep, States
  <2>3. trouble' \in BOOLEAN
    BY <1>1
       DEF StatusStep, ListActive, ActiveDetail, ListCompleted, StillActive,
           BothDetail, EndedDetail, PollStep
  <2>4. QED
    BY <2>1, <2>2, <2>3 DEF lookVars
<1>2. CASE AskExisting
  <2>1. /\ job' = job /\ poll' = "idle" /\ line' = "none" /\ during' = {}
        /\ look' = "active" /\ unread' = {} /\ matches' = {} /\ failed' = 0 /\ trouble' \in BOOLEAN
    BY <1>2 DEF AskExisting
  <2>2. before' \subseteq Titled
    BY <1>2 DEF AskExisting
  <2>3. "none" \in States
    BY DEF States
  <2>4. QED
    BY <2>1, <2>2, <2>3
<1>3. CASE LookActive \/ LookCompleted
  <2>1. ActiveList \subseteq CupsJobs /\ EndedList \subseteq CupsJobs
    BY DEF ActiveList, EndedList
  <2>2. UNCHANGED <<job, pollVars, matches, before>> /\ trouble' \in BOOLEAN
    BY <1>3 DEF LookActive, LookCompleted, Listing
  <2>3. unread' \subseteq CupsJobs
    BY <1>3, <2>1 DEF LookActive, LookCompleted, Listing
  <2>4. \/ look' = "LOOKUP_FAILED" /\ failed' = failed
        \/ look = "active" /\ look' = "activeDetails" /\ failed' \in {failed, failed + 1}
        \/ look = "completed" /\ look' = "completedDetails" /\ failed' \in {failed, failed + 1}
    BY <1>3 DEF LookActive, LookCompleted, Listing
  <2>5. QED
    BY <2>2, <2>3, <2>4 DEF pollVars
<1>4. CASE LookDetail
  BY <1>4 DEF LookDetail, pollVars
<1>5. CASE LookNext
  BY <1>5 DEF LookNext, LookVerdict, pollVars
<1>6. ASSUME NEW i \in CupsJobs, CupsStep(i) PROVE IndType'
  <2>1. ASSUME NEW from, NEW to \in States, NEW fault \in BOOLEAN, CupsMoves(i, from, to, fault)
        PROVE  IndType'
    BY <2>1 DEF CupsMoves, lookVars
  <2>2. {"pending", "printing", "completed", "canceled", "aborted", "purged"} \subseteq States
    BY DEF States, Active, Ended
  <2>3. QED
    BY <1>6, <2>1, <2>2 DEF CupsStep
<1>7. CASE UNCHANGED vars
  BY <1>7 DEF vars, pollVars, lookVars
<1>8. QED
  BY <1>0a, <1>1, <1>2, <1>3, <1>4, <1>5, <1>6, <1>7 DEF Next, LookupStep

\* Every variable has its type, whatever the queue does.
THEOREM TypeCorrect == Spec => []TypeOK
<1>1. Init => IndType
  <2> SUFFICES ASSUME Init PROVE IndType
    OBVIOUS
  <2>1. "none" \in States /\ job \in [CupsJobs -> States]
    BY DEF Init, States
  <2>2. poll \in PollPlaces /\ look \in LookPlaces /\ look = "idle" /\ trouble \in BOOLEAN
    BY DEF Init, PollPlaces, LookPlaces
  <2>3. QED
    BY <2>1, <2>2 DEF Init, IndType, TypeOK
<1>2. IndType => TypeOK
  BY DEF IndType
<1>3. QED
  BY <1>1, <1>2, IndTypeStep, PTL DEF Spec

-----------------------------------------------------------------------------
(* get_status.                                                               *)

\* What get_status knows of the job at each of its commands.
StatusKnown ==
  /\ poll # "idle" => job[Polled] \in during \/ poll \in PollAnswers
  /\ poll = "activeDetail" => line \in Active
  /\ poll \in {"stillActive", "endedDetail"} => job[Polled] \in Ended \/ trouble

\* If no command failed and no history was dropped, what get_status finally
\* answers about a job was its state at some moment of the call.
THEOREM FinalAnswersAreTrue == Spec => []FinalAnswerIsTrue
<1> DEFINE Inv == StatusKnown /\ FinalAnswerIsTrue
<1> USE DEF Inv, StatusKnown, FinalAnswerIsTrue
<1>0. Polled \in CupsJobs
  BY CupsAssumption
<1>1. Init => Inv
  BY DEF Init
<1>2. ASSUME TypeOK, Inv, [Next]_vars PROVE Inv'
  <2> USE <1>0, <1>2
  <2>1. CASE AskStatus
    BY <2>1 DEF AskStatus
  <2>2. CASE ListActive
    BY <2>2 DEF ListActive, PollStep, ActiveList, PollAnswers
  <2>3. CASE ActiveDetail
    <3>1. PICK d \in Details(Polled) :
            PollStep("activeDetail",
                     IF d \in {"NONE", "UNKNOWN"} THEN {Reading(line), "UNKNOWN"} ELSE {d},
                     DetailLost(d))
      BY <2>3 DEF ActiveDetail
    <3>2. d \in {"NONE", "UNKNOWN"} \/ d = Reading(job[Polled])
      BY <3>1 DEF Details
    <3>3. Reading(line) \in {"PENDING", "PRINTING"}
      BY <3>1 DEF PollStep, Reading, Active
    <3>4. job[Polled] \in during /\ UNCHANGED <<job, during>>
      BY <3>1 DEF PollStep, PollAnswers
    <3>5. Reading(job[Polled]) \in {"COMPLETED", "CANCELLED", "FAILED"} => job[Polled] \in Ended
      BY DEF Reading, Ended
    <3>6. Reading(job[Polled]) \in PollAnswers
      BY DEF Reading, PollAnswers
    <3>7. QED
      BY <3>1, <3>2, <3>3, <3>4, <3>5, <3>6 DEF PollStep, PollAnswers
  <2>4. CASE ListCompleted
    BY <2>4 DEF ListCompleted, PollStep, EndedList, PollAnswers
  <2>5. CASE StillActive
    BY <2>5 DEF StillActive, PollStep, ActiveList, PollAnswers, Active, Ended
  <2>6. CASE BothDetail
    BY <2>6 DEF BothDetail, PollStep, PollAnswers
  <2>7. CASE EndedDetail
    <3>1. PICK d \in Details(Polled) :
            PollStep("endedDetail", {IF d = "NONE" THEN "COMPLETED" ELSE d}, DetailLost(d))
      BY <2>7 DEF EndedDetail
    <3>2. /\ job[Polled] \in Ended \/ trouble
          /\ job[Polled] \in during /\ UNCHANGED <<job, during>>
      BY <3>1 DEF PollStep, PollAnswers
    <3>3. d = "UNKNOWN" \/ d = Reading(job[Polled]) \/ trouble'
      BY <3>1, <3>2 DEF PollStep, DetailLost, Details, InCups
    <3>4. trouble' \/ job[Polled] \in Ended
      BY <3>1, <3>2 DEF PollStep
    <3>5. poll' = IF d = "NONE" THEN "COMPLETED" ELSE d
      BY <3>1 DEF PollStep
    <3>6. d = "UNKNOWN" \/ (d # "NONE" /\ d = Reading(job[Polled])) \/ trouble'
      BY <3>3 DEF Reading
    <3>7. poll' \in PollAnswers
      BY <3>5, DetailsType DEF PollAnswers
    <3>8. StatusKnown'
      BY <3>2, <3>7 DEF PollAnswers
    <3>9. FinalAnswerIsTrue'
      BY <3>2, <3>4, <3>5, <3>6
    <3>10. QED
      BY <3>8, <3>9
  <2>8. CASE LookupStep
    BY <2>8 DEF TypeOK, LookupStep, AskExisting, LookActive, LookCompleted, Listing, LookDetail,
                LookNext, pollVars
  <2>9. ASSUME NEW i \in CupsJobs, CupsStep(i) PROVE Inv'
    <3>1. ASSUME NEW from, NEW to, NEW fault \in BOOLEAN, CupsMoves(i, from, to, fault),
                 from \cap Ended = {} \/ fault
          PROVE  Inv'
      BY <3>1 DEF CupsMoves, TypeOK
    <3>2. {"none"} \cap Ended = {} /\ {"pending"} \cap Ended = {} /\ {"printing"} \cap Ended = {}
          /\ Active \cap Ended = {}
      BY DEF Active, Ended
    <3>3. QED
      BY <2>9, <3>1, <3>2 DEF CupsStep
  <2>10. CASE UNCHANGED vars
    BY <2>10 DEF vars, pollVars
  <2>11. QED
    BY <2>1, <2>2, <2>3, <2>4, <2>5, <2>6, <2>7, <2>8, <2>9, <2>10 DEF Next, StatusStep
<1>3. Inv => FinalAnswerIsTrue
  OBVIOUS
<1>4. QED
  BY <1>1, <1>2, <1>3, TypeCorrect, PTL DEF Spec

\* get_status goes on to the details of an ended job only after it has seen the
\* job among the ended ones.
EndSeen ==
  /\ poll \notin {"idle"} \cup PollAnswers => job[Polled] \in during
  /\ poll = "activeDetail" => line \in Active
  /\ poll \in {"stillActive", "endedDetail"} => during \cap Ended # {}

\* Even if commands fail and history is dropped, get_status gives a final answer
\* only of a job that has ended.
THEOREM FinalAnswersMeanEnd == Spec => []FinalAnswerMeansEnd
<1> DEFINE Inv == EndSeen /\ FinalAnswerMeansEnd
<1> USE DEF Inv, EndSeen, FinalAnswerMeansEnd
<1>0. Polled \in CupsJobs
  BY CupsAssumption
<1>1. Init => Inv
  BY DEF Init
<1>2. ASSUME TypeOK, Inv, [Next]_vars PROVE Inv'
  <2> USE <1>0, <1>2
  <2>1. CASE AskStatus
    BY <2>1 DEF AskStatus
  <2>2. CASE ListActive
    BY <2>2 DEF ListActive, PollStep, ActiveList, PollAnswers
  <2>3. CASE ActiveDetail
    <3>1. PICK d \in Details(Polled) :
            PollStep("activeDetail",
                     IF d \in {"NONE", "UNKNOWN"} THEN {Reading(line), "UNKNOWN"} ELSE {d},
                     DetailLost(d))
      BY <2>3 DEF ActiveDetail
    <3>2. d \in {"NONE", "UNKNOWN"} \/ d = Reading(job[Polled])
      BY <3>1 DEF Details
    <3>3. Reading(line) \in {"PENDING", "PRINTING"}
      BY <3>1 DEF PollStep, Reading, Active
    <3>4. job[Polled] \in during /\ UNCHANGED <<job, during>>
      BY <3>1 DEF PollStep, PollAnswers
    <3>5. Reading(job[Polled]) \in {"COMPLETED", "CANCELLED", "FAILED"} => job[Polled] \in Ended
      BY DEF Reading, Ended
    <3>6. Reading(job[Polled]) \in PollAnswers
      BY DEF Reading, PollAnswers
    <3>7. QED
      BY <3>1, <3>2, <3>3, <3>4, <3>5, <3>6 DEF PollStep, PollAnswers
  <2>4. CASE ListCompleted
    BY <2>4 DEF ListCompleted, PollStep, EndedList, PollAnswers
  <2>5. CASE StillActive
    BY <2>5 DEF StillActive, PollStep, PollAnswers
  <2>6. CASE BothDetail
    BY <2>6 DEF BothDetail, PollStep, PollAnswers
  <2>7. CASE EndedDetail
    <3>1. during \cap Ended # {} /\ during' = during
      BY <2>7 DEF EndedDetail, PollStep
    <3>2. poll' \in PollAnswers
      BY <2>7, DetailsType DEF EndedDetail, PollStep, PollAnswers
    <3>3. QED
      BY <3>1, <3>2 DEF PollAnswers
  <2>8. CASE LookupStep
    BY <2>8 DEF LookupStep, AskExisting, LookActive, LookCompleted, Listing, LookDetail,
                LookNext, pollVars
  <2>9. ASSUME NEW i \in CupsJobs, CupsStep(i) PROVE Inv'
    <3>1. ASSUME NEW from, NEW to, NEW fault, CupsMoves(i, from, to, fault)
          PROVE  Inv'
      BY <3>1 DEF CupsMoves, TypeOK
    <3>2. QED
      BY <2>9, <3>1 DEF CupsStep
  <2>10. CASE UNCHANGED vars
    BY <2>10 DEF vars, pollVars
  <2>11. QED
    BY <2>1, <2>2, <2>3, <2>4, <2>5, <2>6, <2>7, <2>8, <2>9, <2>10 DEF Next, StatusStep
<1>3. Inv => FinalAnswerMeansEnd
  OBVIOUS
<1>4. QED
  BY <1>1, <1>2, <1>3, TypeCorrect, PTL DEF Spec

-----------------------------------------------------------------------------
(* find_existing_job.                                                        *)

\* Where each job that was there at the call is, at every step of the lookup, as
\* long as there was no trouble.
LookupKnown ==
  ~trouble =>
    /\ failed = 0
    /\ look \in {"active", "completed"} => unread = {}
    /\ \A i \in before :
         /\ look = "active" => InCups(i)
         /\ look = "activeDetails" => i \in matches \cup unread \/ job[i] \in Ended
         /\ look = "completed" => i \in matches \/ job[i] \in Ended
         /\ look = "completedDetails" => i \in matches \cup unread
    /\ look \in {"activeDetails", "completedDetails"} => \A i \in unread : InCups(i)

\* If no command failed and no history was dropped, the lookup misses no job that
\* was in CUPS when it began, though jobs end between its two listings.
THEOREM LookupIsComplete == Spec => []LookupMissesNothing
<1> DEFINE Inv == LookupKnown /\ LookupMissesNothing
<1> USE DEF Inv, LookupKnown, LookupMissesNothing
<1>0. Titled \subseteq CupsJobs
  BY CupsAssumption
<1>1. Init => Inv
  BY DEF Init
<1>2. ASSUME TypeOK, Inv, [Next]_vars PROVE Inv'
  <2> USE <1>0, <1>2
  <2>1. CASE StatusStep
    BY <2>1 DEF StatusStep, AskStatus, ListActive, ActiveDetail, ListCompleted, StillActive,
                BothDetail, EndedDetail, PollStep, lookVars, InCups, TypeOK
  <2>2. CASE AskExisting
    BY <2>2 DEF AskExisting, InCups
  <2>3. CASE LookActive
    BY <2>3 DEF LookActive, Listing, ActiveList, InCups, TypeOK
  <2>4. CASE LookCompleted
    BY <2>4 DEF LookCompleted, Listing, EndedList, InCups, TypeOK
  <2>5. CASE LookDetail
    <3>1. \A i \in CupsJobs : InCups(i)' <=> InCups(i)
      BY <2>5 DEF LookDetail, InCups
    <3>2. PICK i \in unread :
            \/ look' = "RAISED" /\ UNCHANGED <<unread, matches, trouble>>
            \/ /\ unread' = unread \ {i}
               /\ \/ matches' = matches \cup ({i} \cap Titled) /\ UNCHANGED trouble
                  \/ trouble' = (trouble \/ InCups(i)) /\ UNCHANGED matches
               /\ UNCHANGED look
      BY <2>5 DEF LookDetail
    <3>3. QED
      BY <2>5, <3>1, <3>2 DEF LookDetail, TypeOK
  <2>6. CASE LookNext
    BY <2>6 DEF LookNext, LookVerdict, TypeOK, LookAnswers
  <2>7. ASSUME NEW i \in CupsJobs, CupsStep(i) PROVE Inv'
    <3>1. ASSUME NEW from, NEW to \in Active \cup Ended, NEW fault \in BOOLEAN,
                 CupsMoves(i, from, to, fault), from \cap Ended = {}
          PROVE  Inv'
      <4>1. \A k \in CupsJobs : InCups(k) => InCups(k)'
        BY <3>1 DEF CupsMoves, InCups, TypeOK
      <4>2. \A k \in CupsJobs : job[k] \in Ended => job'[k] \in Ended
        BY <3>1 DEF CupsMoves, TypeOK
      <4>3. UNCHANGED lookVars /\ (trouble => trouble')
        BY <3>1 DEF CupsMoves
      <4>4. QED
        BY <4>1, <4>2, <4>3 DEF lookVars, TypeOK
    <3>2. ASSUME CupsMoves(i, Ended, "purged", TRUE) PROVE Inv'
      BY <3>2 DEF CupsMoves
    <3>3. {"none"} \cap Ended = {} /\ {"pending"} \cap Ended = {} /\ {"printing"} \cap Ended = {}
          /\ Active \cap Ended = {}
      BY DEF Active, Ended
    <3>4. QED
      BY <2>7, <3>1, <3>2, <3>3 DEF CupsStep, Active, Ended
  <2>8. CASE UNCHANGED vars
    BY <2>8 DEF vars, lookVars, InCups
  <2>9. QED
    BY <2>1, <2>2, <2>3, <2>4, <2>5, <2>6, <2>7, <2>8 DEF Next, LookupStep
<1>3. Inv => LookupMissesNothing
  OBVIOUS
<1>4. QED
  BY <1>1, <1>2, <1>3, TypeCorrect, PTL DEF Spec

=============================================================================
