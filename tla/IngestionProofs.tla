-------------------------- MODULE IngestionProofs --------------------------
(***************************************************************************)
(* Proofs about Ingestion: the composition implements the queue and the    *)
(* pipeline, and with that keeps what is proved of each of them.           *)
(*                                                                         *)
(* The argument: a step of the whole is a step of the queue or none, which *)
(* needs no invariant (RefinesQueue).  That the job a run starts with is   *)
(* one of ours is the queue's type invariant, and with it a step of the    *)
(* whole is also a step of the pipeline or none (RefinesPipeline).  What   *)
(* ties the two together is then proved on top of both invariants: a job   *)
(* ends by the run that was begun for it (RunIsOfCurrentJob), and every    *)
(* run but the present one has cost its job an attempt or a stall          *)
(* (RunsAddUp).                                                            *)
(***************************************************************************)
EXTENDS Ingestion, TrendsPipelineProofs

QP == INSTANCE JobQueueProofs

\* No job is of a day to come, nor is one that is about to be added.
NoJobAhead ==
    /\ \A j \in Q!JobIds : jobs[j] # "none" => j[2] <= day
    /\ \A d \in Dispatchers : adding[d] # Q!NoJob => adding[d][2] <= day

\* The run in progress is the run of the worker's job.
RunIsOfCurrentJob ==
    /\ pc = "idle" <=> current = Q!NoJob
    /\ pc \notin {"idle", "failed"} => source = current[1]
    /\ pc \notin {"idle", "failed"} => current[2] <= since

\* What a job in state st with a attempts and k stalls has had in runs.
RunsOf(st, a, k, r) ==
    /\ st = "none" => a = 0 /\ k = 0 /\ r = 0
    /\ st \in {"waiting", "delayed"} => r = a + k
    /\ st = "active" => r = a + k + 1
    /\ st = "failed" => r <= MaxAttempts + MaxStalled

RunsAddUp ==
    /\ runs \in [Q!JobIds -> Nat]
    /\ \A j \in Q!JobIds : RunsOf(jobs[j], attempts[j], stalls[j], runs[j])

IngestInv ==
    /\ RunIsOfCurrentJob
    /\ NoJobAhead
    /\ RunsAddUp

-----------------------------------------------------------------------------
(* The queue, as Ingestion and as its proofs see it *)

LEMMA QueueInit == Q!Init <=> QP!Init
BY DEF Q!Init, QP!Init, Q!JobIds, QP!JobIds, Q!NoJob, QP!NoJob, Q!Days, QP!Days

LEMMA QueueNext == Q!Next <=> QP!Next
BY DEF Q!Next, QP!Next, Q!DispatchStep, QP!DispatchStep, Q!Dispatch, QP!Dispatch,
       Q!GetJob, QP!GetJob, Q!AddJob, QP!AddJob, Q!DispatchFails, QP!DispatchFails,
       Q!TakeJob, QP!TakeJob, Q!EndJob, QP!EndJob, Q!JobCompletes, QP!JobCompletes,
       Q!JobFails, QP!JobFails, Q!OutcomeRefused, QP!OutcomeRefused,
       Q!Settle, QP!Settle, Q!PutDown, QP!PutDown, Q!Promote, QP!Promote,
       Q!RecoverOrphan, QP!RecoverOrphan, Q!Stalled, QP!Stalled,
       Q!LoseLock, QP!LoseLock, Q!Crash, QP!Crash, Q!Restart, QP!Restart,
       Q!NextDay, QP!NextDay, Q!JobIds, QP!JobIds, Q!NoJob, QP!NoJob, Q!Days, QP!Days,
       Q!queueVars, QP!queueVars, Q!workerVars, QP!workerVars,
       Q!dispatchVars, QP!dispatchVars

LEMMA QueueVars == (UNCHANGED Q!vars) <=> (UNCHANGED QP!vars)
BY DEF Q!vars, QP!vars, Q!queueVars, QP!queueVars, Q!workerVars, QP!workerVars,
       Q!dispatchVars, QP!dispatchVars

\* What the queue's inductive invariant says of the queue of Ingestion.
LEMMA QueueFacts ==
    ASSUME QP!IInv
    PROVE  /\ Q!TypeOK /\ Q!WaitsOnce /\ Q!GivenUpOnlyWhenSpent
           /\ Q!NoJob \notin Q!JobIds
           /\ locked => current \in Q!JobIds /\ jobs[current] = "active"
<1>1. Q!TypeOK
  BY DEF QP!IInv, QP!TypeOK, Q!TypeOK, QP!Days, Q!Days, QP!JobIds, Q!JobIds,
         QP!States, Q!States, QP!NoJob, Q!NoJob
<1>2. Q!WaitsOnce
  <2>1. QP!WaitsOnce <=> Q!WaitsOnce
    BY DEF QP!WaitsOnce, Q!WaitsOnce, QP!JobIds, Q!JobIds, QP!Days, Q!Days
  <2>. QED
    BY <2>1 DEF QP!IInv
<1>3. Q!GivenUpOnlyWhenSpent
  <2>1. QP!GivenUpOnlyWhenSpent <=> Q!GivenUpOnlyWhenSpent
    BY DEF QP!GivenUpOnlyWhenSpent, Q!GivenUpOnlyWhenSpent, QP!JobIds, Q!JobIds,
           QP!Days, Q!Days
  <2>. QED
    BY <2>1 DEF QP!IInv
<1>4. Q!NoJob \notin Q!JobIds
  BY DEF Q!NoJob, Q!JobIds
<1>5. locked => current \in Q!JobIds /\ jobs[current] = "active"
  <2>1. locked => current # Q!NoJob /\ jobs[current] = "active"
    BY DEF QP!IInv, QP!LockedIsActive, QP!NoJob, Q!NoJob
  <2>. QED
    BY <1>1, <2>1 DEF Q!TypeOK
<1>. QED
  BY <1>1, <1>2, <1>3, <1>4, <1>5

\* The first waiting job: an id of ours, and one that exists.
LEMMA HeadWaits ==
    ASSUME QP!IInv, waitList # <<>>
    PROVE  Head(waitList) \in Q!JobIds /\ jobs[Head(waitList)] = "waiting"
<1>1. waitList \in Seq(Q!JobIds) /\ Q!WaitsOnce
  BY QueueFacts DEF Q!TypeOK
<1>2. /\ Head(waitList) \in Q!JobIds
      /\ 1 \in DOMAIN waitList /\ Head(waitList) = waitList[1]
  BY <1>1
<1>. QED
  BY <1>1, <1>2 DEF Q!WaitsOnce

-----------------------------------------------------------------------------
(* Ingestion implements the queue *)

\* A step of a run leaves the day alone, neither starts nor forgets a run, and
\* keeps the source and the day the run began with, unless it fails.
LEMMA RunStepKeepsRun ==
    RunStep => /\ day' = day
               /\ pc \notin {"idle", "done", "failed"} /\ pc' # "idle"
               /\ pc' = "failed" \/ UNCHANGED <<source, since>>
<1> SUFFICES ASSUME RunStep
             PROVE  /\ day' = day
                    /\ pc \notin {"idle", "done", "failed"} /\ pc' # "idle"
                    /\ pc' = "failed" \/ UNCHANGED <<source, since>>
  OBVIOUS
<1>1. CASE CountSavedSince
  BY <1>1 DEF CountSavedSince
<1>2. CASE GetArticles
  BY <1>2 DEF GetArticles
<1>3. CASE ExcludeExistingArticles
  BY <1>3 DEF ExcludeExistingArticles
<1>4. CASE CollectionFails
  BY <1>4 DEF CollectionFails, Throw
<1>5. CASE FinishRun
  BY <1>5 DEF FinishRun, runVars
<1>6. CASE StartBatch
  BY <1>6 DEF StartBatch
<1>7. CASE FetchBatchDetailsMap
  BY <1>7 DEF FetchBatchDetailsMap, Narrow
<1>8. CASE SelectValuableArticles
  BY <1>8 DEF SelectValuableArticles, Narrow
<1>9. CASE SummarizeArticles
  BY <1>9 DEF SummarizeArticles, Narrow
<1>10. CASE GenerateEmbeddings
  BY <1>10 DEF GenerateEmbeddings, runVars
<1>11. CASE BatchFails
  BY <1>11 DEF BatchFails, Throw
<1>12. ASSUME NEW a \in Articles, SaveTrend(a) \/ SaveFails(a) \/ SaveReplyLost(a)
       PROVE  /\ day' = day
              /\ pc \notin {"idle", "done", "failed"} /\ pc' # "idle"
              /\ pc' = "failed" \/ UNCHANGED <<source, since>>
  BY <1>12 DEF SaveTrend, SaveFails, SaveReplyLost
<1>13. CASE FinishBatch
  BY <1>13 DEF FinishBatch
<1>. QED
  BY <1>1, <1>2, <1>3, <1>4, <1>5, <1>6, <1>7, <1>8, <1>9, <1>10, <1>11, <1>12, <1>13
     DEF RunStep

LEMMA StepOfTheQueue == [IngestNext]_allVars => [Q!Next]_(Q!vars)
<1> SUFFICES ASSUME [IngestNext]_allVars PROVE [Q!Next]_(Q!vars)
  OBVIOUS
<1>1. CASE StartRun
  BY <1>1 DEF StartRun, Q!Next
<1>2. CASE Collect
  BY <1>2, RunStepKeepsRun
     DEF Collect, queueOnly, Q!vars, Q!queueVars, Q!workerVars, Q!dispatchVars
<1>3. CASE EndRun
  BY <1>3 DEF EndRun, RunSucceeds, RunRejects, RunIsStale, Q!Next, Q!EndJob
<1>4. CASE QueueStep
  BY <1>4 DEF QueueStep, Q!Next
<1>5. CASE ProcessDies
  BY <1>5 DEF ProcessDies, Q!Next
<1>6. CASE Midnight
  BY <1>6 DEF Midnight, Q!Next
<1>7. CASE UNCHANGED allVars
  BY <1>7 DEF allVars, queueOnly, Q!vars, Q!queueVars, Q!workerVars, Q!dispatchVars
<1>. QED
  BY <1>1, <1>2, <1>3, <1>4, <1>5, <1>6, <1>7 DEF IngestNext

\* The queue inside ingestion is the queue: the worker takes and ends jobs as
\* BullMQ allows it, and the run takes no step on the jobs.
THEOREM RefinesQueue == IngestSpec => ImplementsQueue
<1>1. IngestInit => Q!Init
  BY DEF IngestInit
<1>. QED
  BY <1>1, StepOfTheQueue, PTL DEF IngestSpec, ImplementsQueue, Q!Spec

\* So what is proved of the queue holds of it inside ingestion.
LEMMA QueueInvariance == IngestSpec => []QP!IInv
<1>1. QP!Init => QP!IInv
  BY IngestionAssumption, QP!InitIInv DEF Q!QueueAssumption
<1>2. QP!IInv /\ [QP!Next]_(QP!vars) => QP!IInv'
  BY IngestionAssumption, QP!NextIInv DEF Q!QueueAssumption
<1>3. IngestInit => QP!IInv
  BY <1>1, QueueInit DEF IngestInit
<1>4. QP!IInv /\ [IngestNext]_allVars => QP!IInv'
  BY <1>2, StepOfTheQueue, QueueNext, QueueVars
<1>. QED
  BY <1>3, <1>4, PTL DEF IngestSpec

-----------------------------------------------------------------------------
(* Ingestion implements the pipeline *)

LEMMA StepOfThePipeline == QP!IInv /\ [IngestNext]_allVars => [Next]_vars
<1> SUFFICES ASSUME QP!IInv, [IngestNext]_allVars PROVE [Next]_vars
  OBVIOUS
<1>1. CASE StartRun
  <2>1. current' = Head(waitList) /\ waitList # <<>>
    BY <1>1 DEF StartRun, Q!TakeJob
  <2>2. current'[1] \in Sources
    BY <2>1, HeadWaits DEF Q!JobIds
  <2>. QED
    BY <1>1, <2>2 DEF StartRun, Next
<1>2. CASE Collect
  BY <1>2 DEF Collect, Next
<1>3. CASE EndRun
  BY <1>3 DEF EndRun, RunSucceeds, RunRejects, RunIsStale, Next
<1>4. CASE QueueStep
  BY <1>4 DEF QueueStep, runOnly, vars, Q!DispatchStep, Q!Dispatch, Q!GetJob, Q!AddJob,
              Q!DispatchFails, Q!Promote, Q!RecoverOrphan, Q!LoseLock, Q!Stalled, Q!Restart
<1>5. CASE ProcessDies
  BY <1>5 DEF ProcessDies, Q!Crash, runOnly, vars, Next
<1>6. CASE Midnight
  BY <1>6 DEF Midnight, Next
<1>7. CASE UNCHANGED allVars
  BY <1>7 DEF allVars, runOnly, vars
<1>. QED
  BY <1>1, <1>2, <1>3, <1>4, <1>5, <1>6, <1>7 DEF IngestNext

\* The pipeline inside ingestion is the pipeline: the queue starts runs of
\* sources that exist and ends runs that are over, and touches no row.
THEOREM RefinesPipeline == IngestSpec => ImplementsPipeline
<1>1. IngestInit => Init
  BY DEF IngestInit
<1>. QED
  BY <1>1, StepOfThePipeline, QueueInvariance, PTL
     DEF IngestSpec, ImplementsPipeline, Spec

\* What is proved of the pipeline, the quota and the catalogue, holds of
\* ingestion as a whole: with retries, lost locks, crashes and second dispatches.
THEOREM QuotaOfIngestion == IngestSpec => []DailyQuota /\ ImplementsCatalog
BY RefinesPipeline, QuotaHolds, RefinesCatalog, PTL DEF ImplementsPipeline

\* What is proved of the queue holds of ingestion as a whole.
THEOREM QueueOfIngestion == IngestSpec => [](Q!WaitsOnce /\ Q!GivenUpOnlyWhenSpent)
<1>1. QP!IInv => Q!WaitsOnce /\ Q!GivenUpOnlyWhenSpent
  BY QueueFacts
<1>. QED
  BY <1>1, QueueInvariance, PTL

-----------------------------------------------------------------------------
(* The run and its job *)

\* It holds at the start.
LEMMA IngestInvInit == IngestInit => IngestInv
<1> SUFFICES ASSUME IngestInit PROVE IngestInv
  OBVIOUS
<1>1. /\ pc = "idle" /\ current = Q!NoJob
      /\ \A j \in Q!JobIds : jobs[j] = "none"
      /\ \A d \in Dispatchers : adding[d] = Q!NoJob
  BY DEF IngestInit, Init, Q!Init
<1>2. RunsAddUp
  <2>1. /\ runs = [j \in Q!JobIds |-> 0]
        /\ \A j \in Q!JobIds : attempts[j] = 0 /\ stalls[j] = 0
    BY DEF IngestInit, Q!Init
  <2>. QED
    BY <1>1, <2>1 DEF RunsAddUp, RunsOf
<1>. QED
  BY <1>1, <1>2 DEF IngestInv, RunIsOfCurrentJob, NoJobAhead

\* A step of a run leaves the worker's job alone.
LEMMA CollectKeepsRunOfJob ==
    ASSUME IngestInv, Collect PROVE RunIsOfCurrentJob'
<1>1. current' = current
  BY DEF Collect, queueOnly
<1>2. /\ pc \notin {"idle", "done", "failed"} /\ pc' # "idle"
      /\ pc' = "failed" \/ UNCHANGED <<source, since>>
  BY RunStepKeepsRun DEF Collect
<1>3. Q!NoJob' = Q!NoJob
  BY DEF Q!NoJob
<1>. QED
  BY <1>1, <1>2, <1>3 DEF IngestInv, RunIsOfCurrentJob

\* A step of the queue that is none of the worker's leaves its job and its run alone.
LEMMA QueueStepKeepsWorker == QueueStep => UNCHANGED <<current, day, pc, source, since>>
BY DEF QueueStep, runOnly, runVars, Q!DispatchStep, Q!Dispatch, Q!GetJob, Q!AddJob,
       Q!DispatchFails, Q!Promote, Q!RecoverOrphan, Q!LoseLock, Q!Stalled, Q!Restart,
       Q!workerVars

LEMMA RunOfJobStep ==
    ASSUME QP!IInv, TypeOK, IngestInv, [IngestNext]_allVars
    PROVE  RunIsOfCurrentJob'
<1>a. Q!TypeOK /\ Q!NoJob \notin Q!JobIds /\ Q!NoJob' = Q!NoJob
  BY QueueFacts DEF Q!NoJob
<1>1. CASE StartRun
  <2>. DEFINE h == Head(waitList)
  <2>1. waitList # <<>> /\ current' = h
    BY <1>1 DEF StartRun, Q!TakeJob
  <2>2. h \in Q!JobIds /\ jobs[h] = "waiting"
    BY <2>1, HeadWaits
  <2>3. h[2] <= day
    BY <2>2 DEF IngestInv, NoJobAhead
  <2>. HIDE DEF h
  <2>4. pc' = "counting" /\ source' = current'[1] /\ since' = day
    BY <1>1 DEF StartRun, ExecuteScraperByName
  <2>. QED
    BY <1>a, <2>1, <2>2, <2>3, <2>4 DEF RunIsOfCurrentJob
<1>2. CASE Collect
  BY <1>2, CollectKeepsRunOfJob
<1>3. CASE EndRun
  <2>1. pc' = "idle" /\ current' = Q!NoJob
    BY <1>3 DEF EndRun, RunSucceeds, RunRejects, RunIsStale, Release, Q!JobCompletes,
                Q!JobFails, Q!OutcomeRefused, Q!PutDown
  <2>. QED
    BY <1>a, <2>1 DEF RunIsOfCurrentJob
<1>4. CASE QueueStep
  BY <1>a, <1>4, QueueStepKeepsWorker DEF IngestInv, RunIsOfCurrentJob
<1>5. CASE ProcessDies
  <2>1. pc' = "idle" /\ current' = Q!NoJob
    BY <1>5 DEF ProcessDies, Crash, Q!Crash, Q!PutDown, runOnly
  <2>. QED
    BY <1>a, <2>1 DEF RunIsOfCurrentJob
<1>6. CASE Midnight
  <2>1. UNCHANGED <<current, pc, source, since>>
    BY <1>6 DEF Midnight, NextDay, runVars, Q!NextDay, Q!workerVars
  <2>. QED
    BY <1>a, <2>1 DEF IngestInv, RunIsOfCurrentJob
<1>7. CASE UNCHANGED allVars
  <2>1. UNCHANGED <<current, pc, source, since>>
    BY <1>7 DEF allVars, queueOnly, runOnly, runVars
  <2>. QED
    BY <1>a, <2>1 DEF IngestInv, RunIsOfCurrentJob
<1>. QED
  BY <1>1, <1>2, <1>3, <1>4, <1>5, <1>6, <1>7 DEF IngestNext

\* A job that comes into being is one a dispatcher was about to add.
LEMMA NewJobsAreAdded ==
    ASSUME QP!IInv, [IngestNext]_allVars, NEW j \in Q!JobIds,
           jobs[j] = "none", jobs'[j] # "none"
    PROVE  \E d \in Dispatchers : adding[d] = j
<1>a. Q!TypeOK /\ (locked => jobs[current] = "active")
  BY QueueFacts
<1>b. jobs \in [Q!JobIds -> Q!States]
  BY <1>a DEF Q!TypeOK
<1>1. [Q!Next]_(Q!vars)
  BY StepOfTheQueue
<1>2. ASSUME NEW d \in Dispatchers, Q!DispatchStep(d) PROVE adding[d] = j
  BY <1>2, <1>b DEF Q!DispatchStep, Q!Dispatch, Q!GetJob, Q!AddJob, Q!DispatchFails, Q!queueVars
<1>3. ASSUME Q!TakeJob PROVE FALSE
  <2>1. jobs' = [jobs EXCEPT ![Head(waitList)] = "active"] /\ waitList # <<>>
    BY <1>3 DEF Q!TakeJob
  <2>2. Head(waitList) \in Q!JobIds /\ jobs[Head(waitList)] = "waiting"
    BY <2>1, HeadWaits
  <2>. QED
    BY <1>b, <2>1, <2>2
<1>4. ASSUME Q!JobCompletes PROVE FALSE
  BY <1>4, <1>b DEF Q!JobCompletes, Q!Settle
<1>5. ASSUME Q!JobFails PROVE FALSE
  BY <1>5, <1>a, <1>b DEF Q!JobFails
<1>6. ASSUME Q!OutcomeRefused PROVE FALSE
  BY <1>6 DEF Q!OutcomeRefused, Q!queueVars
<1>7. ASSUME NEW k \in Q!JobIds, Q!Promote(k) \/ Q!RecoverOrphan(k) PROVE FALSE
  BY <1>7, <1>b DEF Q!Promote, Q!RecoverOrphan, Q!Stalled
<1>8. ASSUME Q!LoseLock PROVE FALSE
  BY <1>8, <1>b DEF Q!LoseLock, Q!Stalled
<1>9. ASSUME Q!Crash \/ Q!Restart \/ Q!NextDay \/ UNCHANGED Q!vars PROVE FALSE
  BY <1>9 DEF Q!Crash, Q!Restart, Q!NextDay, Q!vars, Q!queueVars
<1>. QED
  BY <1>1, <1>2, <1>3, <1>4, <1>5, <1>6, <1>7, <1>8, <1>9 DEF Q!Next, Q!EndJob

\* An id that a dispatcher comes to hold is of the present day.
LEMMA NewIdsAreOfToday ==
    ASSUME QP!IInv, [IngestNext]_allVars, NEW d \in Dispatchers,
           adding'[d] # adding[d], adding'[d] # Q!NoJob
    PROVE  adding'[d][2] = day
<1>a. adding \in [Dispatchers -> Q!JobIds \cup {Q!NoJob}]
  BY QueueFacts DEF Q!TypeOK
<1>1. [Q!Next]_(Q!vars)
  BY StepOfTheQueue
<1>2. ASSUME NEW c \in Dispatchers, Q!GetJob(c) PROVE adding'[d][2] = day
  BY <1>2, <1>a DEF Q!GetJob
<1>3. ASSUME NEW c \in Dispatchers, Q!Dispatch(c) \/ Q!AddJob(c) \/ Q!DispatchFails(c)
      PROVE  FALSE
  BY <1>3, <1>a DEF Q!Dispatch, Q!AddJob, Q!DispatchFails
<1>4. ASSUME \/ Q!TakeJob \/ Q!EndJob \/ Q!LoseLock \/ Q!Restart \/ Q!NextDay
             \/ \E k \in Q!JobIds : Q!Promote(k) \/ Q!RecoverOrphan(k)
      PROVE  FALSE
  BY <1>4 DEF Q!TakeJob, Q!EndJob, Q!JobCompletes, Q!JobFails, Q!OutcomeRefused, Q!LoseLock,
              Q!Restart, Q!NextDay, Q!Promote, Q!RecoverOrphan, Q!Stalled, Q!dispatchVars
<1>5. ASSUME Q!Crash PROVE FALSE
  BY <1>5 DEF Q!Crash
<1>6. ASSUME UNCHANGED Q!vars PROVE FALSE
  BY <1>6 DEF Q!vars, Q!dispatchVars
<1>. QED
  BY <1>1, <1>2, <1>3, <1>4, <1>5, <1>6 DEF Q!Next, Q!DispatchStep

LEMMA NoJobAheadStep ==
    ASSUME QP!IInv, TypeOK, IngestInv, [IngestNext]_allVars
    PROVE  NoJobAhead'
<1>a. day \in Int /\ day' \in Int /\ day <= day'
  <2>1. [Next]_vars
    BY StepOfThePipeline
  <2>2. TypeOK'
    BY <2>1, TypeStep
  <2>3. day' = day \/ day' = day + 1
    BY <2>1, RunStepKeepsRun
       DEF Next, ExecuteScraperByName, Release, Crash, NextDay, vars
  <2>. QED
    BY <2>2, <2>3 DEF TypeOK, Days
<1>b. \A j \in Q!JobIds : j[2] \in Int
  BY DEF Q!JobIds, Q!Days
<1>c. adding \in [Dispatchers -> Q!JobIds \cup {Q!NoJob}] /\ Q!NoJob' = Q!NoJob
  BY QueueFacts DEF Q!TypeOK, Q!NoJob
<1>1. ASSUME NEW j \in Q!JobIds, jobs'[j] # "none" PROVE j[2] <= day'
  <2>1. CASE jobs[j] # "none"
    BY <1>a, <1>b, <2>1 DEF IngestInv, NoJobAhead
  <2>2. CASE jobs[j] = "none"
    <3>1. PICK d \in Dispatchers : adding[d] = j
      BY <1>1, <2>2, NewJobsAreAdded
    <3>2. j[2] <= day
      BY <3>1, QueueFacts DEF IngestInv, NoJobAhead
    <3>. QED
      BY <1>a, <1>b, <3>2
  <2>. QED
    BY <2>1, <2>2
<1>2. ASSUME NEW d \in Dispatchers, adding'[d] # Q!NoJob PROVE adding'[d][2] <= day'
  <2>1. CASE adding'[d] = adding[d]
    <3>1. adding[d] \in Q!JobIds /\ adding[d][2] <= day
      BY <1>2, <1>c, <2>1 DEF IngestInv, NoJobAhead
    <3>. QED
      BY <1>a, <1>b, <2>1, <3>1
  <2>2. CASE adding'[d] # adding[d]
    <3>1. adding'[d][2] = day
      BY <1>2, <2>2, NewIdsAreOfToday
    <3>. QED
      BY <1>a, <3>1
  <2>. QED
    BY <2>1, <2>2
<1>3. Q!JobIds' = Q!JobIds
  BY DEF Q!JobIds, Q!Days
<1>. QED
  BY <1>1, <1>2, <1>3, <1>c DEF NoJobAhead

\* What the counters of a job say in each of its states.
LEMMA CountersOfJob ==
    ASSUME QP!IInv, IngestInv, NEW j \in Q!JobIds
    PROVE  /\ jobs[j] \in Q!States
           /\ attempts[j] \in Nat /\ attempts[j] <= MaxAttempts /\ MaxAttempts \in Nat
           /\ stalls[j] \in Nat /\ stalls[j] <= MaxStalled /\ MaxStalled \in Nat
           /\ runs[j] \in Nat
           /\ jobs[j] \in {"waiting", "active", "delayed"} => attempts[j] < MaxAttempts
           /\ RunsOf(jobs[j], attempts[j], stalls[j], runs[j])
<1>1. /\ jobs \in [Q!JobIds -> Q!States]
      /\ attempts \in [Q!JobIds -> 0..MaxAttempts] /\ stalls \in [Q!JobIds -> 0..MaxStalled]
      /\ Q!GivenUpOnlyWhenSpent
  BY QueueFacts DEF Q!TypeOK
<1>2. MaxAttempts \in Nat /\ MaxStalled \in Nat
  BY IngestionAssumption DEF Q!QueueAssumption
<1>3. attempts[j] \in 0..MaxAttempts /\ stalls[j] \in 0..MaxStalled /\ runs[j] \in Nat
  BY <1>1 DEF IngestInv, RunsAddUp
<1>. QED
  BY <1>1, <1>2, <1>3 DEF IngestInv, RunsAddUp, Q!GivenUpOnlyWhenSpent

\* Only the counters of one job change: enough to look at that job.
LEMMA OneJobCounts ==
    ASSUME QP!IInv, IngestInv, NEW j \in Q!JobIds,
           NEW st, NEW a, NEW k, NEW r \in Nat,
           jobs' = [jobs EXCEPT ![j] = st], attempts' = [attempts EXCEPT ![j] = a],
           stalls' = [stalls EXCEPT ![j] = k], runs' = [runs EXCEPT ![j] = r],
           RunsOf(st, a, k, r)
    PROVE  RunsAddUp'
<1>1. /\ jobs \in [Q!JobIds -> Q!States]
      /\ attempts \in [Q!JobIds -> 0..MaxAttempts] /\ stalls \in [Q!JobIds -> 0..MaxStalled]
      /\ runs \in [Q!JobIds -> Nat]
  BY QueueFacts DEF Q!TypeOK, IngestInv, RunsAddUp
<1>2. runs' \in [Q!JobIds -> Nat]
  BY <1>1
<1>3. /\ jobs'[j] = st /\ attempts'[j] = a /\ stalls'[j] = k /\ runs'[j] = r
      /\ \A i \in Q!JobIds : i # j =>
            jobs'[i] = jobs[i] /\ attempts'[i] = attempts[i]
            /\ stalls'[i] = stalls[i] /\ runs'[i] = runs[i]
  BY <1>1
<1>4. ASSUME NEW i \in Q!JobIds PROVE RunsOf(jobs'[i], attempts'[i], stalls'[i], runs'[i])
  <2>1. CASE i = j
    BY <1>3, <2>1
  <2>2. CASE i # j
    <3>1. RunsOf(jobs[i], attempts[i], stalls[i], runs[i])
      BY DEF IngestInv, RunsAddUp
    <3>. QED
      BY <1>3, <2>2, <3>1
  <2>. QED
    BY <2>1, <2>2
<1>5. Q!JobIds' = Q!JobIds
  BY DEF Q!JobIds, Q!Days
<1>. QED
  BY <1>2, <1>4, <1>5 DEF RunsAddUp, RunsOf

\* Nothing that counts changes.
LEMMA NoJobCounts ==
    ASSUME IngestInv, UNCHANGED <<jobs, attempts, stalls, runs>>
    PROVE  RunsAddUp'
<1>1. Q!JobIds' = Q!JobIds
  BY DEF Q!JobIds, Q!Days
<1>. QED
  BY <1>1 DEF IngestInv, RunsAddUp, RunsOf

LEMMA RunsAddUpStep ==
    ASSUME QP!IInv, IngestInv, [IngestNext]_allVars
    PROVE  RunsAddUp'
<1>a. /\ jobs \in [Q!JobIds -> Q!States]
      /\ attempts \in [Q!JobIds -> 0..MaxAttempts] /\ stalls \in [Q!JobIds -> 0..MaxStalled]
      /\ runs \in [Q!JobIds -> Nat]
      /\ current \in Q!JobIds \cup {Q!NoJob}
      /\ adding \in [Dispatchers -> Q!JobIds \cup {Q!NoJob}]
      /\ locked => current \in Q!JobIds /\ jobs[current] = "active"
  BY QueueFacts DEF Q!TypeOK, IngestInv, RunsAddUp
<1>1. CASE StartRun
  <2>. DEFINE h == Head(waitList)
  <2>1. /\ waitList # <<>> /\ jobs' = [jobs EXCEPT ![h] = "active"]
        /\ runs' = [runs EXCEPT ![h] = runs[h] + 1]
        /\ attempts' = attempts /\ stalls' = stalls
    BY <1>1 DEF StartRun, Q!TakeJob
  <2>2. h \in Q!JobIds /\ jobs[h] = "waiting"
    BY <2>1, HeadWaits
  <2>. HIDE DEF h
  <2>3. attempts' = [attempts EXCEPT ![h] = attempts[h]] /\ stalls' = [stalls EXCEPT ![h] = stalls[h]]
    BY <1>a, <2>1
  <2>4. RunsOf("active", attempts[h], stalls[h], runs[h] + 1) /\ runs[h] + 1 \in Nat
    BY <2>2, CountersOfJob DEF RunsOf
  <2>. QED
    BY <2>1, <2>2, <2>3, <2>4, OneJobCounts
<1>2. CASE Collect \/ RunIsStale \/ ProcessDies \/ Midnight \/ UNCHANGED allVars
  <2>1. UNCHANGED <<jobs, attempts, stalls, runs>>
    BY <1>2 DEF Collect, RunIsStale, ProcessDies, Midnight, allVars, queueOnly, runOnly,
                Q!OutcomeRefused, Q!Crash, Q!NextDay, Q!queueVars
  <2>. QED
    BY <2>1, NoJobCounts
<1>3. CASE RunSucceeds
  <2>1. /\ locked /\ jobs' = [jobs EXCEPT ![current] = "none"]
        /\ attempts' = [attempts EXCEPT ![current] = 0]
        /\ stalls' = [stalls EXCEPT ![current] = 0]
        /\ runs' = [runs EXCEPT ![current] = 0]
    BY <1>3 DEF RunSucceeds, Q!JobCompletes, Q!Settle
  <2>2. RunsOf("none", 0, 0, 0)
    BY DEF RunsOf
  <2>. QED
    BY <1>a, <2>1, <2>2, OneJobCounts
<1>4. CASE RunRejects
  <2>. DEFINE a  == attempts[current] + 1
              st == IF a < MaxAttempts THEN "delayed" ELSE "failed"
  <2>1. /\ locked /\ attempts' = [attempts EXCEPT ![current] = a]
        /\ jobs' = [jobs EXCEPT ![current] =
                       IF attempts'[current] < MaxAttempts THEN "delayed" ELSE "failed"]
        /\ stalls' = stalls /\ runs' = runs
    BY <1>4 DEF RunRejects, Q!JobFails
  <2>2. current \in Q!JobIds /\ jobs[current] = "active"
    BY <1>a, <2>1
  <2>3. /\ jobs' = [jobs EXCEPT ![current] = st]
        /\ attempts' = [attempts EXCEPT ![current] = a]
        /\ stalls' = [stalls EXCEPT ![current] = stalls[current]]
        /\ runs' = [runs EXCEPT ![current] = runs[current]]
    BY <1>a, <2>1, <2>2
  <2>4. RunsOf(st, a, stalls[current], runs[current]) /\ runs[current] \in Nat
    BY <2>2, CountersOfJob DEF RunsOf
  <2>. HIDE DEF a, st
  <2>5. current \in Q!JobIds
    BY <2>2
  <2>. QED
    BY <2>3, <2>4, <2>5, OneJobCounts
<1>5. ASSUME NEW d \in Dispatchers, Q!DispatchStep(d), UNCHANGED runs PROVE RunsAddUp'
  <2>1. CASE Q!Dispatch(d) \/ Q!GetJob(d) \/ Q!DispatchFails(d)
    BY <1>5, <2>1, NoJobCounts DEF Q!Dispatch, Q!GetJob, Q!DispatchFails, Q!queueVars
  <2>2. CASE Q!AddJob(d)
    <3>. DEFINE j == adding[d]
    <3>1. j \in Q!JobIds /\ attempts' = attempts /\ stalls' = stalls
      BY <1>a, <2>2 DEF Q!AddJob
    <3>2. CASE jobs[j] = "none"
      <4>1. jobs' = [jobs EXCEPT ![j] = "waiting"]
        BY <2>2, <3>2 DEF Q!AddJob
      <4>. HIDE DEF j
      <4>2. /\ attempts' = [attempts EXCEPT ![j] = attempts[j]]
            /\ stalls' = [stalls EXCEPT ![j] = stalls[j]]
            /\ runs' = [runs EXCEPT ![j] = runs[j]]
        BY <1>a, <1>5, <3>1
      <4>3. RunsOf("waiting", attempts[j], stalls[j], runs[j]) /\ runs[j] \in Nat
        BY <3>1, <3>2, CountersOfJob DEF RunsOf
      <4>. QED
        BY <3>1, <4>1, <4>2, <4>3, OneJobCounts
    <3>3. CASE jobs[j] # "none"
      <4>1. jobs' = jobs
        BY <2>2, <3>3 DEF Q!AddJob
      <4>. QED
        BY <1>5, <3>1, <4>1, NoJobCounts
    <3>. QED
      BY <3>2, <3>3
  <2>. QED
    BY <1>5, <2>1, <2>2 DEF Q!DispatchStep
<1>6. ASSUME NEW j \in Q!JobIds, Q!Promote(j), UNCHANGED runs PROVE RunsAddUp'
  <2>1. /\ jobs[j] = "delayed" /\ jobs' = [jobs EXCEPT ![j] = "waiting"]
        /\ attempts' = attempts /\ stalls' = stalls
    BY <1>6 DEF Q!Promote
  <2>2. /\ attempts' = [attempts EXCEPT ![j] = attempts[j]]
        /\ stalls' = [stalls EXCEPT ![j] = stalls[j]]
        /\ runs' = [runs EXCEPT ![j] = runs[j]]
    BY <1>a, <1>6, <2>1
  <2>3. RunsOf("waiting", attempts[j], stalls[j], runs[j]) /\ runs[j] \in Nat
    BY <2>1, CountersOfJob DEF RunsOf
  <2>. QED
    BY <2>1, <2>2, <2>3, OneJobCounts
<1>7. ASSUME NEW j \in Q!JobIds, Q!Stalled(j), UNCHANGED runs PROVE RunsAddUp'
  <2>1. jobs[j] = "active" /\ attempts' = attempts
    BY <1>7 DEF Q!Stalled
  <2>2. /\ attempts' = [attempts EXCEPT ![j] = attempts[j]]
        /\ runs' = [runs EXCEPT ![j] = runs[j]]
    BY <1>a, <1>7, <2>1
  <2>3. CASE stalls[j] < MaxStalled
    <3>1. /\ jobs' = [jobs EXCEPT ![j] = "waiting"]
          /\ stalls' = [stalls EXCEPT ![j] = stalls[j] + 1]
      BY <1>7, <2>3 DEF Q!Stalled
    <3>2. RunsOf("waiting", attempts[j], stalls[j] + 1, runs[j]) /\ runs[j] \in Nat
      BY <2>1, CountersOfJob DEF RunsOf
    <3>. QED
      BY <2>2, <3>1, <3>2, OneJobCounts
  <2>4. CASE ~(stalls[j] < MaxStalled)
    <3>1. jobs' = [jobs EXCEPT ![j] = "failed"] /\ stalls' = stalls
      BY <1>7, <2>4 DEF Q!Stalled
    <3>2. stalls' = [stalls EXCEPT ![j] = stalls[j]]
      BY <1>a, <3>1
    <3>3. RunsOf("failed", attempts[j], stalls[j], runs[j]) /\ runs[j] \in Nat
      BY <2>1, CountersOfJob DEF RunsOf
    <3>. QED
      BY <2>2, <3>1, <3>2, <3>3, OneJobCounts
  <2>. QED
    BY <2>3, <2>4
<1>8. CASE QueueStep
  <2>1. UNCHANGED runs
    BY <1>8 DEF QueueStep, runOnly
  <2>2. CASE Q!Restart
    BY <2>1, <2>2, NoJobCounts DEF Q!Restart, Q!queueVars
  <2>3. CASE Q!LoseLock
    <3>1. Q!Stalled(current) /\ current \in Q!JobIds
      BY <1>a, <2>3 DEF Q!LoseLock
    <3>. QED
      BY <1>7, <2>1, <3>1
  <2>4. ASSUME NEW j \in Q!JobIds, Q!Promote(j) \/ Q!RecoverOrphan(j) PROVE RunsAddUp'
    BY <1>6, <1>7, <2>1, <2>4 DEF Q!RecoverOrphan
  <2>. QED
    BY <1>5, <1>8, <2>1, <2>2, <2>3, <2>4 DEF QueueStep
<1>. QED
  BY <1>1, <1>2, <1>3, <1>4, <1>8 DEF IngestNext, EndRun

\* What ties the run to the job holds in every reachable state, and with it the
\* invariants of both parts.
THEOREM IngestInvariance == IngestSpec => [](QP!IInv /\ IInv /\ IngestInv)
<1>1. QP!IInv /\ IInv /\ IngestInv /\ [IngestNext]_allVars => IngestInv'
  <2>1. IInv => TypeOK
    BY DEF IInv
  <2>. QED
    BY <2>1, RunOfJobStep, NoJobAheadStep, RunsAddUpStep DEF IngestInv
<1>2. IngestSpec => []IInv
  BY RefinesPipeline, Invariance, PTL DEF ImplementsPipeline
<1>. QED
  BY <1>1, <1>2, QueueInvariance, IngestInvInit, PTL DEF IngestSpec

\* A job is run no more often than its attempts and stalls allow together, before
\* it is completed or given up for good.
THEOREM RunsBounded == IngestSpec => []RunsAreBounded
<1>1. ASSUME QP!IInv, IngestInv, NEW j \in Q!JobIds PROVE runs[j] <= MaxAttempts + MaxStalled
  <2>1. /\ jobs[j] \in {"none", "waiting", "active", "delayed", "failed"}
        /\ attempts[j] \in Nat /\ attempts[j] <= MaxAttempts /\ MaxAttempts \in Nat
        /\ stalls[j] \in Nat /\ stalls[j] <= MaxStalled /\ MaxStalled \in Nat
        /\ runs[j] \in Nat
        /\ jobs[j] \in {"waiting", "active", "delayed"} => attempts[j] < MaxAttempts
        /\ RunsOf(jobs[j], attempts[j], stalls[j], runs[j])
    BY <1>1, CountersOfJob DEF Q!States
  <2>. QED
    BY <2>1 DEF RunsOf
<1>2. QP!IInv /\ IngestInv => RunsAreBounded
  BY <1>1 DEF RunsAreBounded
<1>. QED
  BY <1>2, IngestInvariance, PTL

\* A job leaves the queue as completed only when its source has its quota since
\* the day of the run, or nothing it was offered is left to try.
THEOREM CompletedHolds == IngestSpec => CompletedMeansDone
<1>. DEFINE Done == \A j \in Q!JobIds : jobs[j] # "none" /\ jobs'[j] = "none" =>
                      /\ pc = "done" /\ source = j[1]
                      /\ \/ Cardinality(SavedSince(source, since)) >= Target
                         \/ candidates = {} /\ work = {}
<1>1. ASSUME QP!IInv, IInv, IngestInv, [IngestNext]_allVars,
             NEW j \in Q!JobIds, jobs[j] # "none", jobs'[j] = "none"
      PROVE  /\ pc = "done" /\ source = j[1]
             /\ \/ Cardinality(SavedSince(source, since)) >= Target
                \/ candidates = {} /\ work = {}
  <2>a. jobs \in [Q!JobIds -> Q!States]
    BY <1>1, QueueFacts DEF Q!TypeOK
  <2>1. RunSucceeds /\ j = current
    <3>1. CASE StartRun
      BY <1>1, <2>a, <3>1 DEF StartRun, Q!TakeJob
    <3>2. CASE Collect
      BY <1>1, <3>2 DEF Collect, queueOnly
    <3>3. CASE RunSucceeds
      BY <1>1, <2>a, <3>3 DEF RunSucceeds, Q!JobCompletes, Q!Settle
    <3>4. CASE RunRejects
      BY <1>1, <2>a, <3>4 DEF RunRejects, Q!JobFails
    <3>5. CASE RunIsStale
      BY <1>1, <3>5 DEF RunIsStale, Q!OutcomeRefused, Q!queueVars
    <3>6. CASE QueueStep
      BY <1>1, <2>a, <3>6
         DEF QueueStep, Q!DispatchStep, Q!Dispatch, Q!GetJob, Q!AddJob, Q!DispatchFails,
             Q!Promote, Q!RecoverOrphan, Q!LoseLock, Q!Stalled, Q!Restart, Q!queueVars
    <3>7. CASE ProcessDies \/ Midnight
      BY <1>1, <3>7 DEF ProcessDies, Midnight, Q!Crash, Q!NextDay, Q!queueVars
    <3>8. CASE UNCHANGED allVars
      BY <1>1, <3>8 DEF allVars, queueOnly
    <3>. QED
      BY <1>1, <3>1, <3>2, <3>3, <3>4, <3>5, <3>6, <3>7, <3>8 DEF IngestNext, EndRun
  <2>2. pc = "done" /\ source = j[1]
    BY <1>1, <2>1 DEF RunSucceeds, IngestInv, RunIsOfCurrentJob
  <2>3. CASE TotalSoFar < Target
    BY <1>1, <2>2, <2>3 DEF IInv, NoBatchSkipped
  <2>4. CASE ~(TotalSoFar < Target)
    <3>1. Cardinality(SavedSince(source, since))
             = savedBaseline + newlySavedCount + Cardinality(batchSaved) + lost
      BY <1>1, <2>2 DEF IInv, CountMatchesTable, Counted
    <3>2. /\ savedBaseline \in Nat /\ newlySavedCount \in Nat /\ lost \in Nat
          /\ batchSaved \in SUBSET Articles
      BY <1>1, PipelineAssumption DEF IInv, TypeOK
    <3>3. Cardinality(batchSaved) \in Nat
      BY <3>2, ArticleSetSize
    <3>4. Cardinality(SavedSince(source, since)) >= Target
      BY <2>4, <3>1, <3>2, <3>3, PipelineAssumption DEF TotalSoFar
    <3>. QED
      BY <2>2, <3>4
  <2>. QED
    BY <2>2, <2>3, <2>4
<1>2. QP!IInv /\ IInv /\ IngestInv /\ [IngestNext]_allVars => Done
  BY <1>1
<1>. HIDE DEF Done
<1>. QED
  BY <1>2, IngestInvariance, PTL DEF IngestSpec, CompletedMeansDone, Done
=============================================================================
