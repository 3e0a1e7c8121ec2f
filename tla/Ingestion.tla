------------------------------ MODULE Ingestion ------------------------------
(***************************************************************************)
(* Ingestion as a whole: the queue (JobQueue) drives the pipeline          *)
(* (TrendsPipeline) through TrendsWorker.process.  Taking a job starts a   *)
(* run, the way the run ends decides what becomes of the job, and a crash  *)
(* of the process takes the run and leaves the job and the rows.           *)
(***************************************************************************)
EXTENDS TrendsPipeline, Sequences

CONSTANTS Dispatchers, MaxAttempts, MaxStalled, MaxCrashes

VARIABLES up, crashes, jobs, attempts, stalls, waitList, current, locked, todo, adding

\* History: job id -> runs begun for it since it was queued.
VARIABLE runs

Q == INSTANCE JobQueue

ASSUME IngestionAssumption == Q!QueueAssumption

queueOnly == <<up, crashes, jobs, attempts, stalls, waitList, current, locked, todo, adding>>
runOnly   == <<mined, pc, runVars, runs>>
allVars   == <<day, queueOnly, runOnly>>

IngestInit == Init /\ Q!Init /\ runs = [j \in Q!JobIds |-> 0]

-----------------------------------------------------------------------------
(* TrendsWorker.process *)

StartRun ==
    /\ Q!TakeJob
    /\ ExecuteScraperByName(current'[1])
    /\ runs' = [runs EXCEPT ![current'] = @ + 1]

Collect ==
    /\ RunStep
    /\ UNCHANGED <<queueOnly, runs>>

\* Mutants: the worker swallows the error of the run; it keeps the locals of a
\* run that is over; it rejects and never lets go of the run; it settles a job
\* whose lock it lost.
RunSucceedsAnyway ==
    pc \in {"done", "failed"} /\ Q!JobCompletes /\ Release /\ runs' = [runs EXCEPT ![current] = 0]
RunSucceedsKeepsLocals ==
    /\ pc = "done" /\ Q!JobCompletes /\ pc' = "idle" /\ UNCHANGED <<mined, runVars>>
    /\ runs' = [runs EXCEPT ![current] = 0]
RunRejectsKeepsRun == pc = "failed" /\ Q!JobFails /\ UNCHANGED runOnly
RunIsStaleSettles ==
    /\ pc \in {"done", "failed"} /\ current # Q!NoJob /\ ~locked
    /\ Q!Settle(current, "none") /\ Q!PutDown
    /\ Release
    /\ UNCHANGED <<up, crashes, waitList, todo, adding, runs>>

\* process() resolves with the result, or rethrows; BullMQ takes the outcome
\* unless the job's lock is gone.
RunSucceeds ==
    pc = "done" /\ Q!JobCompletes /\ Release /\ runs' = [runs EXCEPT ![current] = 0]
RunRejects  == pc = "failed" /\ Q!JobFails /\ Release /\ UNCHANGED runs
RunIsStale  == pc \in {"done", "failed"} /\ Q!OutcomeRefused /\ Release /\ UNCHANGED runs
EndRun      == RunSucceeds \/ RunRejects \/ RunIsStale

-----------------------------------------------------------------------------
(* Steps of one side, and of both *)

QueueStep ==
    /\ \/ \E d \in Dispatchers : Q!DispatchStep(d)
       \/ \E j \in Q!JobIds : Q!Promote(j) \/ Q!RecoverOrphan(j)
       \/ Q!LoseLock
       \/ Q!Restart
    /\ UNCHANGED runOnly

ProcessDies ==
    /\ Q!Crash
    /\ IF pc = "idle" THEN UNCHANGED runOnly ELSE Crash /\ UNCHANGED runs

Midnight == Q!NextDay /\ NextDay /\ UNCHANGED runs

IngestNext == StartRun \/ Collect \/ EndRun \/ QueueStep \/ ProcessDies \/ Midnight

IngestSpec == IngestInit /\ [][IngestNext]_allVars

\* Fairness as in the two components: the worker fetches, a run is driven to
\* its end, timers fire and the container comes back.
IngestFairSpec ==
    /\ IngestSpec
    /\ WF_allVars(StartRun)
    /\ WF_allVars(Collect)
    /\ WF_allVars(EndRun)
    /\ WF_allVars(Q!Restart /\ UNCHANGED runOnly)
    /\ \A j \in Q!JobIds :
          /\ WF_allVars(Q!Promote(j) /\ UNCHANGED runOnly)
          /\ WF_allVars(Q!RecoverOrphan(j) /\ UNCHANGED runOnly)

-----------------------------------------------------------------------------
(* Properties *)

\* Failed attempts, lost locks and dead processes all have a job run again, and
\* each by its own counter.  Taken together a job is still run no more often than
\* its attempts and stalls allow before it is completed or given up for good: a
\* stale run does not give its job a new start, and neither does a dispatch that
\* finds the job of the day given up (trends-pipeline.service.ts:50-70).
RunsAreBounded == \A j \in Q!JobIds : runs[j] <= MaxAttempts + MaxStalled

\* A job leaves the queue as completed only when its source has its quota since
\* the day of the run, or nothing the scraper offered is left to try: a crash, a
\* failed attempt or a lost lock never makes a half-done job look complete.
CompletedMeansDone ==
    [][\A j \in Q!JobIds : jobs[j] # "none" /\ jobs'[j] = "none" =>
         /\ pc = "done" /\ source = j[1]
         /\ \/ Cardinality(SavedSince(source, since)) >= Target
            \/ candidates = {} /\ work = {}]_allVars

\* Ingestion is the pipeline to the table and the queue to Redis: composing them
\* gives neither a step it does not have on its own.
ImplementsPipeline == Spec
ImplementsQueue    == Q!Spec

\* Every job that is queued is settled: its run comes to an end, is retried or
\* recovered, and the retries run out.
QueuedJobSettles ==
    \A j \in Q!JobIds : jobs[j] = "waiting" ~> jobs[j] \in {"none", "failed"}
=============================================================================
