------------------------------ MODULE JobQueue ------------------------------
(***************************************************************************)
(* The trend-scraper queue: dispatchAllScrapersToQueue, called by the cron *)
(* job and by the test-scraping endpoint, the worker of concurrency 1, and *)
(* BullMQ between them, as src/ configures and uses it (BullMQ itself is   *)
(* external).                                                              *)
(*                                                                         *)
(* A job id is <<source, day>>.  Redis keeps jobs over a crash of the      *)
(* backend; the dispatchers and the worker live in the backend process.    *)
(***************************************************************************)
EXTENDS Integers, Sequences, FiniteSets

CONSTANTS
    Sources,      \* source names of ScraperFactory
    Dispatchers,  \* callers of dispatchAllScrapersToQueue
    MaxAttempts,  \* `attempts` of the job options
    MaxStalled,   \* BullMQ's maxStalledCount, left at its default
    MaxDay,       \* bound: days 1..MaxDay
    MaxCrashes    \* bound: crashes of the backend process

Days   == 1..MaxDay
JobIds == Sources \X Days
NoJob  == <<>>

ASSUME QueueAssumption ==
    /\ MaxAttempts \in Nat \ {0}
    /\ MaxStalled \in Nat
    /\ MaxDay \in Nat \ {0}
    /\ MaxCrashes \in Nat

VARIABLES
    day,       \* today in Asia/Seoul
    up,        \* the backend process is running
    crashes,
    jobs,      \* job id -> state of the job in Redis
    attempts,  \* job id -> attemptsMade
    stalls,    \* job id -> times found stalled
    waitList,  \* ids of waiting jobs, next one first
    current,   \* the job the worker is processing
    locked,    \* the worker still owns the lock of its job
    todo,      \* dispatcher -> sources its loop has not reached
    adding     \* dispatcher -> the id it found free and is about to add

dispatchVars == <<todo, adding>>
workerVars   == <<current, locked>>
queueVars    == <<jobs, attempts, stalls, waitList>>
vars         == <<day, up, crashes, queueVars, workerVars, dispatchVars>>

States == {"none", "waiting", "active", "delayed", "failed"}

Init ==
    /\ day = 1
    /\ up = TRUE
    /\ crashes = 0
    /\ jobs = [j \in JobIds |-> "none"]
    /\ attempts = [j \in JobIds |-> 0]
    /\ stalls = [j \in JobIds |-> 0]
    /\ waitList = <<>>
    /\ current = NoJob
    /\ locked = FALSE
    /\ todo = [d \in Dispatchers |-> {}]
    /\ adding = [d \in Dispatchers |-> NoJob]

-----------------------------------------------------------------------------
(* dispatchAllScrapersToQueue *)

Dispatch(d) ==
    /\ up
    /\ todo[d] = {}
    /\ adding[d] = NoJob
    /\ todo' = [todo EXCEPT ![d] = Sources]
    /\ UNCHANGED <<day, up, crashes, queueVars, workerVars, adding>>

\* Mutant: a job of the day that was given up is started over.
GetJobRevives(d) ==
    /\ up
    /\ adding[d] = NoJob
    /\ \E s \in todo[d] :
          /\ todo' = [todo EXCEPT ![d] = @ \ {s}]
          /\ adding' = [adding EXCEPT ![d] =
                            IF jobs[<<s, day>>] = "none" THEN <<s, day>> ELSE NoJob]
          /\ IF jobs[<<s, day>>] = "failed"
             THEN /\ jobs' = [jobs EXCEPT ![<<s, day>>] = "waiting"]
                  /\ attempts' = [attempts EXCEPT ![<<s, day>>] = 0]
                  /\ waitList' = Append(waitList, <<s, day>>)
             ELSE UNCHANGED <<jobs, attempts, waitList>>
    /\ UNCHANGED <<day, up, crashes, stalls, workerVars>>

\* getJob (and getState, which is only logged): a job in any state, a failed
\* one too, makes the loop skip its source.
GetJob(d) ==
    /\ up
    /\ adding[d] = NoJob
    /\ \E s \in todo[d] :
          /\ todo' = [todo EXCEPT ![d] = @ \ {s}]
          /\ adding' = [adding EXCEPT ![d] =
                            IF jobs[<<s, day>>] = "none" THEN <<s, day>> ELSE NoJob]
    /\ UNCHANGED <<day, up, crashes, queueVars, workerVars>>

\* Mutant: the id is added without a look at the job that has it.
AddJobBlindly(d) ==
    /\ up
    /\ adding[d] # NoJob
    /\ adding' = [adding EXCEPT ![d] = NoJob]
    /\ jobs' = [jobs EXCEPT ![adding[d]] = "waiting"]
    /\ waitList' = Append(waitList, adding[d])
    /\ UNCHANGED <<day, up, crashes, attempts, stalls, workerVars, todo>>

\* scraperQueue.add: BullMQ ignores an id that exists by now.
AddJob(d) ==
    /\ up
    /\ adding[d] # NoJob
    /\ adding' = [adding EXCEPT ![d] = NoJob]
    /\ IF jobs[adding[d]] = "none"
       THEN /\ jobs' = [jobs EXCEPT ![adding[d]] = "waiting"]
            /\ waitList' = Append(waitList, adding[d])
       ELSE UNCHANGED <<jobs, waitList>>
    /\ UNCHANGED <<day, up, crashes, attempts, stalls, workerVars, todo>>

\* A command to Redis rejects: the loop is left with its sources undone.
DispatchFails(d) ==
    /\ up
    /\ todo[d] # {} \/ adding[d] # NoJob
    /\ todo' = [todo EXCEPT ![d] = {}]
    /\ adding' = [adding EXCEPT ![d] = NoJob]
    /\ UNCHANGED <<day, up, crashes, queueVars, workerVars>>

-----------------------------------------------------------------------------
(* The worker *)

TakeJob ==
    /\ up
    /\ current = NoJob
    /\ waitList # <<>>
    /\ current' = Head(waitList)
    /\ locked' = TRUE
    /\ waitList' = Tail(waitList)
    /\ jobs' = [jobs EXCEPT ![current'] = "active"]
    /\ UNCHANGED <<day, up, crashes, attempts, stalls, dispatchVars>>

\* The job goes (removeOnComplete) or ends here (removeOnFail keeps it).
Settle(j, state) ==
    /\ jobs' = [jobs EXCEPT ![j] = state]
    /\ attempts' = [attempts EXCEPT ![j] = IF state = "none" THEN 0 ELSE @]
    /\ stalls' = [stalls EXCEPT ![j] = IF state = "none" THEN 0 ELSE @]

PutDown ==
    /\ current' = NoJob
    /\ locked' = FALSE

JobCompletes ==
    /\ current # NoJob
    /\ locked
    /\ Settle(current, "none")
    /\ PutDown
    /\ UNCHANGED <<day, up, crashes, waitList, dispatchVars>>

\* Mutant: off by one, one attempt more than allowed.
JobFailsOnceMore ==
    /\ current # NoJob
    /\ locked
    /\ attempts' = [attempts EXCEPT ![current] = @ + 1]
    /\ jobs' = [jobs EXCEPT ![current] =
                    IF attempts'[current] <= MaxAttempts THEN "delayed" ELSE "failed"]
    /\ PutDown
    /\ UNCHANGED <<day, up, crashes, stalls, waitList, dispatchVars>>

\* The process function rejects: back off and try again, or give up.
JobFails ==
    /\ current # NoJob
    /\ locked
    /\ attempts' = [attempts EXCEPT ![current] = @ + 1]
    /\ jobs' = [jobs EXCEPT ![current] =
                    IF attempts'[current] < MaxAttempts THEN "delayed" ELSE "failed"]
    /\ PutDown
    /\ UNCHANGED <<day, up, crashes, stalls, waitList, dispatchVars>>

\* The run ends, well or not, after its lock was taken away: Redis refuses the
\* outcome and the job is left as it is.
OutcomeRefused ==
    /\ current # NoJob
    /\ ~locked
    /\ PutDown
    /\ UNCHANGED <<day, up, crashes, queueVars, dispatchVars>>

-----------------------------------------------------------------------------
(* What BullMQ does on its own *)

\* The backoff of a delayed job is over.
Promote(j) ==
    /\ up
    /\ jobs[j] = "delayed"
    /\ jobs' = [jobs EXCEPT ![j] = "waiting"]
    /\ waitList' = Append(waitList, j)
    /\ UNCHANGED <<day, up, crashes, attempts, stalls, workerVars, dispatchVars>>

\* A job found active without a lock goes back in front, or fails when that
\* has happened too often.
Stalled(j) ==
    /\ jobs[j] = "active"
    /\ IF stalls[j] < MaxStalled
       THEN /\ jobs' = [jobs EXCEPT ![j] = "waiting"]
            /\ stalls' = [stalls EXCEPT ![j] = @ + 1]
            /\ waitList' = <<j>> \o waitList
       ELSE /\ jobs' = [jobs EXCEPT ![j] = "failed"]
            /\ UNCHANGED <<stalls, waitList>>
    /\ UNCHANGED <<day, up, crashes, attempts, current, dispatchVars>>

\* The stalled check finds a job whose process died.
RecoverOrphan(j) ==
    /\ up
    /\ current # j
    /\ Stalled(j)
    /\ UNCHANGED locked

\* The lock expired while the run goes on (Redis could not be reached to renew
\* it), and the stalled check takes the job away from under the run.
LoseLock ==
    /\ up
    /\ current # NoJob
    /\ locked
    /\ Stalled(current)
    /\ locked' = FALSE

-----------------------------------------------------------------------------
(* The process and the calendar *)

Crash ==
    /\ up
    /\ crashes < MaxCrashes
    /\ crashes' = crashes + 1
    /\ up' = FALSE
    /\ PutDown
    /\ todo' = [d \in Dispatchers |-> {}]
    /\ adding' = [d \in Dispatchers |-> NoJob]
    /\ UNCHANGED <<day, queueVars>>

Restart ==
    /\ ~up
    /\ up' = TRUE
    /\ UNCHANGED <<day, crashes, queueVars, workerVars, dispatchVars>>

NextDay ==
    /\ day < MaxDay
    /\ day' = day + 1
    /\ UNCHANGED <<up, crashes, queueVars, workerVars, dispatchVars>>

DispatchStep(d) == Dispatch(d) \/ GetJob(d) \/ AddJob(d) \/ DispatchFails(d)
EndJob          == JobCompletes \/ JobFails \/ OutcomeRefused

Next ==
    \/ \E d \in Dispatchers : DispatchStep(d)
    \/ TakeJob
    \/ EndJob
    \/ \E j \in JobIds : Promote(j) \/ RecoverOrphan(j)
    \/ LoseLock
    \/ Crash
    \/ Restart
    \/ NextDay

Spec == Init /\ [][Next]_vars

-----------------------------------------------------------------------------
(* Properties *)

\* Every variable keeps its type.
TypeOK ==
    /\ day \in Days
    /\ up \in BOOLEAN
    /\ crashes \in 0..MaxCrashes
    /\ jobs \in [JobIds -> States]
    /\ attempts \in [JobIds -> 0..MaxAttempts]
    /\ stalls \in [JobIds -> 0..MaxStalled]
    /\ waitList \in Seq(JobIds)
    /\ current \in JobIds \cup {NoJob}
    /\ locked \in BOOLEAN
    /\ todo \in [Dispatchers -> SUBSET Sources]
    /\ adding \in [Dispatchers -> JobIds \cup {NoJob}]

\* A job waits exactly when its id is in the list, and then once: the cron job
\* and the endpoint dispatching together, a retry or a recovered job never put
\* a second copy of a day's job in the queue (trends-pipeline.service.ts:50-75).
WaitsOnce ==
    /\ \A j \in JobIds : jobs[j] = "waiting" <=> \E i \in DOMAIN waitList : waitList[i] = j
    /\ \A i, k \in DOMAIN waitList : waitList[i] = waitList[k] => i = k

\* A job is given up only when its attempts are used up or it stalled once more
\* than allowed, and a job in play has attempts left (attempts: 3, line 66).
GivenUpOnlyWhenSpent ==
    \A j \in JobIds :
        /\ jobs[j] = "failed" => attempts[j] = MaxAttempts \/ stalls[j] = MaxStalled
        /\ jobs[j] \in {"waiting", "active", "delayed"} => attempts[j] < MaxAttempts

\* A dispatch leaves every job that exists as it is: its state, its attempts
\* and its place in the list, also when the job appeared between getJob and add.
DispatchKeepsJobs ==
    [][(\E d \in Dispatchers : DispatchStep(d)) =>
         /\ \A j \in JobIds : jobs[j] # "none" =>
               <<jobs[j], attempts[j], stalls[j]>>' = <<jobs[j], attempts[j], stalls[j]>>
         /\ SubSeq(waitList', 1, Len(waitList)) = waitList]_vars
=============================================================================
