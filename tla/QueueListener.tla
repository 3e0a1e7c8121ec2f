---------------------------- MODULE QueueListener ----------------------------
(***************************************************************************)
(* TrendQueueEventsListener: what the backend announces when a job of the  *)
(* trend-scraper queue ends.  BullMQ (external) appends an event to a      *)
(* stream in Redis; the listener, in the same process as the worker, reads *)
(* from the end of the stream at its start, so that an event it has not    *)
(* handled when the process dies is lost.  Nobody awaits a handler:        *)
(* handlers of several events run side by side.                            *)
(*                                                                         *)
(* A row is its source and its place among the rows of the source; the     *)
(* table keeps the day it was stored (mined_at).  Of the queue the module   *)
(* keeps what an event or a row can tell: which job is run, whether the     *)
(* run still owns its lock, which jobs are begun and not over.  JobQueue    *)
(* has the attempts and the wait list, TrendsPipeline the run.              *)
(***************************************************************************)
EXTENDS Integers, Sequences, FiniteSets

CONSTANTS
    Sources,
    MaxListed,  \* entries of a message that fit into 1800 characters: one
                \* at least, a title has 255
    MaxRows,    \* bound: rows of a source
    MaxEvents,  \* bound: events, one for each job that ends
    MaxDay,     \* bound: days 1..MaxDay
    MaxCrashes, \* bound: crashes of the backend process
    MaxFaults   \* bound: queries and posts that fail

NoJob  == <<>>
Days   == 1..MaxDay
JobIds == Sources \X Days

ASSUME ListenerAssumption ==
    /\ {MaxDay, MaxListed} \subseteq Nat \ {0}
    /\ {MaxRows, MaxEvents, MaxCrashes, MaxFaults} \subseteq Nat

VARIABLES
    day,
    up,      \* the backend process is running
    crashes,
    faults,
    rows,    \* source -> days its rows were stored on, oldest row first
    running, \* <<source, day>> of the job the worker is processing
    locked,  \* the worker still owns the lock of its job
    inPlay,  \* jobs begun and not over: at work, or to be run again
    orphans, \* those among them whose process died at work
    failed,  \* jobs given up: kept, they bar their source for the day
    late,    \* history: <<source, i>> of rows stored when their job was over
    events   \* the stream, each event with the state of its handler

jobVars == <<running, locked, inPlay, orphans, failed>>
envVars == <<day, up, crashes, rows, jobVars, late>>
vars    == <<envVars, faults, events>>

Steps == {"sent", "querying", "admin", "user", "invalidating", "done", "hung", "lost"}

Event(s, isCompleted) ==
    [source    |-> s,
     completed |-> isCompleted,
     upTo      |-> Len(rows[s]),  \* history: rows stored when the job ended
     step      |-> "sent",
     since     |-> 0,             \* the day the handler asks for
     begun     |-> 0,             \* history: the day the handler began
     saved     |-> {},            \* the rows its query found
     listed    |-> {},            \* the rows named in the user channel
     others    |-> 0,             \* and how many more it speaks of
     trouble   |-> FALSE]         \* history: its query or its user post failed

Init ==
    /\ day = 1
    /\ up = TRUE
    /\ crashes = 0
    /\ faults = 0
    /\ rows = [s \in Sources |-> <<>>]
    /\ running = NoJob
    /\ locked = FALSE
    /\ inPlay = {} /\ orphans = {} /\ failed = {} /\ late = {}
    /\ events = <<>>

-----------------------------------------------------------------------------
(* The worker, as far as the listener can tell *)

\* A job may have waited since an earlier day; one that is run again was in
\* play already.
StartJob(s) ==
    /\ up
    /\ running = NoJob
    /\ Len(events) < MaxEvents
    /\ running' \in {<<s, d>> : d \in 1..day} \ failed
    /\ locked' = TRUE
    /\ inPlay' = inPlay \cup {running'}
    /\ orphans' = orphans \ {running'}
    /\ UNCHANGED <<day, up, crashes, faults, rows, failed, late, events>>

\* A run goes on inserting when its lock is gone, also when its job is over.
SaveTrend ==
    /\ running # NoJob
    /\ LET s == running[1]
       IN  /\ Len(rows[s]) < MaxRows
           /\ rows' = [rows EXCEPT ![s] = Append(@, day)]
           /\ late' = IF running \in inPlay THEN late
                      ELSE late \cup {<<s, Len(rows[s]) + 1>>}
    /\ UNCHANGED <<day, up, crashes, faults, jobVars, events>>

\* BullMQ ends job j: its event goes to the stream; a job given up stays.
Finish(j, isCompleted) ==
    /\ Len(events) < MaxEvents
    /\ events' = Append(events, Event(j[1], isCompleted))
    /\ inPlay' = inPlay \ {j}
    /\ failed' = IF isCompleted THEN failed ELSE failed \cup {j}
    /\ UNCHANGED <<day, up, crashes, faults, rows, late>>

PutDown ==
    /\ running' = NoJob
    /\ locked' = FALSE
    /\ UNCHANGED orphans

\* The run resolves, or rejects and was the last attempt.
JobEnds(isCompleted) ==
    /\ locked
    /\ Finish(running, isCompleted)
    /\ PutDown

\* The run rejects and has attempts left: no event, the job is run again later.
AttemptFails ==
    /\ locked
    /\ PutDown
    /\ UNCHANGED <<day, up, crashes, faults, rows, inPlay, failed, late, events>>

\* The lock expired under the run, and the stalled check puts the job back in
\* line, or gives it up if that has happened too often: the run goes on.
LoseLock ==
    /\ up
    /\ locked
    /\ locked' = FALSE
    /\ \/ UNCHANGED <<day, up, crashes, faults, rows, inPlay, failed, late, events>>
       \/ Finish(running, FALSE)
    /\ UNCHANGED <<running, orphans>>

\* The run of a lost lock ends, well or not: Redis refuses the outcome, and no
\* event tells of it.
OutcomeRefused ==
    /\ running # NoJob
    /\ ~locked
    /\ PutDown
    /\ UNCHANGED <<day, up, crashes, faults, rows, inPlay, failed, late, events>>

\* The stalled check gives up a job whose process died.  One it puts back in
\* line is in play as before.
GiveUpOrphan(j) ==
    /\ up
    /\ j \in orphans
    /\ Finish(j, FALSE)
    /\ orphans' = orphans \ {j}
    /\ UNCHANGED <<running, locked>>

-----------------------------------------------------------------------------
(* onCompleted and onFailed *)

At(n, step) == n \in DOMAIN events /\ events[n].step = step

Handled(n) == At(n, "done") \/ At(n, "hung") \/ At(n, "lost")

\* Mutant: the next event is read when the handler of the one before has returned.
DeliverOneByOne(n) ==
    /\ At(n, "sent")
    /\ \A k \in 1..(n - 1) : events[k].step \in {"done", "lost"}
    /\ events' = [events EXCEPT ![n].step = IF events[n].completed THEN "querying" ELSE "admin",
                                ![n].since = day, ![n].begun = day]
    /\ UNCHANGED <<envVars, faults>>

\* Mutant: the day is the UTC day, which begins nine hours later.
DeliverWithWrongDay(n) ==
    /\ At(n, "sent")
    /\ \A k \in 1..(n - 1) : events[k].step # "sent"
    /\ \E d \in {day, day + 1} :
       events' = [events EXCEPT ![n].step = IF events[n].completed THEN "querying" ELSE "admin",
                                ![n].since = d, ![n].begun = day]
    /\ UNCHANGED <<envVars, faults>>

\* The handler starts: onCompleted computes getTodayStartUtc and sends its query.
Deliver(n) ==
    /\ At(n, "sent")
    /\ \A k \in 1..(n - 1) : events[k].step # "sent"
    /\ events' = [events EXCEPT ![n].step = IF events[n].completed THEN "querying" ELSE "admin",
                                ![n].since = day, ![n].begun = day]
    /\ UNCHANGED <<envVars, faults>>

FindSavedSince(s, since) == {i \in DOMAIN rows[s] : rows[s][i] >= since}

QueryReturns(n) ==
    /\ At(n, "querying")
    /\ events' = [events EXCEPT ![n].step = "admin",
                                ![n].saved = FindSavedSince(events[n].source, events[n].since)]
    /\ UNCHANGED <<envVars, faults>>

Fault ==
    /\ faults < MaxFaults
    /\ faults' = faults + 1

\* A failed query counts as an empty day.
QueryFails(n) ==
    /\ At(n, "querying")
    /\ Fault
    /\ events' = [events EXCEPT ![n].step = "admin", ![n].trouble = TRUE]
    /\ UNCHANGED envVars

\* Mutant: one return for the admin channel only.
AfterAdminSilent(e) == IF e.completed THEN "invalidating" ELSE "done"

AfterAdmin(e) ==
    IF e.saved # {} THEN "user" ELSE IF e.completed THEN "invalidating" ELSE "done"

\* sendNotification: posted, refused or without a webhook, the handler goes on.
AdminSent(n) ==
    /\ At(n, "admin")
    /\ events' = [events EXCEPT ![n].step = AfterAdmin(events[n])]
    /\ UNCHANGED <<envVars, faults>>

\* The oldest rows of the day, as many as the message holds.
Listed(saved) == {i \in saved : Cardinality({k \in saved : k < i}) < MaxListed}

\* Mutant: the rest is counted from the last row named on.
UserSentMiscounts(n) ==
    /\ At(n, "user")
    /\ LET saved == events[n].saved
       IN  events' = [events EXCEPT ![n].step = "invalidating",
                                    ![n].listed = Listed(saved),
                                    ![n].others = Cardinality(saved) - Cardinality(Listed(saved)) + 1]
    /\ UNCHANGED <<envVars, faults>>

UserSent(n) ==
    /\ At(n, "user")
    /\ LET saved == events[n].saved
       IN  events' = [events EXCEPT ![n].step = "invalidating",
                                    ![n].listed = Listed(saved),
                                    ![n].others = Cardinality(saved \ Listed(saved))]
    /\ UNCHANGED <<envVars, faults>>

\* Refused, or no webhook is set: logged and forgotten.
UserFails(n) ==
    /\ At(n, "user")
    /\ Fault
    /\ events' = [events EXCEPT ![n].step = "invalidating", ![n].trouble = TRUE]
    /\ UNCHANGED envVars

\* The post has no timeout: its answer may never come.
PostHangs(n) ==
    /\ At(n, "admin") \/ At(n, "user")
    /\ Fault
    /\ events' = [events EXCEPT ![n].step = "hung"]
    /\ UNCHANGED envVars

\* invalidateSources; what it does to readers is in ReadThrough.
Invalidated(n) ==
    /\ At(n, "invalidating")
    /\ events' = [events EXCEPT ![n].step = "done"]
    /\ UNCHANGED <<envVars, faults>>

-----------------------------------------------------------------------------
(* The process and the calendar *)

Crash ==
    /\ up
    /\ crashes < MaxCrashes
    /\ crashes' = crashes + 1
    /\ up' = FALSE
    /\ running' = NoJob
    /\ locked' = FALSE
    /\ orphans' = IF locked THEN orphans \cup {running} ELSE orphans
    /\ events' = [n \in DOMAIN events |->
                    IF events[n].step = "done" THEN events[n] ELSE [events[n] EXCEPT !.step = "lost"]]
    /\ UNCHANGED <<day, faults, rows, inPlay, failed, late>>

Restart ==
    /\ ~up
    /\ up' = TRUE
    /\ UNCHANGED <<day, crashes, faults, rows, jobVars, late, events>>

NextDay ==
    /\ day < MaxDay
    /\ day' = day + 1
    /\ UNCHANGED <<up, crashes, faults, rows, jobVars, late, events>>

HandlerStep(n) ==
    \/ Deliver(n)
    \/ QueryReturns(n) \/ QueryFails(n)
    \/ AdminSent(n) \/ UserSent(n) \/ UserFails(n)
    \/ Invalidated(n)

\* No event or no job is left within the bounds.
Idle ==
    /\ \/ Len(events) = MaxEvents
       \/ running = NoJob /\ Sources \X (1..day) \subseteq failed
    /\ UNCHANGED vars

Next ==
    \/ \E s \in Sources : StartJob(s)
    \/ SaveTrend
    \/ \E isCompleted \in BOOLEAN : JobEnds(isCompleted)
    \/ AttemptFails
    \/ LoseLock
    \/ OutcomeRefused
    \/ \E j \in orphans : GiveUpOrphan(j)
    \/ \E n \in DOMAIN events : HandlerStep(n) \/ PostHangs(n)
    \/ Crash
    \/ Restart
    \/ NextDay
    \/ Idle

Spec == Init /\ [][Next]_vars

\* BullMQ delivers, the database answers, and a post that does not hang ends.
FairSpec == Spec /\ \A n \in 1..MaxEvents : WF_vars(HandlerStep(n))

-----------------------------------------------------------------------------
(* Properties *)

\* Every variable keeps its type.
TypeOK ==
    /\ day \in Days
    /\ up \in BOOLEAN
    /\ crashes \in 0..MaxCrashes
    /\ faults \in 0..MaxFaults
    /\ rows \in [Sources -> Seq(Days)]
    /\ running \in JobIds \cup {NoJob}
    /\ locked \in BOOLEAN
    /\ {inPlay, orphans, failed} \subseteq SUBSET JobIds
    /\ late \subseteq Sources \X (1..MaxRows)
    /\ \A n \in DOMAIN events :
          LET e == events[n] IN
          /\ e.source \in Sources /\ {e.completed, e.trouble} \subseteq BOOLEAN
          /\ e.step \in Steps /\ {e.since, e.begun} \subseteq {0} \cup Days
          /\ e.listed \subseteq e.saved /\ e.saved \subseteq DOMAIN rows[e.source]
          /\ {e.upTo, e.others} \subseteq Nat

\* A completed event handled without trouble accounts for every row its job, an
\* earlier try of it or an earlier job of the source stored on that day: the oldest
\* by name, the rest by number (trends-queue.events.ts:38-86).
AnnouncesWholeDay ==
    \A n \in DOMAIN events :
        LET e      == events[n]
            todays == {i \in 1..e.upTo : rows[e.source][i] >= e.begun}
        IN  e.completed /\ e.step = "done" /\ ~e.trouble =>
              /\ todays \subseteq e.saved
              /\ Cardinality(e.listed) + e.others = Cardinality(e.saved)
              /\ \A i \in e.listed, k \in e.saved \ e.listed : i < k

\* A row that was stored and is announced by nobody has a reason.  No event of its
\* source came since: then a job of the source is still in play and an event will
\* come, or the row was stored by a run that had lost its lock and its job with it.
\* Or events came: then each was of a job given up, was lost or hangs, met trouble,
\* or was handled after midnight.  No crash, retry or recovered job leaves a row
\* behind on its own (trends-queue.events.ts:23-104, trends.worker.ts:20-30).
MissedForAReason ==
    \A s \in Sources : \A i \in DOMAIN rows[s] :
        LET later == {n \in DOMAIN events : events[n].source = s /\ events[n].upTo >= i}
        IN  \/ \E n \in DOMAIN events :
                  events[n].source = s /\ i \in events[n].saved /\ events[n].listed # {}
            \/ later = {} /\ (<<s, i>> \in late \/ \E j \in inPlay : j[1] = s)
            \/ later # {} /\ \A n \in later :
                  \/ ~events[n].completed
                  \/ events[n].step # "done"
                  \/ events[n].trouble
                  \/ events[n].begun > rows[s][i]

\* Every event is handled to the end, unless the process dies, or its own post
\* hangs: a hung post holds up no other event.
EveryEventHandled ==
    \A n \in 1..MaxEvents : At(n, "sent") ~> Handled(n)
=============================================================================
