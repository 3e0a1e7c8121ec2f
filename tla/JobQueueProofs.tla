--------------------------- MODULE JobQueueProofs ---------------------------
(***************************************************************************)
(* Proofs about JobQueue, for every set of sources and dispatchers, every  *)
(* number of attempts, stalls, days and crashes.                           *)
(*                                                                         *)
(* The argument: a job that has no lock left but is still the worker's     *)
(* (OutcomeRefused) can be anywhere; only LockedIsActive says that an      *)
(* outcome that Redis accepts is the outcome of an active job.  FreshJob   *)
(* says that an id that is free again has its attempts back.               *)
(***************************************************************************)
EXTENDS JobQueue, SequenceTheorems, TLAPS

\* While the worker owns the lock of its job, the job is active.
LockedIsActive == locked => current # NoJob /\ jobs[current] = "active"

\* An id that no job has was never tried, or its job went with its attempts.
FreshJob == \A j \in JobIds : jobs[j] = "none" => attempts[j] = 0

\* WaitsOnce for any table of jobs js and any list w.
ListMatches(js, w) ==
    /\ \A j \in JobIds : js[j] = "waiting" <=> \E i \in DOMAIN w : w[i] = j
    /\ \A i, k \in DOMAIN w : w[i] = w[k] => i = k

IInv ==
    /\ TypeOK
    /\ WaitsOnce
    /\ GivenUpOnlyWhenSpent
    /\ LockedIsActive
    /\ FreshJob

-----------------------------------------------------------------------------
(* Lemmas about the list of waiting jobs *)

\* The empty id is no job's.
LEMMA NoJobIsNoId == NoJob \notin JobIds
BY DEF NoJob, JobIds

\* A job that does not wait is put at the end of the list (AddJob, Promote).
LEMMA JoinsAtTheEnd ==
    ASSUME NEW js \in [JobIds -> States], NEW w \in Seq(JobIds), ListMatches(js, w),
           NEW j \in JobIds, js[j] # "waiting"
    PROVE  ListMatches([js EXCEPT ![j] = "waiting"], Append(w, j))
<1>. DEFINE n == [js EXCEPT ![j] = "waiting"]
            v == Append(w, j)
<1>1. Len(w) \in Nat /\ DOMAIN w = 1..Len(w)
  BY LenProperties
<1>2. /\ v \in Seq(JobIds)
      /\ Len(v) = Len(w) + 1
      /\ \A i \in 1..Len(w) : v[i] = w[i]
      /\ v[Len(w) + 1] = j
  BY AppendProperties
<1>3. DOMAIN v = 1..Len(w) + 1
  BY <1>2, LenProperties
<1>4. \A i \in 1..Len(w) : w[i] # j
  BY <1>1 DEF ListMatches
<1>5. \A k \in JobIds : n[k] = IF k = j THEN "waiting" ELSE js[k]
  OBVIOUS
<1>. HIDE DEF n, v
<1>6. ASSUME NEW k \in JobIds PROVE n[k] = "waiting" <=> \E i \in DOMAIN v : v[i] = k
  <2>1. CASE k = j
    BY <1>1, <1>2, <1>3, <1>5, <2>1
  <2>2. CASE k # j
    <3>1. (\E i \in DOMAIN v : v[i] = k) <=> \E i \in DOMAIN w : w[i] = k
      BY <1>1, <1>2, <1>3, <2>2
    <3>. QED
      BY <1>5, <2>2, <3>1 DEF ListMatches
  <2>. QED
    BY <2>1, <2>2
<1>7. ASSUME NEW i \in DOMAIN v, NEW k \in DOMAIN v, v[i] = v[k] PROVE i = k
  BY <1>1, <1>2, <1>3, <1>4, <1>7 DEF ListMatches
<1>. QED
  BY <1>6, <1>7 DEF ListMatches, n, v

\* A job that does not wait is put back in front of the list (Stalled).
LEMMA JoinsInFront ==
    ASSUME NEW js \in [JobIds -> States], NEW w \in Seq(JobIds), ListMatches(js, w),
           NEW j \in JobIds, js[j] # "waiting"
    PROVE  /\ ListMatches([js EXCEPT ![j] = "waiting"], <<j>> \o w)
           /\ <<j>> \o w \in Seq(JobIds)
<1>. DEFINE n == [js EXCEPT ![j] = "waiting"]
            v == <<j>> \o w
<1>1. Len(w) \in Nat /\ DOMAIN w = 1..Len(w)
  BY LenProperties
<1>2. <<j>> \in Seq(JobIds) /\ Len(<<j>>) = 1 /\ <<j>>[1] = j
  OBVIOUS
<1>3. /\ v \in Seq(JobIds)
      /\ Len(v) = 1 + Len(w)
      /\ \A i \in 1..1 + Len(w) : v[i] = IF i <= 1 THEN <<j>>[i] ELSE w[i - 1]
  BY <1>2, ConcatProperties
<1>4. DOMAIN v = 1..1 + Len(w)
  BY <1>3, LenProperties
<1>5. v[1] = j /\ \A i \in 1..Len(w) : v[i + 1] = w[i]
  BY <1>1, <1>2, <1>3
<1>6. \A i \in 1..Len(w) : w[i] # j
  BY <1>1 DEF ListMatches
<1>7. \A k \in JobIds : n[k] = IF k = j THEN "waiting" ELSE js[k]
  OBVIOUS
<1>. HIDE DEF n, v
<1>8. \A i \in DOMAIN v : i = 1 \/ (i - 1 \in 1..Len(w) /\ v[i] = w[i - 1])
  BY <1>1, <1>3, <1>4
<1>9. ASSUME NEW k \in JobIds PROVE n[k] = "waiting" <=> \E i \in DOMAIN v : v[i] = k
  <2>1. CASE k = j
    BY <1>1, <1>4, <1>5, <1>7, <2>1
  <2>2. CASE k # j
    <3>1. ASSUME NEW i \in DOMAIN v, v[i] = k PROVE \E m \in DOMAIN w : w[m] = k
      BY <1>1, <1>5, <1>8, <2>2, <3>1
    <3>2. ASSUME NEW i \in DOMAIN w, w[i] = k PROVE \E m \in DOMAIN v : v[m] = k
      <4>1. i + 1 \in DOMAIN v /\ v[i + 1] = k
        BY <1>1, <1>4, <1>5, <3>2
      <4>. QED
        BY <4>1
    <3>. QED
      BY <1>7, <2>2, <3>1, <3>2 DEF ListMatches
  <2>. QED
    BY <2>1, <2>2
<1>10. ASSUME NEW i \in DOMAIN v, NEW k \in DOMAIN v, v[i] = v[k] PROVE i = k
  BY <1>1, <1>4, <1>5, <1>6, <1>8, <1>10 DEF ListMatches
<1>. QED
  BY <1>3, <1>9, <1>10 DEF ListMatches, n, v

\* The first waiting job leaves the list (TakeJob).
LEMMA FirstLeaves ==
    ASSUME NEW js \in [JobIds -> States], NEW w \in Seq(JobIds), ListMatches(js, w),
           w # <<>>
    PROVE  /\ Head(w) \in JobIds
           /\ js[Head(w)] = "waiting"
           /\ Tail(w) \in Seq(JobIds)
           /\ ListMatches([js EXCEPT ![Head(w)] = "active"], Tail(w))
<1>. DEFINE h == Head(w)
            n == [js EXCEPT ![h] = "active"]
            v == Tail(w)
<1>1. Len(w) \in Nat \ {0} /\ DOMAIN w = 1..Len(w)
  BY LenProperties, EmptySeq
<1>2. /\ h \in JobIds
      /\ v \in Seq(JobIds)
      /\ Len(v) = Len(w) - 1
      /\ \A i \in 1..Len(v) : v[i] = w[i + 1]
  BY HeadTailProperties
<1>3. h = w[1]
  BY <1>1
<1>4. DOMAIN v = 1..Len(w) - 1
  BY <1>2, LenProperties
<1>5. js[h] = "waiting"
  BY <1>1, <1>2, <1>3 DEF ListMatches
<1>6. \A k \in JobIds : n[k] = IF k = h THEN "active" ELSE js[k]
  BY <1>2
<1>. HIDE DEF h, n, v
<1>7. \A i \in 1..Len(w) - 1 : i + 1 \in DOMAIN w /\ v[i] = w[i + 1]
  BY <1>1, <1>2
<1>8. ASSUME NEW k \in JobIds PROVE n[k] = "waiting" <=> \E i \in DOMAIN v : v[i] = k
  <2>1. CASE k = h
    <3>1. ASSUME NEW i \in DOMAIN v, v[i] = h PROVE FALSE
      <4>1. i \in 1..Len(w) - 1 /\ i + 1 \in DOMAIN w /\ w[i + 1] = w[1]
        BY <1>3, <1>4, <1>7, <3>1
      <4>2. 1 \in DOMAIN w
        BY <1>1
      <4>3. i + 1 = 1
        BY <4>1, <4>2 DEF ListMatches
      <4>. QED
        BY <4>1, <4>3
    <3>. QED
      BY <1>6, <2>1, <3>1
  <2>2. CASE k # h
    <3>1. ASSUME NEW i \in DOMAIN w, w[i] = k PROVE \E m \in DOMAIN v : v[m] = k
      <4>1. i - 1 \in 1..Len(w) - 1
        BY <1>1, <1>3, <2>2, <3>1
      <4>2. v[i - 1] = w[i]
        BY <1>1, <1>7, <4>1
      <4>. QED
        BY <1>4, <3>1, <4>1, <4>2
    <3>2. ASSUME NEW i \in DOMAIN v, v[i] = k PROVE \E m \in DOMAIN w : w[m] = k
      BY <1>4, <1>7, <3>2
    <3>. QED
      BY <1>6, <2>2, <3>1, <3>2 DEF ListMatches
  <2>. QED
    BY <2>1, <2>2
<1>9. ASSUME NEW i \in DOMAIN v, NEW k \in DOMAIN v, v[i] = v[k] PROVE i = k
  <2>1. i \in 1..Len(w) - 1 /\ k \in 1..Len(w) - 1
    BY <1>4
  <2>2. i + 1 \in DOMAIN w /\ k + 1 \in DOMAIN w /\ w[i + 1] = w[k + 1]
    BY <1>7, <1>9, <2>1
  <2>3. i + 1 = k + 1
    BY <2>2 DEF ListMatches
  <2>. QED
    BY <1>1, <2>1, <2>3
<1>. QED
  BY <1>2, <1>5, <1>8, <1>9 DEF ListMatches, h, n, v

\* A job that neither waits nor comes to wait leaves the list as it is.
LEMMA OthersStayInLine ==
    ASSUME NEW js \in [JobIds -> States], NEW w, ListMatches(js, w),
           NEW j \in JobIds, js[j] # "waiting", NEW s, s # "waiting"
    PROVE  ListMatches([js EXCEPT ![j] = s], w)
BY DEF ListMatches

-----------------------------------------------------------------------------
(* The invariant *)

\* It holds at the start.
LEMMA InitIInv == Init => IInv
<1> SUFFICES ASSUME Init PROVE IInv
  OBVIOUS
<1>1. TypeOK
  <2>1. 1 \in Days /\ 0 \in 0..MaxCrashes
    BY QueueAssumption DEF Days
  <2>2. /\ [j \in JobIds |-> "none"] \in [JobIds -> States]
        /\ [j \in JobIds |-> 0] \in [JobIds -> 0..MaxAttempts]
        /\ [j \in JobIds |-> 0] \in [JobIds -> 0..MaxStalled]
    BY QueueAssumption DEF States
  <2>3. [d \in Dispatchers |-> {}] \in [Dispatchers -> SUBSET Sources]
    OBVIOUS
  <2>4. [d \in Dispatchers |-> NoJob] \in [Dispatchers -> JobIds \cup {NoJob}]
    OBVIOUS
  <2>5. <<>> \in Seq(JobIds)
    OBVIOUS
  <2>. QED
    BY <2>1, <2>2, <2>3, <2>4, <2>5 DEF Init, TypeOK
<1>2. DOMAIN waitList = {}
  BY DEF Init
<1>3. WaitsOnce
  BY <1>2 DEF Init, WaitsOnce
<1>. QED
  BY <1>1, <1>3, QueueAssumption
     DEF Init, IInv, GivenUpOnlyWhenSpent, LockedIsActive, FreshJob

\* A job found active without a lock: what Stalled leaves behind.
LEMMA StalledStep ==
    ASSUME IInv, NEW j \in JobIds, Stalled(j)
    PROVE  /\ jobs' \in [JobIds -> States]
           /\ stalls' \in [JobIds -> 0..MaxStalled]
           /\ waitList' \in Seq(JobIds)
           /\ WaitsOnce'
           /\ GivenUpOnlyWhenSpent'
           /\ FreshJob'
           /\ \A k \in JobIds \ {j} : jobs'[k] = jobs[k]
<1>. USE QueueAssumption
<1>1. ListMatches(jobs, waitList)
  BY DEF IInv, WaitsOnce, ListMatches
<1>2. jobs[j] = "active" /\ attempts' = attempts
  BY DEF Stalled
<1>3. CASE stalls[j] < MaxStalled
  <2>1. /\ jobs' = [jobs EXCEPT ![j] = "waiting"]
        /\ stalls' = [stalls EXCEPT ![j] = @ + 1]
        /\ waitList' = <<j>> \o waitList
    BY <1>3 DEF Stalled
  <2>2. ListMatches(jobs', waitList') /\ waitList' \in Seq(JobIds)
    BY <1>1, <1>2, <2>1, JoinsInFront DEF IInv, TypeOK
  <2>3. jobs' \in [JobIds -> States] /\ stalls' \in [JobIds -> 0..MaxStalled]
    BY <1>3, <2>1 DEF IInv, TypeOK, States
  <2>4. GivenUpOnlyWhenSpent' /\ FreshJob'
    BY <1>2, <2>1 DEF IInv, TypeOK, GivenUpOnlyWhenSpent, FreshJob
  <2>. QED
    BY <2>1, <2>2, <2>3, <2>4 DEF IInv, TypeOK, WaitsOnce, ListMatches
<1>4. CASE ~(stalls[j] < MaxStalled)
  <2>1. /\ jobs' = [jobs EXCEPT ![j] = "failed"]
        /\ stalls' = stalls /\ waitList' = waitList
    BY <1>4 DEF Stalled
  <2>2. ListMatches(jobs', waitList')
    BY <1>1, <1>2, <2>1, OthersStayInLine DEF IInv, TypeOK
  <2>3. jobs' \in [JobIds -> States]
    BY <2>1 DEF IInv, TypeOK, States
  <2>4. stalls[j] = MaxStalled
    BY <1>4 DEF IInv, TypeOK
  <2>5. GivenUpOnlyWhenSpent' /\ FreshJob'
    BY <1>2, <2>1, <2>4 DEF IInv, TypeOK, GivenUpOnlyWhenSpent, FreshJob
  <2>. QED
    BY <2>1, <2>2, <2>3, <2>5 DEF IInv, TypeOK, WaitsOnce, ListMatches
<1>. QED
  BY <1>3, <1>4

\* Every step keeps it.
LEMMA NextIInv == IInv /\ [Next]_vars => IInv'
<1> SUFFICES ASSUME IInv, [Next]_vars PROVE IInv'
  OBVIOUS
<1>. USE QueueAssumption
<1>a. ListMatches(jobs, waitList)
  BY DEF IInv, WaitsOnce, ListMatches
<1>b. ASSUME ListMatches(jobs, waitList)' PROVE WaitsOnce'
  BY <1>b DEF WaitsOnce, ListMatches
<1>c. ASSUME UNCHANGED queueVars PROVE /\ WaitsOnce' /\ GivenUpOnlyWhenSpent' /\ FreshJob'
                                       /\ jobs' = jobs
  BY <1>c DEF queueVars, IInv, WaitsOnce, GivenUpOnlyWhenSpent, FreshJob
<1>1. ASSUME NEW d \in Dispatchers, Dispatch(d) PROVE IInv'
  <2>1. TypeOK'
    BY <1>1 DEF Dispatch, queueVars, workerVars, IInv, TypeOK
  <2>. QED
    BY <1>1, <1>c, <2>1 DEF Dispatch, workerVars, IInv, LockedIsActive
<1>2. ASSUME NEW d \in Dispatchers, GetJob(d) PROVE IInv'
  <2>1. TypeOK'
    <3>1. PICK s \in todo[d] :
             /\ todo' = [todo EXCEPT ![d] = @ \ {s}]
             /\ adding' = [adding EXCEPT ![d] =
                               IF jobs[<<s, day>>] = "none" THEN <<s, day>> ELSE NoJob]
      BY <1>2 DEF GetJob
    <3>2. <<s, day>> \in JobIds
      BY DEF IInv, TypeOK, JobIds
    <3>. QED
      BY <1>2, <3>1, <3>2 DEF GetJob, queueVars, workerVars, IInv, TypeOK
  <2>. QED
    BY <1>2, <1>c, <2>1 DEF GetJob, workerVars, IInv, LockedIsActive
<1>3. ASSUME NEW d \in Dispatchers, AddJob(d) PROVE IInv'
  <2>1. adding[d] \in JobIds
    BY <1>3 DEF AddJob, IInv, TypeOK
  <2>2. CASE jobs[adding[d]] = "none"
    <3>1. /\ jobs' = [jobs EXCEPT ![adding[d]] = "waiting"]
          /\ waitList' = Append(waitList, adding[d])
      BY <1>3, <2>2 DEF AddJob
    <3>2. ListMatches(jobs', waitList')
      BY <1>a, <2>1, <2>2, <3>1, JoinsAtTheEnd DEF IInv, TypeOK
    <3>3. TypeOK'
      BY <1>3, <2>1, <3>1, AppendProperties DEF AddJob, workerVars, IInv, TypeOK, States
    <3>4. GivenUpOnlyWhenSpent' /\ FreshJob'
      BY <1>3, <2>1, <2>2, <3>1
         DEF AddJob, IInv, TypeOK, GivenUpOnlyWhenSpent, FreshJob
    <3>5. LockedIsActive'
      BY <1>3, <2>1, <2>2, <3>1, NoJobIsNoId
         DEF AddJob, workerVars, IInv, TypeOK, LockedIsActive
    <3>. QED
      BY <1>b, <3>2, <3>3, <3>4, <3>5 DEF IInv
  <2>3. CASE jobs[adding[d]] # "none"
    <3>1. UNCHANGED <<queueVars, workerVars, day, up, crashes, todo>>
      BY <1>3, <2>3 DEF AddJob, queueVars
    <3>2. TypeOK'
      BY <1>3, <3>1 DEF AddJob, queueVars, workerVars, IInv, TypeOK
    <3>. QED
      BY <1>c, <3>1, <3>2 DEF workerVars, IInv, LockedIsActive
  <2>. QED
    BY <2>2, <2>3
<1>4. ASSUME NEW d \in Dispatchers, DispatchFails(d) PROVE IInv'
  <2>1. TypeOK'
    BY <1>4 DEF DispatchFails, queueVars, workerVars, IInv, TypeOK
  <2>. QED
    BY <1>4, <1>c, <2>1 DEF DispatchFails, workerVars, IInv, LockedIsActive
<1>5. CASE TakeJob
  <2>. DEFINE h == Head(waitList)
  <2>1. /\ waitList \in Seq(JobIds) /\ waitList # <<>>
        /\ current' = h /\ locked' = TRUE
        /\ waitList' = Tail(waitList)
        /\ jobs' = [jobs EXCEPT ![h] = "active"]
        /\ UNCHANGED <<day, up, crashes, attempts, stalls, dispatchVars>>
    BY <1>5 DEF TakeJob, IInv, TypeOK
  <2>2. /\ h \in JobIds
        /\ jobs[h] = "waiting"
        /\ waitList' \in Seq(JobIds)
        /\ ListMatches(jobs', waitList')
    BY <1>a, <2>1, FirstLeaves DEF IInv, TypeOK
  <2>. HIDE DEF h
  <2>3. TypeOK'
    BY <2>1, <2>2 DEF dispatchVars, IInv, TypeOK, States
  <2>4. GivenUpOnlyWhenSpent' /\ FreshJob'
    BY <2>1, <2>2 DEF IInv, TypeOK, GivenUpOnlyWhenSpent, FreshJob
  <2>5. LockedIsActive'
    BY <2>1, <2>2, NoJobIsNoId DEF IInv, TypeOK, LockedIsActive
  <2>. QED
    BY <1>b, <2>2, <2>3, <2>4, <2>5 DEF IInv
<1>6. CASE JobCompletes
  <2>1. /\ current \in JobIds /\ jobs[current] = "active"
        /\ jobs' = [jobs EXCEPT ![current] = "none"]
        /\ attempts' = [attempts EXCEPT ![current] = 0]
        /\ stalls' = [stalls EXCEPT ![current] = 0]
        /\ current' = NoJob /\ locked' = FALSE
        /\ UNCHANGED <<day, up, crashes, waitList, dispatchVars>>
    BY <1>6 DEF JobCompletes, Settle, PutDown, IInv, TypeOK, LockedIsActive
  <2>2. ListMatches(jobs, waitList)'
    BY <1>a, <2>1, OthersStayInLine DEF IInv, TypeOK
  <2>3. TypeOK'
    <3>1. jobs' \in [JobIds -> States]
      BY <2>1 DEF IInv, TypeOK, States
    <3>2. attempts' \in [JobIds -> 0..MaxAttempts] /\ stalls' \in [JobIds -> 0..MaxStalled]
      BY <2>1 DEF IInv, TypeOK
    <3>. QED
      BY <2>1, <3>1, <3>2 DEF dispatchVars, IInv, TypeOK
  <2>4. GivenUpOnlyWhenSpent' /\ FreshJob' /\ LockedIsActive'
    BY <2>1 DEF IInv, TypeOK, GivenUpOnlyWhenSpent, FreshJob, LockedIsActive
  <2>. QED
    BY <1>b, <2>2, <2>3, <2>4 DEF IInv
<1>7. CASE JobFails
  <2>. DEFINE state == IF attempts[current] + 1 < MaxAttempts THEN "delayed" ELSE "failed"
  <2>1. /\ current \in JobIds /\ jobs[current] = "active"
        /\ attempts' = [attempts EXCEPT ![current] = @ + 1]
        /\ current' = NoJob /\ locked' = FALSE
        /\ UNCHANGED <<day, up, crashes, stalls, waitList, dispatchVars>>
    BY <1>7 DEF JobFails, PutDown, IInv, TypeOK, LockedIsActive
  <2>2. attempts'[current] = attempts[current] + 1
    BY <2>1 DEF IInv, TypeOK
  <2>3. jobs' = [jobs EXCEPT ![current] = state]
    BY <1>7, <2>2 DEF JobFails
  <2>4. attempts[current] < MaxAttempts
    BY <2>1 DEF IInv, GivenUpOnlyWhenSpent
  <2>5. state \in {"delayed", "failed"}
    OBVIOUS
  <2>6. ListMatches(jobs, waitList)'
    <3>. HIDE DEF state
    <3>. QED
      BY <1>a, <2>1, <2>3, <2>5, OthersStayInLine DEF IInv, TypeOK
  <2>7. TypeOK'
    <3>1. jobs' \in [JobIds -> States]
      BY <2>1, <2>3, <2>5 DEF IInv, TypeOK, States
    <3>2. attempts' \in [JobIds -> 0..MaxAttempts]
      BY <2>1, <2>4 DEF IInv, TypeOK
    <3>. QED
      BY <2>1, <3>1, <3>2 DEF dispatchVars, IInv, TypeOK
  <2>8. GivenUpOnlyWhenSpent' /\ FreshJob' /\ LockedIsActive'
    BY <2>1, <2>3, <2>4 DEF IInv, TypeOK, GivenUpOnlyWhenSpent, FreshJob, LockedIsActive
  <2>. QED
    BY <1>b, <2>6, <2>7, <2>8 DEF IInv
<1>8. CASE OutcomeRefused
  <2>1. TypeOK'
    BY <1>8 DEF OutcomeRefused, PutDown, queueVars, dispatchVars, IInv, TypeOK
  <2>. QED
    BY <1>8, <1>c, <2>1 DEF OutcomeRefused, PutDown, IInv, LockedIsActive
<1>9. ASSUME NEW j \in JobIds, Promote(j) PROVE IInv'
  <2>1. /\ jobs[j] = "delayed"
        /\ jobs' = [jobs EXCEPT ![j] = "waiting"]
        /\ waitList' = Append(waitList, j)
        /\ UNCHANGED <<day, up, crashes, attempts, stalls, workerVars, dispatchVars>>
    BY <1>9 DEF Promote
  <2>2. ListMatches(jobs, waitList)'
    BY <1>a, <2>1, JoinsAtTheEnd DEF IInv, TypeOK
  <2>3. TypeOK'
    BY <2>1, AppendProperties DEF dispatchVars, workerVars, IInv, TypeOK, States
  <2>4. GivenUpOnlyWhenSpent' /\ FreshJob'
    BY <2>1 DEF IInv, TypeOK, GivenUpOnlyWhenSpent, FreshJob
  <2>5. LockedIsActive'
    BY <2>1, NoJobIsNoId DEF workerVars, IInv, TypeOK, LockedIsActive
  <2>. QED
    BY <1>b, <2>2, <2>3, <2>4, <2>5 DEF IInv
<1>10. ASSUME NEW j \in JobIds, RecoverOrphan(j) PROVE IInv'
  <2>1. Stalled(j) /\ current # j /\ locked' = locked
        /\ UNCHANGED <<day, up, crashes, attempts, current, dispatchVars>>
    BY <1>10 DEF RecoverOrphan, Stalled
  <2>2. TypeOK'
    BY <2>1, StalledStep DEF dispatchVars, IInv, TypeOK
  <2>3. LockedIsActive'
    BY <2>1, StalledStep, NoJobIsNoId DEF IInv, TypeOK, LockedIsActive
  <2>. QED
    BY <2>1, <2>2, <2>3, StalledStep DEF IInv
<1>11. CASE LoseLock
  <2>1. current \in JobIds /\ Stalled(current) /\ locked' = FALSE
        /\ UNCHANGED <<day, up, crashes, attempts, current, dispatchVars>>
    BY <1>11 DEF LoseLock, Stalled, IInv, TypeOK
  <2>2. TypeOK'
    BY <2>1, StalledStep DEF dispatchVars, IInv, TypeOK
  <2>. QED
    BY <2>1, <2>2, StalledStep DEF IInv, LockedIsActive
<1>12. CASE Crash
  <2>1. TypeOK'
    <3>1. todo' \in [Dispatchers -> SUBSET Sources]
      BY <1>12 DEF Crash
    <3>2. adding' \in [Dispatchers -> JobIds \cup {NoJob}]
      BY <1>12 DEF Crash
    <3>3. crashes' \in 0..MaxCrashes
      BY <1>12 DEF Crash, IInv, TypeOK
    <3>. QED
      BY <1>12, <3>1, <3>2, <3>3 DEF Crash, PutDown, queueVars, IInv, TypeOK
  <2>. QED
    BY <1>12, <1>c, <2>1 DEF Crash, PutDown, IInv, LockedIsActive
<1>13. CASE Restart
  <2>1. TypeOK'
    BY <1>13 DEF Restart, queueVars, workerVars, dispatchVars, IInv, TypeOK
  <2>. QED
    BY <1>13, <1>c, <2>1 DEF Restart, workerVars, IInv, LockedIsActive
<1>14. CASE NextDay
  <2>1. TypeOK'
    BY <1>14 DEF NextDay, queueVars, workerVars, dispatchVars, IInv, TypeOK, Days
  <2>. QED
    BY <1>14, <1>c, <2>1 DEF NextDay, workerVars, IInv, LockedIsActive
<1>15. CASE UNCHANGED vars
  <2>1. TypeOK'
    BY <1>15 DEF vars, queueVars, workerVars, dispatchVars, IInv, TypeOK
  <2>. QED
    BY <1>15, <1>c, <2>1 DEF vars, workerVars, IInv, LockedIsActive
<1>. QED
  BY <1>1, <1>2, <1>3, <1>4, <1>5, <1>6, <1>7, <1>8, <1>9, <1>10, <1>11, <1>12,
     <1>13, <1>14, <1>15 DEF Next, DispatchStep, EndJob

-----------------------------------------------------------------------------
(* The theorems *)

\* The inductive invariant holds in every reachable state.
THEOREM Invariance == Spec => []IInv
<1>. QED
  BY InitIInv, NextIInv, PTL DEF Spec

\* Every variable of the queue keeps its type.
THEOREM TypeCorrect == Spec => []TypeOK
<1>1. IInv => TypeOK
  BY DEF IInv
<1>. QED
  BY <1>1, Invariance, PTL

\* A job waits exactly when its id is in the list, and then once: however many
\* callers dispatch, however often a job is retried or recovered.
THEOREM WaitsOnceHolds == Spec => []WaitsOnce
<1>1. IInv => WaitsOnce
  BY DEF IInv
<1>. QED
  BY <1>1, Invariance, PTL

\* A job is given up only when its attempts or its stalls are used up, and a job
\* in play has attempts left, for every value of `attempts`.
THEOREM GivenUpHolds == Spec => []GivenUpOnlyWhenSpent
<1>1. IInv => GivenUpOnlyWhenSpent
  BY DEF IInv
<1>. QED
  BY <1>1, Invariance, PTL

\* The worker owns a lock only of a job that is active in Redis: the outcome of
\* a run is recorded for the job that ran.
THEOREM OnlyActiveJobsAreLocked == Spec => []LockedIsActive
<1>1. IInv => LockedIsActive
  BY DEF IInv
<1>. QED
  BY <1>1, Invariance, PTL

\* A dispatch leaves every job that exists and its place in the list alone.
THEOREM DispatchIsHarmless == Spec => DispatchKeepsJobs
<1>. DEFINE Kept == /\ \A j \in JobIds : jobs[j] # "none" =>
                          <<jobs[j], attempts[j], stalls[j]>>' = <<jobs[j], attempts[j], stalls[j]>>
                    /\ SubSeq(waitList', 1, Len(waitList)) = waitList
            Dispatched == \E d \in Dispatchers : DispatchStep(d)
<1>1. ASSUME TypeOK, NEW d \in Dispatchers, DispatchStep(d) PROVE Kept
  <2>1. waitList \in Seq(JobIds) /\ SubSeq(waitList, 1, Len(waitList)) = waitList
    BY <1>1, SubSeqFull DEF TypeOK
  <2>2. CASE UNCHANGED queueVars
    BY <2>1, <2>2 DEF queueVars
  <2>3. CASE ~UNCHANGED queueVars
    <3>1. AddJob(d)
      BY <1>1, <2>3 DEF DispatchStep, Dispatch, GetJob, DispatchFails
    <3>2. /\ adding[d] \in JobIds /\ jobs[adding[d]] = "none"
          /\ jobs' = [jobs EXCEPT ![adding[d]] = "waiting"]
          /\ waitList' = Append(waitList, adding[d])
          /\ attempts' = attempts /\ stalls' = stalls
      BY <1>1, <2>3, <3>1 DEF AddJob, TypeOK, queueVars
    <3>3. SubSeq(waitList', 1, Len(waitList)) = waitList
      <4>1. /\ Len(waitList) \in Nat
            /\ \A i \in 1..Len(waitList) : waitList'[i] = waitList[i] /\ waitList[i] \in JobIds
        BY <2>1, <3>2, AppendProperties, LenProperties, ElementOfSeq
      <4>2. /\ SubSeq(waitList', 1, Len(waitList)) \in Seq(JobIds)
            /\ Len(SubSeq(waitList', 1, Len(waitList))) = Len(waitList)
            /\ \A i \in 1..Len(waitList) :
                  SubSeq(waitList', 1, Len(waitList))[i] = waitList[i]
        BY <4>1, SubSeqProperties
      <4>. QED
        BY <2>1, <4>2, SeqEqual
    <3>4. \A j \in JobIds : jobs[j] # "none" => jobs'[j] = jobs[j]
      BY <1>1, <3>2 DEF TypeOK
    <3>. QED
      BY <3>2, <3>3, <3>4
  <2>. QED
    BY <2>2, <2>3
<1>. HIDE DEF Kept
<1>2. TypeOK /\ Next => (Dispatched => Kept)
  BY <1>1
<1>. QED
  BY <1>2, TypeCorrect, PTL DEF Spec, DispatchKeepsJobs, Kept
=============================================================================
