------------------------ MODULE QueueListenerProofs ------------------------
(***************************************************************************)
(* Proofs about QueueListener, for every set of sources, every length of a *)
(* message and every number of rows, events, days, crashes and faults.     *)
(*                                                                         *)
(* The argument: what is true of an event depends on the step its handler  *)
(* has reached and on the rows (Sound), and rows are only ever appended    *)
(* (SoundWithMoreRows).  A handler step disturbs its own event and no      *)
(* other (OneEventChanges), so handlers that overlap need no more than     *)
(* handlers that do not.  A row without an event is covered by a job in    *)
(* play, or was stored by a run whose job is over (RowsCovered); only a    *)
(* run that owns its lock is sure to have its job in play (RunInPlay).     *)
(***************************************************************************)
EXTENDS QueueListener, FiniteSetTheorems, SequenceTheorems, WellFoundedInduction, TLAPS

EventRecords ==
    [source : Sources, completed : BOOLEAN, upTo : Nat, step : Steps,
     since : {0} \cup Days, begun : {0} \cup Days,
     saved : SUBSET Nat, listed : SUBSET Nat, others : Nat, trouble : BOOLEAN]

\* The rows a completed event has to account for, in the rows rs of its source.
Todays(e, rs) == {i \in 1..e.upTo : rs[i] >= e.begun}

\* What was found for an event, and what was said of it, by the step reached.
Sound(e, rs) ==
    /\ e.upTo <= Len(rs)
    /\ e.saved \subseteq DOMAIN rs
    /\ e.listed \subseteq e.saved
    /\ e.step = "sent" => e.saved = {} /\ ~e.trouble
    /\ e.step \in {"sent", "querying", "admin", "user"} => e.listed = {} /\ e.others = 0
    /\ e.step \notin {"sent", "lost"} => e.since = e.begun
    /\ e.step = "querying" => e.completed /\ e.saved = {} /\ ~e.trouble
    /\ e.step = "user" => e.completed /\ e.saved # {}
    /\ e.step = "invalidating" => e.completed
    /\ ~e.completed => e.saved = {}
    /\ e.step \in {"admin", "user", "invalidating", "done"} /\ e.completed /\ ~e.trouble
         => Todays(e, rs) \subseteq e.saved
    /\ e.step \in {"invalidating", "done"} /\ ~e.trouble
         => /\ e.listed = Listed(e.saved)
            /\ e.others = Cardinality(e.saved \ Listed(e.saved))

EventsSound ==
    /\ events \in Seq(EventRecords)
    /\ \A n \in DOMAIN events : Sound(events[n], rows[events[n].source])

\* A row that no event covers belongs to a job in play, or came when its job was over.
RowsCovered ==
    \A s \in Sources : \A i \in DOMAIN rows[s] :
        \/ \E n \in DOMAIN events : events[n].source = s /\ events[n].upTo >= i
        \/ <<s, i>> \in late
        \/ \E j \in inPlay : j[1] = s

\* The job of a run that owns its lock is in play, and nobody's orphan.
RunInPlay ==
    /\ locked => running \in inPlay
    /\ running \notin orphans

StateTypes ==
    /\ day \in Days
    /\ up \in BOOLEAN
    /\ crashes \in 0..MaxCrashes
    /\ faults \in 0..MaxFaults
    /\ rows \in [Sources -> Seq(Days)]
    /\ running \in JobIds \cup {NoJob}
    /\ locked \in BOOLEAN
    /\ inPlay \subseteq JobIds /\ orphans \subseteq JobIds /\ failed \subseteq JobIds
    /\ late \subseteq Sources \X (1..MaxRows)

IInv ==
    /\ StateTypes
    /\ EventsSound
    /\ RowsCovered
    /\ RunInPlay

-----------------------------------------------------------------------------
(* Lemmas about rows and messages *)

\* The rows found for an event are finitely many.
LEMMA FoundRowsAreFinite ==
    ASSUME NEW rs \in Seq(Days), NEW S \in SUBSET DOMAIN rs
    PROVE  IsFiniteSet(S) /\ Cardinality(S) \in Nat
<1>1. DOMAIN rs = 1..Len(rs) /\ Len(rs) \in Nat
  BY LenProperties
<1>2. IsFiniteSet(DOMAIN rs)
  BY <1>1, FS_Interval
<1>3. IsFiniteSet(S)
  BY <1>2, FS_Subset
<1>. QED
  BY <1>3, FS_CardinalityType

\* A non-empty set of row numbers has a first one.
LEMMA FirstRow ==
    ASSUME NEW S \in SUBSET Nat, S # {}
    PROVE  \E i \in S : \A k \in S : i <= k
<1>1. IsWellFoundedOn(OpToRel(<, Nat), Nat)
  BY NatLessThanWellFounded
<1>2. PICK i \in S : \A k \in S : ~(<<k, i>> \in OpToRel(<, Nat))
  BY <1>1, WFMin
<1>3. \A k \in S : ~(k < i)
  BY <1>2 DEF OpToRel
<1>. QED
  BY <1>3

\* A message names the first row it speaks of.
LEMMA ListedNamesOne ==
    ASSUME NEW S \in SUBSET Nat, S # {}
    PROVE  Listed(S) # {}
<1>1. PICK i \in S : \A k \in S : i <= k
  BY FirstRow
<1>2. {k \in S : k < i} = {}
  <2> SUFFICES ASSUME NEW k \in S, k < i PROVE FALSE
    OBVIOUS
  <2>1. k \in Nat /\ i \in Nat /\ i <= k
    BY <1>1
  <2>. QED
    BY <2>1
<1>3. Cardinality({k \in S : k < i}) = 0
  BY <1>2, FS_EmptySet
<1>. QED
  BY <1>3, ListenerAssumption DEF Listed

\* The rows a message names come before those it only counts.
LEMMA ListedAreFirst ==
    ASSUME NEW S \in SUBSET Nat, IsFiniteSet(S), NEW i \in Listed(S), NEW k \in S \ Listed(S)
    PROVE  i < k
<1>1. i \in S /\ i \in Nat /\ k \in Nat
  BY DEF Listed
<1> SUFFICES ASSUME k <= i PROVE FALSE
  BY <1>1
<1>. DEFINE I == {m \in S : m < i}
            K == {m \in S : m < k}
<1>2. K \subseteq I
  <2> SUFFICES ASSUME NEW m \in S, m < k PROVE m < i
    OBVIOUS
  <2>1. m \in Nat
    OBVIOUS
  <2>. QED
    BY <1>1, <2>1
<1>3. IsFiniteSet(I) /\ IsFiniteSet(K)
  BY FS_Subset
<1>4. Cardinality(K) <= Cardinality(I) /\ Cardinality(I) \in Nat /\ Cardinality(K) \in Nat
  <2>. HIDE DEF I, K
  <2>. QED
    BY <1>2, <1>3, FS_Subset, FS_CardinalityType
<1>5. Cardinality(I) < MaxListed /\ ~(Cardinality(K) < MaxListed)
  BY DEF Listed
<1>. QED
  BY <1>4, <1>5, ListenerAssumption

\* What a message names and what it counts make up what was found.
LEMMA ListedAndOthers ==
    ASSUME NEW S, IsFiniteSet(S)
    PROVE  /\ IsFiniteSet(S \ Listed(S))
           /\ Cardinality(S \ Listed(S)) \in Nat
           /\ Cardinality(Listed(S)) + Cardinality(S \ Listed(S)) = Cardinality(S)
<1>. DEFINE L == Listed(S)
            O == S \ Listed(S)
<1>1. L \subseteq S
  BY DEF Listed
<1>2. IsFiniteSet(L) /\ IsFiniteSet(O)
  BY <1>1, FS_Subset
<1>3. L \cup O = S /\ L \cap O = {}
  BY <1>1
<1>. HIDE DEF L, O
<1>4. Cardinality(L \cup O) = Cardinality(L) + Cardinality(O) - Cardinality(L \cap O)
  BY <1>2, FS_Union
<1>5. Cardinality(L) \in Nat /\ Cardinality(O) \in Nat /\ Cardinality(L \cap O) = 0
  BY <1>2, <1>3, FS_CardinalityType, FS_EmptySet
<1>6. Cardinality(L \cup O) = Cardinality(S)
  BY <1>3
<1>7. Cardinality(S) = Cardinality(L) + Cardinality(O) - 0
  BY <1>4, <1>5, <1>6
<1>8. Cardinality(L) + Cardinality(O) = Cardinality(S)
  BY <1>5, <1>7
<1>. QED
  BY <1>2, <1>5, <1>8 DEF L, O

\* An event that is accounted for stays so when rows are stored after it.
LEMMA SoundWithMoreRows ==
    ASSUME NEW e \in EventRecords, NEW rs \in Seq(Days), NEW d \in Days, Sound(e, rs)
    PROVE  Sound(e, Append(rs, d))
<1>1. /\ Len(rs) \in Nat /\ DOMAIN rs = 1..Len(rs)
      /\ Append(rs, d) \in Seq(Days)
      /\ Len(Append(rs, d)) = Len(rs) + 1
      /\ \A i \in 1..Len(rs) : Append(rs, d)[i] = rs[i]
  BY LenProperties, AppendProperties
<1>2. DOMAIN Append(rs, d) = 1..Len(rs) + 1
  BY <1>1, LenProperties
<1>3. e.upTo \in Nat /\ e.upTo <= Len(rs) /\ e.upTo <= Len(Append(rs, d))
  BY <1>1 DEF EventRecords, Sound
<1>4. DOMAIN rs \subseteq DOMAIN Append(rs, d)
  BY <1>1, <1>2
<1>5. Todays(e, Append(rs, d)) = Todays(e, rs)
  BY <1>1, <1>3 DEF Todays
<1>. QED
  BY <1>3, <1>4, <1>5 DEF Sound

-----------------------------------------------------------------------------
(* The invariant *)

\* It holds at the start.
LEMMA InitIInv == Init => IInv
<1> SUFFICES ASSUME Init PROVE IInv
  OBVIOUS
<1>1. StateTypes
  <2>1. 1 \in Days /\ 0 \in 0..MaxCrashes /\ 0 \in 0..MaxFaults
    BY ListenerAssumption DEF Days
  <2>2. [s \in Sources |-> <<>>] \in [Sources -> Seq(Days)]
    OBVIOUS
  <2>. QED
    BY <2>1, <2>2 DEF Init, StateTypes
<1>2. events = <<>> /\ events \in Seq(EventRecords) /\ DOMAIN events = {}
  BY DEF Init
<1>3. \A s \in Sources : DOMAIN rows[s] = {}
  BY DEF Init
<1>4. ~locked /\ orphans = {}
  BY DEF Init
<1>. QED
  BY <1>1, <1>2, <1>3, <1>4 DEF IInv, EventsSound, RowsCovered, RunInPlay

\* What is known of an event and of the rows of its source.
LEMMA EventFacts ==
    ASSUME IInv, NEW n \in DOMAIN events
    PROVE  /\ events[n] \in EventRecords
           /\ rows[events[n].source] \in Seq(Days)
           /\ Sound(events[n], rows[events[n].source])
<1>1. events \in Seq(EventRecords) /\ n \in 1..Len(events)
  BY LenProperties DEF IInv, EventsSound
<1>2. events[n] \in EventRecords
  BY <1>1, ElementOfSeq
<1>. QED
  BY <1>2 DEF IInv, EventsSound, StateTypes, EventRecords

\* A step of one handler changes its own event and keeps every other.
LEMMA OneEventChanges ==
    ASSUME IInv, NEW n \in DOMAIN events, NEW e \in EventRecords,
           e.source = events[n].source, e.upTo = events[n].upTo,
           Sound(e, rows[events[n].source]),
           events' = [events EXCEPT ![n] = e],
           UNCHANGED envVars, faults' \in 0..MaxFaults
    PROVE  IInv'
<1>1. n \in 1..Len(events) /\ DOMAIN events = 1..Len(events)
  BY LenProperties DEF IInv, EventsSound
<1>2. events' \in Seq(EventRecords) /\ DOMAIN events' = DOMAIN events
  BY <1>1, ExceptSeq DEF IInv, EventsSound
<1>3. \A k \in DOMAIN events : events'[k] = IF k = n THEN e ELSE events[k]
  BY DEF IInv, EventsSound
<1>4. EventsSound'
  BY <1>2, <1>3 DEF IInv, EventsSound, envVars
<1>5. StateTypes' /\ RunInPlay'
  BY DEF IInv, StateTypes, RunInPlay, envVars, jobVars
<1>6. RowsCovered'
  <2>1. \A k \in DOMAIN events : /\ events'[k].source = events[k].source
                                 /\ events'[k].upTo = events[k].upTo
    BY <1>3
  <2>. QED
    BY <1>2, <2>1 DEF IInv, RowsCovered, envVars, jobVars
<1>. QED
  BY <1>4, <1>5, <1>6 DEF IInv

\* A step of the handler of event n.
LEMMA HandlerKeepsIInv ==
    ASSUME IInv, NEW n \in DOMAIN events, HandlerStep(n) \/ PostHangs(n)
    PROVE  IInv'
<1>. DEFINE e  == events[n]
            rs == rows[e.source]
<1>a. /\ e \in EventRecords /\ rs \in Seq(Days) /\ Sound(e, rs)
      /\ events \in Seq(EventRecords)
  BY EventFacts DEF IInv, EventsSound
<1>b. /\ e.source \in Sources /\ e.completed \in BOOLEAN /\ e.upTo \in Nat
      /\ e.step \in Steps /\ e.since \in {0} \cup Days /\ e.begun \in {0} \cup Days
      /\ e.saved \in SUBSET Nat /\ e.listed \in SUBSET Nat /\ e.others \in Nat
      /\ e.trouble \in BOOLEAN
  BY <1>a DEF EventRecords
<1>c. /\ faults \in 0..MaxFaults /\ day \in Days
      /\ \A m \in 0..MaxFaults : m < MaxFaults => m + 1 \in 0..MaxFaults
  BY ListenerAssumption DEF IInv, StateTypes
<1>d. DOMAIN rs = 1..Len(rs) /\ Len(rs) \in Nat
  BY <1>a, LenProperties
<1>1. CASE Deliver(n)
  <2>. DEFINE f == [e EXCEPT !.step = IF e.completed THEN "querying" ELSE "admin",
                             !.since = day, !.begun = day]
  <2>1. e.step = "sent" /\ events' = [events EXCEPT ![n] = f]
        /\ UNCHANGED <<envVars, faults>>
    BY <1>1, <1>a DEF Deliver, At
  <2>2. f \in EventRecords
    BY <1>a, <1>c DEF EventRecords, Steps
  <2>3. /\ f.source = e.source /\ f.upTo = e.upTo /\ f.completed = e.completed
        /\ f.step = IF e.completed THEN "querying" ELSE "admin"
        /\ f.since = day /\ f.begun = day
        /\ f.saved = e.saved /\ f.listed = e.listed /\ f.others = e.others
        /\ f.trouble = e.trouble
    BY <1>a DEF EventRecords
  <2>. HIDE DEF f
  <2>4. Sound(f, rs)
    BY <1>a, <1>b, <2>1, <2>3 DEF Sound
  <2>. QED
    BY <1>c, <2>1, <2>2, <2>3, <2>4, OneEventChanges
<1>2. CASE QueryReturns(n)
  <2>. DEFINE F == FindSavedSince(e.source, e.since)
              f == [e EXCEPT !.step = "admin", !.saved = F]
  <2>1. e.step = "querying" /\ events' = [events EXCEPT ![n] = f]
        /\ UNCHANGED <<envVars, faults>>
    BY <1>2, <1>a DEF QueryReturns, At
  <2>2. F \in SUBSET Nat /\ F \subseteq DOMAIN rs
    BY <1>d DEF FindSavedSince
  <2>3. Todays(e, rs) \subseteq F
    BY <1>a, <1>b, <1>d, <2>1 DEF Todays, FindSavedSince, Sound
  <2>. HIDE DEF F
  <2>4. f \in EventRecords
    BY <1>a, <2>2 DEF EventRecords, Steps
  <2>5. /\ f.source = e.source /\ f.upTo = e.upTo /\ f.completed = e.completed
        /\ f.step = "admin" /\ f.since = e.since /\ f.begun = e.begun
        /\ f.saved = F /\ f.listed = e.listed /\ f.others = e.others
        /\ f.trouble = e.trouble
    BY <1>a DEF EventRecords
  <2>. HIDE DEF f
  <2>6. Todays(f, rs) = Todays(e, rs)
    BY <2>5 DEF Todays
  <2>7. Sound(f, rs)
    BY <1>a, <1>b, <2>1, <2>2, <2>3, <2>5, <2>6 DEF Sound
  <2>. QED
    BY <1>c, <2>1, <2>4, <2>5, <2>7, OneEventChanges
<1>3. CASE QueryFails(n)
  <2>. DEFINE f == [e EXCEPT !.step = "admin", !.trouble = TRUE]
  <2>1. e.step = "querying" /\ events' = [events EXCEPT ![n] = f]
        /\ UNCHANGED envVars /\ faults' \in 0..MaxFaults
    BY <1>3, <1>a, <1>c DEF QueryFails, At, Fault
  <2>2. f \in EventRecords
    BY <1>a DEF EventRecords, Steps
  <2>3. /\ f.source = e.source /\ f.upTo = e.upTo /\ f.completed = e.completed
        /\ f.step = "admin" /\ f.since = e.since /\ f.begun = e.begun
        /\ f.saved = e.saved /\ f.listed = e.listed /\ f.others = e.others
        /\ f.trouble
    BY <1>a DEF EventRecords
  <2>. HIDE DEF f
  <2>4. Sound(f, rs)
    BY <1>a, <1>b, <2>1, <2>3 DEF Sound
  <2>. QED
    BY <2>1, <2>2, <2>3, <2>4, OneEventChanges
<1>4. CASE AdminSent(n)
  <2>. DEFINE f == [e EXCEPT !.step = AfterAdmin(e)]
  <2>1. e.step = "admin" /\ events' = [events EXCEPT ![n] = f]
        /\ UNCHANGED <<envVars, faults>>
    BY <1>4, <1>a DEF AdminSent, At
  <2>2. f \in EventRecords
    BY <1>a DEF EventRecords, Steps, AfterAdmin
  <2>3. /\ f.source = e.source /\ f.upTo = e.upTo /\ f.completed = e.completed
        /\ f.step = AfterAdmin(e) /\ f.since = e.since /\ f.begun = e.begun
        /\ f.saved = e.saved /\ f.listed = e.listed /\ f.others = e.others
        /\ f.trouble = e.trouble
    BY <1>a DEF EventRecords
  <2>. HIDE DEF f
  <2>4. Todays(f, rs) = Todays(e, rs)
    BY <2>3 DEF Todays
  <2>5. e.saved = {} => Listed(e.saved) = {} /\ Cardinality(e.saved \ Listed(e.saved)) = 0
    BY FS_EmptySet DEF Listed
  <2>6. Sound(f, rs)
    BY <1>a, <1>b, <2>1, <2>3, <2>4, <2>5 DEF Sound, AfterAdmin
  <2>. QED
    BY <1>c, <2>1, <2>2, <2>3, <2>6, OneEventChanges
<1>5. CASE UserSent(n)
  <2>. DEFINE L == Listed(e.saved)
              O == Cardinality(e.saved \ Listed(e.saved))
              f == [e EXCEPT !.step = "invalidating", !.listed = L, !.others = O]
  <2>1. e.step = "user" /\ events' = [events EXCEPT ![n] = f]
        /\ UNCHANGED <<envVars, faults>>
    BY <1>5, <1>a DEF UserSent, At
  <2>2. L \subseteq e.saved /\ L \in SUBSET Nat /\ O \in Nat
    <3>1. IsFiniteSet(e.saved)
      BY <1>a, FoundRowsAreFinite DEF Sound
    <3>. QED
      BY <1>b, <3>1, ListedAndOthers DEF Listed
  <2>. HIDE DEF L, O
  <2>3. f \in EventRecords
    BY <1>a, <2>2 DEF EventRecords, Steps
  <2>4. /\ f.source = e.source /\ f.upTo = e.upTo /\ f.completed = e.completed
        /\ f.step = "invalidating" /\ f.since = e.since /\ f.begun = e.begun
        /\ f.saved = e.saved /\ f.listed = L /\ f.others = O
        /\ f.trouble = e.trouble
    BY <1>a DEF EventRecords
  <2>. HIDE DEF f
  <2>5. Todays(f, rs) = Todays(e, rs)
    BY <2>4 DEF Todays
  <2>6. Sound(f, rs)
    BY <1>a, <1>b, <2>1, <2>2, <2>4, <2>5 DEF Sound, L, O
  <2>. QED
    BY <1>c, <2>1, <2>3, <2>4, <2>6, OneEventChanges
<1>6. CASE UserFails(n)
  <2>. DEFINE f == [e EXCEPT !.step = "invalidating", !.trouble = TRUE]
  <2>1. e.step = "user" /\ events' = [events EXCEPT ![n] = f]
        /\ UNCHANGED envVars /\ faults' \in 0..MaxFaults
    BY <1>6, <1>a, <1>c DEF UserFails, At, Fault
  <2>2. f \in EventRecords
    BY <1>a DEF EventRecords, Steps
  <2>3. /\ f.source = e.source /\ f.upTo = e.upTo /\ f.completed = e.completed
        /\ f.step = "invalidating" /\ f.since = e.since /\ f.begun = e.begun
        /\ f.saved = e.saved /\ f.listed = e.listed /\ f.others = e.others
        /\ f.trouble
    BY <1>a DEF EventRecords
  <2>. HIDE DEF f
  <2>4. Sound(f, rs)
    BY <1>a, <1>b, <2>1, <2>3 DEF Sound
  <2>. QED
    BY <2>1, <2>2, <2>3, <2>4, OneEventChanges
<1>7. CASE Invalidated(n)
  <2>. DEFINE f == [e EXCEPT !.step = "done"]
  <2>1. e.step = "invalidating" /\ events' = [events EXCEPT ![n] = f]
        /\ UNCHANGED <<envVars, faults>>
    BY <1>7, <1>a DEF Invalidated, At
  <2>2. f \in EventRecords
    BY <1>a DEF EventRecords, Steps
  <2>3. /\ f.source = e.source /\ f.upTo = e.upTo /\ f.completed = e.completed
        /\ f.step = "done" /\ f.since = e.since /\ f.begun = e.begun
        /\ f.saved = e.saved /\ f.listed = e.listed /\ f.others = e.others
        /\ f.trouble = e.trouble
    BY <1>a DEF EventRecords
  <2>. HIDE DEF f
  <2>4. Todays(f, rs) = Todays(e, rs)
    BY <2>3 DEF Todays
  <2>5. Sound(f, rs)
    BY <1>a, <1>b, <2>1, <2>3, <2>4 DEF Sound
  <2>. QED
    BY <1>c, <2>1, <2>2, <2>3, <2>5, OneEventChanges
<1>8. CASE PostHangs(n)
  <2>. DEFINE f == [e EXCEPT !.step = "hung"]
  <2>1. e.step \in {"admin", "user"} /\ events' = [events EXCEPT ![n] = f]
        /\ UNCHANGED envVars /\ faults' \in 0..MaxFaults
    BY <1>8, <1>a, <1>c DEF PostHangs, At, Fault
  <2>2. f \in EventRecords
    BY <1>a DEF EventRecords, Steps
  <2>3. /\ f.source = e.source /\ f.upTo = e.upTo /\ f.completed = e.completed
        /\ f.step = "hung" /\ f.since = e.since /\ f.begun = e.begun
        /\ f.saved = e.saved /\ f.listed = e.listed /\ f.others = e.others
        /\ f.trouble = e.trouble
    BY <1>a DEF EventRecords
  <2>. HIDE DEF f
  <2>4. Sound(f, rs)
    BY <1>a, <1>b, <2>1, <2>3 DEF Sound
  <2>. QED
    BY <2>1, <2>2, <2>3, <2>4, OneEventChanges
<1>. QED
  BY <1>1, <1>2, <1>3, <1>4, <1>5, <1>6, <1>7, <1>8 DEF HandlerStep

\* No job is the empty id.
LEMMA NoJobIsNoId == NoJob \notin JobIds
BY DEF NoJob, JobIds

\* A job that ends, well, badly or given up, puts its event at the end of the
\* stream, and with it covers all rows of its source.
LEMMA FinishKeepsEvents ==
    ASSUME IInv, NEW j \in JobIds, NEW isCompleted \in BOOLEAN, Finish(j, isCompleted)
    PROVE  EventsSound' /\ RowsCovered'
<1>. DEFINE s == j[1]
            e == Event(s, isCompleted)
<1>1. /\ s \in Sources
      /\ events' = Append(events, e) /\ events \in Seq(EventRecords)
      /\ inPlay' = inPlay \ {j}
      /\ UNCHANGED <<rows, late>>
  BY DEF Finish, IInv, EventsSound, JobIds
<1>2. rows[s] \in Seq(Days) /\ Len(rows[s]) \in Nat
  BY <1>1, LenProperties DEF IInv, StateTypes
<1>3. e = [source |-> s, completed |-> isCompleted, upTo |-> Len(rows[s]), step |-> "sent",
           since |-> 0, begun |-> 0, saved |-> {}, listed |-> {}, others |-> 0,
           trouble |-> FALSE]
  BY DEF Event
<1>. HIDE DEF s, e
<1>4. e \in EventRecords
  BY <1>1, <1>2, <1>3 DEF EventRecords, Steps
<1>5. /\ e.source = s /\ e.upTo = Len(rows[s]) /\ e.step = "sent"
      /\ e.saved = {} /\ e.listed = {} /\ e.others = 0 /\ ~e.trouble
  BY <1>3
<1>6. Sound(e, rows[s])
  BY <1>2, <1>5 DEF Sound
<1>7. /\ events' \in Seq(EventRecords)
      /\ Len(events) \in Nat /\ Len(events') = Len(events) + 1
      /\ DOMAIN events = 1..Len(events)
      /\ \A n \in 1..Len(events) : events'[n] = events[n]
      /\ events'[Len(events) + 1] = e
  BY <1>1, <1>4, AppendProperties, LenProperties
<1>8. DOMAIN events' = 1..Len(events) + 1
  BY <1>7, LenProperties
<1>9. EventsSound'
  <2> SUFFICES ASSUME NEW n \in DOMAIN events' PROVE Sound(events'[n], rows[events'[n].source])
    BY <1>1, <1>7 DEF EventsSound
  <2>1. CASE n \in DOMAIN events
    BY <1>7, <2>1 DEF IInv, EventsSound
  <2>2. CASE n = Len(events) + 1
    BY <1>5, <1>6, <1>7, <2>2
  <2>. QED
    BY <1>7, <1>8, <2>1, <2>2
<1>10. RowsCovered'
  <2> SUFFICES ASSUME NEW r \in Sources, NEW i \in DOMAIN rows[r]
               PROVE  \/ \E n \in DOMAIN events' : events'[n].source = r /\ events'[n].upTo >= i
                      \/ <<r, i>> \in late
                      \/ \E k \in inPlay' : k[1] = r
    BY <1>1 DEF RowsCovered
  <2>1. CASE r = s
    <3>1. Len(events) + 1 \in DOMAIN events' /\ i <= Len(rows[s]) /\ i \in Nat
      BY <1>2, <1>7, <1>8, <2>1, LenProperties
    <3>. QED
      BY <1>2, <1>5, <1>7, <2>1, <3>1
  <2>2. CASE r # s
    <3>1. \/ \E n \in DOMAIN events : events[n].source = r /\ events[n].upTo >= i
          \/ <<r, i>> \in late
          \/ \E k \in inPlay : k[1] = r
      BY DEF IInv, RowsCovered
    <3>2. \A k \in inPlay : k[1] = r => k \in inPlay'
      BY <1>1, <2>2 DEF s
    <3>. QED
      BY <1>7, <1>8, <3>1, <3>2
  <2>. QED
    BY <2>1, <2>2
<1>. QED
  BY <1>9, <1>10

\* The worker ends its job, or BullMQ ends it under the run or in its absence.
LEMMA FinishKeepsIInv ==
    ASSUME IInv, NEW j \in JobIds, NEW isCompleted \in BOOLEAN, Finish(j, isCompleted),
           \/ running' = NoJob /\ locked' = FALSE /\ orphans' = orphans
           \/ running' = running /\ locked' = FALSE /\ orphans' = orphans
           \/ j \in orphans /\ orphans' = orphans \ {j} /\ UNCHANGED <<running, locked>>
    PROVE  IInv'
<1>1. /\ UNCHANGED <<day, up, crashes, faults, rows, late>>
      /\ inPlay' = inPlay \ {j}
      /\ failed' = IF isCompleted THEN failed ELSE failed \cup {j}
  BY DEF Finish
<1>2. locked' \in BOOLEAN
  <2>1. locked' = FALSE \/ locked' = locked
    OBVIOUS
  <2>. QED
    BY <2>1 DEF IInv, StateTypes
<1>3. StateTypes'
  BY <1>1, <1>2 DEF IInv, StateTypes
<1>4. RunInPlay'
  BY <1>1, NoJobIsNoId DEF IInv, StateTypes, RunInPlay
<1>. QED
  BY <1>3, <1>4, FinishKeepsEvents DEF IInv

\* A row that is stored is covered by its job, or known to come too late.
LEMMA SaveTrendKeepsIInv ==
    ASSUME IInv, SaveTrend
    PROVE  IInv'
<1>. DEFINE s == running[1]
<1>1. /\ running # NoJob /\ running \in JobIds /\ s \in Sources
      /\ rows \in [Sources -> Seq(Days)] /\ day \in Days
      /\ Len(rows[s]) < MaxRows
      /\ rows' = [rows EXCEPT ![s] = Append(@, day)]
      /\ late' = IF running \in inPlay THEN late ELSE late \cup {<<s, Len(rows[s]) + 1>>}
      /\ UNCHANGED <<day, up, crashes, faults, running, locked, inPlay, orphans, failed, events>>
  BY DEF SaveTrend, IInv, StateTypes, JobIds, jobVars
<1>. HIDE DEF s
<1>2. /\ rows' \in [Sources -> Seq(Days)]
      /\ \A r \in Sources : rows'[r] = IF r = s THEN Append(rows[r], day) ELSE rows[r]
  BY <1>1, AppendProperties
<1>3. /\ Len(rows[s]) \in Nat /\ DOMAIN rows[s] = 1..Len(rows[s])
      /\ DOMAIN rows'[s] = 1..Len(rows[s]) + 1
  <2>1. rows[s] \in Seq(Days) /\ rows'[s] = Append(rows[s], day) /\ rows'[s] \in Seq(Days)
    BY <1>1, <1>2
  <2>2. Len(rows'[s]) = Len(rows[s]) + 1
    BY <1>1, <2>1, AppendProperties
  <2>. QED
    BY <2>1, <2>2, LenProperties
<1>4. late' \subseteq Sources \X (1..MaxRows)
  <2>1. Len(rows[s]) + 1 \in 1..MaxRows
    BY <1>1, <1>3, ListenerAssumption
  <2>. QED
    BY <1>1, <2>1 DEF IInv, StateTypes
<1>5. StateTypes' /\ RunInPlay'
  BY <1>1, <1>2, <1>4 DEF IInv, StateTypes, RunInPlay
<1>6. EventsSound'
  <2> SUFFICES ASSUME NEW n \in DOMAIN events PROVE Sound(events[n], rows'[events[n].source])
    BY <1>1 DEF IInv, EventsSound
  <2>1. /\ events[n] \in EventRecords /\ events[n].source \in Sources
        /\ rows[events[n].source] \in Seq(Days)
        /\ Sound(events[n], rows[events[n].source])
    BY EventFacts DEF EventRecords
  <2>2. Sound(events[n], Append(rows[events[n].source], day))
    BY <1>1, <2>1, SoundWithMoreRows
  <2>. QED
    BY <1>2, <2>1, <2>2
<1>7. RowsCovered'
  <2> SUFFICES ASSUME NEW r \in Sources, NEW i \in DOMAIN rows'[r]
               PROVE  \/ \E n \in DOMAIN events : events[n].source = r /\ events[n].upTo >= i
                      \/ <<r, i>> \in late'
                      \/ \E j \in inPlay : j[1] = r
    BY <1>1 DEF RowsCovered
  <2>1. CASE i \in DOMAIN rows[r]
    <3>1. late \subseteq late'
      BY <1>1
    <3>. QED
      BY <2>1, <3>1 DEF IInv, RowsCovered
  <2>2. CASE i \notin DOMAIN rows[r]
    <3>1. r = s /\ i = Len(rows[s]) + 1
      BY <1>2, <1>3, <2>2
    <3>2. CASE running \in inPlay
      BY <3>1, <3>2 DEF s
    <3>3. CASE running \notin inPlay
      BY <1>1, <3>1, <3>3
    <3>. QED
      BY <3>2, <3>3
  <2>. QED
    BY <2>1, <2>2
<1>. QED
  BY <1>5, <1>6, <1>7 DEF IInv

\* A crash leaves the events as they are, but for the handlers it cuts off.
LEMMA CrashKeepsIInv ==
    ASSUME IInv, Crash
    PROVE  IInv'
<1>1. /\ crashes \in Nat /\ crashes' = crashes + 1 /\ crashes' \in 0..MaxCrashes
      /\ up' = FALSE /\ running' = NoJob /\ locked' = FALSE
      /\ orphans' = IF locked THEN orphans \cup {running} ELSE orphans
      /\ events' = [n \in DOMAIN events |->
                      IF events[n].step = "done" THEN events[n]
                      ELSE [events[n] EXCEPT !.step = "lost"]]
      /\ UNCHANGED <<day, faults, rows, inPlay, failed, late>>
  BY ListenerAssumption DEF Crash, IInv, StateTypes
<1>2. StateTypes'
  <2>1. up' \in BOOLEAN /\ locked' \in BOOLEAN
    BY <1>1
  <2>2. orphans' \subseteq JobIds
    BY <1>1 DEF IInv, StateTypes, RunInPlay
  <2>. QED
    BY <1>1, <2>1, <2>2 DEF IInv, StateTypes
<1>3. RunInPlay'
  BY <1>1, <1>2, NoJobIsNoId DEF StateTypes, RunInPlay
<1>4. ASSUME NEW n \in DOMAIN events
      PROVE  events'[n] \in EventRecords /\ Sound(events'[n], rows[events'[n].source])
  <2>. DEFINE e == events[n]
              f == [e EXCEPT !.step = "lost"]
  <2>1. e \in EventRecords /\ Sound(e, rows[e.source])
    BY EventFacts
  <2>2. CASE e.step = "done"
    BY <1>1, <2>1, <2>2
  <2>3. CASE e.step # "done"
    <3>1. events'[n] = f
      BY <1>1, <2>3
    <3>2. f \in EventRecords
      BY <2>1 DEF EventRecords, Steps
    <3>3. /\ f.source = e.source /\ f.upTo = e.upTo /\ f.completed = e.completed
          /\ f.step = "lost" /\ f.saved = e.saved /\ f.listed = e.listed
      BY <2>1 DEF EventRecords
    <3>. HIDE DEF f
    <3>4. Sound(f, rows[e.source])
      BY <2>1, <3>3 DEF Sound
    <3>. QED
      BY <3>1, <3>2, <3>3, <3>4
  <2>. QED
    BY <2>2, <2>3
<1>5. events' \in Seq(EventRecords) /\ DOMAIN events' = DOMAIN events
  <2>1. Len(events) \in Nat /\ DOMAIN events = 1..Len(events)
    BY LenProperties DEF IInv, EventsSound
  <2>2. DOMAIN events' = DOMAIN events
    BY <1>1
  <2>3. events' \in [1..Len(events) -> EventRecords]
    BY <1>1, <1>4, <2>1
  <2>. QED
    BY <2>1, <2>2, <2>3, SeqDef
<1>6. EventsSound'
  BY <1>1, <1>4, <1>5 DEF EventsSound
<1>7. RowsCovered'
  <2>1. \A n \in DOMAIN events : /\ events'[n].source = events[n].source
                                 /\ events'[n].upTo = events[n].upTo
    <3> SUFFICES ASSUME NEW n \in DOMAIN events
                 PROVE  /\ events'[n].source = events[n].source
                        /\ events'[n].upTo = events[n].upTo
      OBVIOUS
    <3>1. events[n] \in EventRecords
      BY EventFacts
    <3>. QED
      BY <1>1, <3>1 DEF EventRecords
  <2> SUFFICES ASSUME NEW s \in Sources, NEW i \in DOMAIN rows[s]
               PROVE  \/ \E n \in DOMAIN events : events'[n].source = s /\ events'[n].upTo >= i
                      \/ <<s, i>> \in late
                      \/ \E j \in inPlay : j[1] = s
    BY <1>1, <1>5 DEF RowsCovered
  <2>2. \/ \E n \in DOMAIN events : events[n].source = s /\ events[n].upTo >= i
        \/ <<s, i>> \in late
        \/ \E j \in inPlay : j[1] = s
    BY DEF IInv, RowsCovered
  <2>. QED
    BY <2>1, <2>2
<1>. QED
  BY <1>2, <1>3, <1>6, <1>7 DEF IInv

\* A job that is taken is in play, and an orphan no more.
LEMMA StartJobKeepsIInv ==
    ASSUME IInv, NEW s \in Sources, StartJob(s)
    PROVE  IInv'
<1>1. /\ running' \in {<<s, d>> : d \in 1..day}
      /\ locked' = TRUE
      /\ inPlay' = inPlay \cup {running'} /\ orphans' = orphans \ {running'}
      /\ UNCHANGED <<day, up, crashes, faults, rows, failed, late, events>>
  BY DEF StartJob
<1>2. running' \in JobIds
  <2>1. PICK d \in 1..day : running' = <<s, d>>
    BY <1>1
  <2>2. d \in Days
    BY ListenerAssumption DEF IInv, StateTypes, Days
  <2>. QED
    BY <2>1, <2>2 DEF JobIds
<1>3. locked' \in BOOLEAN
  BY <1>1
<1>4. StateTypes'
  BY <1>1, <1>2, <1>3 DEF IInv, StateTypes
<1>5. RunInPlay'
  BY <1>1 DEF RunInPlay
<1>6. RowsCovered'
  BY <1>1 DEF IInv, RowsCovered
<1>. QED
  BY <1>1, <1>4, <1>5, <1>6 DEF IInv, EventsSound

\* Every step keeps the invariant.
LEMMA NextIInv == IInv /\ [Next]_vars => IInv'
<1> SUFFICES ASSUME IInv, [Next]_vars PROVE IInv'
  OBVIOUS
<1>1. ASSUME NEW s \in Sources, StartJob(s) PROVE IInv'
  BY <1>1, StartJobKeepsIInv
<1>2. CASE SaveTrend
  BY <1>2, SaveTrendKeepsIInv
<1>3. ASSUME NEW isCompleted \in BOOLEAN, JobEnds(isCompleted) PROVE IInv'
  <2>1. Finish(running, isCompleted) /\ running' = NoJob /\ locked' = FALSE /\ orphans' = orphans
    BY <1>3 DEF JobEnds, PutDown
  <2>2. running \in JobIds
    BY <1>3 DEF JobEnds, IInv, StateTypes, RunInPlay
  <2>. QED
    BY <2>1, <2>2, FinishKeepsIInv
<1>4. CASE AttemptFails \/ OutcomeRefused
  <2>1. /\ running' = NoJob /\ locked' = FALSE
        /\ UNCHANGED <<day, up, crashes, faults, rows, inPlay, orphans, failed, late, events>>
    BY <1>4 DEF AttemptFails, OutcomeRefused, PutDown
  <2>2. locked' \in BOOLEAN
    BY <2>1
  <2>3. StateTypes' /\ RunInPlay'
    BY <2>1, <2>2, NoJobIsNoId DEF IInv, StateTypes, RunInPlay
  <2>. QED
    BY <2>1, <2>3 DEF IInv, EventsSound, RowsCovered
<1>5. CASE LoseLock
  <2>1. locked /\ locked' = FALSE /\ UNCHANGED <<running, orphans>>
    BY <1>5 DEF LoseLock
  <2>2. CASE UNCHANGED <<day, up, crashes, faults, rows, inPlay, failed, late, events>>
    <3>1. locked' \in BOOLEAN
      BY <2>1
    <3>2. StateTypes' /\ RunInPlay'
      BY <2>1, <2>2, <3>1 DEF IInv, StateTypes, RunInPlay
    <3>. QED
      BY <2>2, <3>2 DEF IInv, EventsSound, RowsCovered
  <2>3. ASSUME NEW c \in BOOLEAN, Finish(running, c) PROVE IInv'
    <3>1. running \in JobIds
      BY <2>1 DEF IInv, StateTypes, RunInPlay
    <3>. QED
      BY <2>1, <2>3, <3>1, FinishKeepsIInv
  <2>. QED
    BY <1>5, <2>2, <2>3 DEF LoseLock
<1>6. ASSUME NEW j \in orphans, GiveUpOrphan(j) PROVE IInv'
  <2>1. j \in JobIds
    BY DEF IInv, StateTypes
  <2>2. orphans' = orphans \ {j} /\ UNCHANGED <<running, locked>>
    BY <1>6 DEF GiveUpOrphan
  <2>3. ASSUME NEW c \in BOOLEAN, Finish(j, c) PROVE IInv'
    BY <2>1, <2>2, <2>3, FinishKeepsIInv
  <2>. QED
    BY <1>6, <2>3 DEF GiveUpOrphan
<1>7. ASSUME NEW n \in DOMAIN events, HandlerStep(n) \/ PostHangs(n) PROVE IInv'
  BY <1>7, HandlerKeepsIInv
<1>8. CASE Crash
  BY <1>8, CrashKeepsIInv
<1>9. CASE Restart
  <2>1. up' \in BOOLEAN
    BY <1>9 DEF Restart
  <2>. QED
    BY <1>9, <2>1
       DEF Restart, jobVars, IInv, StateTypes, EventsSound, RowsCovered, RunInPlay
<1>10. CASE NextDay
  <2>1. day' \in Days
    BY <1>10, ListenerAssumption DEF NextDay, IInv, StateTypes, Days
  <2>. QED
    BY <1>10, <2>1
       DEF NextDay, jobVars, IInv, StateTypes, EventsSound, RowsCovered, RunInPlay
<1>11. CASE UNCHANGED vars
  BY <1>11 DEF vars, envVars, jobVars, IInv, StateTypes, EventsSound, RowsCovered, RunInPlay
<1>12. CASE Idle
  BY <1>11, <1>12 DEF Idle
<1>. QED
  BY <1>1, <1>2, <1>3, <1>4, <1>5, <1>6, <1>7, <1>8, <1>9, <1>10, <1>11, <1>12 DEF Next

-----------------------------------------------------------------------------
(* The theorems *)

\* The inductive invariant holds in every reachable state.
THEOREM Invariance == Spec => []IInv
<1>. QED
  BY InitIInv, NextIInv, PTL DEF Spec

\* Every variable of the listener keeps its type.
THEOREM TypeCorrect == Spec => []TypeOK
<1>1. IInv => TypeOK
  <2> SUFFICES ASSUME IInv PROVE TypeOK
    OBVIOUS
  <2>1. StateTypes
    BY DEF IInv
  <2>2. ASSUME NEW n \in DOMAIN events
        PROVE  LET e == events[n] IN
               /\ e.source \in Sources /\ {e.completed, e.trouble} \subseteq BOOLEAN
               /\ e.step \in Steps /\ {e.since, e.begun} \subseteq {0} \cup Days
               /\ e.listed \subseteq e.saved /\ e.saved \subseteq DOMAIN rows[e.source]
               /\ {e.upTo, e.others} \subseteq Nat
    <3>1. events[n] \in EventRecords /\ Sound(events[n], rows[events[n].source])
      BY EventFacts
    <3>. QED
      BY <3>1 DEF EventRecords, Sound
  <2>. QED
    BY <2>1, <2>2 DEF StateTypes, TypeOK
<1>. QED
  BY <1>1, Invariance, PTL

\* A completed event handled without trouble accounts for every row of its day:
\* the oldest by name, as many as the message holds, and the rest by number.
THEOREM AnnouncesHolds == Spec => []AnnouncesWholeDay
<1>1. ASSUME IInv, NEW n \in DOMAIN events, events[n].completed, events[n].step = "done",
             ~events[n].trouble
      PROVE  /\ {i \in 1..events[n].upTo : rows[events[n].source][i] >= events[n].begun}
                   \subseteq events[n].saved
             /\ Cardinality(events[n].listed) + events[n].others = Cardinality(events[n].saved)
             /\ \A i \in events[n].listed, k \in events[n].saved \ events[n].listed : i < k
  <2>. DEFINE e == events[n]
              rs == rows[e.source]
  <2>1. /\ e \in EventRecords /\ rs \in Seq(Days) /\ Sound(e, rs)
    BY <1>1, EventFacts
  <2>2. Todays(e, rs) \subseteq e.saved
    BY <1>1, <2>1 DEF Sound
  <2>3. e.listed = Listed(e.saved) /\ e.others = Cardinality(e.saved \ Listed(e.saved))
    BY <1>1, <2>1 DEF Sound
  <2>4. e.saved \in SUBSET Nat /\ IsFiniteSet(e.saved)
    BY <2>1, FoundRowsAreFinite DEF EventRecords, Sound
  <2>. QED
    BY <2>2, <2>3, <2>4, ListedAndOthers, ListedAreFirst DEF Todays
<1>2. IInv => AnnouncesWholeDay
  BY <1>1 DEF AnnouncesWholeDay
<1>. QED
  BY <1>2, Invariance, PTL

\* A row that was stored and that nobody announces has a reason.
THEOREM MissedHolds == Spec => []MissedForAReason
<1>1. ASSUME IInv, NEW s \in Sources, NEW i \in DOMAIN rows[s]
      PROVE  LET later == {n \in DOMAIN events : events[n].source = s /\ events[n].upTo >= i}
             IN  \/ \E n \in DOMAIN events :
                       events[n].source = s /\ i \in events[n].saved /\ events[n].listed # {}
                 \/ later = {} /\ (<<s, i>> \in late \/ \E j \in inPlay : j[1] = s)
                 \/ later # {} /\ \A n \in later :
                       \/ ~events[n].completed
                       \/ events[n].step # "done"
                       \/ events[n].trouble
                       \/ events[n].begun > rows[s][i]
  <2>. DEFINE later == {n \in DOMAIN events : events[n].source = s /\ events[n].upTo >= i}
              told(n) == events[n].source = s /\ i \in events[n].saved /\ events[n].listed # {}
              excused(n) == \/ ~events[n].completed
                            \/ events[n].step # "done"
                            \/ events[n].trouble
                            \/ events[n].begun > rows[s][i]
  <2>1. later = {} => <<s, i>> \in late \/ \E j \in inPlay : j[1] = s
    BY <1>1 DEF IInv, RowsCovered
  <2>2. ASSUME NEW n \in later, ~excused(n) PROVE told(n)
    <3>. DEFINE e == events[n]
                rs == rows[s]
    <3>1. e \in EventRecords /\ rs \in Seq(Days) /\ Sound(e, rs) /\ e.source = s /\ e.upTo >= i
      BY <1>1, EventFacts
    <3>2. /\ e.completed /\ e.step = "done" /\ ~e.trouble
          /\ ~(e.begun > rs[i])
      BY <2>2
    <3>3. /\ i \in Nat \ {0} /\ rs[i] \in Int /\ e.begun \in Int /\ e.upTo \in Nat
      <4>1. i \in 1..Len(rs) /\ Len(rs) \in Nat
        BY <3>1, LenProperties
      <4>2. rs[i] \in Days
        BY <3>1, <4>1, ElementOfSeq
      <4>. QED
        BY <3>1, <4>1, <4>2 DEF EventRecords, Days
    <3>4. i \in Todays(e, rs)
      BY <3>1, <3>2, <3>3 DEF Todays
    <3>5. i \in e.saved /\ e.saved \in SUBSET Nat
      BY <3>1, <3>2, <3>4 DEF Sound, EventRecords
    <3>6. e.listed = Listed(e.saved)
      BY <3>1, <3>2 DEF Sound
    <3>. QED
      BY <3>1, <3>5, <3>6, ListedNamesOne
  <2>3. CASE \E n \in later : ~excused(n)
    <3>1. \E n \in DOMAIN events : told(n)
      BY <2>2, <2>3
    <3>. QED
      BY <3>1
  <2>4. CASE \A n \in later : excused(n)
    BY <2>1, <2>4
  <2>. QED
    BY <2>3, <2>4
<1>2. IInv => MissedForAReason
  BY <1>1 DEF MissedForAReason
<1>. QED
  BY <1>2, Invariance, PTL
=============================================================================
