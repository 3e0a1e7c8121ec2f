--------------------------- MODULE SearchEmbedding ---------------------------
(***************************************************************************)
(* AiService.embedSearchQuery: the embedding vector of a search keyword,   *)
(* from the Redis cache, or computed by one request under a Redis lock     *)
(* while the others poll (waitForCache).  A null answer makes the search   *)
(* fall back to full text.                                                 *)
(*                                                                         *)
(* Every request is suspended at an await.  All requests of a process      *)
(* share one Redis connection (RedisService.client): commands are sent,    *)
(* executed and answered in order, and a request whose reply has come      *)
(* sends its next command before the replies behind it are handled.        *)
(*                                                                         *)
(* A key stands for a normalised keyword; the random lock value stands for *)
(* the request that drew it.  Time is left out: a lock may expire at any   *)
(* moment, at most MaxLockLosses times.                                    *)
(***************************************************************************)
EXTENDS Integers, Sequences, FiniteSets

CONSTANTS
    Requests, Keys, Processes,
    KeyOf,          \* request -> key
    ProcessOf,      \* request -> backend process that serves it
    Permits,        \* new Semaphore(3)
    MaxPolls,       \* maxRetries of waitForCache
    MaxLockLosses,  \* bound: locks that expire or are evicted
    MaxCacheLosses, \* bound: vectors that expire or are evicted
    MaxOutages,     \* bound: times the connection to Redis breaks
    MaxApiFailures, \* bound: API calls that fail or return no vector
    MaxCrashes      \* bound: crashes of a backend process

NoOwner == "none"

ASSUME EmbeddingAssumption ==
    /\ IsFiniteSet(Requests)
    /\ NoOwner \notin Requests
    /\ KeyOf \in [Requests -> Keys]
    /\ ProcessOf \in [Requests -> Processes]
    /\ Permits \in Nat \ {0}
    /\ MaxPolls \in Nat \ {0}
    /\ {MaxLockLosses, MaxCacheLosses, MaxOutages, MaxApiFailures, MaxCrashes} \subseteq Nat

VARIABLES
    pc,         \* request -> the await it is suspended at
    result,     \* request -> outcome of its Redis command
    answered,   \* request -> the vector was returned, not null
    vector,     \* request -> it holds a vector it computed
    polls,      \* request -> rounds of waitForCache done
    wire,       \* process -> requests whose command is sent, not executed
    replies,    \* process -> requests whose reply is not handled
    permits,    \* process -> free permits of its semaphore
    semQueue,   \* process -> requests waiting for a permit
    cache,      \* key -> the vector is cached in Redis
    lock,       \* key -> request whose value the lock holds, or NoOwner
    redisUp,
    expired,    \* history: requests whose lock was lost under them
    calls,      \* history: key -> embedding API calls started
    faults      \* history: number of faults of each kind

localVars == <<answered, vector, polls>>
connVars  == <<result, wire, replies>>
semVars   == <<permits, semQueue>>
redisVars == <<cache, lock, redisUp>>
histVars  == <<expired, calls, faults>>
vars      == <<pc, localVars, connVars, semVars, redisVars, histVars>>

Commands == {"reading", "locking", "storing", "releasing", "polling", "checking"}
Steps    == Commands \cup {"idle", "queued", "calling", "sleeping", "done"}
Results  == {"pending", "yes", "no", "error"}
Kinds    == {"lock", "cache", "outage", "api", "crash"}

Init ==
    /\ pc = [r \in Requests |-> "idle"]
    /\ result = [r \in Requests |-> "pending"]
    /\ answered = [r \in Requests |-> FALSE]
    /\ vector = [r \in Requests |-> FALSE]
    /\ polls = [r \in Requests |-> 0]
    /\ wire = [p \in Processes |-> <<>>]
    /\ replies = [p \in Processes |-> <<>>]
    /\ permits = [p \in Processes |-> Permits]
    /\ semQueue = [p \in Processes |-> <<>>]
    /\ cache = [k \in Keys |-> FALSE]
    /\ lock = [k \in Keys |-> NoOwner]
    /\ redisUp = TRUE
    /\ expired = {}
    /\ calls = [k \in Keys |-> 0]
    /\ faults = [f \in Kinds |-> 0]

-----------------------------------------------------------------------------
(* Redis: the command at the head of a connection is executed *)

\* The command of r takes effect and its reply joins the replies on the way.
Executed(r, outcome) ==
    /\ result' = [result EXCEPT ![r] = outcome]
    /\ wire' = [wire EXCEPT ![ProcessOf[r]] = Tail(@)]
    /\ replies' = [replies EXCEPT ![ProcessOf[r]] = Append(@, r)]

AtRedis(r, command) ==
    /\ redisUp
    /\ pc[r] = command
    /\ wire[ProcessOf[r]] # <<>>
    /\ Head(wire[ProcessOf[r]]) = r

YesIf(b) == IF b THEN "yes" ELSE "no"

GetCache(r) ==
    /\ AtRedis(r, "reading") \/ AtRedis(r, "polling")
    /\ Executed(r, YesIf(cache[KeyOf[r]]))
    /\ UNCHANGED <<pc, localVars, semVars, redisVars, histVars>>

\* Mutant: SET without NX.
AcquireLockAlways(r) ==
    /\ AtRedis(r, "locking")
    /\ Executed(r, "yes")
    /\ lock' = [lock EXCEPT ![KeyOf[r]] = r]
    /\ UNCHANGED <<pc, localVars, semVars, cache, redisUp, histVars>>

\* SET key uuid PX 10000 NX
AcquireLock(r) ==
    /\ AtRedis(r, "locking")
    /\ Executed(r, YesIf(lock[KeyOf[r]] = NoOwner))
    /\ lock' = [lock EXCEPT ![KeyOf[r]] = IF @ = NoOwner THEN r ELSE @]
    /\ UNCHANGED <<pc, localVars, semVars, cache, redisUp, histVars>>

SetCache(r) ==
    /\ AtRedis(r, "storing")
    /\ Executed(r, "yes")
    /\ cache' = [cache EXCEPT ![KeyOf[r]] = TRUE]
    /\ UNCHANGED <<pc, localVars, semVars, lock, redisUp, histVars>>

\* Mutant: DEL without a look at the value.
DeleteLock(r) ==
    /\ AtRedis(r, "releasing")
    /\ Executed(r, "yes")
    /\ lock' = [lock EXCEPT ![KeyOf[r]] = NoOwner]
    /\ UNCHANGED <<pc, localVars, semVars, cache, redisUp, histVars>>

\* The script deletes the lock only when it still holds this request's value.
ReleaseLock(r) ==
    /\ AtRedis(r, "releasing")
    /\ Executed(r, "yes")
    /\ lock' = [lock EXCEPT ![KeyOf[r]] = IF @ = r THEN NoOwner ELSE @]
    /\ UNCHANGED <<pc, localVars, semVars, cache, redisUp, histVars>>

Exists(r) ==
    /\ AtRedis(r, "checking")
    /\ Executed(r, YesIf(lock[KeyOf[r]] # NoOwner))
    /\ UNCHANGED <<pc, localVars, semVars, redisVars, histVars>>

RedisStep(r) == GetCache(r) \/ AcquireLock(r) \/ SetCache(r) \/ ReleaseLock(r) \/ Exists(r)

-----------------------------------------------------------------------------
(* The process: how a request goes on *)

\* Send a command: `out` is what is left of the replies of the process.  With
\* Redis out of reach the command rejects at once (no offline queue).
Send(r, command, out) ==
    /\ pc' = [pc EXCEPT ![r] = command]
    /\ IF redisUp
       THEN /\ result' = [result EXCEPT ![r] = "pending"]
            /\ wire' = [wire EXCEPT ![ProcessOf[r]] = Append(@, r)]
            /\ replies' = [replies EXCEPT ![ProcessOf[r]] = out]
       ELSE /\ result' = [result EXCEPT ![r] = "error"]
            /\ replies' = [replies EXCEPT ![ProcessOf[r]] = Append(out, r)]
            /\ UNCHANGED wire

SendNew(r, command)  == Send(r, command, replies[ProcessOf[r]])
SendNext(r, command) == Send(r, command, Tail(replies[ProcessOf[r]]))

\* The reply r waits for is the next one its process handles.
Replied(r, command) ==
    /\ pc[r] = command
    /\ replies[ProcessOf[r]] # <<>>
    /\ Head(replies[ProcessOf[r]]) = r

\* r goes on to something that is not a Redis command.
GoOn(r, step) ==
    /\ pc' = [pc EXCEPT ![r] = step]
    /\ result' = [result EXCEPT ![r] = "pending"]
    /\ replies' = [replies EXCEPT ![ProcessOf[r]] = Tail(@)]
    /\ UNCHANGED wire

Answer(r, isVector) ==
    /\ GoOn(r, "done")
    /\ answered' = [answered EXCEPT ![r] = isVector]
    /\ UNCHANGED <<vector, polls, semVars>>

Arrive(r) ==
    /\ pc[r] = "idle"
    /\ SendNew(r, "reading")
    /\ UNCHANGED <<localVars, semVars, redisVars, histVars>>

AfterRead(r) ==
    /\ Replied(r, "reading")
    /\ result[r] # "error"
    /\ IF result[r] = "yes"
       THEN Answer(r, TRUE)
       ELSE SendNext(r, "locking") /\ UNCHANGED <<localVars, semVars>>
    /\ UNCHANGED <<redisVars, histVars>>

\* The owner lines up for the semaphore; everybody else waits for the cache.
AfterLock(r) ==
    /\ Replied(r, "locking")
    /\ result[r] # "error"
    /\ IF result[r] = "yes"
       THEN /\ GoOn(r, "queued")
            /\ semQueue' = [semQueue EXCEPT ![ProcessOf[r]] = Append(@, r)]
       ELSE /\ GoOn(r, "sleeping")
            /\ UNCHANGED semQueue
    /\ UNCHANGED <<localVars, permits, redisVars, histVars>>

EnterSemaphore(r) ==
    LET p == ProcessOf[r] IN
    /\ pc[r] = "queued"
    /\ permits[p] > 0
    /\ semQueue[p] # <<>> /\ Head(semQueue[p]) = r
    /\ semQueue' = [semQueue EXCEPT ![p] = Tail(@)]
    /\ permits' = [permits EXCEPT ![p] = @ - 1]
    /\ calls' = [calls EXCEPT ![KeyOf[r]] = @ + 1]
    /\ pc' = [pc EXCEPT ![r] = "calling"]
    /\ UNCHANGED <<localVars, connVars, redisVars, expired, faults>>

LeaveSemaphore(r) == permits' = [permits EXCEPT ![ProcessOf[r]] = @ + 1]

\* Mutant: the vector is not cached before the lock is released.
ApiReturnsUncached(r) ==
    /\ pc[r] = "calling"
    /\ LeaveSemaphore(r)
    /\ vector' = [vector EXCEPT ![r] = TRUE]
    /\ SendNew(r, "releasing")
    /\ UNCHANGED <<answered, polls, semQueue, redisVars, histVars>>

ApiReturns(r) ==
    /\ pc[r] = "calling"
    /\ LeaveSemaphore(r)
    /\ vector' = [vector EXCEPT ![r] = TRUE]
    /\ SendNew(r, "storing")
    /\ UNCHANGED <<answered, polls, semQueue, redisVars, histVars>>

\* Mutant: a failed call keeps its permit.
ApiFailsKeepsPermit(r) ==
    /\ pc[r] = "calling"
    /\ faults["api"] < MaxApiFailures
    /\ faults' = [faults EXCEPT !["api"] = @ + 1]
    /\ SendNew(r, "releasing")
    /\ UNCHANGED <<localVars, semVars, redisVars, expired, calls>>

\* Mutant: the lock is not released when the call fails.
ApiFailsKeepsLock(r) ==
    /\ pc[r] = "calling"
    /\ faults["api"] < MaxApiFailures
    /\ faults' = [faults EXCEPT !["api"] = @ + 1]
    /\ LeaveSemaphore(r)
    /\ pc' = [pc EXCEPT ![r] = "done"]
    /\ UNCHANGED <<localVars, connVars, semQueue, redisVars, expired, calls>>

\* The call rejects after its retries, or returns an empty vector: nothing is
\* cached, and the finally block still releases the lock.
ApiFails(r) ==
    /\ pc[r] = "calling"
    /\ faults["api"] < MaxApiFailures
    /\ faults' = [faults EXCEPT !["api"] = @ + 1]
    /\ LeaveSemaphore(r)
    /\ SendNew(r, "releasing")
    /\ UNCHANGED <<localVars, semQueue, redisVars, expired, calls>>

\* A rejected write loses the vector; the finally block still runs.
AfterStore(r) ==
    /\ Replied(r, "storing")
    /\ vector' = [vector EXCEPT ![r] = result[r] # "error"]
    /\ SendNext(r, "releasing")
    /\ UNCHANGED <<answered, polls, semVars, redisVars, histVars>>

AfterRelease(r) ==
    /\ Replied(r, "releasing")
    /\ result[r] # "error"
    /\ Answer(r, vector[r])
    /\ UNCHANGED <<redisVars, histVars>>

\* waitForCache: the timer of a round fires.
Poll(r) ==
    /\ pc[r] = "sleeping"
    /\ SendNew(r, "polling")
    /\ UNCHANGED <<localVars, semVars, redisVars, histVars>>

AfterPoll(r) ==
    /\ Replied(r, "polling")
    /\ result[r] # "error"
    /\ IF result[r] = "yes"
       THEN Answer(r, TRUE)
       ELSE SendNext(r, "checking") /\ UNCHANGED <<localVars, semVars>>
    /\ UNCHANGED <<redisVars, histVars>>

\* The lock is gone: give up at once and fall back.
EarlyExit(r) ==
    /\ Replied(r, "checking")
    /\ result[r] = "no"
    /\ Answer(r, FALSE)
    /\ UNCHANGED <<redisVars, histVars>>

\* Mutant: off by one, a round too many.
NextRoundOnceMore(r) ==
    /\ Replied(r, "checking")
    /\ result[r] = "yes"
    /\ polls' = [polls EXCEPT ![r] = @ + 1]
    /\ GoOn(r, IF polls[r] = MaxPolls THEN "done" ELSE "sleeping")
    /\ UNCHANGED <<answered, vector, semVars, redisVars, histVars>>

\* Mutant: no bound, the wait goes on for as long as the lock is there.
NextRoundForever(r) ==
    /\ Replied(r, "checking")
    /\ result[r] = "yes"
    /\ GoOn(r, "sleeping")
    /\ UNCHANGED <<localVars, semVars, redisVars, histVars>>

\* The lock is there: another round, or give up after the last.
NextRound(r) ==
    /\ Replied(r, "checking")
    /\ result[r] = "yes"
    /\ polls' = [polls EXCEPT ![r] = @ + 1]
    /\ GoOn(r, IF polls'[r] = MaxPolls THEN "done" ELSE "sleeping")
    /\ UNCHANGED <<answered, vector, semVars, redisVars, histVars>>

\* A Redis command rejected: the catch of embedSearchQuery answers null.
CommandRejected(r) ==
    /\ \E c \in Commands \ {"storing"} : Replied(r, c)
    /\ result[r] = "error"
    /\ Answer(r, FALSE)
    /\ UNCHANGED <<redisVars, histVars>>

-----------------------------------------------------------------------------
(* Faults *)

Count(kind, max) ==
    /\ faults[kind] < max
    /\ faults' = [faults EXCEPT ![kind] = @ + 1]

\* The lock of k expires (ttlMs 10000) or is evicted (allkeys-lru).
LockLost(k) ==
    /\ lock[k] # NoOwner
    /\ Count("lock", MaxLockLosses)
    /\ lock' = [lock EXCEPT ![k] = NoOwner]
    /\ expired' = expired \cup {lock[k]}
    /\ UNCHANGED <<pc, localVars, connVars, semVars, cache, redisUp, calls>>

CacheLost(k) ==
    /\ cache[k]
    /\ Count("cache", MaxCacheLosses)
    /\ cache' = [cache EXCEPT ![k] = FALSE]
    /\ UNCHANGED <<pc, localVars, connVars, semVars, lock, redisUp, expired, calls>>

\* The connections break: every command not answered rejects, the executed
\* ones too.
RedisDown ==
    /\ redisUp
    /\ Count("outage", MaxOutages)
    /\ redisUp' = FALSE
    /\ replies' = [p \in Processes |-> replies[p] \o wire[p]]
    /\ wire' = [p \in Processes |-> <<>>]
    /\ result' = [r \in Requests |-> IF pc[r] \in Commands THEN "error" ELSE result[r]]
    /\ UNCHANGED <<pc, localVars, semVars, cache, lock, expired, calls>>

\* Redis is back with its data, or empty (the cache instance persists nothing).
RedisBack ==
    /\ ~redisUp
    /\ redisUp' = TRUE
    /\ \/ UNCHANGED <<cache, lock, expired>>
       \/ /\ cache' = [k \in Keys |-> FALSE]
          /\ lock' = [k \in Keys |-> NoOwner]
          /\ expired' = expired \cup {r \in Requests : lock[KeyOf[r]] = r}
    /\ UNCHANGED <<pc, localVars, connVars, semVars, calls, faults>>

\* A process dies with its requests; their locks stay in Redis.
Crash(p) ==
    /\ Count("crash", MaxCrashes)
    /\ pc' = [r \in Requests |->
                IF ProcessOf[r] = p /\ pc[r] # "idle" THEN "done" ELSE pc[r]]
    /\ result' = [r \in Requests |-> IF ProcessOf[r] = p THEN "pending" ELSE result[r]]
    /\ wire' = [wire EXCEPT ![p] = <<>>]
    /\ replies' = [replies EXCEPT ![p] = <<>>]
    /\ permits' = [permits EXCEPT ![p] = Permits]
    /\ semQueue' = [semQueue EXCEPT ![p] = <<>>]
    /\ UNCHANGED <<localVars, redisVars, expired, calls>>

RequestStep(r) ==
    \/ RedisStep(r)
    \/ AfterRead(r) \/ AfterLock(r)
    \/ EnterSemaphore(r) \/ ApiReturns(r) \/ ApiFails(r) \/ AfterStore(r) \/ AfterRelease(r)
    \/ Poll(r) \/ AfterPoll(r) \/ EarlyExit(r) \/ NextRound(r)
    \/ CommandRejected(r)

Fault ==
    \/ \E k \in Keys : LockLost(k) \/ CacheLost(k)
    \/ RedisDown
    \/ RedisBack
    \/ \E p \in Processes : Crash(p)

\* Every request has its answer: the only way to stand still.
AllAnswered == (\A r \in Requests : pc[r] = "done") /\ UNCHANGED vars

Next ==
    \/ \E r \in Requests : Arrive(r) \/ RequestStep(r)
    \/ Fault
    \/ AllAnswered

Spec == Init /\ [][Next]_vars

\* Redis executes what it was sent, timers fire, API calls return and the
\* client reconnects.
FairSpec ==
    /\ Spec
    /\ \A r \in Requests : WF_vars(RequestStep(r))
    /\ WF_vars(RedisBack)

-----------------------------------------------------------------------------
(* Properties *)

\* Every variable keeps its type.
TypeOK ==
    /\ pc \in [Requests -> Steps]
    /\ result \in [Requests -> Results]
    /\ answered \in [Requests -> BOOLEAN]
    /\ vector \in [Requests -> BOOLEAN]
    /\ polls \in [Requests -> 0..MaxPolls]
    /\ wire \in [Processes -> Seq(Requests)]
    /\ replies \in [Processes -> Seq(Requests)]
    /\ permits \in [Processes -> 0..Permits]
    /\ semQueue \in [Processes -> Seq(Requests)]
    /\ cache \in [Keys -> BOOLEAN]
    /\ lock \in [Keys -> Requests \cup {NoOwner}]
    /\ redisUp \in BOOLEAN
    /\ expired \subseteq Requests
    /\ calls \in [Keys -> Nat]
    /\ faults \in [Kinds -> Nat]

\* The request has the lock and has not given it back.
Owner(r) ==
    \/ pc[r] = "locking" /\ result[r] = "yes"
    \/ pc[r] \in {"queued", "calling", "storing"}
    \/ pc[r] = "releasing" /\ result[r] = "pending"

\* Nobody takes an owner's lock but time and memory pressure: until its lock is
\* lost, an owner finds its own value there, also when an earlier owner whose
\* lock expired releases late (releaseLock, redis.service.ts:117-130).
OwnerHasLock == \A r \in Requests : Owner(r) /\ r \notin expired => lock[KeyOf[r]] = r

\* No path of embedSearchQuery leaves its lock behind; only a broken connection
\* or a dead process does, until the lock's ttl ends.
NoLockLeftBehind ==
    faults["outage"] + faults["crash"] = 0 =>
        \A k \in Keys : lock[k] # NoOwner => pc[lock[k]] # "done"

Untroubled == \A f \in Kinds : faults[f] = 0

\* Without faults one API call serves all concurrent requests for a key (README
\* line 57).  A miss is read and the lock is tried in two commands, so this
\* rests on the order of one connection: it holds for one process only.
OneCallPerKey == Untroubled => \A k \in Keys : calls[k] <= 1

\* A waiter that finds the lock gone is right to give up: when no lock and no
\* vector was lost, the cache is empty at that moment because the owner failed.
EarlyExitMeansFailure ==
    [][\A r \in Requests :
         /\ pc[r] = "checking" /\ result[r] = "pending" /\ result'[r] = "no"
         /\ faults["lock"] + faults["cache"] + faults["outage"] + faults["crash"] = 0
         => ~cache[KeyOf[r]] /\ faults["api"] > 0]_vars

\* What the comment of waitForCache says of every early exit (ai.service.ts:344):
\* the owner has failed and no vector is on its way.
EarlyExitIsHopeless ==
    [][\A r \in Requests : EarlyExit(r) =>
         \A q \in Requests : KeyOf[q] = KeyOf[r] => pc[q] \notin {"queued", "calling", "storing"}]_vars

\* Every request is answered, whatever fails while it waits.
EveryRequestAnswered == \A r \in Requests : pc[r] # "idle" ~> pc[r] = "done"
=============================================================================
