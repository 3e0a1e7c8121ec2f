----------------------------- MODULE ReadThrough -----------------------------
(***************************************************************************)
(* The cached reads of TrendsQueryService (getTrendById, getRelatedTrends, *)
(* getListCount, getUniqueSources) in one backend process.                 *)
(*                                                                         *)
(* A reader asks Redis for its key.  On a miss it joins the pending load   *)
(* of the key, or starts one: a database query whose value is written to   *)
(* Redis without waiting for it.  The load of a related key first calls    *)
(* getTrendById, a reader of its own (Helper).  The source list has no map *)
(* of pending loads and is dropped when a collection completes.            *)
(*                                                                         *)
(* Redis executes the commands of the one connection in order.  A value is *)
(* the version of the table it was computed from.                          *)
(***************************************************************************)
EXTENDS Integers, Sequences, FiniteSets

CONSTANTS
    Readers,          \* HTTP requests, and the helpers of related loads
    Keys,             \* cache keys
    KeyOf,            \* reader -> key
    Helper,           \* reader of a related key -> its helper
    Unembedded,       \* readers of the related key of an article without embedding
    Details,          \* keys of single articles
    Uncoalesced,      \* keys without a map of pending loads: the source list
    Born,             \* detail key -> version at which its row exists
    MaxVersion,       \* bound: changes of the table
    MaxCacheLosses,   \* bound: values that expire or are evicted
    MaxOutages,       \* bound: times Redis goes away
    MaxQueryFailures  \* bound: database queries that fail

Nobody  == "nobody"
NoValue == -1   \* nil from Redis; a failed read is treated alike
Missing == -2   \* NotFoundException
Error   == -3   \* InternalServerErrorException

Related  == DOMAIN Helper
Helpers  == {Helper[r] : r \in Related}
Requests == Readers \ Helpers
Values   == {NoValue} \cup 0..MaxVersion

ASSUME ReadAssumption ==
    /\ Nobody \notin Readers
    /\ KeyOf \in [Readers -> Keys]
    /\ Related \subseteq Readers
    /\ Unembedded \subseteq Related
    /\ \A r \in Related, q \in Readers : KeyOf[r] = KeyOf[q] => q \in Related
    /\ \A r \in Unembedded, q \in Related : KeyOf[r] = KeyOf[q] => q \in Unembedded
    /\ Helpers \subseteq Readers \ Related
    /\ \A r, q \in Related : Helper[r] = Helper[q] => r = q
    /\ \A r \in Related : KeyOf[r] \notin Details \cup Uncoalesced /\ KeyOf[Helper[r]] \in Details
    /\ Details \cup Uncoalesced \subseteq Keys
    /\ Details \cap Uncoalesced = {}
    /\ Born \in [Details -> Nat]
    /\ {MaxVersion, MaxCacheLosses, MaxOutages, MaxQueryFailures} \subseteq Nat

VARIABLES
    version,   \* of the table
    pc,        \* reader -> the await it is suspended at
    joined,    \* reader -> reader that started the load it awaits
    answer,    \* reader -> what it returned
    load,      \* reader -> state of the load it started
    queried,   \* reader -> version its query saw
    map,       \* key -> reader whose load is in the map of pending loads
    cache,     \* key -> value in Redis
    wire,      \* commands sent and not executed
    replies,   \* replies to GETs on the way
    redisUp,
    faults,    \* history: number of faults of each kind
    floor,     \* history: key -> newest version answered so far
    since,     \* history: reader -> floor of its key when it arrived
    warm,      \* history: readers that arrived after a load of their key
    collected, \* history: version the last completed event follows
    dropped    \* history: version whose invalidation Redis has executed

readerVars == <<pc, joined, answer>>
loadVars   == <<load, queried, map>>
connVars   == <<wire, replies>>
histVars   == <<floor, since, warm>>
listVars   == <<collected, dropped>>
vars == <<version, readerVars, loadVars, cache, connVars, redisUp, faults, histVars, listVars>>

Kinds == {"loss", "outage", "query"}

Init ==
    /\ version = 0
    /\ pc = [r \in Readers |-> "idle"]
    /\ joined = [r \in Readers |-> Nobody]
    /\ answer = [r \in Readers |-> NoValue]
    /\ load = [r \in Readers |-> "none"]
    /\ queried = [r \in Readers |-> NoValue]
    /\ map = [k \in Keys |-> Nobody]
    /\ cache = [k \in Keys |-> NoValue]
    /\ wire = <<>>
    /\ replies = <<>>
    /\ redisUp = TRUE
    /\ faults = [f \in Kinds |-> 0]
    /\ floor = [k \in Keys |-> NoValue]
    /\ since = [r \in Readers |-> NoValue]
    /\ warm = {}
    /\ collected = 0
    /\ dropped = 0

-----------------------------------------------------------------------------
(* Redis *)

Get(r)    == [op |-> "get", by |-> r, key |-> KeyOf[r], val |-> NoValue]
Set(r, v) == [op |-> "set", by |-> r, key |-> KeyOf[r], val |-> v]
Del(k, v) == [op |-> "del", by |-> Nobody, key |-> k, val |-> v]

\* A command of which nobody awaits the reply; it is lost when Redis is away.
SendAway(c) == wire' = IF redisUp THEN Append(wire, c) ELSE wire

\* r sends its GET, with `rest` of the replies still to come.  When Redis is
\* away the read rejects, which the caller takes for a miss.
SendGet(r, rest) ==
    IF redisUp
    THEN wire' = Append(wire, Get(r)) /\ replies' = rest
    ELSE replies' = Append(rest, [to |-> r, val |-> NoValue]) /\ UNCHANGED wire

Execute ==
    /\ redisUp
    /\ wire # <<>>
    /\ LET c == Head(wire) IN
       \/ /\ c.op = "get"
          /\ replies' = Append(replies, [to |-> c.by, val |-> cache[c.key]])
          /\ UNCHANGED <<cache, dropped>>
       \/ /\ c.op = "set"
          /\ cache' = [cache EXCEPT ![c.key] = c.val]
          /\ UNCHANGED <<replies, dropped>>
       \/ /\ c.op = "del"
          /\ cache' = [cache EXCEPT ![c.key] = NoValue]
          /\ dropped' = c.val
          /\ UNCHANGED replies
    /\ wire' = Tail(wire)
    /\ UNCHANGED <<version, readerVars, loadVars, redisUp, faults, histVars, collected>>

-----------------------------------------------------------------------------
(* A reader *)

InFlight(r) == load[r] \in {"detail", "querying", "answering"}

\* r starts to read: what is remembered of the moment it arrived.
Note(r) ==
    LET k == KeyOf[r] IN
    /\ since' = [since EXCEPT ![r] = floor[k]]
    /\ warm' = IF \E q \in Readers : KeyOf[q] = k /\ load[q] = "stored" THEN warm \cup {r} ELSE warm
    /\ UNCHANGED floor

Arrive(r) ==
    /\ r \in Requests
    /\ pc[r] = "idle"
    /\ pc' = [pc EXCEPT ![r] = "reading"]
    /\ SendGet(r, replies)
    /\ Note(r)
    /\ UNCHANGED <<version, joined, answer, loadVars, cache, redisUp, faults, listVars>>

Replied(r) ==
    /\ pc[r] = "reading"
    /\ replies # <<>>
    /\ Head(replies).to = r

\* Answers go to the readers in `who`.
Answer(who, a) ==
    /\ pc' = [r \in Readers |-> IF r \in who THEN "done" ELSE pc[r]]
    /\ answer' = [r \in Readers |-> IF r \in who THEN a ELSE answer[r]]
    /\ floor' = [k \in Keys |-> IF a > floor[k] /\ \E r \in who : KeyOf[r] = k
                                THEN a ELSE floor[k]]
    /\ UNCHANGED <<since, warm>>

Hit(r) ==
    /\ Replied(r)
    /\ Head(replies).val # NoValue
    /\ Answer({r}, Head(replies).val)
    /\ replies' = Tail(replies)
    /\ UNCHANGED <<version, joined, loadVars, cache, wire, redisUp, faults, listVars>>

Await(r, q) ==
    /\ joined' = [joined EXCEPT ![r] = q]
    /\ UNCHANGED answer

Join(r) ==
    /\ Replied(r)
    /\ Head(replies).val = NoValue
    /\ map[KeyOf[r]] # Nobody
    /\ Await(r, map[KeyOf[r]])
    /\ pc' = [pc EXCEPT ![r] = "waiting"]
    /\ replies' = Tail(replies)
    /\ UNCHANGED <<version, loadVars, cache, wire, redisUp, faults, histVars, listVars>>

\* What the reader does that finds neither value nor load.  Between the look at the
\* map and the entry there is no await.
Load(r) ==
    /\ Await(r, r)
    /\ map' = IF KeyOf[r] \in Uncoalesced THEN map ELSE [map EXCEPT ![KeyOf[r]] = r]
    /\ IF r \in Related
       THEN /\ load' = [load EXCEPT ![r] = "detail"]
            /\ pc' = [pc EXCEPT ![r] = "waiting", ![Helper[r]] = "reading"]
            /\ SendGet(Helper[r], Tail(replies))
            /\ Note(Helper[r])
       ELSE /\ load' = [load EXCEPT ![r] = "querying"]
            /\ pc' = [pc EXCEPT ![r] = "waiting"]
            /\ replies' = Tail(replies)
            /\ UNCHANGED <<wire, histVars>>
    /\ UNCHANGED <<version, queried, cache, redisUp, faults, listVars>>

\* Mutant: the map is not looked at.
StartLoadAlways(r) ==
    /\ Replied(r)
    /\ Head(replies).val = NoValue
    /\ Load(r)

StartLoad(r) ==
    /\ Replied(r)
    /\ Head(replies).val = NoValue
    /\ map[KeyOf[r]] = Nobody
    /\ Load(r)

-----------------------------------------------------------------------------
(* A load *)

\* The load of r is over: it leaves the map and everybody who awaits it goes on.
Settle(r, state, a) ==
    /\ load' = [load EXCEPT ![r] = state]
    /\ map' = [map EXCEPT ![KeyOf[r]] = IF KeyOf[r] \in Uncoalesced THEN @ ELSE Nobody]
    /\ Answer({q \in Readers : pc[q] = "waiting" /\ joined[q] = r}, a)
    /\ UNCHANGED joined

\* getTrendById of a related load returned an article with an embedding.
DetailFound(r) ==
    /\ load[r] = "detail"
    /\ r \notin Unembedded
    /\ pc[Helper[r]] = "done" /\ answer[Helper[r]] >= 0
    /\ load' = [load EXCEPT ![r] = "querying"]
    /\ UNCHANGED <<version, readerVars, queried, map, cache, connVars, redisUp, faults,
                   histVars, listVars>>

\* It returned an article without one: the empty list, the same at every version,
\* is written and answered without a query.
DetailWithoutEmbedding(r) ==
    /\ load[r] = "detail"
    /\ r \in Unembedded
    /\ pc[Helper[r]] = "done" /\ answer[Helper[r]] >= 0
    /\ SendAway(Set(r, 0))
    /\ Settle(r, "stored", 0)
    /\ UNCHANGED <<version, queried, cache, replies, redisUp, faults, listVars>>

\* It threw, and the exception goes on to whoever awaits the related load.
DetailThrew(r) ==
    /\ load[r] = "detail"
    /\ pc[Helper[r]] = "done" /\ answer[Helper[r]] < 0
    /\ Settle(r, "failed", answer[Helper[r]])
    /\ UNCHANGED <<version, queried, cache, connVars, redisUp, faults, listVars>>

\* The database runs the query ...
QueryRuns(r) ==
    /\ load[r] = "querying"
    /\ load' = [load EXCEPT ![r] = "answering"]
    /\ queried' = [queried EXCEPT ![r] = version]
    /\ UNCHANGED <<version, readerVars, map, cache, connVars, redisUp, faults, histVars, listVars>>

NoRow(r) == KeyOf[r] \in Details /\ queried[r] < Born[KeyOf[r]]

\* Mutant: the value is answered and the load forgotten, the write follows never.
QueryReturnsUnwritten(r) ==
    /\ load[r] = "answering"
    /\ ~NoRow(r)
    /\ Settle(r, "stored", queried[r])
    /\ UNCHANGED <<version, queried, cache, connVars, redisUp, faults, listVars>>

\* ... and its result arrives: the write is sent, then the load leaves the map.
QueryReturns(r) ==
    /\ load[r] = "answering"
    /\ ~NoRow(r)
    /\ SendAway(Set(r, queried[r]))
    /\ Settle(r, "stored", queried[r])
    /\ UNCHANGED <<version, queried, cache, replies, redisUp, faults, listVars>>

\* Mutant: a missing article is written like any other.
QueryCachesNoRow(r) ==
    /\ load[r] = "answering"
    /\ NoRow(r)
    /\ SendAway(Set(r, Missing))
    /\ Settle(r, "failed", Missing)
    /\ UNCHANGED <<version, queried, cache, replies, redisUp, faults, listVars>>

QueryFindsNoRow(r) ==
    /\ load[r] = "answering"
    /\ NoRow(r)
    /\ Settle(r, "failed", Missing)
    /\ UNCHANGED <<version, queried, cache, connVars, redisUp, faults, listVars>>

Count(kind, max) ==
    /\ faults[kind] < max
    /\ faults' = [faults EXCEPT ![kind] = @ + 1]

\* Mutant: no finally, a failed load stays in the map.
QueryFailsInMap(r) ==
    /\ load[r] \in {"querying", "answering"}
    /\ Count("query", MaxQueryFailures)
    /\ load' = [load EXCEPT ![r] = "failed"]
    /\ Answer({q \in Readers : pc[q] = "waiting" /\ joined[q] = r}, Error)
    /\ UNCHANGED <<version, joined, queried, map, cache, connVars, redisUp, listVars>>

QueryFails(r) ==
    /\ load[r] \in {"querying", "answering"}
    /\ Count("query", MaxQueryFailures)
    /\ Settle(r, "failed", Error)
    /\ UNCHANGED <<version, queried, cache, connVars, redisUp, listVars>>

-----------------------------------------------------------------------------
(* Around the readers *)

\* A collection stores something.
TableChanges ==
    /\ version < MaxVersion
    /\ version' = version + 1
    /\ UNCHANGED <<readerVars, loadVars, cache, connVars, redisUp, faults, histVars, listVars>>

\* The collection is complete: onCompleted ends with invalidateSources, whose
\* failure is ignored.
OnCompleted(k) ==
    /\ k \in Uncoalesced
    /\ collected < version
    /\ collected' = version
    /\ SendAway(Del(k, version))
    /\ UNCHANGED <<version, readerVars, loadVars, cache, replies, redisUp, faults, histVars, dropped>>

CacheLost(k) ==
    /\ cache[k] # NoValue
    /\ Count("loss", MaxCacheLosses)
    /\ cache' = [cache EXCEPT ![k] = NoValue]
    /\ UNCHANGED <<version, readerVars, loadVars, connVars, redisUp, histVars, listVars>>

\* The numbers of a set from the smallest on.
InOrder(S) == {f \in [1..Cardinality(S) -> S] : \A i, j \in DOMAIN f : i < j => f[i] < f[j]}

\* Commands and some of the replies on the way are lost, reads reject.
RedisDown ==
    /\ redisUp
    /\ Count("outage", MaxOutages)
    /\ redisUp' = FALSE
    /\ \E n \in 0..Len(replies), order \in InOrder({i \in DOMAIN wire : wire[i].op = "get"}) :
          replies' = [i \in DOMAIN replies |->
                        IF i <= n THEN replies[i] ELSE [replies[i] EXCEPT !.val = NoValue]]
                     \o [i \in DOMAIN order |-> [to |-> wire[order[i]].by, val |-> NoValue]]
    /\ wire' = <<>>
    /\ UNCHANGED <<version, readerVars, loadVars, cache, histVars, listVars>>

\* Redis is back, with its data or empty.
RedisBack ==
    /\ ~redisUp
    /\ redisUp' = TRUE
    /\ \/ UNCHANGED cache
       \/ cache' = [k \in Keys |-> NoValue]
    /\ UNCHANGED <<version, readerVars, loadVars, connVars, faults, histVars, listVars>>

ReaderStep(r) == Hit(r) \/ Join(r) \/ StartLoad(r)
LoadStep(r) ==
    \/ DetailFound(r) \/ DetailWithoutEmbedding(r) \/ DetailThrew(r)
    \/ QueryRuns(r) \/ QueryReturns(r) \/ QueryFindsNoRow(r) \/ QueryFails(r)

AllAnswered == (\A r \in Requests : pc[r] = "done") /\ UNCHANGED vars

Next ==
    \/ \E r \in Readers : Arrive(r) \/ ReaderStep(r) \/ LoadStep(r)
    \/ Execute
    \/ TableChanges
    \/ \E k \in Keys : OnCompleted(k) \/ CacheLost(k)
    \/ RedisDown
    \/ RedisBack
    \/ AllAnswered

Spec == Init /\ [][Next]_vars

\* Redis executes or the connection breaks, queries end, the event loop goes on.
FairSpec ==
    /\ Spec
    /\ WF_vars(Execute)
    /\ \A r \in Readers : WF_vars(ReaderStep(r)) /\ WF_vars(LoadStep(r))

-----------------------------------------------------------------------------
(* Properties *)

\* Every variable keeps its type.
TypeOK ==
    /\ version \in 0..MaxVersion
    /\ pc \in [Readers -> {"idle", "reading", "waiting", "done"}]
    /\ joined \in [Readers -> Readers \cup {Nobody}]
    /\ answer \in [Readers -> Values \cup {Missing, Error}]
    /\ load \in [Readers -> {"none", "detail", "querying", "answering", "stored", "failed"}]
    /\ queried \in [Readers -> Values]
    /\ map \in [Keys -> Readers \cup {Nobody}]
    /\ cache \in [Keys -> Values]
    /\ redisUp \in BOOLEAN
    /\ faults \in [Kinds -> Nat]
    /\ floor \in [Keys -> Values]
    /\ since \in [Readers -> Values]
    /\ warm \subseteq Readers
    /\ collected \in 0..MaxVersion
    /\ dropped \in 0..MaxVersion

\* The map holds exactly the loads in flight, so a key has at most one of them:
\* no ended load stays behind, however it ended, and no load drops out early
\* (detailLoads, relatedLoads, listCountLoads, trends-query.service.ts:19-23).
MapIsLoad ==
    \A r \in Readers :
        KeyOf[r] \notin Uncoalesced => (InFlight(r) <=> map[KeyOf[r]] = r)

\* Without an outage reads of a coalesced key never go back: who arrives after an
\* answer was given gets one at least as new, from the cache, a load it joins or its
\* own.  This needs the write to be sent before the load leaves the map.
NeverGoesBack ==
    faults["outage"] = 0 =>
        \A r \in Readers :
            pc[r] = "done" /\ answer[r] >= 0 /\ KeyOf[r] \notin Uncoalesced => answer[r] >= since[r]

\* Who arrives after a load of its key was written needs no query, unless the
\* value was lost.
WarmKeyIsHit ==
    faults["outage"] = 0 /\ faults["loss"] = 0 =>
        \A r \in warm : KeyOf[r] \notin Uncoalesced => load[r] = "none"

\* Once the source list was dropped for a collection, Redis holds no list from
\* before it (trends-queue.events.ts:96).
InvalidationSticks == \A k \in Uncoalesced : cache[k] # NoValue => cache[k] >= dropped

\* Every request is answered.
EveryReaderAnswered == \A r \in Requests : pc[r] = "reading" ~> pc[r] = "done"
=============================================================================
