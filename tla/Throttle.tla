------------------------------- MODULE Throttle -------------------------------
(***************************************************************************)
(* The request limit of one client on one route: the guard of              *)
(* @nestjs/throttler (external) asks RedisThrottlerStorage.increment, which*)
(* runs a Lua script in Redis on two keys, a counter and a block.          *)
(*                                                                         *)
(* createRedisThrottleKey gives every client and route keys of their own,  *)
(* so one pair of keys is the whole state.  `now` counts milliseconds.     *)
(* Redis keeps a key through the last millisecond of its time to live, in  *)
(* which PTTL is 0.  Redis may go away (every request passes), come back   *)
(* empty (nothing is persisted) and evict a key (allkeys-lru).             *)
(***************************************************************************)
EXTENDS Integers, FiniteSets

CONSTANTS
    Limit,        \* limit of the route: 5 for the search, 100 else
    Ttl,          \* its ttl, which is also the blockDuration
    Second,       \* milliseconds in a second
    MaxTime,      \* bound: the clock
    MaxEvictions, \* bound: keys evicted
    MaxOutages    \* bound: times Redis goes away

None == -1

ASSUME ThrottleAssumption ==
    /\ {Limit, Ttl, Second} \subseteq Nat \ {0}
    /\ {MaxTime, MaxEvictions, MaxOutages} \subseteq Nat

VARIABLES
    now,
    hits,      \* counter in Redis, 0 without a key
    hitsEnd,   \* last millisecond of the counter
    blockEnd,  \* last millisecond of the block
    redisUp,
    evictions,
    outages,
    denied,    \* the denials since the client last passed
    counted    \* history: the requests counted and let through since the
               \* counter was last lost by a fault

redisVars == <<hits, hitsEnd, blockEnd>>
faultVars == <<redisUp, evictions, outages>>
vars      == <<now, redisVars, faultVars, denied, counted>>

Times     == 0..MaxTime
NoDenial  == [first |-> None, last |-> None, retry |-> None]

\* A request: its millisecond, that of its counter's first one, its number there.
Requests  == [at : Times, since : Times, nth : 1..Limit]

Init ==
    /\ now = 0
    /\ hits = 0
    /\ hitsEnd = None
    /\ blockEnd = None
    /\ redisUp = TRUE
    /\ evictions = 0
    /\ outages = 0
    /\ denied = NoDenial
    /\ counted = {}

-----------------------------------------------------------------------------
(* THROTTLE_INCREMENT_LUA *)

Blocked == blockEnd > now   \* PTTL > 0

\* Mutant: the time to live is set on every hit.
IncrExtends ==
    /\ hits' = hits + 1
    /\ hitsEnd' = now + Ttl

\* Mutant: the wrong command.
Decr ==
    /\ hits' = hits - 1
    /\ hitsEnd' = IF hits' = 1 THEN now + Ttl ELSE hitsEnd

\* Mutant: no time to live, as when the process dies between two commands.
IncrForever ==
    /\ hits' = hits + 1
    /\ hitsEnd' = IF hits' = 1 THEN MaxTime ELSE hitsEnd

\* INCR, and PEXPIRE when the counter is new.
Incr ==
    /\ hits' = hits + 1
    /\ hitsEnd' = IF hits' = 1 THEN now + Ttl ELSE hitsEnd

OverLimit == hits' > Limit

ThisRequest == [at |-> now, since |-> hitsEnd' - Ttl, nth |-> hits']

\* Mutant: off by one, a request too many is let through.
CountGenerous ==
    /\ ~Blocked
    /\ Incr
    /\ blockEnd' = IF hits' > Limit + 1 THEN now + Ttl ELSE blockEnd
    /\ counted' = IF hits' > Limit + 1 THEN counted ELSE counted \cup {ThisRequest}

Count ==
    /\ ~Blocked
    /\ Incr
    /\ blockEnd' = IF OverLimit THEN now + Ttl ELSE blockEnd
    /\ counted' = IF OverLimit THEN counted ELSE counted \cup {ThisRequest}

LeaveBlocked == Blocked /\ UNCHANGED <<redisVars, counted>>

-----------------------------------------------------------------------------
(* increment and the guard *)

\* Mutant: the rest of the block in whole seconds, rounded down.
RetryAfterFloor(end) == now + ((end - now) \div Second) * Second

\* timeToBlockExpire, told to the client as Retry-After: whole seconds, rounded up.
RetryAfter(end) == now + ((end - now + Second - 1) \div Second) * Second

Deny(end) ==
    denied' = [first |-> IF denied = NoDenial THEN now ELSE denied.first,
               last  |-> now,
               retry |-> RetryAfter(end)]

Pass == denied' = NoDenial

HitCounted ==
    /\ redisUp
    /\ Count
    /\ IF OverLimit THEN Deny(blockEnd') ELSE Pass
    /\ UNCHANGED <<now, faultVars>>

HitBlocked ==
    /\ redisUp
    /\ LeaveBlocked
    /\ Deny(blockEnd)
    /\ UNCHANGED <<now, faultVars>>

\* The command rejects: the catch of increment lets the request through.
HitFailsOpen ==
    /\ ~redisUp
    /\ Pass
    /\ UNCHANGED <<now, redisVars, faultVars, counted>>

\* The script ran but the connection broke before its reply: through as well.
HitReplyLost ==
    /\ redisUp
    /\ outages < MaxOutages
    /\ outages' = outages + 1
    /\ redisUp' = FALSE
    /\ Count \/ LeaveBlocked
    /\ Pass
    /\ UNCHANGED <<now, evictions>>

-----------------------------------------------------------------------------
(* Time and faults *)

Forget ==
    /\ hits' = 0
    /\ hitsEnd' = None

\* A millisecond passes; keys past their last one are gone.
Tick ==
    /\ now < MaxTime
    /\ now' = now + 1
    /\ IF hitsEnd < now' THEN Forget ELSE UNCHANGED <<hits, hitsEnd>>
    /\ blockEnd' = IF blockEnd < now' THEN None ELSE blockEnd
    /\ UNCHANGED <<faultVars, denied, counted>>

EvictCounter ==
    /\ hits > 0
    /\ evictions < MaxEvictions
    /\ evictions' = evictions + 1
    /\ Forget
    /\ counted' = {}
    /\ UNCHANGED <<now, blockEnd, redisUp, outages, denied>>

EvictBlock ==
    /\ blockEnd # None
    /\ evictions < MaxEvictions
    /\ evictions' = evictions + 1
    /\ blockEnd' = None
    /\ UNCHANGED <<now, hits, hitsEnd, redisUp, outages, denied, counted>>

RedisDown ==
    /\ redisUp
    /\ outages < MaxOutages
    /\ outages' = outages + 1
    /\ redisUp' = FALSE
    /\ UNCHANGED <<now, redisVars, evictions, denied, counted>>

\* Redis is back, with its data or empty.
RedisBack ==
    /\ ~redisUp
    /\ redisUp' = TRUE
    /\ \/ UNCHANGED <<redisVars, counted>>
       \/ Forget /\ blockEnd' = None /\ counted' = {}
    /\ UNCHANGED <<now, evictions, outages, denied>>

Hit == HitCounted \/ HitBlocked \/ HitFailsOpen \/ HitReplyLost

Next ==
    \/ Hit
    \/ Tick
    \/ EvictCounter \/ EvictBlock
    \/ RedisDown \/ RedisBack

Spec == Init /\ [][Next]_vars

-----------------------------------------------------------------------------
(* Properties *)

CountedIn(first, last) == {c \in counted : c.at \in first..last}

\* Every variable keeps its type.
TypeOK ==
    /\ now \in Times
    /\ hits \in Nat
    /\ {hitsEnd, blockEnd} \subseteq Nat \cup {None}
    /\ redisUp \in BOOLEAN
    /\ {evictions, outages} \subseteq Nat
    /\ denied \in [first : Times \cup {None}, last : Times \cup {None}, retry : Nat \cup {None}]
    /\ counted \subseteq Requests

\* However the requests are placed around the edge of a window, and whatever
\* outages lie between, fewer than twice the limit are let through within one
\* ttl of a counter that Redis kept (redis.service.ts:53-57).
LessThanTwiceTheLimit ==
    \A t \in Times : t + Ttl <= MaxTime => Cardinality(CountedIn(t, t + Ttl)) < 2 * Limit

\* A block is set only on a client that was let through `limit` times within the
\* last ttl: slow requests never add up to one, not over an outage either.
DenialIsEarned ==
    [][blockEnd' > blockEnd =>
         Cardinality(CountedIn(now - Ttl, now)) >= Limit]_vars

\* A client that never stops asking is let through again before twice the ttl is
\* over.  Twice, since a counter and a block of the same millisecond end together:
\* a request in their last one finds no block but the old count, and is blocked anew.
DenialEnds == denied.last - denied.first < 2 * Ttl

\* Who has waited for longer than Retry-After said is not denied once more.
RetryAfterIsEnough ==
    [][denied # NoDenial /\ denied' # NoDenial => denied'.last <= denied.retry]_vars
=============================================================================
