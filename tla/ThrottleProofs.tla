--------------------------- MODULE ThrottleProofs ---------------------------
(***************************************************************************)
(* Proofs about Throttle, for every limit, every time to live, every clock *)
(* and every number of outages and evicted keys.                           *)
(*                                                                         *)
(* The argument: the counters Redis kept lie more than a time to live      *)
(* apart (WindowsApart), so a window of that length meets two of them at   *)
(* most, and of the earlier one only requests after its first.  Each       *)
(* counter numbers its requests (NumberedOnce, AllCounted), and these      *)
(* numbers count them.                                                     *)
(***************************************************************************)
EXTENDS Throttle, FiniteSetTheorems, TLAPS

\* The two keys and the clock.  A block outlives the counter it comes from.
KeysLive ==
    /\ hits = 0 => hitsEnd = None
    /\ hits > 0 => hitsEnd >= now /\ hitsEnd <= now + Ttl /\ hitsEnd >= Ttl
    /\ blockEnd <= now + Ttl
    /\ Blocked => hitsEnd <= blockEnd

\* A request lies in the life of its counter, the first one at its beginning.
InItsWindow ==
    \A c \in counted :
        /\ c.since <= c.at /\ c.at <= c.since + Ttl /\ c.at <= now
        /\ c.nth = 1 => c.at = c.since

\* No two requests of a counter have one number.
NumberedOnce ==
    \A c, e \in counted : c.since = e.since /\ c.nth = e.nth => c = e

\* A counter begins after the last millisecond of the one before.
WindowsApart ==
    \A c, e \in counted : c.since < e.since => c.since + Ttl < e.since

\* A request belongs to the counter in Redis or to one that is over.
CounterIsLatest ==
    \A c \in counted :
        \/ hits > 0 /\ c.since = hitsEnd - Ttl /\ c.nth <= hits
        \/ hits > 0 /\ c.since + Ttl < hitsEnd - Ttl
        \/ hits = 0 /\ c.since + Ttl < now

\* Of the counter in Redis every request up to the limit was let through.
AllCounted ==
    hits > 0 => \A n \in 1..Limit : n <= hits =>
        \E c \in counted : c.since = hitsEnd - Ttl /\ c.nth = n

CountedShape ==
    /\ IsFiniteSet(counted)
    /\ InItsWindow
    /\ NumberedOnce
    /\ WindowsApart
    /\ CounterIsLatest
    /\ AllCounted

\* What a series of denials knows of the keys: the counter of its first denial
\* is the last one, and Retry-After has never said less than the keys live.
DenialBounded ==
    denied # NoDenial =>
        /\ denied.first \in Nat /\ denied.last \in Nat /\ denied.retry \in Nat
        /\ denied.first <= denied.last /\ denied.last <= now
        /\ denied.last < denied.first + 2 * Ttl
        /\ denied.last <= denied.retry
        /\ hitsEnd <= denied.first + Ttl
        /\ blockEnd <= denied.first + 2 * Ttl
        /\ hitsEnd <= denied.retry
        /\ blockEnd <= denied.retry

IInv ==
    /\ TypeOK
    /\ KeysLive
    /\ CountedShape
    /\ DenialBounded

-----------------------------------------------------------------------------
(* Lemmas about counting and rounding *)

\* Requests with numbers of their own from an interval are no more than it has.
LEMMA AtMostTheNumbers ==
    ASSUME NEW S, NEW lo \in Nat, NEW hi \in Nat, lo <= hi + 1,
           \A c \in S : c.nth \in lo..hi,
           \A c, e \in S : c.nth = e.nth => c = e
    PROVE  IsFiniteSet(S) /\ Cardinality(S) <= hi - lo + 1
<1>. DEFINE f == [c \in S |-> c.nth]
<1>1. f \in Injection(S, lo..hi)
  BY DEF Injection, IsInjective
<1>2. IsFiniteSet(lo..hi) /\ Cardinality(lo..hi) = IF lo > hi THEN 0 ELSE hi - lo + 1
  BY FS_Interval
<1>3. IsFiniteSet(S) /\ Cardinality(S) <= Cardinality(lo..hi)
  <2>. HIDE DEF f
  <2>. QED
    BY <1>1, <1>2, FS_Injection
<1>. QED
  BY <1>2, <1>3

\* Requests that have every number from 1 to hi are at least hi.
LEMMA AtLeastTheNumbers ==
    ASSUME NEW S, IsFiniteSet(S), NEW hi \in Nat,
           \A n \in 1..hi : \E c \in S : c.nth = n
    PROVE  Cardinality(S) >= hi
<1>. DEFINE g == [n \in 1..hi |-> CHOOSE c \in S : c.nth = n]
<1>1. \A n \in 1..hi : g[n] \in S /\ g[n].nth = n
  OBVIOUS
<1>2. g \in Injection(1..hi, S)
  BY <1>1 DEF Injection, IsInjective
<1>3. Cardinality(1..hi) = hi
  BY FS_Interval
<1>4. Cardinality(1..hi) <= Cardinality(S)
  <2>. HIDE DEF g
  <2>. QED
    BY <1>2, FS_Injection
<1>. QED
  BY <1>3, <1>4

\* Retry-After is a moment, and never one before the end it was computed from.
LEMMA RetryAfterRoundsUp ==
    ASSUME NEW end \in Nat, now \in Nat, now <= end
    PROVE  RetryAfter(end) \in Nat /\ end <= RetryAfter(end)
<1>. DEFINE x == end - now
            q == (x + Second - 1) \div Second
<1>1. x \in Nat /\ Second \in Nat \ {0}
  BY ThrottleAssumption
<1>2. q \in Nat /\ Second * q >= x
  <2>. DEFINE y == x + Second - 1
  <2>1. y \in Nat
    BY <1>1
  <2>2. /\ y = Second * (y \div Second) + (y % Second)
        /\ y \div Second \in Nat
        /\ y % Second \in 0..Second - 1
    <3>. HIDE DEF x, y
    <3>. QED
      BY <1>1, <2>1
  <2>. QED
    BY <1>1, <2>1, <2>2
<1>3. RetryAfter(end) = now + q * Second
  BY DEF RetryAfter
<1>. HIDE DEF q
<1>4. q * Second = Second * q /\ q * Second \in Nat
  BY <1>1, <1>2
<1>. QED
  BY <1>1, <1>2, <1>3, <1>4

-----------------------------------------------------------------------------
(* The invariant *)

\* It holds at the start.
LEMMA InitIInv == Init => IInv
<1> SUFFICES ASSUME Init PROVE IInv
  OBVIOUS
<1>. USE ThrottleAssumption DEF Init, None
<1>1. TypeOK
  BY DEF TypeOK, Times, NoDenial
<1>2. KeysLive
  BY DEF KeysLive, Blocked
<1>3. CountedShape
  BY FS_EmptySet
     DEF CountedShape, InItsWindow, NumberedOnce, WindowsApart, CounterIsLatest, AllCounted
<1>4. DenialBounded
  BY DEF DenialBounded
<1>. QED
  BY <1>1, <1>2, <1>3, <1>4 DEF IInv

\* INCR with its expiry: the request is the first of a new counter, or the next
\* one of the counter in Redis.
LEMMA IncrStep ==
    ASSUME IInv, Incr
    PROVE  /\ hits' = hits + 1 /\ hits \in Nat
           /\ hitsEnd' \in Nat
           /\ hitsEnd' >= now /\ hitsEnd' <= now + Ttl /\ hitsEnd' >= Ttl
           /\ hits = 0 => hitsEnd' = now + Ttl
           /\ hits > 0 => hitsEnd' = hitsEnd
<1>1. now \in Nat /\ hits \in Nat /\ hitsEnd \in Nat \cup {None} /\ Ttl \in Nat \ {0}
  BY ThrottleAssumption DEF IInv, TypeOK, Times
<1>2. CASE hits = 0
  BY <1>1, <1>2 DEF Incr
<1>3. CASE hits # 0
  BY <1>1, <1>3 DEF Incr, IInv, KeysLive, None
<1>. QED
  BY <1>2, <1>3

\* The script on a client that is not blocked.
LEMMA CountStep ==
    ASSUME IInv, Count, now' = now
    PROVE  /\ hits' \in Nat /\ hitsEnd' \in Nat /\ blockEnd' \in Nat \cup {None}
           /\ counted' \subseteq Requests
           /\ KeysLive'
           /\ CountedShape'
<1>. DEFINE r == ThisRequest
<1>1. /\ now \in Nat /\ now \in Times /\ now <= MaxTime /\ MaxTime \in Nat
      /\ Ttl \in Nat \ {0} /\ Limit \in Nat \ {0}
      /\ counted \subseteq Requests
      /\ blockEnd \in Nat \cup {None}
  BY ThrottleAssumption DEF IInv, TypeOK, Times
<1>a. now \in Int /\ Ttl \in Int /\ MaxTime \in Int
  BY <1>1
<1>2. /\ hits' = hits + 1 /\ hits \in Nat
      /\ hitsEnd' \in Nat
      /\ hitsEnd' >= now /\ hitsEnd' <= now + Ttl /\ hitsEnd' >= Ttl
      /\ hits = 0 => hitsEnd' = now + Ttl
      /\ hits > 0 => hitsEnd' = hitsEnd
  BY IncrStep DEF Count
<1>3. ~Blocked /\ blockEnd' = IF OverLimit THEN now + Ttl ELSE blockEnd
  BY DEF Count
<1>4. blockEnd' \in Nat \cup {None}
  BY <1>1, <1>3
<1>5. KeysLive'
  <2>1. CASE OverLimit
    BY <1>1, <1>2, <1>3, <2>1 DEF KeysLive, Blocked, None
  <2>2. CASE ~OverLimit
    BY <1>1, <1>2, <1>3, <2>2 DEF KeysLive, Blocked, None
  <2>. QED
    BY <2>1, <2>2
<1>6. r = [at |-> now, since |-> hitsEnd' - Ttl, nth |-> hits']
  BY DEF ThisRequest
<1>7. /\ r.at = now /\ r.since = hitsEnd' - Ttl /\ r.nth = hits'
      /\ r.since \in Nat /\ r.since <= now /\ now <= r.since + Ttl
      /\ r.nth = 1 => r.since = now
  <2>1. hits' = 1 => hitsEnd' = now + Ttl
    BY <1>1, <1>2
  <2>2. /\ hitsEnd' - Ttl \in Nat
        /\ hitsEnd' - Ttl <= now /\ now <= (hitsEnd' - Ttl) + Ttl
        /\ hits' = 1 => hitsEnd' - Ttl = now
    <3>1. ASSUME NEW e \in Nat, NEW t \in Int, NEW n \in Int, e >= n, e <= n + t, e >= t
          PROVE  e - t \in Nat /\ e - t <= n /\ n <= (e - t) + t /\ (e = n + t => e - t = n)
      BY <3>1
    <3>2. hitsEnd' \in Nat /\ hitsEnd' >= now /\ hitsEnd' <= now + Ttl /\ hitsEnd' >= Ttl
      BY <1>2
    <3>. QED
      BY <1>a, <2>1, <3>1, <3>2
  <2>. HIDE DEF r
  <2>3. r.at = now /\ r.since = hitsEnd' - Ttl /\ r.nth = hits'
    BY <1>6
  <2>. QED
    BY <2>1, <2>2, <2>3
<1>8. \A c \in counted : c.at \in Nat /\ c.since \in Nat /\ c.nth \in 1..Limit
  BY <1>1 DEF Requests, Times
<1>9. \A c \in counted : \/ hits > 0 /\ c.since = r.since /\ c.nth <= hits
                         \/ c.since + Ttl < r.since
  BY <1>1, <1>2, <1>7, <1>8 DEF IInv, CountedShape, CounterIsLatest
<1>. HIDE DEF r
<1>10. CASE OverLimit
  <2>1. counted' = counted
    BY <1>10 DEF Count
  <2>2. hits > 0 /\ hits >= Limit /\ hitsEnd' = hitsEnd
    BY <1>1, <1>2, <1>10 DEF OverLimit
  <2>3. InItsWindow' /\ NumberedOnce' /\ WindowsApart'
    BY <2>1 DEF IInv, CountedShape, InItsWindow, NumberedOnce, WindowsApart
  <2>4. CounterIsLatest'
    <3>1. \A c \in counted : \/ c.since = hitsEnd - Ttl /\ c.nth <= hits
                             \/ c.since + Ttl < hitsEnd - Ttl
      BY <2>2 DEF IInv, CountedShape, CounterIsLatest
    <3>. QED
      BY <1>2, <1>8, <2>1, <2>2, <3>1 DEF CounterIsLatest
  <2>5. AllCounted'
    BY <1>1, <1>2, <2>1, <2>2 DEF IInv, CountedShape, AllCounted
  <2>. QED
    BY <1>1, <1>2, <1>4, <1>5, <2>1, <2>3, <2>4, <2>5 DEF IInv, CountedShape
<1>11. CASE ~OverLimit
  <2>1. counted' = counted \cup {r}
    BY <1>11 DEF Count, r
  <2>2. hits' \in 1..Limit
    BY <1>1, <1>2, <1>11 DEF OverLimit
  <2>3. counted' \subseteq Requests
    <3>1. r \in Requests
      <4>1. now \in Times /\ r.since \in Times
        BY <1>1, <1>7 DEF Times
      <4>. QED
        BY <1>6, <1>7, <2>2, <4>1 DEF Requests
    <3>. QED
      BY <1>1, <2>1, <3>1
  <2>4. IsFiniteSet(counted')
    BY <2>1, FS_AddElement DEF IInv, CountedShape
  <2>5. InItsWindow'
    <3>1. /\ r.since <= r.at /\ r.at <= r.since + Ttl /\ r.at <= now'
          /\ r.nth = 1 => r.at = r.since
      BY <1>1, <1>7
    <3>2. \A c \in counted : /\ c.since <= c.at /\ c.at <= c.since + Ttl /\ c.at <= now'
                             /\ c.nth = 1 => c.at = c.since
      BY DEF IInv, CountedShape, InItsWindow
    <3>. QED
      BY <2>1, <3>1, <3>2 DEF InItsWindow
  <2>6. NumberedOnce'
    <3>1. \A c \in counted : ~(c.since = r.since /\ c.nth = r.nth)
      BY <1>1, <1>2, <1>7, <1>8, <1>9
    <3>. QED
      BY <2>1, <3>1 DEF IInv, CountedShape, NumberedOnce
  <2>7. WindowsApart'
    <3>1. \A c \in counted : c.since < r.since => c.since + Ttl < r.since
      BY <1>1, <1>7, <1>8, <1>9
    <3>2. \A c \in counted : ~(r.since < c.since)
      BY <1>1, <1>7, <1>8, <1>9
    <3>3. ~(r.since < r.since)
      BY <1>7
    <3>. QED
      BY <2>1, <3>1, <3>2, <3>3 DEF IInv, CountedShape, WindowsApart
  <2>8. CounterIsLatest'
    <3>1. hits' > 0 /\ r.since = hitsEnd' - Ttl /\ r.nth <= hits'
      BY <1>2, <1>7
    <3>2. \A c \in counted : \/ c.since = hitsEnd' - Ttl /\ c.nth <= hits'
                             \/ c.since + Ttl < hitsEnd' - Ttl
      BY <1>2, <1>7, <1>8, <1>9
    <3>. QED
      BY <2>1, <3>1, <3>2 DEF CounterIsLatest
  <2>9. AllCounted'
    <3> SUFFICES ASSUME NEW n \in 1..Limit, n <= hits'
                 PROVE  \E c \in counted' : c.since = hitsEnd' - Ttl /\ c.nth = n
      BY DEF AllCounted
    <3>1. CASE n = hits'
      BY <1>7, <2>1, <3>1
    <3>2. CASE n # hits'
      <4>1. n <= hits /\ hits > 0 /\ hitsEnd' = hitsEnd
        BY <1>2, <3>2
      <4>2. \E c \in counted : c.since = hitsEnd - Ttl /\ c.nth = n
        BY <4>1 DEF IInv, CountedShape, AllCounted
      <4>. QED
        BY <2>1, <4>1, <4>2
    <3>. QED
      BY <3>1, <3>2
  <2>. QED
    BY <1>2, <1>4, <1>5, <2>3, <2>4, <2>5, <2>6, <2>7, <2>8, <2>9 DEF CountedShape
<1>. QED
  BY <1>10, <1>11

\* A request that is counted over the limit.
LEMMA DenyCounted ==
    ASSUME IInv, Count, OverLimit, Deny(blockEnd'), now' = now
    PROVE  DenialBounded' /\ denied' \in [first : Times, last : Times, retry : Nat]
<1>1. /\ now \in Nat /\ now \in Times /\ MaxTime \in Nat /\ Ttl \in Nat \ {0} /\ Limit \in Nat \ {0}
      /\ hits \in Nat /\ hitsEnd \in Nat \cup {None}
      /\ denied \in [first : Times \cup {None}, last : Times \cup {None}, retry : Nat \cup {None}]
  BY ThrottleAssumption DEF IInv, TypeOK, Times
<1>2. hits' = hits + 1 /\ hitsEnd' \in Nat /\ hitsEnd' >= now /\ hitsEnd' <= now + Ttl
  BY IncrStep DEF Count
<1>3. hits > 0 /\ hitsEnd' = hitsEnd
  BY <1>1, <1>2, IncrStep DEF OverLimit, Count
<1>4. blockEnd' = now + Ttl
  BY DEF Count
<1>5. RetryAfter(blockEnd') \in Nat /\ blockEnd' <= RetryAfter(blockEnd')
  BY <1>1, <1>4, RetryAfterRoundsUp
<1>6. /\ denied'.first = IF denied = NoDenial THEN now ELSE denied.first
      /\ denied'.last = now /\ denied'.retry = RetryAfter(blockEnd')
  BY DEF Deny
<1>7. CASE denied = NoDenial
  <2>1. denied'.first = now
    BY <1>6, <1>7
  <2>2. DenialBounded'
    BY <1>1, <1>2, <1>4, <1>5, <1>6, <2>1 DEF DenialBounded
  <2>. QED
    BY <1>1, <1>5, <1>7, <2>2 DEF Deny
<1>8. CASE denied # NoDenial
  <2>1. /\ denied'.first = denied.first /\ denied.first \in Nat /\ denied.first <= now
        /\ hitsEnd <= denied.first + Ttl
    BY <1>1, <1>6, <1>8 DEF IInv, DenialBounded, Times
  <2>2. denied.first \in Times
    BY <1>1, <2>1 DEF Times
  <2>3. now <= denied.first + Ttl
    BY <1>1, <1>2, <1>3, <2>1
  <2>4. DenialBounded'
    BY <1>1, <1>2, <1>3, <1>4, <1>5, <1>6, <2>1, <2>3 DEF DenialBounded
  <2>. QED
    BY <1>1, <1>5, <1>8, <2>2, <2>4 DEF Deny
<1>. QED
  BY <1>7, <1>8

\* A request that finds the block.
LEMMA DenyBlocked ==
    ASSUME IInv, Blocked, Deny(blockEnd), UNCHANGED <<now, redisVars>>
    PROVE  DenialBounded' /\ denied' \in [first : Times, last : Times, retry : Nat]
<1>1. /\ now \in Nat /\ now \in Times /\ MaxTime \in Nat /\ Ttl \in Nat \ {0}
      /\ hits \in Nat /\ hitsEnd \in Nat \cup {None} /\ blockEnd \in Nat \cup {None}
      /\ denied \in [first : Times \cup {None}, last : Times \cup {None}, retry : Nat \cup {None}]
  BY ThrottleAssumption DEF IInv, TypeOK, Times
<1>2. /\ blockEnd \in Nat /\ now < blockEnd /\ blockEnd <= now + Ttl
      /\ hitsEnd <= blockEnd
  BY <1>1 DEF Blocked, IInv, KeysLive, None
<1>3. RetryAfter(blockEnd) \in Nat /\ blockEnd <= RetryAfter(blockEnd)
  BY <1>1, <1>2, RetryAfterRoundsUp
<1>4. /\ denied'.first = IF denied = NoDenial THEN now ELSE denied.first
      /\ denied'.last = now /\ denied'.retry = RetryAfter(blockEnd)
  BY DEF Deny
<1>5. now' = now /\ hitsEnd' = hitsEnd /\ blockEnd' = blockEnd
  BY DEF redisVars
<1>6. CASE denied = NoDenial
  <2>1. denied'.first = now
    BY <1>4, <1>6
  <2>2. DenialBounded'
    BY <1>1, <1>2, <1>3, <1>4, <1>5, <2>1 DEF DenialBounded, None
  <2>. QED
    BY <1>1, <1>3, <1>6, <2>2 DEF Deny
<1>7. CASE denied # NoDenial
  <2>1. /\ denied'.first = denied.first /\ denied.first \in Nat /\ denied.first <= now
        /\ hitsEnd <= denied.first + Ttl
        /\ blockEnd <= denied.first + 2 * Ttl
    BY <1>1, <1>4, <1>7 DEF IInv, DenialBounded, Times
  <2>2. denied.first \in Times
    BY <1>1, <2>1 DEF Times
  <2>3. DenialBounded'
    BY <1>1, <1>2, <1>3, <1>4, <1>5, <2>1 DEF DenialBounded, None
  <2>. QED
    BY <1>1, <1>3, <1>7, <2>2, <2>3 DEF Deny
<1>. QED
  BY <1>6, <1>7

\* A request that is let through ends the denials.
LEMMA PassStep == Pass => denied' = NoDenial /\ DenialBounded'
BY DEF Pass, DenialBounded, NoDenial

\* A step that leaves the client alone and takes no key further.
LEMMA KeysOnlyShrink ==
    ASSUME DenialBounded, now \in Nat, now' \in Nat, now <= now', denied' = denied,
           hitsEnd' \in {hitsEnd, None}, blockEnd' \in {blockEnd, None}, Ttl \in Nat
    PROVE  DenialBounded'
<1> SUFFICES ASSUME denied' # NoDenial PROVE DenialBounded'
  BY DEF DenialBounded
<1>1. /\ denied.first \in Nat /\ denied.last \in Nat /\ denied.retry \in Nat
      /\ denied.first <= denied.last /\ denied.last <= now
      /\ denied.last < denied.first + 2 * Ttl
      /\ denied.last <= denied.retry
      /\ hitsEnd <= denied.first + Ttl
      /\ blockEnd <= denied.first + 2 * Ttl
      /\ hitsEnd <= denied.retry
      /\ blockEnd <= denied.retry
  BY DEF DenialBounded
<1>2. denied.last <= now'
  BY <1>1
<1>3. hitsEnd' <= denied.first + Ttl /\ hitsEnd' <= denied.retry
  BY <1>1 DEF None
<1>4. blockEnd' <= denied.first + 2 * Ttl /\ blockEnd' <= denied.retry
  BY <1>1 DEF None
<1>. QED
  BY <1>1, <1>2, <1>3, <1>4 DEF DenialBounded

\* Once the counter of Redis is over or lost, and the history with it if it was
\* lost, what was counted keeps its shape.
LEMMA ForgetStep ==
    ASSUME IInv, Forget, now' \in Nat,
           \/ counted' = {}
           \/ counted' = counted /\ now <= now' /\ (hits > 0 => hitsEnd < now')
    PROVE  CountedShape'
<1>1. hits' = 0 /\ hitsEnd' = None
  BY DEF Forget
<1>2. AllCounted'
  BY <1>1 DEF AllCounted
<1>3. CASE counted' = {}
  BY <1>2, <1>3, FS_EmptySet
     DEF CountedShape, InItsWindow, NumberedOnce, WindowsApart, CounterIsLatest
<1>4. CASE counted' = counted /\ now <= now' /\ (hits > 0 => hitsEnd < now')
  <2>1. /\ now \in Nat /\ Ttl \in Nat /\ hits \in Nat /\ hitsEnd \in Nat \cup {None}
        /\ \A c \in counted : c.at \in Nat /\ c.since \in Nat
    BY ThrottleAssumption DEF IInv, TypeOK, Times, Requests
  <2>2. InItsWindow'
    <3>1. \A c \in counted : c.at <= now /\ c.at \in Nat
      BY <2>1 DEF IInv, CountedShape, InItsWindow
    <3>2. \A c \in counted : c.at <= now'
      BY <1>4, <2>1, <3>1
    <3>. QED
      BY <1>4, <3>2 DEF IInv, CountedShape, InItsWindow
  <2>3. CounterIsLatest'
    <3>1. ASSUME NEW c \in counted PROVE c.since + Ttl < now'
      <4>1. CASE hits > 0
        <5>1. hitsEnd \in Nat /\ hitsEnd < now'
          BY <1>4, <2>1, <4>1 DEF IInv, KeysLive, None
        <5>2. c.since = hitsEnd - Ttl \/ c.since + Ttl < hitsEnd - Ttl
          BY <2>1, <4>1 DEF IInv, CountedShape, CounterIsLatest
        <5>. QED
          BY <2>1, <5>1, <5>2
      <4>2. CASE ~(hits > 0)
        BY <1>4, <2>1, <4>2 DEF IInv, CountedShape, CounterIsLatest
      <4>. QED
        BY <4>1, <4>2
    <3>. QED
      BY <1>1, <1>4, <3>1 DEF CounterIsLatest
  <2>. QED
    BY <1>2, <1>4, <2>2, <2>3 DEF IInv, CountedShape, NumberedOnce, WindowsApart
<1>. QED
  BY <1>3, <1>4

\* Time alone does not disturb what was counted.
LEMMA KeptShape ==
    ASSUME IInv, now' \in Nat, now <= now', hits > 0 \/ now' = now,
           UNCHANGED <<hits, hitsEnd, counted>>
    PROVE  CountedShape'
<1>1. /\ now \in Nat
      /\ \A c \in counted : c.at \in Nat /\ c.at <= now
  BY DEF IInv, TypeOK, Times, Requests, CountedShape, InItsWindow
<1>2. \A c \in counted : c.at <= now'
  BY <1>1
<1>3. InItsWindow'
  BY <1>2 DEF IInv, CountedShape, InItsWindow
<1>. QED
  BY <1>3 DEF IInv, CountedShape, NumberedOnce, WindowsApart, CounterIsLatest, AllCounted

\* Every step keeps the invariant.
LEMMA NextIInv == IInv /\ [Next]_vars => IInv'
<1> SUFFICES ASSUME IInv, [Next]_vars PROVE IInv'
  OBVIOUS
<1>a. /\ now \in Nat /\ now \in Times /\ now <= MaxTime /\ MaxTime \in Nat
      /\ Ttl \in Nat \ {0} /\ Limit \in Nat \ {0}
      /\ hits \in Nat /\ hitsEnd \in Nat \cup {None} /\ blockEnd \in Nat \cup {None}
      /\ redisUp \in BOOLEAN /\ evictions \in Nat /\ outages \in Nat
      /\ denied \in [first : Times \cup {None}, last : Times \cup {None}, retry : Nat \cup {None}]
      /\ counted \subseteq Requests
  BY ThrottleAssumption DEF IInv, TypeOK, Times
<1>b. NoDenial \in [first : Times \cup {None}, last : Times \cup {None}, retry : Nat \cup {None}]
  BY DEF NoDenial
<1>c. /\ KeysLive /\ CountedShape /\ DenialBounded
  BY DEF IInv
<1>1. CASE HitCounted
  <2>1. Count /\ now' = now /\ UNCHANGED faultVars
    BY <1>1 DEF HitCounted
  <2>2. /\ hits' \in Nat /\ hitsEnd' \in Nat /\ blockEnd' \in Nat \cup {None}
        /\ counted' \subseteq Requests /\ KeysLive' /\ CountedShape'
    BY <2>1, CountStep
  <2>3. /\ DenialBounded'
        /\ denied' \in [first : Times \cup {None}, last : Times \cup {None}, retry : Nat \cup {None}]
    <3>1. CASE OverLimit
      <4>1. DenialBounded' /\ denied' \in [first : Times, last : Times, retry : Nat]
        BY <1>1, <2>1, <3>1, DenyCounted DEF HitCounted
      <4>. QED
        BY <4>1
    <3>2. CASE ~OverLimit
      BY <1>1, <1>b, <3>2, PassStep DEF HitCounted
    <3>. QED
      BY <3>1, <3>2
  <2>. QED
    BY <1>a, <2>1, <2>2, <2>3 DEF IInv, TypeOK, faultVars
<1>2. CASE HitBlocked
  <2>1. Blocked /\ Deny(blockEnd) /\ UNCHANGED <<now, redisVars, counted, faultVars>>
    BY <1>2 DEF HitBlocked, LeaveBlocked
  <2>2. DenialBounded' /\ denied' \in [first : Times, last : Times, retry : Nat]
    BY <2>1, DenyBlocked
  <2>3. denied' \in [first : Times \cup {None}, last : Times \cup {None}, retry : Nat \cup {None}]
    BY <2>2
  <2>4. KeysLive'
    BY <1>c, <2>1 DEF KeysLive, Blocked, redisVars
  <2>5. CountedShape'
    BY <1>a, <2>1, KeptShape DEF redisVars
  <2>. QED
    BY <1>a, <2>1, <2>2, <2>3, <2>4, <2>5 DEF IInv, TypeOK, redisVars, faultVars
<1>3. CASE HitFailsOpen
  <2>1. Pass /\ UNCHANGED <<now, redisVars, counted, faultVars>>
    BY <1>3 DEF HitFailsOpen
  <2>2. KeysLive'
    BY <1>c, <2>1 DEF KeysLive, Blocked, redisVars
  <2>3. CountedShape'
    BY <1>a, <2>1, KeptShape DEF redisVars
  <2>. QED
    BY <1>a, <1>b, <2>1, <2>2, <2>3, PassStep DEF IInv, TypeOK, redisVars, faultVars
<1>4. CASE HitReplyLost
  <2>1. /\ Pass /\ now' = now /\ redisUp' = FALSE /\ evictions' = evictions
        /\ outages' = outages + 1
    BY <1>4 DEF HitReplyLost
  <2>2. /\ hits' \in Nat /\ hitsEnd' \in Nat \cup {None} /\ blockEnd' \in Nat \cup {None}
        /\ counted' \subseteq Requests /\ KeysLive' /\ CountedShape'
    <3>1. CASE Count
      BY <2>1, <3>1, CountStep
    <3>2. CASE LeaveBlocked
      <4>1. UNCHANGED <<now, hits, hitsEnd, blockEnd, counted>>
        BY <2>1, <3>2 DEF LeaveBlocked, redisVars
      <4>2. KeysLive'
        BY <1>c, <4>1 DEF KeysLive, Blocked
      <4>3. CountedShape'
        BY <1>a, <4>1, KeptShape
      <4>. QED
        BY <1>a, <4>1, <4>2, <4>3
    <3>. QED
      BY <1>4, <3>1, <3>2 DEF HitReplyLost
  <2>3. denied' = NoDenial /\ DenialBounded'
    BY <2>1, PassStep
  <2>4. TypeOK'
    <3>1. redisUp' \in BOOLEAN
      BY <2>1
    <3>2. now' \in Times /\ evictions' \in Nat /\ outages' \in Nat
      BY <1>a, <2>1
    <3>. QED
      BY <1>b, <2>2, <2>3, <3>1, <3>2 DEF TypeOK
  <2>. QED
    BY <2>2, <2>3, <2>4 DEF IInv
<1>5. CASE Tick
  <2>1. /\ now' = now + 1 /\ now < MaxTime
        /\ blockEnd' = IF blockEnd < now' THEN None ELSE blockEnd
        /\ UNCHANGED <<faultVars, denied, counted>>
    BY <1>5 DEF Tick
  <2>2. now' \in Times /\ now' \in Nat /\ now <= now'
    BY <1>a, <2>1 DEF Times
  <2>3. CASE hitsEnd < now'
    <3>1. Forget
      BY <1>5, <2>3 DEF Tick
    <3>2. CountedShape'
      BY <2>1, <2>2, <2>3, <3>1, ForgetStep
    <3>3. KeysLive'
      <4>1. hits' = 0 /\ hitsEnd' = None
        BY <3>1 DEF Forget
      <4>2. blockEnd' <= now' + Ttl
        BY <1>a, <1>c, <2>1 DEF KeysLive, None
      <4>3. Blocked' => hitsEnd' <= blockEnd'
        BY <1>a, <2>1, <4>1 DEF Blocked, None
      <4>. QED
        BY <4>1, <4>2, <4>3 DEF KeysLive
    <3>4. DenialBounded'
      BY <1>a, <1>c, <2>1, <2>2, <3>1, KeysOnlyShrink DEF Forget
    <3>. QED
      BY <1>a, <2>1, <2>2, <3>1, <3>2, <3>3, <3>4 DEF IInv, TypeOK, faultVars, Forget
  <2>4. CASE ~(hitsEnd < now')
    <3>1. UNCHANGED <<hits, hitsEnd>>
      BY <1>5, <2>4 DEF Tick
    <3>2. hits > 0 /\ hitsEnd >= now'
      BY <1>a, <1>c, <2>1, <2>4 DEF KeysLive, None
    <3>3. CountedShape'
      BY <2>1, <2>2, <3>1, <3>2, KeptShape
    <3>4. KeysLive'
      BY <1>a, <1>c, <2>1, <3>1, <3>2 DEF KeysLive, Blocked, None
    <3>5. DenialBounded'
      BY <1>a, <1>c, <2>1, <2>2, <3>1, KeysOnlyShrink
    <3>. QED
      BY <1>a, <2>1, <2>2, <3>1, <3>3, <3>4, <3>5 DEF IInv, TypeOK, faultVars
  <2>. QED
    BY <2>3, <2>4
<1>6. CASE EvictCounter
  <2>1. /\ Forget /\ counted' = {} /\ evictions' = evictions + 1
        /\ UNCHANGED <<now, blockEnd, redisUp, outages, denied>>
    BY <1>6 DEF EvictCounter
  <2>2. CountedShape'
    BY <1>a, <2>1, ForgetStep
  <2>3. KeysLive'
    BY <1>a, <1>c, <2>1 DEF KeysLive, Blocked, Forget, None
  <2>4. DenialBounded'
    BY <1>a, <1>c, <2>1, KeysOnlyShrink DEF Forget
  <2>. QED
    BY <1>a, <2>1, <2>2, <2>3, <2>4 DEF IInv, TypeOK, Forget
<1>7. CASE EvictBlock
  <2>1. /\ blockEnd' = None /\ evictions' = evictions + 1
        /\ UNCHANGED <<now, hits, hitsEnd, redisUp, outages, denied, counted>>
    BY <1>7 DEF EvictBlock
  <2>2. CountedShape'
    BY <1>a, <2>1, KeptShape
  <2>3. KeysLive'
    BY <1>a, <1>c, <2>1 DEF KeysLive, Blocked, None
  <2>4. DenialBounded'
    BY <1>a, <1>c, <2>1, KeysOnlyShrink
  <2>. QED
    BY <1>a, <2>1, <2>2, <2>3, <2>4 DEF IInv, TypeOK
<1>8. CASE RedisDown
  <2>1. /\ redisUp' = FALSE /\ outages' = outages + 1
        /\ UNCHANGED <<now, redisVars, evictions, denied, counted>>
    BY <1>8 DEF RedisDown
  <2>2. CountedShape'
    BY <1>a, <2>1, KeptShape DEF redisVars
  <2>3. TypeOK'
    <3>1. redisUp' \in BOOLEAN
      BY <2>1
    <3>2. outages' \in Nat
      BY <1>a, <2>1
    <3>. QED
      BY <1>a, <2>1, <3>1, <3>2 DEF TypeOK, redisVars
  <2>. QED
    BY <1>c, <2>1, <2>2, <2>3 DEF IInv, KeysLive, Blocked, DenialBounded, redisVars
<1>9. CASE RedisBack
  <2>1. redisUp' = TRUE /\ UNCHANGED <<now, evictions, outages, denied>>
    BY <1>9 DEF RedisBack
  <2>2. CASE UNCHANGED <<redisVars, counted>>
    <3>1. CountedShape'
      BY <1>a, <2>1, <2>2, KeptShape DEF redisVars
    <3>2. TypeOK'
      BY <1>a, <2>1, <2>2 DEF TypeOK, redisVars
    <3>. QED
      BY <1>c, <2>1, <2>2, <3>1, <3>2 DEF IInv, KeysLive, Blocked, DenialBounded, redisVars
  <2>3. CASE Forget /\ blockEnd' = None /\ counted' = {}
    <3>1. CountedShape'
      BY <1>a, <2>1, <2>3, ForgetStep
    <3>2. KeysLive'
      BY <1>a, <2>1, <2>3 DEF KeysLive, Blocked, Forget, None
    <3>3. DenialBounded'
      BY <1>a, <1>c, <2>1, <2>3, KeysOnlyShrink DEF Forget
    <3>. QED
      BY <1>a, <2>1, <2>3, <3>1, <3>2, <3>3 DEF IInv, TypeOK, Forget
  <2>. QED
    BY <1>9, <2>2, <2>3 DEF RedisBack
<1>10. CASE UNCHANGED vars
  <2>1. UNCHANGED <<now, redisVars, faultVars, denied, counted>>
    BY <1>10 DEF vars
  <2>2. CountedShape'
    BY <1>a, <2>1, KeptShape DEF redisVars
  <2>3. TypeOK'
    BY <1>a, <2>1 DEF TypeOK, redisVars, faultVars
  <2>. QED
    BY <1>c, <2>1, <2>2, <2>3 DEF IInv, KeysLive, Blocked, DenialBounded, redisVars
<1>. QED
  BY <1>1, <1>2, <1>3, <1>4, <1>5, <1>6, <1>7, <1>8, <1>9, <1>10 DEF Next, Hit

-----------------------------------------------------------------------------
(* The theorems *)

\* The inductive invariant holds in every reachable state.
THEOREM Invariance == Spec => []IInv
<1>. QED
  BY InitIInv, NextIInv, PTL DEF Spec

\* Every variable of the throttle keeps its type.
THEOREM TypeCorrect == Spec => []TypeOK
<1>1. IInv => TypeOK
  BY DEF IInv
<1>. QED
  BY <1>1, Invariance, PTL

\* Within any time to live fewer than twice the limit of requests are counted
\* and let through, for every limit and every time to live.
THEOREM LimitHolds == Spec => []LessThanTwiceTheLimit
<1>1. ASSUME IInv, NEW t \in Times
      PROVE  Cardinality(CountedIn(t, t + Ttl)) < 2 * Limit
  <2>. DEFINE S == CountedIn(t, t + Ttl)
              A == {c \in S : c.since < t}
              B == {c \in S : c.since >= t}
  <2>1. /\ t \in Nat /\ Ttl \in Nat \ {0} /\ Limit \in Nat \ {0}
        /\ \A c \in S : /\ c \in counted
                        /\ c.at \in Nat /\ c.since \in Nat /\ c.nth \in 1..Limit
                        /\ t <= c.at /\ c.at <= t + Ttl
    BY <1>1, ThrottleAssumption DEF IInv, TypeOK, Requests, Times, CountedIn
  <2>2. \A c \in S : /\ c.since <= c.at /\ c.at <= c.since + Ttl
                     /\ c.nth = 1 => c.at = c.since
    BY <1>1, <2>1 DEF IInv, CountedShape, InItsWindow
  <2>3. \A c, e \in S : c.since < e.since => c.since + Ttl < e.since
    BY <1>1, <2>1 DEF IInv, CountedShape, WindowsApart
  <2>4. \A c, e \in S : c.since = e.since /\ c.nth = e.nth => c = e
    BY <1>1, <2>1 DEF IInv, CountedShape, NumberedOnce
  <2>. HIDE DEF S
  <2>5. \A c, e \in A : c.since = e.since
    <3> SUFFICES ASSUME NEW c \in A, NEW e \in A, c.since < e.since PROVE FALSE
      BY <2>1
    <3>. QED
      BY <2>1, <2>2, <2>3
  <2>6. \A c, e \in B : c.since = e.since
    <3> SUFFICES ASSUME NEW c \in B, NEW e \in B, c.since < e.since PROVE FALSE
      BY <2>1
    <3>. QED
      BY <2>1, <2>2, <2>3
  <2>7. IsFiniteSet(A) /\ Cardinality(A) <= Limit - 2 + 1
    <3>1. \A c \in A : c.nth \in 2..Limit
      BY <2>1, <2>2
    <3>2. \A c, e \in A : c.nth = e.nth => c = e
      BY <2>4, <2>5
    <3>. HIDE DEF A
    <3>. QED
      BY <2>1, <3>1, <3>2, AtMostTheNumbers
  <2>8. IsFiniteSet(B) /\ Cardinality(B) <= Limit - 1 + 1
    <3>1. \A c \in B : c.nth \in 1..Limit
      BY <2>1
    <3>2. \A c, e \in B : c.nth = e.nth => c = e
      BY <2>4, <2>6
    <3>. HIDE DEF B
    <3>. QED
      BY <2>1, <3>1, <3>2, AtMostTheNumbers
  <2>9. S = A \cup B /\ A \cap B = {}
    BY <2>1
  <2>10. Cardinality(A) \in Nat /\ Cardinality(B) \in Nat
    BY <2>7, <2>8, FS_CardinalityType
  <2>. HIDE DEF A, B
  <2>11. Cardinality(A \cup B) = Cardinality(A) + Cardinality(B) - Cardinality(A \cap B)
    BY <2>7, <2>8, FS_Union
  <2>12. Cardinality(A \cap B) = 0
    BY <2>9, FS_EmptySet
  <2>13. Cardinality(S) < 2 * Limit
    BY <2>1, <2>7, <2>8, <2>9, <2>10, <2>11, <2>12
  <2>. QED
    BY <2>13 DEF S
<1>2. IInv => LessThanTwiceTheLimit
  BY <1>1 DEF LessThanTwiceTheLimit
<1>. QED
  BY <1>2, Invariance, PTL

\* A block is set only on a client that was let through `limit` times within
\* the last time to live.
THEOREM BlockIsEarned == Spec => DenialIsEarned
<1>. DEFINE Earned == blockEnd' > blockEnd => Cardinality(CountedIn(now - Ttl, now)) >= Limit
<1>1. ASSUME IInv, Next, blockEnd' > blockEnd
      PROVE  Cardinality(CountedIn(now - Ttl, now)) >= Limit
  <2>1. /\ now \in Nat /\ Ttl \in Nat \ {0} /\ Limit \in Nat \ {0}
        /\ hits \in Nat /\ hitsEnd \in Nat \cup {None} /\ blockEnd \in Nat \cup {None}
        /\ \A c \in counted : c.at \in Nat /\ c.since \in Nat
    BY <1>1, ThrottleAssumption DEF IInv, TypeOK, Times, Requests
  <2>2. blockEnd' # blockEnd /\ blockEnd' # None
    BY <1>1, <2>1 DEF None
  <2>3. Count /\ OverLimit
    <3>1. ASSUME LeaveBlocked PROVE FALSE
      BY <2>2, <3>1 DEF LeaveBlocked, redisVars
    <3>2. Count
      BY <1>1, <2>2, <3>1
         DEF Next, Hit, HitCounted, HitBlocked, HitFailsOpen, HitReplyLost, Tick,
             EvictCounter, EvictBlock, RedisDown, RedisBack, redisVars
    <3>. QED
      BY <2>2, <3>2 DEF Count
  <2>4. hits >= Limit /\ hits > 0
    BY <1>1, <2>1, <2>3, IncrStep DEF OverLimit, Count
  <2>5. ASSUME NEW n \in 1..Limit
        PROVE  \E c \in CountedIn(now - Ttl, now) : c.nth = n
    <3>1. PICK c \in counted : c.since = hitsEnd - Ttl /\ c.nth = n
      BY <1>1, <2>1, <2>4 DEF IInv, CountedShape, AllCounted
    <3>2. c.since <= c.at /\ c.at <= now /\ hitsEnd >= now /\ hitsEnd \in Nat
      BY <1>1, <2>1, <2>4 DEF IInv, CountedShape, InItsWindow, KeysLive, None
    <3>3. c.at \in now - Ttl..now
      BY <2>1, <3>1, <3>2
    <3>. QED
      BY <3>1, <3>3 DEF CountedIn
  <2>6. IsFiniteSet(CountedIn(now - Ttl, now))
    BY <1>1, FS_Subset DEF IInv, CountedShape, CountedIn
  <2>. QED
    BY <2>1, <2>5, <2>6, AtLeastTheNumbers
<1>2. IInv /\ Next => Earned
  BY <1>1
<1>. HIDE DEF Earned
<1>. QED
  BY <1>2, Invariance, PTL DEF Spec, DenialIsEarned, Earned

\* A client is let through before it has been denied for twice the time to live.
THEOREM DenialEndsHolds == Spec => []DenialEnds
<1>1. IInv => DenialEnds
  <2> SUFFICES ASSUME IInv PROVE DenialEnds
    OBVIOUS
  <2>1. Ttl \in Nat \ {0}
    BY ThrottleAssumption
  <2>2. CASE denied = NoDenial
    BY <2>1, <2>2 DEF DenialEnds, NoDenial, None
  <2>3. CASE denied # NoDenial
    BY <2>1, <2>3 DEF DenialEnds, IInv, DenialBounded
  <2>. QED
    BY <2>2, <2>3
<1>. QED
  BY <1>1, Invariance, PTL

\* Who has waited for longer than Retry-After said is not denied once more.
THEOREM RetryAfterHolds == Spec => RetryAfterIsEnough
<1>. DEFINE Enough == denied # NoDenial /\ denied' # NoDenial => denied'.last <= denied.retry
<1>1. ASSUME IInv, Next, denied # NoDenial, denied' # NoDenial
      PROVE  denied'.last <= denied.retry
  <2>1. /\ now \in Nat /\ Limit \in Nat \ {0} /\ hits \in Nat
        /\ denied.last <= denied.retry /\ denied.retry \in Nat
        /\ hitsEnd <= denied.retry /\ blockEnd <= denied.retry
        /\ hitsEnd \in Nat \cup {None} /\ blockEnd \in Nat \cup {None}
    BY <1>1, ThrottleAssumption DEF IInv, TypeOK, Times, DenialBounded
  <2>2. CASE denied' = denied
    BY <2>1, <2>2
  <2>3. CASE denied' # denied
    <3>1. ~Pass
      BY <1>1 DEF Pass
    <3>2. HitCounted \/ HitBlocked
      BY <1>1, <2>3, <3>1
         DEF Next, Hit, HitFailsOpen, HitReplyLost, Tick, EvictCounter, EvictBlock,
             RedisDown, RedisBack
    <3>3. denied'.last = now
      BY <3>1, <3>2 DEF HitCounted, HitBlocked, Deny
    <3>4. CASE HitBlocked
      BY <2>1, <3>3, <3>4 DEF HitBlocked, LeaveBlocked, Blocked, None
    <3>5. CASE HitCounted
      <4>1. Count /\ OverLimit
        BY <3>1, <3>5 DEF HitCounted
      <4>2. hits > 0
        BY <1>1, <2>1, <4>1, IncrStep DEF Count, OverLimit
      <4>3. hitsEnd >= now
        BY <1>1, <4>2 DEF IInv, KeysLive
      <4>. QED
        BY <2>1, <3>3, <4>3 DEF None
    <3>. QED
      BY <3>2, <3>4, <3>5
  <2>. QED
    BY <2>2, <2>3
<1>2. IInv /\ Next => Enough
  BY <1>1
<1>3. IInv /\ UNCHANGED vars => Enough
  <2> SUFFICES ASSUME IInv, denied' = denied, denied # NoDenial
               PROVE  denied'.last <= denied.retry
    BY DEF vars
  <2>. QED
    BY DEF IInv, DenialBounded
<1>. HIDE DEF Enough
<1>. QED
  BY <1>2, <1>3, Invariance, PTL DEF Spec, RetryAfterIsEnough, Enough
=============================================================================
