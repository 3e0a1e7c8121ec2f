-------------------------- MODULE ReadThroughProofs --------------------------
(***************************************************************************)
(* Proofs about ReadThrough, for every set of readers and keys and every   *)
(* number of changes and faults.                                           *)
(*                                                                         *)
(* The argument for NeverGoesBack: the loads of a coalesced key follow one *)
(* another, so the values written for it rise on the wire (Rising), and    *)
(* none is newer than the query of a load still running (Newest).  A       *)
(* reader's GET is behind the write of every answer given before it came,  *)
(* so it finds a value as new or none (Covers), and then it waits for a    *)
(* query that began after all of them.                                     *)
(***************************************************************************)
EXTENDS ReadThrough, FiniteSetTheorems, SequenceTheorems, TLAPS

Commands ==
    {c \in [op : {"get", "set", "del"}, by : Readers \cup {Nobody}, key : Keys, val : Values] :
        /\ c.op = "get" => c.by \in Readers /\ c.key = KeyOf[c.by]
        /\ c.op # "get" => c.val \in 0..MaxVersion
        /\ c.op = "del" => c.key \in Uncoalesced}

Replies == [to : Readers, val : Values]

\* Types, also of what is on the way.
Types ==
    /\ TypeOK
    /\ wire \in Seq(Commands)
    /\ replies \in Seq(Replies)
    /\ \A r \in Readers : load[r] = "answering" => queried[r] \in 0..version

\* A reader reads before it loads, and its helper starts with its load.
LoadOrder ==
    /\ \A r \in Readers : load[r] # "none" => pc[r] \in {"waiting", "done"}
    /\ \A r \in Related : load[r] = "none" => pc[Helper[r]] = "idle"
    /\ \A r \in Readers : load[r] = "detail" => r \in Related

\* Who awaits a load awaits one of its own key.
KeysAgree ==
    /\ \A k \in Keys : map[k] # Nobody => KeyOf[map[k]] = k
    /\ \A r \in Readers : joined[r] # Nobody => KeyOf[joined[r]] = KeyOf[r]

\* What is related to an article without embedding is never queried.
NoQuery == \A r \in Unembedded : load[r] \notin {"querying", "answering"}

Loads == MapIsLoad /\ LoadOrder /\ KeysAgree /\ NoQuery

Calm == faults["outage"] = 0

\* The i-th command is the GET of r, or a write of k.
Asks(w, i, r)   == w[i].op = "get" /\ w[i].by = r
Writes(w, i, k) == w[i].op = "set" /\ w[i].key = k

\* With w on the wire and p of the replies on the way: a reader has one GET or one
\* reply there, and only while it reads.
OneEach(w, p, reading) ==
    \A r \in Readers :
        /\ \A i \in 1..Len(w) : Asks(w, i, r) => r \in reading
        /\ \A i \in 1..Len(p) : p[i].to = r => r \in reading
        /\ \A i, j \in 1..Len(w) : Asks(w, i, r) /\ Asks(w, j, r) => i = j
        /\ \A i, j \in 1..Len(p) : p[i].to = r /\ p[j].to = r => i = j
        /\ \A i \in 1..Len(w), j \in 1..Len(p) : ~(Asks(w, i, r) /\ p[j].to = r)

Reading == {r \in Readers : pc[r] = "reading"}

OneOnTheWay == redisUp /\ OneEach(wire, replies, Reading)

\* The values to be written for k rise, from the value c in the cache on.
Rising(w, c, k) ==
    /\ \A i, j \in 1..Len(w) : i < j /\ Writes(w, i, k) /\ Writes(w, j, k) => w[i].val <= w[j].val
    /\ \A i \in 1..Len(w) : Writes(w, i, k) => c <= w[i].val

\* After the first n commands of the wire the cache holds v, something newer or nothing.
Covers(w, n, c, k, v) ==
    \/ \E i \in 1..n : Writes(w, i, k) /\ v <= w[i].val
    \/ /\ c = NoValue \/ v <= c
       /\ \A i \in 1..n : ~Writes(w, i, k)

\* A reply is not newer than what is in the cache or comes there.
Behind(w, p, c, k) ==
    \A i \in 1..Len(p) : KeyOf[p[i].to] = k =>
        /\ c = NoValue \/ p[i].val <= c
        /\ \A j \in 1..Len(w) : Writes(w, j, k) => p[i].val <= w[j].val

\* f is the newest value answered for k.
KeyInOrder(w, p, c, f, k) == Rising(w, c, k) /\ Covers(w, Len(w), c, k, f) /\ Behind(w, p, c, k)

\* No value of k is newer than v.
AtMost(w, p, c, f, k, v) ==
    /\ f <= v
    /\ c <= v
    /\ \A i \in 1..Len(w) : Writes(w, i, k) => w[i].val <= v
    /\ \A i \in 1..Len(p) : KeyOf[p[i].to] = k => p[i].val <= v

\* What r of key k reads is nothing, or not older than s.
Serves(w, p, c, k, r, s) ==
    /\ \A i \in 1..Len(w) : Asks(w, i, r) => Covers(w, i - 1, c, k, s)
    /\ \A i \in 1..Len(p) : p[i].to = r => p[i].val = NoValue \/ s <= p[i].val

Coalesced == Keys \ Uncoalesced

Newest(k, v) == AtMost(wire, replies, cache[k], floor[k], k, v)

NewestKnown ==
    /\ \A k \in Coalesced : Newest(k, version)
    /\ \A r \in Readers : KeyOf[r] \in Coalesced /\ load[r] = "answering" => Newest(KeyOf[r], queried[r])
    /\ \A r \in Unembedded : Newest(KeyOf[r], 0)

ReadersServed ==
    \A r \in Readers : KeyOf[r] \in Coalesced =>
        /\ since[r] <= floor[KeyOf[r]]
        /\ Serves(wire, replies, cache[KeyOf[r]], KeyOf[r], r, since[r])
        /\ pc[r] = "done" /\ answer[r] >= 0 => answer[r] >= since[r]

ValuesInOrder ==
    /\ \A k \in Coalesced : KeyInOrder(wire, replies, cache[k], floor[k], k)
    /\ NewestKnown
    /\ ReadersServed

\* After the first n commands of the wire the cache holds a value of k.
Holds(w, n, c, k) == c # NoValue \/ \E i \in 1..n : Writes(w, i, k)

\* r of key k reads a value.
Fed(w, p, c, k, r) ==
    /\ \A i \in 1..Len(w) : Asks(w, i, r) => Holds(w, i - 1, c, k)
    /\ \A i \in 1..Len(p) : p[i].to = r => p[i].val # NoValue

Lossless == Calm /\ faults["loss"] = 0

\* What was stored is in the cache or on the wire, before whoever came later.
WarmServed ==
    /\ \A r \in Readers : KeyOf[r] \in Coalesced /\ load[r] = "stored" =>
         Holds(wire, Len(wire), cache[KeyOf[r]], KeyOf[r])
    /\ \A r \in warm : KeyOf[r] \in Coalesced =>
         load[r] = "none" /\ pc[r] # "idle" /\ Fed(wire, replies, cache[KeyOf[r]], KeyOf[r], r)

Base == Types /\ Loads

Orderly == OneOnTheWay /\ ValuesInOrder

IInv ==
    /\ Base
    /\ Calm => Orderly
    /\ Lossless => WarmServed

-----------------------------------------------------------------------------
(* Lemmas about the wire *)

LEMMA MaxVersionNat == MaxVersion \in Nat /\ NoValue \in Int /\ NoValue \in Values
BY ReadAssumption DEF NoValue, Values

LEMMA CommandTypes ==
    ASSUME NEW w \in Seq(Commands), NEW i \in 1..Len(w)
    PROVE  /\ w[i] \in Commands
           /\ w[i].val \in Int /\ NoValue <= w[i].val
           /\ w[i].op # "get" => w[i].val \in 0..MaxVersion
<1>1. w[i] \in Commands
    OBVIOUS
<1>2. \A v \in Values : v \in Int /\ NoValue <= v
    BY MaxVersionNat DEF Values, NoValue
<1> QED
    BY <1>1, <1>2 DEF Commands

\* The sequences of commands and replies, one longer or one shorter.
LEMMA Longer ==
    ASSUME NEW R, NEW s \in Seq(R), NEW x \in R
    PROVE  /\ Append(s, x) \in Seq(R)
           /\ Len(s) \in Nat /\ Len(Append(s, x)) = Len(s) + 1
           /\ \A i \in 1..Len(s) : Append(s, x)[i] = s[i]
           /\ Append(s, x)[Len(s) + 1] = x
OBVIOUS

LEMMA Shorter ==
    ASSUME NEW R, NEW s \in Seq(R), s # <<>>
    PROVE  /\ Tail(s) \in Seq(R) /\ Head(s) \in R /\ Head(s) = s[1]
           /\ Len(s) \in Nat \ {0} /\ Len(Tail(s)) = Len(s) - 1
           /\ \A i \in 1..Len(Tail(s)) : i + 1 \in 2..Len(s) /\ Tail(s)[i] = s[i + 1]
OBVIOUS

\* The cache after the head of the wire was executed.
After(w, c, k) == IF Writes(w, 1, k) THEN w[1].val ELSE c

LEMMA RisingLeft ==
    ASSUME NEW w \in Seq(Commands), w # <<>>, NEW c, NEW k, Rising(w, c, k)
    PROVE  Rising(Tail(w), After(w, c, k), k)
<1> DEFINE t == Tail(w)
<1>1. /\ Len(w) \in Nat \ {0} /\ Len(t) = Len(w) - 1
      /\ \A i \in 1..Len(t) : i + 1 \in 2..Len(w) /\ t[i] = w[i + 1]
    BY Shorter
<1> HIDE DEF t
<1>2. \A i \in 1..Len(t) : i + 1 \in 1..Len(w) /\ (Writes(t, i, k) <=> Writes(w, i + 1, k))
    BY <1>1 DEF Writes
<1>3. ASSUME NEW i \in 1..Len(t), NEW j \in 1..Len(t), i < j, Writes(t, i, k), Writes(t, j, k)
      PROVE  t[i].val <= t[j].val
    BY <1>1, <1>2, <1>3 DEF Rising
<1>4. ASSUME NEW i \in 1..Len(t), Writes(t, i, k)
      PROVE  After(w, c, k) <= t[i].val
    BY <1>1, <1>2, <1>4 DEF Rising, After
<1> QED
    BY <1>3, <1>4 DEF Rising, t

LEMMA RisingJoined ==
    ASSUME NEW w \in Seq(Commands), NEW x \in Commands, NEW c, NEW k, Rising(w, c, k),
           x.op = "set" /\ x.key = k =>
             c <= x.val /\ \A i \in 1..Len(w) : Writes(w, i, k) => w[i].val <= x.val
    PROVE  Rising(Append(w, x), c, k)
<1> DEFINE t == Append(w, x)
<1>1. /\ Len(w) \in Nat /\ Len(t) = Len(w) + 1
      /\ \A i \in 1..Len(w) : t[i] = w[i]
      /\ t[Len(w) + 1] = x
    BY Longer
<1> HIDE DEF t
<1>2. \A i \in 1..Len(t) : i \in 1..Len(w) \/ i = Len(w) + 1
    BY <1>1
<1>3. ASSUME NEW i \in 1..Len(t), NEW j \in 1..Len(t), i < j, Writes(t, i, k), Writes(t, j, k)
      PROVE  t[i].val <= t[j].val
    BY <1>1, <1>2, <1>3 DEF Rising, Writes
<1>4. ASSUME NEW i \in 1..Len(t), Writes(t, i, k)
      PROVE  c <= t[i].val
    BY <1>1, <1>2, <1>4 DEF Rising, Writes
<1> QED
    BY <1>3, <1>4 DEF Rising, t

LEMMA CoversLeft ==
    ASSUME NEW w \in Seq(Commands), NEW n \in 1..Len(w), NEW c, NEW k, NEW v \in Int,
           Rising(w, c, k), Covers(w, n, c, k, v)
    PROVE  Covers(Tail(w), n - 1, After(w, c, k), k, v)
<1> DEFINE t == Tail(w)
<1>1. /\ w # <<>> /\ Len(w) \in Nat \ {0} /\ Len(t) = Len(w) - 1
      /\ \A i \in 1..Len(t) : i + 1 \in 2..Len(w) /\ t[i] = w[i + 1]
    <2>1. w # <<>>
        OBVIOUS
    <2> QED
        BY <2>1, Shorter
<1> HIDE DEF t
<1>2. \A i \in 1..(n - 1) : i \in 1..Len(t) /\ i + 1 \in 1..n
                            /\ (Writes(t, i, k) <=> Writes(w, i + 1, k)) /\ t[i].val = w[i + 1].val
    BY <1>1 DEF Writes
<1>3. CASE \E i \in 1..n : Writes(w, i, k) /\ v <= w[i].val
    <2>1. PICK i \in 1..n : Writes(w, i, k) /\ v <= w[i].val
        BY <1>3
    <2>2. CASE i = 1
        <3>1. After(w, c, k) = w[1].val /\ v <= After(w, c, k)
            BY <2>1, <2>2 DEF After
        <3>2. ASSUME NEW j \in 1..(n - 1), Writes(t, j, k) PROVE v <= t[j].val
            <4>1. /\ 1 \in 1..Len(w) /\ j + 1 \in 1..Len(w) /\ 1 < j + 1
                  /\ Writes(w, 1, k) /\ Writes(w, j + 1, k)
                BY <1>1, <1>2, <2>1, <2>2, <3>2
            <4>2. w[1].val <= w[j + 1].val
                BY <4>1 DEF Rising
            <4>3. v <= w[1].val
                BY <2>1, <2>2
            <4> QED
                BY <1>2, <4>1, <4>2, <4>3, CommandTypes
        <3> QED
            BY <3>1, <3>2 DEF Covers, t
    <2>3. CASE i # 1
        <3>1. i - 1 \in 1..(n - 1) /\ Writes(t, i - 1, k) /\ v <= t[i - 1].val
            BY <1>2, <2>1, <2>3
        <3> QED
            BY <3>1 DEF Covers, t
    <2> QED
        BY <2>2, <2>3
<1>4. CASE (c = NoValue \/ v <= c) /\ \A i \in 1..n : ~Writes(w, i, k)
    <2>1. After(w, c, k) = c
        BY <1>1, <1>4 DEF After
    <2> QED
        BY <1>2, <1>4, <2>1 DEF Covers, t
<1> QED
    BY <1>3, <1>4 DEF Covers

LEMMA CoversJoined ==
    ASSUME NEW w \in Seq(Commands), NEW x \in Commands, NEW n \in 0..Len(w), NEW c, NEW k, NEW v,
           Covers(w, n, c, k, v)
    PROVE  Covers(Append(w, x), n, c, k, v)
<1> DEFINE t == Append(w, x)
<1>1. Len(w) \in Nat /\ \A i \in 1..Len(w) : t[i] = w[i]
    BY Longer
<1> HIDE DEF t
<1>2. \A i \in 1..n : t[i] = w[i]
    BY <1>1
<1> QED
    BY <1>2 DEF Covers, Writes, t

\* Behind the whole wire: another command changes nothing, a new enough write is seen.
LEMMA CoversMore ==
    ASSUME NEW w \in Seq(Commands), NEW x \in Commands, NEW c, NEW k, NEW v,
           Covers(w, Len(w), c, k, v),
           x.op = "set" /\ x.key = k => v <= x.val
    PROVE  Covers(Append(w, x), Len(Append(w, x)), c, k, v)
<1> DEFINE t == Append(w, x)
<1>1. /\ Len(w) \in Nat /\ Len(t) = Len(w) + 1
      /\ \A i \in 1..Len(w) : t[i] = w[i]
      /\ t[Len(w) + 1] = x
    BY Longer
<1> HIDE DEF t
<1>2. CASE x.op = "set" /\ x.key = k
    <2>1. Len(w) + 1 \in 1..Len(t) /\ Writes(t, Len(w) + 1, k) /\ v <= t[Len(w) + 1].val
        BY <1>1, <1>2 DEF Writes
    <2> QED
        BY <2>1 DEF Covers, t
<1>3. CASE ~(x.op = "set" /\ x.key = k)
    <2>1. \A i \in 1..Len(t) : \/ i \in 1..Len(w) /\ t[i] = w[i]
                               \/ i = Len(w) + 1 /\ t[i] = x
        BY <1>1
    <2>2. \A i \in 1..Len(w) : i \in 1..Len(t)
        BY <1>1
    <2> QED
        BY <1>1, <1>3, <2>1, <2>2 DEF Covers, Writes, t
<1> QED
    BY <1>2, <1>3

LEMMA CoversNew ==
    ASSUME NEW w \in Seq(Commands), NEW x \in Commands, NEW c, NEW k, NEW v,
           x.op = "set", x.key = k, v <= x.val
    PROVE  Covers(Append(w, x), Len(Append(w, x)), c, k, v)
<1> DEFINE t == Append(w, x)
<1>1. /\ Len(w) \in Nat /\ Len(t) = Len(w) + 1
      /\ t[Len(w) + 1] = x
    BY Longer
<1> HIDE DEF t
<1>2. Len(w) + 1 \in 1..Len(t) /\ Writes(t, Len(w) + 1, k) /\ v <= t[Len(w) + 1].val
    BY <1>1 DEF Writes
<1> QED
    BY <1>2 DEF Covers, t

LEMMA HoldsLeft ==
    ASSUME NEW w \in Seq(Commands), NEW n \in 1..Len(w), NEW c, NEW k, Holds(w, n, c, k)
    PROVE  Holds(Tail(w), n - 1, After(w, c, k), k)
<1> DEFINE t == Tail(w)
<1>1. /\ w # <<>> /\ Len(w) \in Nat \ {0} /\ Len(t) = Len(w) - 1
      /\ \A i \in 1..Len(t) : i + 1 \in 2..Len(w) /\ t[i] = w[i + 1]
    <2>1. w # <<>>
        OBVIOUS
    <2> QED
        BY <2>1, Shorter
<1>2. ~Writes(w, 1, k) \/ After(w, c, k) # NoValue
    <2>1. 1 \in 1..Len(w)
        BY <1>1
    <2>2. Writes(w, 1, k) => w[1].val \in 0..MaxVersion
        BY <2>1, CommandTypes DEF Writes
    <2> QED
        BY <2>2, MaxVersionNat DEF After, NoValue
<1> HIDE DEF t
<1>3. CASE c # NoValue
    BY <1>2, <1>3 DEF After, Holds, t
<1>4. ASSUME NEW i \in 1..n, Writes(w, i, k), i # 1 PROVE Holds(t, n - 1, After(w, c, k), k)
    <2>1. i - 1 \in 1..(n - 1) /\ Writes(t, i - 1, k)
        BY <1>1, <1>4 DEF Writes
    <2> QED
        BY <2>1 DEF Holds
<1> QED
    BY <1>2, <1>3, <1>4 DEF Holds, t

LEMMA HoldsJoined ==
    ASSUME NEW w \in Seq(Commands), NEW x \in Commands, NEW n \in 0..Len(w), NEW c, NEW k,
           Holds(w, n, c, k)
    PROVE  Holds(Append(w, x), n, c, k)
<1> DEFINE t == Append(w, x)
<1>1. Len(w) \in Nat /\ \A i \in 1..Len(w) : t[i] = w[i]
    BY Longer
<1> HIDE DEF t
<1>2. \A i \in 1..n : t[i] = w[i]
    BY <1>1
<1> QED
    BY <1>2 DEF Holds, Writes, t

LEMMA HoldsMore ==
    ASSUME NEW w \in Seq(Commands), NEW x \in Commands, NEW c, NEW k,
           Holds(w, Len(w), c, k) \/ (x.op = "set" /\ x.key = k)
    PROVE  Holds(Append(w, x), Len(Append(w, x)), c, k)
<1> DEFINE t == Append(w, x)
<1>1. /\ Len(w) \in Nat /\ Len(t) = Len(w) + 1
      /\ \A i \in 1..Len(w) : i \in 1..Len(t) /\ t[i] = w[i]
      /\ t[Len(w) + 1] = x /\ Len(w) + 1 \in 1..Len(t)
    BY Longer
<1> HIDE DEF t
<1>2. Holds(t, Len(t), c, k)
    BY <1>1 DEF Holds, Writes
<1> QED
    BY <1>2 DEF t

-----------------------------------------------------------------------------
(* Types and loads *)

LEMMA AssumedKeys ==
    /\ Nobody \notin Readers
    /\ \A r \in Readers : KeyOf[r] \in Keys
    /\ \A r \in Related : r \in Readers /\ Helper[r] \in Readers \ Related /\ Helper[r] \in Helpers
    /\ \A r \in Related : KeyOf[r] \notin Uncoalesced /\ KeyOf[Helper[r]] \notin Uncoalesced
    /\ \A r \in Related, q \in Readers : KeyOf[r] = KeyOf[q] => q \in Related
    /\ \A r \in Unembedded : r \in Related
    /\ \A r \in Unembedded, q \in Readers : KeyOf[r] = KeyOf[q] => q \in Unembedded
    /\ \A r, q \in Related : Helper[r] = Helper[q] => r = q
<1>1. \A r \in Related : Helper[r] \in Helpers
    BY DEF Helpers
<1> QED
    BY <1>1, ReadAssumption

LEMMA GetIsCommand == \A r \in Readers : Get(r) \in Commands
BY AssumedKeys, MaxVersionNat DEF Get, Commands

LEMMA SetIsCommand == \A r \in Readers, v \in 0..MaxVersion : Set(r, v) \in Commands
BY AssumedKeys DEF Set, Commands, Values

LEMMA DelIsCommand == \A k \in Uncoalesced, v \in 0..MaxVersion : Del(k, v) \in Commands
BY ReadAssumption DEF Del, Commands, Values

LEMMA SendAwayTypes ==
    ASSUME Types, NEW c \in Commands, SendAway(c)
    PROVE  wire' \in Seq(Commands)
BY Longer DEF Types, SendAway

LEMMA SendGetTypes ==
    ASSUME Types, NEW r \in Readers, NEW rest \in Seq(Replies), SendGet(r, rest)
    PROVE  wire' \in Seq(Commands) /\ replies' \in Seq(Replies)
<1>1. Get(r) \in Commands /\ [to |-> r, val |-> NoValue] \in Replies
    BY GetIsCommand, MaxVersionNat DEF Replies
<1>2. wire \in Seq(Commands)
    BY DEF Types
<1>3. Append(wire, Get(r)) \in Seq(Commands)
    BY <1>1, <1>2, Longer
<1>4. Append(rest, [to |-> r, val |-> NoValue]) \in Seq(Replies)
    BY <1>1, Longer
<1> QED
    BY <1>2, <1>3, <1>4 DEF SendGet

Answers == Values \cup {Missing, Error}

\* An answer keeps the types, and ends only who waits for it.
LEMMA AnswerTypes ==
    ASSUME TypeOK, NEW who, NEW a \in Answers, Answer(who, a)
    PROVE  /\ pc' \in [Readers -> {"idle", "reading", "waiting", "done"}]
           /\ answer' \in [Readers -> Answers]
           /\ floor' \in [Keys -> Values]
           /\ UNCHANGED <<since, warm>>
           /\ \A r \in Readers : pc'[r] = IF r \in who THEN "done" ELSE pc[r]
<1>1. \A k \in Keys : a > floor[k] => a \in Values
    <2>1. \A k \in Keys : floor[k] \in Int /\ floor[k] >= -1
        BY MaxVersionNat DEF TypeOK, Values, NoValue
    <2>2. a \in Values \/ a < -1
        BY DEF Answers, Missing, Error
    <2> QED
        BY <2>1, <2>2, MaxVersionNat DEF Values, NoValue, Answers, Missing, Error
<1>2. floor' \in [Keys -> Values]
    BY <1>1 DEF Answer, TypeOK
<1>3. pc' \in [Readers -> {"idle", "reading", "waiting", "done"}]
    BY DEF Answer, TypeOK
<1>4. answer' \in [Readers -> Answers]
    BY DEF Answer, TypeOK, Answers
<1> QED
    BY <1>2, <1>3, <1>4 DEF Answer

\* A load ends: types, maps and the order of steps.
LEMMA SettleBase ==
    ASSUME Base, NEW r \in Readers, InFlight(r), NEW state \in {"stored", "failed"},
           NEW a \in Answers, Settle(r, state, a),
           UNCHANGED <<version, queried, cache, redisUp, listVars, replies>>,
           wire' \in Seq(Commands), faults' \in [Kinds -> Nat]
    PROVE  Base'
<1> DEFINE who == {q \in Readers : pc[q] = "waiting" /\ joined[q] = r}
<1>1. /\ load' = [load EXCEPT ![r] = state]
      /\ map' = [map EXCEPT ![KeyOf[r]] = IF KeyOf[r] \in Uncoalesced THEN @ ELSE Nobody]
      /\ Answer(who, a) /\ joined' = joined
    BY DEF Settle
<1>2. /\ pc' \in [Readers -> {"idle", "reading", "waiting", "done"}]
      /\ answer' \in [Readers -> Answers]
      /\ floor' \in [Keys -> Values]
      /\ UNCHANGED <<since, warm>>
      /\ \A q \in Readers : pc'[q] = IF q \in who THEN "done" ELSE pc[q]
    BY <1>1, AnswerTypes DEF Base, Types
<1>3. TypeOK'
    BY <1>1, <1>2 DEF Base, Types, TypeOK, listVars, Answers
<1>4. \A q \in Readers : /\ load'[q] = IF q = r THEN state ELSE load[q]
                         /\ InFlight(q)' <=> InFlight(q) /\ q # r
    BY <1>1 DEF Base, Types, TypeOK, InFlight
<1>5. Types'
    BY <1>3, <1>4 DEF Base, Types
<1>6. load[r] # "none"
    BY DEF InFlight
<1>7. MapIsLoad'
    <2> SUFFICES ASSUME NEW q \in Readers, KeyOf[q] \notin Uncoalesced
                 PROVE  InFlight(q)' <=> map'[KeyOf[q]] = q
        BY DEF MapIsLoad
    <2>1. InFlight(q) <=> map[KeyOf[q]] = q
        BY DEF Base, Loads, MapIsLoad
    <2>2. CASE KeyOf[q] = KeyOf[r]
        <3>1. map[KeyOf[r]] = r /\ map'[KeyOf[q]] = Nobody
            BY <1>1, <2>2, AssumedKeys DEF Base, Loads, MapIsLoad, Types, TypeOK
        <3> QED
            BY <1>4, <2>1, <2>2, <3>1, AssumedKeys
    <2>3. CASE KeyOf[q] # KeyOf[r]
        <3>1. map'[KeyOf[q]] = map[KeyOf[q]]
            BY <1>1, <2>3, AssumedKeys DEF Base, Types, TypeOK
        <3> QED
            BY <1>4, <2>1, <2>3, <3>1
    <2> QED
        BY <2>2, <2>3
<1>8. LoadOrder'
    <2>1. \A q \in Readers : load'[q] # "none" => load[q] # "none"
        BY <1>4, <1>6
    <2>2. \A q \in Readers : pc[q] \in {"waiting", "done"} => pc'[q] \in {"waiting", "done"}
        BY <1>2
    <2>3. \A q \in Readers : pc[q] = "idle" => pc'[q] = "idle"
        BY <1>2
    <2>4. ASSUME NEW q \in Related, load'[q] = "none" PROVE pc'[Helper[q]] = "idle"
        <3>1. q # r /\ load[q] = "none" /\ Helper[q] \in Readers
            BY <1>4, <2>4, AssumedKeys
        <3> QED
            BY <2>3, <3>1 DEF Base, Loads, LoadOrder
    <2>5. \A q \in Readers : load'[q] = "detail" => load[q] = "detail"
        BY <1>4
    <2> QED
        BY <2>1, <2>2, <2>4, <2>5 DEF Base, Loads, LoadOrder
<1>9. KeysAgree'
    BY <1>1, AssumedKeys DEF Base, Loads, KeysAgree, Types, TypeOK
<1>10. NoQuery'
    BY <1>4, AssumedKeys DEF Base, Loads, NoQuery
<1> QED
    BY <1>5, <1>7, <1>8, <1>9, <1>10 DEF Base, Loads

\* A step of a reader that starts no load.
LEMMA ReaderBase ==
    ASSUME Base, UNCHANGED <<load, queried, map>>, Types', KeysAgree',
           \A q \in Readers : pc'[q] # pc[q] =>
               /\ load[q] = "none" \/ pc'[q] \in {"waiting", "done"}
               /\ q \notin Helpers \/ pc[q] # "idle"
    PROVE  Base'
<1>1. MapIsLoad' /\ NoQuery'
    BY DEF Base, Loads, MapIsLoad, NoQuery, InFlight
<1>2. LoadOrder'
    BY AssumedKeys DEF Base, Loads, LoadOrder
<1> QED
    BY <1>1, <1>2 DEF Base, Loads

\* What is remembered of a reader that starts to read.
LEMMA NoteTypes ==
    ASSUME TypeOK, NEW r \in Readers, Note(r)
    PROVE  since' \in [Readers -> Values] /\ warm' \subseteq Readers /\ floor' = floor
BY AssumedKeys DEF TypeOK, Note

LEMMA ArriveBase == ASSUME Base, NEW r \in Readers, Arrive(r) PROVE Base'
<1>1. TypeOK /\ replies \in Seq(Replies) /\ Types
    BY DEF Base, Types
<1>2. wire' \in Seq(Commands) /\ replies' \in Seq(Replies)
    BY <1>1, SendGetTypes DEF Arrive
<1>3. pc' \in [Readers -> {"idle", "reading", "waiting", "done"}]
    BY <1>1 DEF Arrive, TypeOK
<1>4. TypeOK'
    BY <1>1, <1>3, NoteTypes DEF Arrive, TypeOK, loadVars, listVars
<1>5. Types'
    BY <1>1, <1>2, <1>4 DEF Arrive, Types, loadVars
<1>6. KeysAgree'
    BY DEF Arrive, Base, Loads, KeysAgree, loadVars
<1>7. \A q \in Readers : pc'[q] # pc[q] => q = r
    BY <1>1 DEF Arrive, TypeOK
<1>8. load[r] = "none" /\ r \notin Helpers
    BY DEF Arrive, Base, Loads, LoadOrder, Requests
<1> QED
    BY <1>5, <1>6, <1>7, <1>8, ReaderBase DEF Arrive, loadVars

LEMMA HitBase == ASSUME Base, NEW r \in Readers, Hit(r) PROVE Base'
<1>1. TypeOK /\ replies \in Seq(Replies) /\ Types
    BY DEF Base, Types
<1>2. /\ replies # <<>> /\ Head(replies) \in Replies /\ Tail(replies) \in Seq(Replies)
      /\ pc[r] = "reading"
    BY <1>1, Shorter DEF Hit, Replied
<1>3. Head(replies).val \in Answers
    BY <1>2 DEF Replies, Answers
<1>4. /\ pc' \in [Readers -> {"idle", "reading", "waiting", "done"}]
      /\ answer' \in [Readers -> Answers]
      /\ floor' \in [Keys -> Values]
      /\ UNCHANGED <<since, warm>>
      /\ \A q \in Readers : pc'[q] = IF q \in {r} THEN "done" ELSE pc[q]
    BY <1>1, <1>3, AnswerTypes DEF Hit
<1>5. TypeOK'
    BY <1>1, <1>4 DEF Hit, TypeOK, loadVars, listVars, Answers
<1>6. Types'
    BY <1>1, <1>2, <1>5 DEF Hit, Types, loadVars
<1>7. KeysAgree'
    BY DEF Hit, Base, Loads, KeysAgree, loadVars
<1> QED
    BY <1>2, <1>4, <1>6, <1>7, ReaderBase DEF Hit, loadVars

LEMMA JoinBase == ASSUME Base, NEW r \in Readers, Join(r) PROVE Base'
<1>1. TypeOK /\ replies \in Seq(Replies) /\ Types
    BY DEF Base, Types
<1>2. /\ Tail(replies) \in Seq(Replies) /\ pc[r] = "reading"
      /\ KeyOf[r] \in Keys /\ map[KeyOf[r]] \in Readers
    BY <1>1, Shorter, AssumedKeys DEF Join, Replied, TypeOK
<1>3. /\ pc' \in [Readers -> {"idle", "reading", "waiting", "done"}]
      /\ joined' \in [Readers -> Readers \cup {Nobody}]
      /\ joined' = [joined EXCEPT ![r] = map[KeyOf[r]]]
    BY <1>1, <1>2 DEF Join, Await, TypeOK
<1>4. TypeOK'
    BY <1>1, <1>3 DEF Join, Await, TypeOK, loadVars, histVars, listVars
<1>5. Types'
    BY <1>1, <1>2, <1>4 DEF Join, Types, loadVars
<1>6. KeysAgree'
    BY <1>1, <1>2, <1>3 DEF Join, Base, Loads, KeysAgree, loadVars, TypeOK
<1>7. \A q \in Readers : pc'[q] # pc[q] => q = r /\ pc'[q] = "waiting"
    BY <1>1 DEF Join, TypeOK
<1> QED
    BY <1>2, <1>5, <1>6, <1>7, ReaderBase DEF Join, loadVars

\* A load starts: r has not loaded before, and the map has no load of its key.
LEMMA StartLoadBase == ASSUME Base, NEW r \in Readers, StartLoad(r) PROVE Base'
<1>1. TypeOK /\ replies \in Seq(Replies) /\ Types
    BY DEF Base, Types
<1>2. /\ Tail(replies) \in Seq(Replies) /\ pc[r] = "reading"
      /\ KeyOf[r] \in Keys /\ map[KeyOf[r]] = Nobody
    BY <1>1, Shorter, AssumedKeys DEF StartLoad, Replied
<1>3. load[r] = "none"
    BY <1>2 DEF Base, Loads, LoadOrder
<1>4. /\ joined' = [joined EXCEPT ![r] = r]
      /\ joined' \in [Readers -> Readers \cup {Nobody}]
      /\ map' = IF KeyOf[r] \in Uncoalesced THEN map ELSE [map EXCEPT ![KeyOf[r]] = r]
      /\ map' \in [Keys -> Readers \cup {Nobody}]
    BY <1>1 DEF StartLoad, Load, Await, TypeOK
<1>5. /\ wire' \in Seq(Commands) /\ replies' \in Seq(Replies)
      /\ since' \in [Readers -> Values] /\ warm' \subseteq Readers /\ floor' = floor
    <2>1. CASE r \in Related
        <3>1. Helper[r] \in Readers /\ SendGet(Helper[r], Tail(replies)) /\ Note(Helper[r])
            BY <2>1, AssumedKeys DEF StartLoad, Load
        <3> QED
            BY <1>1, <1>2, <3>1, SendGetTypes, NoteTypes
    <2>2. CASE r \notin Related
        BY <1>1, <1>2, <2>2 DEF StartLoad, Load, histVars, Types, TypeOK
    <2> QED
        BY <2>1, <2>2
<1>6. /\ load' \in [Readers -> {"none", "detail", "querying", "answering", "stored", "failed"}]
      /\ pc' \in [Readers -> {"idle", "reading", "waiting", "done"}]
      /\ \A q \in Readers : load'[q] = IF q # r THEN load[q] ELSE IF r \in Related THEN "detail" ELSE "querying"
      /\ \A q \in Readers : pc'[q] = IF r \in Related /\ q = Helper[r] THEN "reading"
                                     ELSE IF q = r THEN "waiting" ELSE pc[q]
    <2>1. CASE r \in Related
        <3>1. Helper[r] \in Readers /\ Helper[r] # r
            BY <2>1, AssumedKeys
        <3>2. /\ load' = [load EXCEPT ![r] = "detail"]
              /\ pc' = [pc EXCEPT ![r] = "waiting", ![Helper[r]] = "reading"]
            BY <2>1 DEF StartLoad, Load
        <3> QED
            BY <1>1, <2>1, <3>1, <3>2 DEF TypeOK
    <2>2. CASE r \notin Related
        <3>1. /\ load' = [load EXCEPT ![r] = "querying"]
              /\ pc' = [pc EXCEPT ![r] = "waiting"]
            BY <2>2 DEF StartLoad, Load
        <3> QED
            BY <1>1, <2>2, <3>1 DEF TypeOK
    <2> QED
        BY <2>1, <2>2
<1>7. UNCHANGED <<version, queried, cache, redisUp, faults, listVars, answer>>
    BY DEF StartLoad, Load, Await
<1>8. TypeOK'
    BY <1>1, <1>4, <1>5, <1>6, <1>7 DEF TypeOK, listVars
<1>9. Types'
    BY <1>1, <1>5, <1>6, <1>7, <1>8 DEF Types
<1>10. \A q \in Readers : InFlight(q)' <=> InFlight(q) \/ q = r
    BY <1>6 DEF InFlight
<1>11. MapIsLoad'
    <2> SUFFICES ASSUME NEW q \in Readers, KeyOf[q] \notin Uncoalesced
                 PROVE  InFlight(q)' <=> map'[KeyOf[q]] = q
        BY DEF MapIsLoad
    <2>1. InFlight(q) <=> map[KeyOf[q]] = q
        BY DEF Base, Loads, MapIsLoad
    <2>2. CASE KeyOf[q] = KeyOf[r]
        BY <1>1, <1>2, <1>4, <1>10, <2>1, <2>2, AssumedKeys DEF TypeOK
    <2>3. CASE KeyOf[q] # KeyOf[r]
        <3>1. map'[KeyOf[q]] = map[KeyOf[q]]
            BY <1>1, <1>4, <2>3, AssumedKeys DEF TypeOK
        <3> QED
            BY <1>10, <2>1, <2>3, <3>1
    <2> QED
        BY <2>2, <2>3
<1>12. LoadOrder'
    <2>1. ASSUME NEW q \in Readers, load'[q] # "none" PROVE pc'[q] \in {"waiting", "done"}
        <3>1. CASE q = r
            BY <1>6, <3>1, AssumedKeys
        <3>2. CASE q # r
            <4>1. load[q] # "none" /\ pc[q] \in {"waiting", "done"}
                BY <1>6, <2>1, <3>2 DEF Base, Loads, LoadOrder
            <4>2. r \in Related => pc[Helper[r]] = "idle"
                BY <1>3 DEF Base, Loads, LoadOrder
            <4> QED
                BY <1>6, <3>2, <4>1, <4>2
        <3> QED
            BY <3>1, <3>2
    <2>2. ASSUME NEW q \in Related, load'[q] = "none" PROVE pc'[Helper[q]] = "idle"
        <3>1. /\ q \in Readers /\ Helper[q] \in Readers /\ q # r /\ load[q] = "none"
              /\ pc[Helper[q]] = "idle" /\ Helper[q] # r
            BY <1>2, <1>6, <2>2, AssumedKeys DEF Base, Loads, LoadOrder
        <3>2. r \in Related => Helper[q] # Helper[r]
            BY <3>1, AssumedKeys
        <3> QED
            BY <1>6, <3>1, <3>2
    <2>3. \A q \in Readers : load'[q] = "detail" => q \in Related
        BY <1>6 DEF Base, Loads, LoadOrder
    <2> QED
        BY <2>1, <2>2, <2>3 DEF LoadOrder
<1>13. KeysAgree'
    <2>1. \A k \in Keys : map'[k] # Nobody => KeyOf[map'[k]] = k
        BY <1>1, <1>4 DEF Base, Loads, KeysAgree, TypeOK
    <2>2. \A q \in Readers : joined'[q] # Nobody => KeyOf[joined'[q]] = KeyOf[q]
        BY <1>1, <1>4 DEF Base, Loads, KeysAgree, TypeOK
    <2> QED
        BY <2>1, <2>2 DEF KeysAgree
<1>14. NoQuery'
    BY <1>6, AssumedKeys DEF Base, Loads, NoQuery
<1> QED
    BY <1>9, <1>11, <1>12, <1>13, <1>14 DEF Base, Loads

LEMMA DetailFoundBase == ASSUME Base, NEW r \in Readers, DetailFound(r) PROVE Base'
<1>1. \A q \in Readers : /\ load'[q] = IF q = r THEN "querying" ELSE load[q]
                         /\ InFlight(q)' <=> InFlight(q)
    BY DEF Base, Types, TypeOK, DetailFound, InFlight
<1>2. /\ UNCHANGED <<version, pc, joined, answer, queried, map, cache, wire, replies>>
      /\ UNCHANGED <<redisUp, faults, floor, since, warm, collected, dropped>>
      /\ load[r] = "detail" /\ r \notin Unembedded
      /\ load' = [load EXCEPT ![r] = "querying"]
    BY DEF DetailFound, readerVars, connVars, histVars, listVars
<1>3. TypeOK'
    BY <1>2 DEF Base, Types, TypeOK
<1>4. Types'
    BY <1>1, <1>2, <1>3 DEF Base, Types
<1>5. MapIsLoad'
    BY <1>1, <1>2 DEF Base, Loads, MapIsLoad
<1>6. LoadOrder' /\ KeysAgree' /\ NoQuery'
    BY <1>1, <1>2, AssumedKeys DEF Base, Loads, LoadOrder, KeysAgree, NoQuery
<1> QED
    BY <1>4, <1>5, <1>6 DEF Base, Loads

LEMMA QueryRunsBase == ASSUME Base, NEW r \in Readers, QueryRuns(r) PROVE Base'
<1>1. \A q \in Readers : /\ load'[q] = IF q = r THEN "answering" ELSE load[q]
                         /\ queried'[q] = IF q = r THEN version ELSE queried[q]
                         /\ InFlight(q)' <=> InFlight(q)
    BY DEF Base, Types, TypeOK, QueryRuns, InFlight
<1>2. /\ UNCHANGED <<version, pc, joined, answer, map, cache, wire, replies>>
      /\ UNCHANGED <<redisUp, faults, floor, since, warm, collected, dropped>>
      /\ load[r] = "querying" /\ r \notin Unembedded
      /\ load' = [load EXCEPT ![r] = "answering"]
      /\ queried' = [queried EXCEPT ![r] = version]
    BY DEF QueryRuns, readerVars, connVars, histVars, listVars, Base, Loads, NoQuery
<1>3. version \in Values /\ version \in 0..MaxVersion
    BY DEF Base, Types, TypeOK, Values
<1>4. queried' \in [Readers -> Values]
    BY <1>2, <1>3 DEF Base, Types, TypeOK
<1>5. TypeOK'
    BY <1>2, <1>4 DEF Base, Types, TypeOK
<1>6. Types'
    BY <1>1, <1>2, <1>3, <1>5, MaxVersionNat DEF Base, Types
<1>7. MapIsLoad'
    BY <1>1, <1>2 DEF Base, Loads, MapIsLoad
<1>8. LoadOrder' /\ KeysAgree' /\ NoQuery'
    BY <1>1, <1>2, AssumedKeys DEF Base, Loads, LoadOrder, KeysAgree, NoQuery
<1> QED
    BY <1>6, <1>7, <1>8 DEF Base, Loads

\* The value a load of r that has its result writes.
LEMMA QueriedValue ==
    ASSUME Base, NEW r \in Readers, load[r] = "answering"
    PROVE  queried[r] \in 0..version /\ queried[r] \in 0..MaxVersion /\ queried[r] \in Answers
<1>1. queried[r] \in 0..version /\ version \in 0..MaxVersion
    BY DEF Base, Types, TypeOK
<1> QED
    BY <1>1, MaxVersionNat DEF Answers, Values

LEMMA ZeroIsValue == 0 \in 0..MaxVersion /\ 0 \in Answers /\ Missing \in Answers /\ Error \in Answers
BY MaxVersionNat DEF Answers, Values

LEMMA DetailWithoutEmbeddingBase ==
    ASSUME Base, NEW r \in Readers, DetailWithoutEmbedding(r) PROVE Base'
<1>1. wire' \in Seq(Commands)
    BY SendAwayTypes, SetIsCommand, ZeroIsValue DEF Base, DetailWithoutEmbedding
<1> QED
    BY <1>1, SettleBase, ZeroIsValue DEF DetailWithoutEmbedding, InFlight, Base, Types, TypeOK

LEMMA DetailThrewBase == ASSUME Base, NEW r \in Readers, DetailThrew(r) PROVE Base'
<1>1. r \in Related /\ Helper[r] \in Readers
    <2>1. load[r] = "detail"
        BY DEF DetailThrew
    <2> QED
        BY <2>1, AssumedKeys DEF Base, Loads, LoadOrder
<1> QED
    BY <1>1, SettleBase DEF DetailThrew, InFlight, Base, Types, TypeOK, connVars, Answers

LEMMA QueryReturnsBase == ASSUME Base, NEW r \in Readers, QueryReturns(r) PROVE Base'
<1>1. wire' \in Seq(Commands) /\ queried[r] \in Answers
    BY SendAwayTypes, SetIsCommand, QueriedValue DEF Base, QueryReturns
<1> QED
    BY <1>1, SettleBase DEF QueryReturns, InFlight, Base, Types, TypeOK

LEMMA QueryFindsNoRowBase == ASSUME Base, NEW r \in Readers, QueryFindsNoRow(r) PROVE Base'
BY SettleBase, ZeroIsValue DEF QueryFindsNoRow, InFlight, Base, Types, TypeOK, connVars

LEMMA CountTypes ==
    ASSUME TypeOK, NEW kind \in Kinds, NEW max, Count(kind, max)
    PROVE  /\ faults' \in [Kinds -> Nat] /\ faults'[kind] # 0
           /\ \A f \in Kinds : f # kind => faults'[f] = faults[f]
<1>1. faults[kind] \in Nat /\ faults' = [faults EXCEPT ![kind] = faults[kind] + 1]
    BY DEF Count, TypeOK
<1>2. faults[kind] + 1 \in Nat /\ faults[kind] + 1 # 0
    BY <1>1
<1> QED
    BY <1>1, <1>2 DEF TypeOK

LEMMA QueryFailsBase == ASSUME Base, NEW r \in Readers, QueryFails(r) PROVE Base'
<1>1. faults' \in [Kinds -> Nat]
    BY CountTypes DEF QueryFails, Kinds, Base, Types
<1> QED
    BY <1>1, SettleBase, ZeroIsValue DEF QueryFails, InFlight, Base, Types, TypeOK, connVars

-----------------------------------------------------------------------------
(* Types and loads: around the readers *)

\* The readers and their loads stay as they are.
LEMMA AroundBase ==
    ASSUME Base, UNCHANGED <<pc, joined, load, queried, map>>, Types'
    PROVE  Base'
<1>1. MapIsLoad' /\ NoQuery'
    BY DEF Base, Loads, MapIsLoad, NoQuery, InFlight
<1>2. LoadOrder' /\ KeysAgree'
    BY DEF Base, Loads, LoadOrder, KeysAgree
<1> QED
    BY <1>1, <1>2 DEF Base, Loads

\* What is executed: the head of the wire, and the wire is shorter after it.
LEMMA HeadTypes ==
    ASSUME Types, wire # <<>>
    PROVE  /\ Head(wire) = wire[1] /\ wire[1] \in Commands
           /\ 1 \in 1..Len(wire) /\ Tail(wire) \in Seq(Commands)
           /\ wire[1].key \in Keys /\ wire[1].val \in Values
           /\ wire[1].op # "get" => wire[1].val \in 0..MaxVersion
           /\ wire[1].op = "get" => wire[1].by \in Readers /\ wire[1].key = KeyOf[wire[1].by]
<1>1. /\ Head(wire) = wire[1] /\ wire[1] \in Commands
      /\ 1 \in 1..Len(wire) /\ Tail(wire) \in Seq(Commands)
    BY Shorter DEF Types
<1> QED
    BY <1>1 DEF Commands

LEMMA ExecuteBase == ASSUME Base, Execute PROVE Base'
<1>1. TypeOK /\ Types /\ wire # <<>>
    BY DEF Base, Types, Execute
<1>2. /\ UNCHANGED <<version, pc, joined, answer, load, queried, map>>
      /\ UNCHANGED <<redisUp, faults, floor, since, warm, collected>>
      /\ wire' = Tail(wire)
    BY DEF Execute, readerVars, loadVars, histVars
<1>3. cache' \in [Keys -> Values] /\ dropped' \in 0..MaxVersion /\ replies' \in Seq(Replies)
    <2>1. CASE /\ wire[1].op = "get"
               /\ replies' = Append(replies, [to |-> wire[1].by, val |-> cache[wire[1].key]])
               /\ UNCHANGED <<cache, dropped>>
        <3>1. [to |-> wire[1].by, val |-> cache[wire[1].key]] \in Replies
            BY <1>1, <2>1, HeadTypes DEF Replies, TypeOK
        <3> QED
            BY <1>1, <2>1, <3>1, Longer DEF Types, TypeOK
    <2>2. CASE /\ wire[1].op = "set"
               /\ cache' = [cache EXCEPT ![wire[1].key] = wire[1].val]
               /\ UNCHANGED <<replies, dropped>>
        BY <1>1, <2>2, HeadTypes DEF Types, TypeOK
    <2>3. CASE /\ wire[1].op = "del"
               /\ cache' = [cache EXCEPT ![wire[1].key] = NoValue]
               /\ dropped' = wire[1].val
               /\ UNCHANGED replies
        BY <1>1, <2>3, HeadTypes, MaxVersionNat DEF Types, TypeOK
    <2> QED
        BY <1>1, <2>1, <2>2, <2>3, HeadTypes DEF Execute
<1>4. TypeOK'
    BY <1>1, <1>2, <1>3 DEF TypeOK
<1>5. Types'
    BY <1>1, <1>2, <1>3, <1>4, HeadTypes DEF Types
<1> QED
    BY <1>2, <1>5, AroundBase

LEMMA TableChangesBase == ASSUME Base, TableChanges PROVE Base'
<1>1. /\ UNCHANGED <<pc, joined, answer, load, queried, map, cache, wire, replies>>
      /\ UNCHANGED <<redisUp, faults, floor, since, warm, collected, dropped>>
      /\ version' = version + 1 /\ version < MaxVersion
    BY DEF TableChanges, readerVars, loadVars, connVars, histVars, listVars
<1>2. version' \in 0..MaxVersion
    BY <1>1, MaxVersionNat DEF Base, Types, TypeOK
<1>3. TypeOK'
    BY <1>1, <1>2 DEF Base, Types, TypeOK
<1>4. \A r \in Readers : load'[r] = "answering" => queried'[r] \in 0..version'
    BY <1>1, MaxVersionNat DEF Base, Types, TypeOK
<1>5. Types'
    BY <1>1, <1>3, <1>4 DEF Base, Types
<1> QED
    BY <1>1, <1>5, AroundBase

LEMMA OnCompletedBase == ASSUME Base, NEW k \in Keys, OnCompleted(k) PROVE Base'
<1>1. /\ UNCHANGED <<version, pc, joined, answer, load, queried, map, cache, replies>>
      /\ UNCHANGED <<redisUp, faults, floor, since, warm, dropped>>
      /\ collected' = version /\ k \in Uncoalesced /\ SendAway(Del(k, version))
    BY DEF OnCompleted, readerVars, loadVars, histVars
<1>2. wire' \in Seq(Commands)
    BY <1>1, SendAwayTypes, DelIsCommand DEF Base, Types, TypeOK
<1>3. TypeOK'
    BY <1>1 DEF Base, Types, TypeOK
<1>4. Types'
    BY <1>1, <1>2, <1>3 DEF Base, Types
<1> QED
    BY <1>1, <1>4, AroundBase

LEMMA CacheLostBase == ASSUME Base, NEW k \in Keys, CacheLost(k) PROVE Base'
<1>1. /\ UNCHANGED <<version, pc, joined, answer, load, queried, map, wire, replies>>
      /\ UNCHANGED <<redisUp, floor, since, warm, collected, dropped>>
      /\ cache' = [cache EXCEPT ![k] = NoValue]
    BY DEF CacheLost, readerVars, loadVars, connVars, histVars, listVars
<1>2. faults' \in [Kinds -> Nat]
    BY CountTypes DEF CacheLost, Kinds, Base, Types
<1>3. TypeOK'
    BY <1>1, <1>2, MaxVersionNat DEF Base, Types, TypeOK
<1>4. Types'
    BY <1>1, <1>3 DEF Base, Types
<1> QED
    BY <1>1, <1>4, AroundBase

LEMMA RedisDownBase == ASSUME Base, RedisDown PROVE Base'
<1> DEFINE gets == {i \in DOMAIN wire : wire[i].op = "get"}
           kept(n) == [i \in DOMAIN replies |->
                        IF i <= n THEN replies[i] ELSE [replies[i] EXCEPT !.val = NoValue]]
           missed(order) == [i \in DOMAIN order |-> [to |-> wire[order[i]].by, val |-> NoValue]]
<1>1. /\ UNCHANGED <<version, pc, joined, answer, load, queried, map, cache>>
      /\ UNCHANGED <<floor, since, warm, collected, dropped>>
      /\ redisUp' = FALSE /\ wire' = <<>>
    BY DEF RedisDown, readerVars, loadVars, histVars, listVars
<1>2. faults' \in [Kinds -> Nat]
    BY CountTypes DEF RedisDown, Kinds, Base, Types
<1>3. PICK n \in 0..Len(replies), order \in InOrder(gets) : replies' = kept(n) \o missed(order)
    BY DEF RedisDown
<1>4. kept(n) \in Seq(Replies)
    <2>1. replies \in Seq(Replies) /\ DOMAIN replies = 1..Len(replies) /\ Len(replies) \in Nat
        BY DEF Base, Types
    <2>2. \A i \in DOMAIN replies : replies[i] \in Replies
        BY <2>1
    <2>3. \A i \in DOMAIN replies : [replies[i] EXCEPT !.val = NoValue] \in Replies
        BY <2>2, MaxVersionNat DEF Replies
    <2> QED
        BY <2>1, <2>2, <2>3
<1>5. missed(order) \in Seq(Replies)
    <2>1. DOMAIN wire = 1..Len(wire) /\ Len(wire) \in Nat /\ \A i \in DOMAIN wire : wire[i] \in Commands
        BY DEF Base, Types
    <2>2. IsFiniteSet(1..Len(wire)) /\ gets \subseteq 1..Len(wire)
        BY <2>1, FS_Interval
    <2>3. Cardinality(gets) \in Nat
        BY <2>2, FS_Subset, FS_CardinalityType
    <2>4. order \in [1..Cardinality(gets) -> gets] /\ DOMAIN order = 1..Cardinality(gets)
        BY DEF InOrder
    <2>5. \A i \in DOMAIN order : wire[order[i]].by \in Readers
        BY <2>1, <2>4 DEF Commands
    <2>6. \A i \in DOMAIN order : [to |-> wire[order[i]].by, val |-> NoValue] \in Replies
        BY <2>5, MaxVersionNat DEF Replies
    <2>7. missed(order) \in [1..Cardinality(gets) -> Replies]
        BY <2>4, <2>6
    <2> HIDE DEF missed
    <2> QED
        BY <2>3, <2>7, SeqDef
<1>6. replies' \in Seq(Replies)
    BY <1>3, <1>4, <1>5
<1>7. redisUp' \in BOOLEAN
    BY <1>1
<1>8. TypeOK'
    BY <1>1, <1>2, <1>7 DEF Base, Types, TypeOK
<1>9. Types'
    <2>1. wire' \in Seq(Commands)
        BY <1>1
    <2> QED
        BY <1>1, <1>6, <1>8, <2>1 DEF Base, Types
<1> QED
    BY <1>1, <1>9, AroundBase

LEMMA RedisBackBase == ASSUME Base, RedisBack PROVE Base'
<1>1. /\ UNCHANGED <<version, pc, joined, answer, load, queried, map, wire, replies>>
      /\ UNCHANGED <<faults, floor, since, warm, collected, dropped>>
      /\ redisUp' = TRUE
    BY DEF RedisBack, readerVars, loadVars, connVars, histVars, listVars
<1>2. redisUp' \in BOOLEAN
    BY <1>1
<1>3. cache' \in [Keys -> Values]
    BY MaxVersionNat DEF RedisBack, Base, Types, TypeOK
<1>4. TypeOK'
    BY <1>1, <1>2, <1>3 DEF Base, Types, TypeOK
<1>5. Types'
    BY <1>1, <1>4 DEF Base, Types
<1> QED
    BY <1>1, <1>5, AroundBase

LEMMA StutterBase == ASSUME Base, UNCHANGED vars PROVE Base'
<1>1. /\ UNCHANGED <<version, pc, joined, answer, load, queried, map, cache, wire, replies>>
      /\ UNCHANGED <<redisUp, faults, floor, since, warm, collected, dropped>>
    BY DEF vars, readerVars, loadVars, connVars, histVars, listVars
<1>2. Types'
    BY <1>1 DEF Base, Types, TypeOK
<1> QED
    BY <1>1, <1>2, AroundBase

-----------------------------------------------------------------------------
(* One command and one reply of a key: what the wire, the replies, the cache *)
(* and the newest answer keep, step by step.                                 *)

LEMMA ValuesInt == \A v \in Values : v \in Int /\ NoValue <= v
BY MaxVersionNat DEF Values, NoValue

LEMMA ReplyTypes ==
    ASSUME NEW p \in Seq(Replies), NEW i \in 1..Len(p)
    PROVE  p[i] \in Replies /\ p[i].to \in Readers /\ p[i].val \in Int /\ NoValue <= p[i].val
<1>1. p[i] \in Replies
    OBVIOUS
<1> QED
    BY <1>1, ValuesInt DEF Replies

\* From one wire, replies, cached value and newest answer to the next, but for the reader q.
Keeps(k, q, w, p, c, f, w2, p2, c2, f2, a) ==
    /\ KeyInOrder(w2, p2, c2, f2, k)
    /\ \A v \in Int : a <= v /\ AtMost(w, p, c, f, k, v) => AtMost(w2, p2, c2, f2, k, v)
    /\ \A r \in Readers \ {q}, s \in Int :
         KeyOf[r] = k /\ Serves(w, p, c, k, r, s) => Serves(w2, p2, c2, k, r, s)

\* A command is executed.
LEMMA LeftKey ==
    ASSUME NEW w \in Seq(Commands), w # <<>>, NEW p \in Seq(Replies), NEW c \in Values, NEW f \in Values,
           NEW k, NEW q, KeyInOrder(w, p, c, f, k)
    PROVE  Keeps(k, q, w, p, c, f, Tail(w), p, After(w, c, k), f, NoValue)
<1> DEFINE t == Tail(w)
           d == After(w, c, k)
<1>1. /\ Len(w) \in Nat \ {0} /\ Len(t) = Len(w) - 1
      /\ \A i \in 1..Len(t) : i + 1 \in 2..Len(w) /\ t[i] = w[i + 1]
    BY Shorter
<1>2. 1 \in 1..Len(w) /\ Len(w) \in 1..Len(w)
    BY <1>1
<1>3. c \in Int /\ f \in Int
    BY ValuesInt
<1>4. Rising(t, d, k)
    BY RisingLeft DEF KeyInOrder
<1>5. Covers(t, Len(t), d, k, f)
    BY <1>1, <1>2, <1>3, CoversLeft DEF KeyInOrder
<1>6. \A r \in Readers, s \in Int : KeyOf[r] = k /\ Serves(w, p, c, k, r, s) => Serves(t, p, d, k, r, s)
    <2> SUFFICES ASSUME NEW r \in Readers, NEW s \in Int, Serves(w, p, c, k, r, s),
                        NEW i \in 1..Len(t), Asks(t, i, r)
                 PROVE  Covers(t, i - 1, d, k, s)
        BY DEF Serves
    <2>1. i + 1 \in 1..Len(w) /\ i \in 1..Len(w) /\ Asks(w, i + 1, r)
        BY <1>1 DEF Asks
    <2>2. Covers(w, (i + 1) - 1, c, k, s) /\ (i + 1) - 1 = i
        BY <2>1 DEF Serves
    <2> QED
        BY <2>1, <2>2, CoversLeft DEF KeyInOrder
<1> HIDE DEF t
<1>7. \A i \in 1..Len(t) : Writes(t, i, k) => i + 1 \in 1..Len(w) /\ Writes(w, i + 1, k) /\ t[i].val = w[i + 1].val
    BY <1>1 DEF Writes
<1>8. Behind(t, p, d, k)
    BY <1>2, <1>7 DEF Behind, After, KeyInOrder
<1>9. \A v \in Int : AtMost(w, p, c, f, k, v) => AtMost(t, p, d, f, k, v)
    BY <1>2, <1>7 DEF AtMost, After
<1> QED
    BY <1>4, <1>5, <1>6, <1>8, <1>9 DEF Keeps, KeyInOrder, t

\* The GET at the head of the wire is answered.
LEMMA ReplyKey ==
    ASSUME NEW w \in Seq(Commands), w # <<>>, NEW p \in Seq(Replies), NEW c \in Values, NEW f \in Values,
           NEW k, NEW q, KeyInOrder(w, p, c, f, k),
           NEW x \in Replies, Asks(w, 1, x.to), KeyOf[x.to] = k => x.val = c
    PROVE  Keeps(k, q, w, p, c, f, w, Append(p, x), c, f, NoValue)
<1> DEFINE t == Append(p, x)
<1>1. /\ Len(p) \in Nat /\ Len(t) = Len(p) + 1
      /\ \A i \in 1..Len(p) : t[i] = p[i]
      /\ t[Len(p) + 1] = x
    BY Longer
<1> HIDE DEF t
<1>2. \A i \in 1..Len(t) : (i \in 1..Len(p) /\ t[i] = p[i]) \/ t[i] = x
    BY <1>1
<1>3. c \in Int /\ 1 \in 1..Len(w)
    BY ValuesInt, Shorter
<1>4. Behind(w, t, c, k)
    BY <1>2, <1>3 DEF Behind, KeyInOrder, Rising
<1>5. \A v \in Int : AtMost(w, p, c, f, k, v) => AtMost(w, t, c, f, k, v)
    BY <1>2 DEF AtMost
<1>6. \A r \in Readers, s \in Int : KeyOf[r] = k /\ Serves(w, p, c, k, r, s) => Serves(w, t, c, k, r, s)
    <2> SUFFICES ASSUME NEW r \in Readers, NEW s \in Int, KeyOf[r] = k, Serves(w, p, c, k, r, s),
                        NEW i \in 1..Len(t), t[i].to = r
                 PROVE  t[i].val = NoValue \/ s <= t[i].val
        BY DEF Serves
    <2>1. CASE i \in 1..Len(p) /\ t[i] = p[i]
        BY <2>1 DEF Serves
    <2>2. CASE t[i] = x
        <3>1. Covers(w, 1 - 1, c, k, s)
            BY <1>3, <2>2 DEF Serves
        <3> QED
            BY <2>2, <3>1 DEF Covers
    <2> QED
        BY <1>2, <2>1, <2>2
<1> QED
    BY <1>4, <1>5, <1>6 DEF Keeps, KeyInOrder, t

LEMMA CoversLess ==
    ASSUME NEW w \in Seq(Commands), NEW n \in 0..Len(w), NEW c \in Values, NEW k, NEW f \in Int, NEW s \in Int,
           s <= f, Covers(w, n, c, k, f)
    PROVE  Covers(w, n, c, k, s)
<1>1. c \in Int /\ \A i \in 1..n : w[i].val \in Int
    <2>1. \A i \in 1..n : i \in 1..Len(w)
        OBVIOUS
    <2> QED
        BY <2>1, ValuesInt, CommandTypes
<1> QED
    BY <1>1 DEF Covers

\* A command that writes another key is sent.
LEMMA SentKey ==
    ASSUME NEW w \in Seq(Commands), NEW p \in Seq(Replies), NEW c \in Values, NEW f \in Values,
           NEW k, KeyInOrder(w, p, c, f, k),
           NEW x \in Commands, ~(x.op = "set" /\ x.key = k)
    PROVE  /\ KeyInOrder(Append(w, x), p, c, f, k)
           /\ \A v \in Int : AtMost(w, p, c, f, k, v) => AtMost(Append(w, x), p, c, f, k, v)
           /\ \A r \in Readers, s \in Int :
                (x.op = "get" /\ x.by = r => s <= f) /\ Serves(w, p, c, k, r, s)
                  => Serves(Append(w, x), p, c, k, r, s)
<1> DEFINE t == Append(w, x)
<1>1. /\ Len(w) \in Nat /\ Len(t) = Len(w) + 1
      /\ \A i \in 1..Len(w) : t[i] = w[i]
      /\ t[Len(w) + 1] = x
    BY Longer
<1> HIDE DEF t
<1>2. \A i \in 1..Len(t) : \/ i \in 1..Len(w) /\ t[i] = w[i]
                           \/ i = Len(w) + 1 /\ t[i] = x
    BY <1>1
<1>3. Rising(t, c, k) /\ Covers(t, Len(t), c, k, f)
    BY RisingJoined, CoversMore DEF KeyInOrder, t
<1>4. \A r \in Readers, s \in Int :
        (x.op = "get" /\ x.by = r => s <= f) /\ Serves(w, p, c, k, r, s) => Serves(t, p, c, k, r, s)
    <2> SUFFICES ASSUME NEW r \in Readers, NEW s \in Int, Serves(w, p, c, k, r, s),
                        x.op = "get" /\ x.by = r => s <= f,
                        NEW i \in 1..Len(t), Asks(t, i, r)
                 PROVE  Covers(t, i - 1, c, k, s)
        BY DEF Serves
    <2>1. CASE i \in 1..Len(w) /\ t[i] = w[i]
        <3>1. Covers(w, i - 1, c, k, s) /\ i - 1 \in 0..Len(w)
            BY <1>1, <2>1 DEF Serves, Asks
        <3> QED
            BY <3>1, CoversJoined DEF t
    <2>2. CASE i = Len(w) + 1 /\ t[i] = x
        <3>1. s <= f /\ i - 1 = Len(w) /\ Len(w) \in 0..Len(w) /\ f \in Int
            BY <1>1, <2>2, ValuesInt DEF Asks
        <3>2. Covers(w, Len(w), c, k, s)
            BY <3>1, CoversLess DEF KeyInOrder
        <3>3. Covers(t, Len(w), c, k, s)
            BY <3>1, <3>2, CoversJoined DEF t
        <3> QED
            BY <3>1, <3>3
    <2> QED
        BY <1>2, <2>1, <2>2
<1>5. \A i \in 1..Len(t) : Writes(t, i, k) => i \in 1..Len(w) /\ Writes(w, i, k) /\ t[i].val = w[i].val
    BY <1>2 DEF Writes
<1>6. Behind(t, p, c, k)
    BY <1>5 DEF Behind, KeyInOrder
<1>7. \A v \in Int : AtMost(w, p, c, f, k, v) => AtMost(t, p, c, f, k, v)
    BY <1>5 DEF AtMost
<1> QED
    BY <1>3, <1>4, <1>6, <1>7 DEF KeyInOrder, t

\* The newest value of the key is sent to be written, and may be answered.
LEMMA WrittenKey ==
    ASSUME NEW w \in Seq(Commands), NEW p \in Seq(Replies), NEW c \in Values, NEW f \in Values,
           NEW k, NEW q, KeyInOrder(w, p, c, f, k),
           NEW x \in Commands, x.op = "set", x.key = k, AtMost(w, p, c, f, k, x.val),
           NEW g \in {f, x.val}
    PROVE  Keeps(k, q, w, p, c, f, Append(w, x), p, c, g, x.val)
<1> DEFINE t == Append(w, x)
<1>1. /\ Len(w) \in Nat /\ Len(t) = Len(w) + 1
      /\ \A i \in 1..Len(w) : t[i] = w[i]
      /\ t[Len(w) + 1] = x
    BY Longer
<1> HIDE DEF t
<1>2. \A i \in 1..Len(t) : \/ i \in 1..Len(w) /\ t[i] = w[i]
                           \/ i = Len(w) + 1 /\ t[i] = x
    BY <1>1
<1>3. x.val \in Int /\ f \in Int /\ c \in Int /\ g <= x.val
    BY ValuesInt DEF Commands, AtMost
<1>4. Rising(t, c, k) /\ Covers(t, Len(t), c, k, g)
    BY <1>3, RisingJoined, CoversNew DEF KeyInOrder, AtMost, t
<1>5. \A r \in Readers, s \in Int : KeyOf[r] = k /\ Serves(w, p, c, k, r, s) => Serves(t, p, c, k, r, s)
    <2> SUFFICES ASSUME NEW r \in Readers, NEW s \in Int, Serves(w, p, c, k, r, s),
                        NEW i \in 1..Len(t), Asks(t, i, r)
                 PROVE  Covers(t, i - 1, c, k, s)
        BY DEF Serves
    <2>1. i \in 1..Len(w) /\ t[i] = w[i]
        BY <1>2 DEF Asks
    <2>2. Covers(w, i - 1, c, k, s) /\ i - 1 \in 0..Len(w)
        BY <1>1, <2>1 DEF Serves, Asks
    <2> QED
        BY <2>2, CoversJoined DEF t
<1>6. \A i \in 1..Len(t) : Writes(t, i, k) =>
        \/ i \in 1..Len(w) /\ Writes(w, i, k) /\ t[i].val = w[i].val
        \/ t[i].val = x.val
    BY <1>2 DEF Writes
<1>7. Behind(t, p, c, k)
    BY <1>6 DEF Behind, KeyInOrder, AtMost
<1>8. \A v \in Int : x.val <= v /\ AtMost(w, p, c, f, k, v) => AtMost(t, p, c, g, k, v)
    BY <1>3, <1>6 DEF AtMost
<1> QED
    BY <1>4, <1>5, <1>7, <1>8 DEF Keeps, KeyInOrder, t

\* The reply at the head is taken.
LEMMA TakenKey ==
    ASSUME NEW w \in Seq(Commands), NEW p \in Seq(Replies), p # <<>>, NEW c \in Values, NEW f \in Values,
           NEW k, NEW q, KeyInOrder(w, p, c, f, k)
    PROVE  Keeps(k, q, w, p, c, f, w, Tail(p), c, f, NoValue)
<1> DEFINE t == Tail(p)
<1>1. \A i \in 1..Len(t) : i + 1 \in 1..Len(p) /\ t[i] = p[i + 1]
    BY Shorter
<1> HIDE DEF t
<1>2. Behind(w, t, c, k)
    BY <1>1 DEF Behind, KeyInOrder
<1>3. \A v \in Int : AtMost(w, p, c, f, k, v) => AtMost(w, t, c, f, k, v)
    BY <1>1 DEF AtMost
<1>4. \A r \in Readers, s \in Int : Serves(w, p, c, k, r, s) => Serves(w, t, c, k, r, s)
    BY <1>1 DEF Serves
<1> QED
    BY <1>2, <1>3, <1>4 DEF Keeps, KeyInOrder, t

\* A value read from the cache is answered.
LEMMA AnsweredKey ==
    ASSUME NEW w \in Seq(Commands), NEW p \in Seq(Replies), NEW c \in Values, NEW f \in Values,
           NEW k, NEW q, KeyInOrder(w, p, c, f, k), NEW i \in 1..Len(p), KeyOf[p[i].to] = k,
           NEW g \in {f, p[i].val}
    PROVE  Keeps(k, q, w, p, c, f, w, p, c, g, NoValue)
<1>1. Covers(w, Len(w), c, k, p[i].val)
    <2>1. CASE \E j \in 1..Len(w) : Writes(w, j, k)
        BY <2>1 DEF Covers, KeyInOrder, Behind
    <2>2. CASE \A j \in 1..Len(w) : ~Writes(w, j, k)
        BY <2>2 DEF Covers, KeyInOrder, Behind
    <2> QED
        BY <2>1, <2>2
<1>2. \A v \in Int : AtMost(w, p, c, f, k, v) => AtMost(w, p, c, g, k, v)
    BY DEF AtMost
<1> QED
    BY <1>1, <1>2 DEF Keeps, KeyInOrder

\* The cached value is lost.
LEMMA LostKey ==
    ASSUME NEW w \in Seq(Commands), NEW p \in Seq(Replies), NEW c \in Values, NEW f \in Values,
           NEW k, NEW q, KeyInOrder(w, p, c, f, k)
    PROVE  Keeps(k, q, w, p, c, f, w, p, NoValue, f, NoValue)
<1>1. Rising(w, NoValue, k)
    BY CommandTypes DEF KeyInOrder, Rising
<1>2. \A n, s : Covers(w, n, c, k, s) => Covers(w, n, NoValue, k, s)
    BY DEF Covers
<1>3. \A v \in Int : NoValue <= v /\ AtMost(w, p, c, f, k, v) => AtMost(w, p, NoValue, f, k, v)
    BY DEF AtMost
<1>4. \A r, s : Serves(w, p, c, k, r, s) => Serves(w, p, NoValue, k, r, s)
    BY <1>2 DEF Serves
<1> QED
    BY <1>1, <1>2, <1>3, <1>4 DEF Keeps, KeyInOrder, Behind

-----------------------------------------------------------------------------
(* One GET or reply of a reader *)

LEMMA OneMore ==
    ASSUME NEW w, NEW p, NEW R, NEW S, R \subseteq S, OneEach(w, p, R)
    PROVE  OneEach(w, p, S)
BY DEF OneEach

LEMMA OneLeft ==
    ASSUME NEW w \in Seq(Commands), w # <<>>, NEW p, NEW R, OneEach(w, p, R)
    PROVE  OneEach(Tail(w), p, R)
<1> DEFINE t == Tail(w)
<1>1. \A i \in 1..Len(t) : i + 1 \in 1..Len(w) /\ t[i] = w[i + 1]
    BY Shorter
<1> HIDE DEF t
<1>2. \A r : \A i \in 1..Len(t) : Asks(t, i, r) => i + 1 \in 1..Len(w) /\ Asks(w, i + 1, r)
    BY <1>1 DEF Asks
<1>3. \A i, j \in 1..Len(t) : i + 1 = j + 1 => i = j
    OBVIOUS
<1> QED
    BY <1>2, <1>3 DEF OneEach, t

LEMMA OneTaken ==
    ASSUME NEW w, NEW p \in Seq(Replies), p # <<>>, NEW R, OneEach(w, p, R)
    PROVE  OneEach(w, Tail(p), R \ {Head(p).to})
<1> DEFINE t == Tail(p)
           q == Head(p).to
<1>1. /\ \A i \in 1..Len(t) : i + 1 \in 2..Len(p) /\ t[i] = p[i + 1]
      /\ Head(p) = p[1] /\ Len(p) \in Nat \ {0}
    BY Shorter
<1>2. 1 \in 1..Len(p) /\ p[1].to = q /\ q \in Readers
    BY <1>1, ReplyTypes
<1> HIDE DEF t, q
<1>3. \A i \in 1..Len(t) : i + 1 \in 1..Len(p) /\ i + 1 # 1 /\ t[i] = p[i + 1]
    BY <1>1
<1>4. \A i \in 1..Len(t) : t[i].to # q
    BY <1>2, <1>3 DEF OneEach
<1>5. \A i \in 1..Len(w) : ~Asks(w, i, q)
    BY <1>2 DEF OneEach
<1>6. \A i, j \in 1..Len(t) : i + 1 = j + 1 => i = j
    OBVIOUS
<1>7. ASSUME NEW r \in Readers
      PROVE  /\ \A i \in 1..Len(w) : Asks(w, i, r) => r \in R \ {q}
             /\ \A i \in 1..Len(t) : t[i].to = r => r \in R \ {q}
    BY <1>3, <1>4, <1>5 DEF OneEach
<1>8. ASSUME NEW r \in Readers
      PROVE  \A i, j \in 1..Len(t) : t[i].to = r /\ t[j].to = r => i = j
    BY <1>3, <1>6 DEF OneEach
<1>9. OneEach(w, t, R \ {q})
    <2>1. ASSUME NEW r \in Readers
          PROVE  /\ \A i, j \in 1..Len(w) : Asks(w, i, r) /\ Asks(w, j, r) => i = j
                 /\ \A i \in 1..Len(w), j \in 1..Len(t) : ~(Asks(w, i, r) /\ t[j].to = r)
        <3>1. \A i, j \in 1..Len(w) : Asks(w, i, r) /\ Asks(w, j, r) => i = j
            BY DEF OneEach
        <3>2. \A i \in 1..Len(w), j \in 1..Len(p) : ~(Asks(w, i, r) /\ p[j].to = r)
            BY DEF OneEach
        <3> QED
            BY <1>3, <3>1, <3>2
    <2> QED
        BY <1>7, <1>8, <2>1 DEF OneEach
<1> QED
    BY <1>9 DEF t, q

LEMMA OneAsked ==
    ASSUME NEW w \in Seq(Commands), NEW p, NEW R, OneEach(w, p, R),
           NEW x \in Commands, x.op = "get" => x.by \notin R
    PROVE  OneEach(Append(w, x), p, R \cup {x.by})
<1> DEFINE t == Append(w, x)
<1>1. /\ Len(w) \in Nat /\ Len(t) = Len(w) + 1
      /\ \A i \in 1..Len(w) : t[i] = w[i]
      /\ t[Len(w) + 1] = x
    BY Longer
<1> HIDE DEF t
<1>2. \A i \in 1..Len(t) : \/ i \in 1..Len(w) /\ t[i] = w[i]
                           \/ i = Len(w) + 1 /\ t[i] = x
    BY <1>1
<1>3. \A r : \A i \in 1..Len(t) : Asks(t, i, r) =>
        \/ i \in 1..Len(w) /\ Asks(w, i, r)
        \/ i = Len(w) + 1 /\ x.op = "get" /\ x.by = r
    BY <1>2 DEF Asks
<1>4. x.op = "get" => x.by \in Readers
    BY DEF Commands
<1>5. x.op = "get" => /\ \A i \in 1..Len(w) : ~Asks(w, i, x.by)
                      /\ \A i \in 1..Len(p) : p[i].to # x.by
    BY <1>4 DEF OneEach
<1> QED
    BY <1>3, <1>5 DEF OneEach, t

\* The GET at the head becomes a reply.
LEMMA OneReplied ==
    ASSUME NEW w \in Seq(Commands), w # <<>>, NEW p \in Seq(Replies), NEW R, OneEach(w, p, R),
           NEW x \in Replies, Asks(w, 1, x.to)
    PROVE  OneEach(Tail(w), Append(p, x), R)
<1> DEFINE t == Tail(w)
           u == Append(p, x)
<1>1. /\ Len(p) \in Nat /\ Len(u) = Len(p) + 1
      /\ \A i \in 1..Len(p) : u[i] = p[i]
      /\ u[Len(p) + 1] = x
    BY Longer
<1>2. /\ \A i \in 1..Len(t) : i + 1 \in 2..Len(w) /\ t[i] = w[i + 1]
      /\ 1 \in 1..Len(w) /\ x.to \in Readers
    BY Shorter DEF Replies
<1> HIDE DEF t, u
<1>3. \A i \in 1..Len(u) : \/ i \in 1..Len(p) /\ u[i] = p[i]
                           \/ i = Len(p) + 1 /\ u[i] = x
    BY <1>1
<1>4. \A r : \A i \in 1..Len(t) : Asks(t, i, r) => i + 1 \in 1..Len(w) /\ i + 1 # 1 /\ Asks(w, i + 1, r)
    BY <1>2 DEF Asks
<1>5. \A i \in 1..Len(t) : ~Asks(t, i, x.to)
    BY <1>2, <1>4 DEF OneEach
<1>6. \A i \in 1..Len(p) : p[i].to # x.to
    BY <1>2 DEF OneEach
<1>7. \A i, j \in 1..Len(t) : i + 1 = j + 1 => i = j
    OBVIOUS
<1>8. ASSUME NEW r \in Readers
      PROVE  /\ \A i \in 1..Len(t) : Asks(t, i, r) => r \in R
             /\ \A i \in 1..Len(u) : u[i].to = r => r \in R
    BY <1>2, <1>3, <1>4 DEF OneEach
<1>9. ASSUME NEW r \in Readers
      PROVE  /\ \A i, j \in 1..Len(t) : Asks(t, i, r) /\ Asks(t, j, r) => i = j
             /\ \A i, j \in 1..Len(u) : u[i].to = r /\ u[j].to = r => i = j
    BY <1>3, <1>4, <1>6, <1>7 DEF OneEach
<1>10. ASSUME NEW r \in Readers
       PROVE  \A i \in 1..Len(t), j \in 1..Len(u) : ~(Asks(t, i, r) /\ u[j].to = r)
    BY <1>3, <1>4, <1>5 DEF OneEach
<1>11. OneEach(t, u, R)
    BY <1>8, <1>9, <1>10 DEF OneEach
<1> QED
    BY <1>11 DEF t, u

-----------------------------------------------------------------------------
(* What was stored *)

\* From one wire, replies and cached value to the next, but for the reader q.
KeepsFed(k, q, w, p, c, w2, p2, c2) ==
    /\ Holds(w, Len(w), c, k) => Holds(w2, Len(w2), c2, k)
    /\ \A r \in Readers \ {q} : KeyOf[r] = k /\ Fed(w, p, c, k, r) => Fed(w2, p2, c2, k, r)

LEMMA LeftFed ==
    ASSUME NEW w \in Seq(Commands), w # <<>>, NEW p, NEW c, NEW k, NEW q
    PROVE  KeepsFed(k, q, w, p, c, Tail(w), p, After(w, c, k))
<1> DEFINE t == Tail(w)
           d == After(w, c, k)
<1>1. /\ Len(w) \in Nat \ {0} /\ Len(t) = Len(w) - 1
      /\ \A i \in 1..Len(t) : i + 1 \in 2..Len(w) /\ t[i] = w[i + 1]
    BY Shorter
<1>2. Holds(w, Len(w), c, k) => Holds(t, Len(t), d, k)
    <2>1. Len(w) \in 1..Len(w)
        BY <1>1
    <2> QED
        BY <1>1, <2>1, HoldsLeft
<1>3. ASSUME NEW r, Fed(w, p, c, k, r), NEW i \in 1..Len(t), Asks(t, i, r)
      PROVE  Holds(t, i - 1, d, k)
    <2>1. i + 1 \in 1..Len(w) /\ i \in 1..Len(w) /\ Asks(w, i + 1, r)
        BY <1>1, <1>3 DEF Asks
    <2>2. Holds(w, (i + 1) - 1, c, k) /\ (i + 1) - 1 = i
        BY <1>3, <2>1 DEF Fed
    <2> QED
        BY <2>1, <2>2, HoldsLeft
<1> HIDE DEF t, d
<1>4. \A r \in Readers : KeyOf[r] = k /\ Fed(w, p, c, k, r) => Fed(t, p, d, k, r)
    BY <1>3 DEF Fed
<1> QED
    BY <1>2, <1>4 DEF KeepsFed, t, d

LEMMA ReplyFed ==
    ASSUME NEW w \in Seq(Commands), w # <<>>, NEW p \in Seq(Replies), NEW c, NEW k, NEW q,
           NEW x \in Replies, Asks(w, 1, x.to), KeyOf[x.to] = k => x.val = c
    PROVE  KeepsFed(k, q, w, p, c, w, Append(p, x), c)
<1> DEFINE t == Append(p, x)
<1>1. /\ Len(p) \in Nat /\ Len(t) = Len(p) + 1
      /\ \A i \in 1..Len(p) : t[i] = p[i]
      /\ t[Len(p) + 1] = x
    BY Longer
<1> HIDE DEF t
<1>2. \A i \in 1..Len(t) : \/ i \in 1..Len(p) /\ t[i] = p[i]
                           \/ t[i] = x
    BY <1>1
<1>3. 1 \in 1..Len(w)
    BY Shorter
<1>4. ASSUME NEW r \in Readers, KeyOf[r] = k, Fed(w, p, c, k, r), x.to = r PROVE c # NoValue
    <2>1. Holds(w, 1 - 1, c, k)
        BY <1>3, <1>4 DEF Fed
    <2> QED
        BY <2>1 DEF Holds
<1>5. \A r \in Readers : KeyOf[r] = k /\ Fed(w, p, c, k, r) => Fed(w, t, c, k, r)
    BY <1>2, <1>4 DEF Fed
<1> QED
    BY <1>5 DEF KeepsFed, t

LEMMA SentFed ==
    ASSUME NEW w \in Seq(Commands), NEW p, NEW c, NEW k, NEW x \in Commands
    PROVE  /\ Holds(w, Len(w), c, k) \/ (x.op = "set" /\ x.key = k)
                => Holds(Append(w, x), Len(Append(w, x)), c, k)
           /\ \A r \in Readers :
                (x.op = "get" /\ x.by = r => Holds(w, Len(w), c, k)) /\ Fed(w, p, c, k, r)
                  => Fed(Append(w, x), p, c, k, r)
<1> DEFINE t == Append(w, x)
<1>1. /\ Len(w) \in Nat /\ Len(t) = Len(w) + 1
      /\ \A i \in 1..Len(w) : t[i] = w[i]
      /\ t[Len(w) + 1] = x
    BY Longer
<1> HIDE DEF t
<1>2. \A i \in 1..Len(t) : \/ i \in 1..Len(w) /\ t[i] = w[i]
                           \/ i = Len(w) + 1 /\ t[i] = x
    BY <1>1
<1>3. ASSUME NEW r \in Readers, x.op = "get" /\ x.by = r => Holds(w, Len(w), c, k), Fed(w, p, c, k, r),
             NEW i \in 1..Len(t), Asks(t, i, r)
      PROVE  Holds(t, i - 1, c, k)
    <2>1. CASE i \in 1..Len(w) /\ t[i] = w[i]
        <3>1. Holds(w, i - 1, c, k) /\ i - 1 \in 0..Len(w)
            BY <1>1, <1>3, <2>1 DEF Fed, Asks
        <3> QED
            BY <3>1, HoldsJoined DEF t
    <2>2. CASE i = Len(w) + 1 /\ t[i] = x
        <3>1. Holds(w, Len(w), c, k) /\ i - 1 = Len(w) /\ Len(w) \in 0..Len(w)
            BY <1>1, <1>3, <2>2 DEF Asks
        <3>2. Holds(t, Len(w), c, k)
            BY <3>1, HoldsJoined DEF t
        <3> QED
            BY <3>1, <3>2
    <2> QED
        BY <1>2, <2>1, <2>2
<1>4. \A r \in Readers :
        (x.op = "get" /\ x.by = r => Holds(w, Len(w), c, k)) /\ Fed(w, p, c, k, r) => Fed(t, p, c, k, r)
    BY <1>3 DEF Fed
<1> QED
    BY <1>4, HoldsMore DEF t

LEMMA TakenFed ==
    ASSUME NEW w, NEW p \in Seq(Replies), p # <<>>, NEW c, NEW k, NEW q
    PROVE  KeepsFed(k, q, w, p, c, w, Tail(p), c)
<1> DEFINE t == Tail(p)
<1>1. \A i \in 1..Len(t) : i + 1 \in 1..Len(p) /\ t[i] = p[i + 1]
    BY Shorter
<1> HIDE DEF t
<1>2. \A r \in Readers : Fed(w, p, c, k, r) => Fed(w, t, c, k, r)
    BY <1>1 DEF Fed
<1> QED
    BY <1>2 DEF KeepsFed, t

-----------------------------------------------------------------------------
(* Values in order: one step *)

\* The operators speak of the next state as of this one.
LEMMA NextValues ==
    ASSUME NEW k, NEW r
    PROVE  /\ KeyInOrder(wire, replies, cache[k], floor[k], k)'
                <=> KeyInOrder(wire', replies', cache'[k], floor'[k], k)
           /\ Newest(k, version)' <=> AtMost(wire', replies', cache'[k], floor'[k], k, version')
           /\ Newest(k, queried[r])' <=> AtMost(wire', replies', cache'[k], floor'[k], k, queried'[r])
           /\ Newest(k, 0)' <=> AtMost(wire', replies', cache'[k], floor'[k], k, 0)
           /\ Serves(wire, replies, cache[k], k, r, since[r])'
                <=> Serves(wire', replies', cache'[k], k, r, since'[r])
<1>1. KeyInOrder(wire, replies, cache[k], floor[k], k)'
        <=> KeyInOrder(wire', replies', cache'[k], floor'[k], k)
    BY DEF KeyInOrder, Rising, Covers, Behind, Writes
<1>2. Newest(k, version)' <=> AtMost(wire', replies', cache'[k], floor'[k], k, version')
    BY DEF Newest, AtMost, Writes
<1>3. Newest(k, queried[r])' <=> AtMost(wire', replies', cache'[k], floor'[k], k, queried'[r])
    BY DEF Newest, AtMost, Writes
<1>4. Newest(k, 0)' <=> AtMost(wire', replies', cache'[k], floor'[k], k, 0)
    BY DEF Newest, AtMost, Writes
<1>5. Serves(wire, replies, cache[k], k, r, since[r])'
        <=> Serves(wire', replies', cache'[k], k, r, since'[r])
    BY DEF Serves, Covers, Writes, Asks
<1> QED
    BY <1>1, <1>2, <1>3, <1>4, <1>5

\* A step in which every key keeps what it has, but that the newest answer of the key
\* k0 may rise to a, and that the reader q is looked at apart.
StepKeeps(k0, q, a) ==
    \A k \in Coalesced : Keeps(k, q, wire, replies, cache[k], floor[k],
                               wire', replies', cache'[k], floor'[k], IF k = k0 THEN a ELSE NoValue)

LEMMA OrderStep ==
    ASSUME Base, ValuesInOrder, Base', NEW k0, NEW q, NEW a \in Int, NoValue <= a,
           StepKeeps(k0, q, a),
           version <= version', a <= version,
           \A r \in Readers : KeyOf[r] \in Coalesced /\ load'[r] = "answering" =>
               \/ load[r] = "answering" /\ queried'[r] = queried[r] /\ (KeyOf[r] = k0 => a <= queried[r])
               \/ queried'[r] = version,
           \A r \in Unembedded : KeyOf[r] = k0 => a <= 0,
           \A r \in Readers : KeyOf[r] \in Coalesced =>
               /\ since'[r] <= floor'[KeyOf[r]]
               /\ (since'[r] = since[r] /\ r # q) \/ Serves(wire', replies', cache'[KeyOf[r]], KeyOf[r], r, since'[r])
               /\ pc'[r] = "done" /\ answer'[r] >= 0 => answer'[r] >= since'[r]
    PROVE  ValuesInOrder'
<1> DEFINE lim(k) == IF k = k0 THEN a ELSE NoValue
<1>1. /\ version \in Int /\ version' \in Int /\ 0 <= version /\ NoValue \in Int /\ NoValue <= 0
      /\ \A r \in Readers : queried[r] \in Int /\ NoValue <= queried[r] /\ since[r] \in Int
      /\ \A k \in Coalesced : k \in Keys
    BY ValuesInt, MaxVersionNat DEF Base, Types, TypeOK, NoValue, Coalesced
<1>2. ASSUME NEW k \in Coalesced
      PROVE  /\ Keeps(k, q, wire, replies, cache[k], floor[k], wire', replies', cache'[k], floor'[k], lim(k))
             /\ lim(k) \in Int /\ lim(k) <= version
    BY <1>1 DEF StepKeeps
<1> HIDE DEF lim
<1>3. ASSUME NEW k \in Coalesced PROVE KeyInOrder(wire, replies, cache[k], floor[k], k)'
    BY <1>2, NextValues DEF Keeps
<1>4. ASSUME NEW k \in Coalesced
      PROVE  AtMost(wire', replies', cache'[k], floor'[k], k, version)
    BY <1>1, <1>2 DEF Keeps, ValuesInOrder, NewestKnown, Newest
<1>5. ASSUME NEW k \in Coalesced PROVE Newest(k, version)'
    <2>1. /\ cache'[k] \in Int /\ floor'[k] \in Int
          /\ \A i \in 1..Len(wire') : wire'[i].val \in Int
          /\ \A i \in 1..Len(replies') : replies'[i].val \in Int
        <3>1. k \in Keys /\ wire' \in Seq(Commands) /\ replies' \in Seq(Replies)
            BY <1>1 DEF Base, Types
        <3>2. cache'[k] \in Int /\ floor'[k] \in Int
            BY <3>1, ValuesInt DEF Base, Types, TypeOK
        <3> QED
            BY <3>1, <3>2, CommandTypes, ReplyTypes
    <2>2. AtMost(wire', replies', cache'[k], floor'[k], k, version')
        BY <1>1, <1>4, <2>1 DEF AtMost
    <2> QED
        BY <2>2, NextValues
<1>6. ASSUME NEW r \in Readers, KeyOf[r] \in Coalesced, load'[r] = "answering"
      PROVE  Newest(KeyOf[r], queried[r])'
    <2>1. CASE load[r] = "answering" /\ queried'[r] = queried[r] /\ (KeyOf[r] = k0 => a <= queried[r])
        <3>1. lim(KeyOf[r]) <= queried[r]
            BY <1>1, <2>1 DEF lim
        <3>2. AtMost(wire, replies, cache[KeyOf[r]], floor[KeyOf[r]], KeyOf[r], queried[r])
            BY <1>6, <2>1 DEF ValuesInOrder, NewestKnown, Newest
        <3>3. AtMost(wire', replies', cache'[KeyOf[r]], floor'[KeyOf[r]], KeyOf[r], queried[r])
            BY <1>1, <1>2, <1>6, <3>1, <3>2 DEF Keeps
        <3> QED
            BY <2>1, <3>3, NextValues
    <2>2. CASE queried'[r] = version
        BY <1>4, <1>6, <2>2, NextValues
    <2> QED
        BY <1>6, <2>1, <2>2
<1>7. ASSUME NEW r \in Unembedded PROVE Newest(KeyOf[r], 0)'
    <2>1. KeyOf[r] \in Coalesced
        BY AssumedKeys DEF Coalesced
    <2>2. lim(KeyOf[r]) <= 0
        BY <1>1 DEF lim
    <2>3. AtMost(wire, replies, cache[KeyOf[r]], floor[KeyOf[r]], KeyOf[r], 0)
        BY DEF ValuesInOrder, NewestKnown, Newest
    <2>4. AtMost(wire', replies', cache'[KeyOf[r]], floor'[KeyOf[r]], KeyOf[r], 0)
        BY <1>2, <2>1, <2>2, <2>3 DEF Keeps
    <2> QED
        BY <2>4, NextValues
<1>8. ASSUME NEW r \in Readers, KeyOf[r] \in Coalesced
      PROVE  Serves(wire, replies, cache[KeyOf[r]], KeyOf[r], r, since[r])'
    <2>1. CASE since'[r] = since[r] /\ r # q
        <3>1. Serves(wire, replies, cache[KeyOf[r]], KeyOf[r], r, since[r])
            BY <1>8 DEF ValuesInOrder, ReadersServed
        <3>2. Serves(wire', replies', cache'[KeyOf[r]], KeyOf[r], r, since[r])
            BY <1>1, <1>2, <1>8, <2>1, <3>1 DEF Keeps
        <3> QED
            BY <2>1, <3>2, NextValues
    <2>2. CASE Serves(wire', replies', cache'[KeyOf[r]], KeyOf[r], r, since'[r])
        BY <2>2, NextValues
    <2> QED
        BY <1>8, <2>1, <2>2
<1>9. NewestKnown'
    BY <1>5, <1>6, <1>7 DEF NewestKnown
<1>10. ReadersServed'
    BY <1>8 DEF ReadersServed
<1> QED
    BY <1>3, <1>9, <1>10 DEF ValuesInOrder

\* Nothing that matters to a key happens.
LEMMA KeepsSame ==
    ASSUME NEW k, NEW q, NEW w, NEW p, NEW c, NEW f, KeyInOrder(w, p, c, f, k), NEW a
    PROVE  Keeps(k, q, w, p, c, f, w, p, c, f, a)
BY DEF Keeps


LEMMA KeepsTwice ==
    ASSUME NEW k, NEW q, NEW w, NEW p, NEW c, NEW f, NEW w1, NEW p1, NEW c1, NEW f1,
           NEW w2, NEW p2, NEW c2, NEW f2,
           Keeps(k, q, w, p, c, f, w1, p1, c1, f1, NoValue),
           Keeps(k, q, w1, p1, c1, f1, w2, p2, c2, f2, NoValue)
    PROVE  Keeps(k, q, w, p, c, f, w2, p2, c2, f2, NoValue)
BY DEF Keeps

\* A GET is sent by q, or something that is neither GET nor write of the key.
LEMMA KeepsSent ==
    ASSUME NEW w \in Seq(Commands), NEW p \in Seq(Replies), NEW c \in Values, NEW f \in Values,
           NEW k, NEW q, KeyInOrder(w, p, c, f, k), NEW a,
           NEW x \in Commands, ~(x.op = "set" /\ x.key = k), x.op = "get" => x.by = q
    PROVE  Keeps(k, q, w, p, c, f, Append(w, x), p, c, f, a)
<1>1. /\ KeyInOrder(Append(w, x), p, c, f, k)
      /\ \A v \in Int : AtMost(w, p, c, f, k, v) => AtMost(Append(w, x), p, c, f, k, v)
      /\ \A r \in Readers, s \in Int :
           (x.op = "get" /\ x.by = r => s <= f) /\ Serves(w, p, c, k, r, s)
             => Serves(Append(w, x), p, c, k, r, s)
    BY SentKey
<1> QED
    BY <1>1 DEF Keeps

\* What ValuesInOrder says of a key and of a reader.
LEMMA OrderFacts ==
    ASSUME Base, ValuesInOrder
    PROVE  /\ wire \in Seq(Commands) /\ replies \in Seq(Replies)
           /\ \A k \in Coalesced : /\ k \in Keys /\ k \notin Uncoalesced
                                   /\ cache[k] \in Values /\ floor[k] \in Values /\ floor[k] \in Int
                                   /\ KeyInOrder(wire, replies, cache[k], floor[k], k)
           /\ \A r \in Readers : KeyOf[r] \in Coalesced =>
                /\ since[r] \in Int /\ since[r] <= floor[KeyOf[r]]
                /\ Serves(wire, replies, cache[KeyOf[r]], KeyOf[r], r, since[r])
                /\ pc[r] = "done" /\ answer[r] >= 0 => answer[r] >= since[r]
           /\ version \in Int /\ 0 <= version /\ NoValue \in Int /\ NoValue <= version /\ NoValue <= 0
<1>1. \A k \in Coalesced : /\ k \in Keys /\ k \notin Uncoalesced
                           /\ cache[k] \in Values /\ floor[k] \in Values /\ floor[k] \in Int
    BY ValuesInt DEF Base, Types, TypeOK, Coalesced
<1>2. \A r \in Readers : since[r] \in Int
    BY ValuesInt DEF Base, Types, TypeOK
<1>3. version \in Int /\ 0 <= version /\ NoValue \in Int /\ NoValue <= version /\ NoValue <= 0
    BY MaxVersionNat DEF Base, Types, TypeOK, NoValue
<1> QED
    BY <1>1, <1>2, <1>3 DEF Base, Types, ValuesInOrder, ReadersServed

\* A step that touches neither Redis nor an answer.
LEMMA QuietOrder ==
    ASSUME Base, Orderly, Base',
           UNCHANGED <<wire, replies, cache, floor, since, pc, answer, redisUp>>,
           version <= version',
           \A r \in Readers : load'[r] = "answering" =>
               (load[r] = "answering" /\ queried'[r] = queried[r]) \/ queried'[r] = version
    PROVE  Orderly'
<1>1. OneOnTheWay'
    BY DEF Orderly, OneOnTheWay, OneEach, Reading, Asks
<1>2. StepKeeps(Nobody, Nobody, NoValue)
    BY KeepsSame DEF Orderly, ValuesInOrder, StepKeeps
<1>3. \A r \in Readers : r # Nobody
    BY AssumedKeys
<1>4. \A r \in Readers : load[r] = "answering" => NoValue <= queried[r]
    BY ValuesInt DEF Base, Types, TypeOK
<1>5. ValuesInOrder
    BY DEF Orderly
<1>6. \A r \in Readers : KeyOf[r] \in Coalesced =>
        /\ since'[r] <= floor'[KeyOf[r]]
        /\ (since'[r] = since[r] /\ r # Nobody)
             \/ Serves(wire', replies', cache'[KeyOf[r]], KeyOf[r], r, since'[r])
        /\ pc'[r] = "done" /\ answer'[r] >= 0 => answer'[r] >= since'[r]
    BY <1>3, <1>5, OrderFacts
<1>7. \A r \in Readers : KeyOf[r] \in Coalesced /\ load'[r] = "answering" =>
        \/ load[r] = "answering" /\ queried'[r] = queried[r] /\ (KeyOf[r] = Nobody => NoValue <= queried[r])
        \/ queried'[r] = version
    BY <1>4
<1>8. NoValue \in Int /\ NoValue <= version /\ NoValue <= NoValue /\ NoValue <= 0
    BY <1>5, OrderFacts
<1>9. ValuesInOrder'
    BY <1>2, <1>5, <1>6, <1>7, <1>8, OrderStep
<1> QED
    BY <1>1, <1>9 DEF Orderly

\* A step that raises no answer by a write.
LEMMA PlainOrder ==
    ASSUME Base, ValuesInOrder, Base', NEW q, version' = version,
           \A k \in Coalesced : Keeps(k, q, wire, replies, cache[k], floor[k],
                                      wire', replies', cache'[k], floor'[k], NoValue),
           \A r \in Readers : load'[r] = "answering" => load[r] = "answering" /\ queried'[r] = queried[r],
           \A r \in Readers : KeyOf[r] \in Coalesced =>
               /\ since'[r] <= floor'[KeyOf[r]]
               /\ (since'[r] = since[r] /\ r # q) \/ Serves(wire', replies', cache'[KeyOf[r]], KeyOf[r], r, since'[r])
               /\ pc'[r] = "done" /\ answer'[r] >= 0 => answer'[r] >= since'[r]
    PROVE  ValuesInOrder'
<1>1. StepKeeps(Nobody, q, NoValue)
    BY DEF StepKeeps
<1>2. \A r \in Readers : load[r] = "answering" => NoValue <= queried[r]
    BY ValuesInt DEF Base, Types, TypeOK
<1>3. \A r \in Readers : KeyOf[r] \in Coalesced /\ load'[r] = "answering" =>
        \/ load[r] = "answering" /\ queried'[r] = queried[r] /\ (KeyOf[r] = Nobody => NoValue <= queried[r])
        \/ queried'[r] = version
    BY <1>2
<1>4. /\ NoValue \in Int /\ NoValue <= version /\ NoValue <= NoValue /\ NoValue <= 0
      /\ version <= version'
    BY OrderFacts
<1> QED
    BY <1>1, <1>3, <1>4, OrderStep

LEMMA NextOne == OneEach(wire, replies, Reading)' <=> OneEach(wire', replies', Reading')
BY DEF OneEach, Asks

\* Who does not read has nothing on the way.
LEMMA NotOnWay ==
    ASSUME NEW w, NEW p, NEW R, OneEach(w, p, R), NEW r \in Readers \ R, NEW c, NEW k, NEW s
    PROVE  Serves(w, p, c, k, r, s) /\ Fed(w, p, c, k, r)
BY DEF OneEach, Serves, Fed

\* Who asks now reads the newest answer given, or a newer one, or nothing.
LEMMA AskedServed ==
    ASSUME NEW w \in Seq(Commands), NEW p \in Seq(Replies), NEW c \in Values, NEW f \in Values,
           NEW k, KeyInOrder(w, p, c, f, k), NEW R, OneEach(w, p, R), NEW r \in Readers \ R
    PROVE  Serves(Append(w, Get(r)), p, c, k, r, f)
<1>1. Get(r) \in Commands /\ ~(Get(r).op = "set" /\ Get(r).key = k) /\ f \in Int /\ f <= f
    BY GetIsCommand, ValuesInt DEF Get
<1>2. Serves(w, p, c, k, r, f)
    BY NotOnWay
<1> QED
    BY <1>1, <1>2, SentKey

\* In every step below Redis is there.
LEMMA UpSends ==
    ASSUME Orderly
    PROVE  /\ redisUp
           /\ \A c : SendAway(c) => wire' = Append(wire, c)
           /\ \A r, rest : SendGet(r, rest) => wire' = Append(wire, Get(r)) /\ replies' = rest
BY DEF Orderly, OneOnTheWay, SendAway, SendGet

LEMMA ArriveOrder == ASSUME Base, Orderly, Base', NEW r \in Readers, Arrive(r) PROVE Orderly'
<1>1. /\ wire' = Append(wire, Get(r)) /\ replies' = replies
      /\ UNCHANGED <<version, load, queried, cache, answer, redisUp, floor>>
      /\ pc[r] = "idle" /\ redisUp
    BY UpSends DEF Arrive, Note, loadVars
<1>2. \A q \in Readers : /\ pc'[q] = IF q = r THEN "reading" ELSE pc[q]
                         /\ since'[q] = IF q = r THEN floor[KeyOf[r]] ELSE since[q]
    BY DEF Arrive, Note, Base, Types, TypeOK
<1>3. /\ OneEach(wire, replies, Reading) /\ ValuesInOrder
      /\ r \in Readers \ Reading /\ Get(r) \in Commands /\ Get(r).by = r /\ Get(r).op = "get"
    BY <1>1, GetIsCommand DEF Orderly, OneOnTheWay, Reading, Get
<1>4. OneOnTheWay'
    <2>1. OneEach(wire', replies', Reading \cup {r})
        BY <1>1, <1>3, OneAsked, OrderFacts
    <2>2. Reading' = Reading \cup {r}
        BY <1>2 DEF Reading
    <2> QED
        BY <1>1, <2>1, <2>2, NextOne DEF OneOnTheWay
<1>5. ASSUME NEW k \in Coalesced
      PROVE  Keeps(k, r, wire, replies, cache[k], floor[k], wire', replies', cache'[k], floor'[k], NoValue)
    BY <1>1, <1>3, KeepsSent, OrderFacts
<1>6. KeyOf[r] \in Coalesced => Serves(wire', replies', cache'[KeyOf[r]], KeyOf[r], r, since'[r])
    BY <1>1, <1>2, <1>3, AskedServed, OrderFacts
<1>7. ASSUME NEW q \in Readers, KeyOf[q] \in Coalesced
      PROVE  /\ since'[q] <= floor'[KeyOf[q]]
             /\ (since'[q] = since[q] /\ q # r) \/ Serves(wire', replies', cache'[KeyOf[q]], KeyOf[q], q, since'[q])
             /\ pc'[q] = "done" /\ answer'[q] >= 0 => answer'[q] >= since'[q]
    <2>1. CASE q = r
        BY <1>1, <1>2, <1>3, <1>6, <1>7, <2>1, OrderFacts
    <2>2. CASE q # r
        BY <1>1, <1>2, <1>3, <1>7, <2>2, OrderFacts
    <2> QED
        BY <2>1, <2>2
<1>8. ValuesInOrder'
    BY <1>1, <1>3, <1>5, <1>7, PlainOrder
<1> QED
    BY <1>4, <1>8 DEF Orderly

\* The reply at the head belongs to r.
LEMMA RepliedFacts ==
    ASSUME Base, Orderly, NEW r \in Readers, Replied(r)
    PROVE  /\ replies # <<>> /\ Head(replies) = replies[1] /\ 1 \in 1..Len(replies)
           /\ replies[1].to = r /\ replies[1].val \in Values
           /\ pc[r] = "reading" /\ load[r] = "none"
           /\ ValuesInOrder /\ wire \in Seq(Commands) /\ replies \in Seq(Replies)
           /\ OneEach(wire, Tail(replies), Reading \ {r})
<1>1. /\ replies # <<>> /\ replies \in Seq(Replies) /\ wire \in Seq(Commands)
      /\ pc[r] = "reading" /\ Head(replies).to = r
    BY DEF Replied, Base, Types
<1>2. Head(replies) = replies[1] /\ 1 \in 1..Len(replies) /\ replies[1] \in Replies
    BY <1>1, Shorter
<1>3. load[r] = "none"
    BY <1>1 DEF Base, Loads, LoadOrder
<1>4. OneEach(wire, replies, Reading)
    BY DEF Orderly, OneOnTheWay
<1>5. OneEach(wire, Tail(replies), Reading \ {r})
    BY <1>1, <1>4, OneTaken
<1> QED
    BY <1>1, <1>2, <1>3, <1>5 DEF Orderly, Replies

LEMMA HitOrder == ASSUME Base, Orderly, Base', NEW r \in Readers, Hit(r) PROVE Orderly'
<1> DEFINE a == replies[1].val
           key == KeyOf[r]
<1>1. /\ wire' = wire /\ replies' = Tail(replies)
      /\ UNCHANGED <<version, load, queried, cache, redisUp, since>>
      /\ Answer({r}, a) /\ a # NoValue /\ a \in Values /\ Replied(r)
    BY RepliedFacts DEF Hit, Answer, loadVars
<1>2. /\ \A q \in Readers : /\ pc'[q] = IF q = r THEN "done" ELSE pc[q]
                            /\ answer'[q] = IF q = r THEN a ELSE answer[q]
      /\ \A k \in Keys : floor'[k] = IF a > floor[k] /\ key = k THEN a ELSE floor[k]
    BY <1>1 DEF Answer
<1> HIDE DEF a
<1>3. OneOnTheWay'
    <2>1. Reading' = Reading \ {r}
        BY <1>2 DEF Reading
    <2> QED
        BY <1>1, <2>1, NextOne, RepliedFacts DEF OneOnTheWay, Orderly
<1>4. ASSUME NEW k \in Coalesced
      PROVE  /\ Keeps(k, Nobody, wire, replies, cache[k], floor[k], wire', replies', cache'[k], floor'[k], NoValue)
             /\ floor[k] <= floor'[k]
    <2>1. /\ ValuesInOrder /\ replies # <<>> /\ k \in Keys /\ cache[k] \in Values
          /\ floor[k] \in Values /\ floor[k] \in Int /\ a \in Int
          /\ wire \in Seq(Commands) /\ replies \in Seq(Replies)
          /\ KeyInOrder(wire, replies, cache[k], floor[k], k)
        BY <1>1, RepliedFacts, OrderFacts, ValuesInt
    <2>2. floor'[k] \in Values /\ floor[k] <= floor'[k]
        BY <1>1, <1>2, <2>1
    <2>3. Keeps(k, Nobody, wire, replies, cache[k], floor[k], wire, replies, cache[k], floor'[k], NoValue)
        <3>1. CASE key = k
            <4>1. floor'[k] \in {floor[k], a}
                BY <1>2, <2>1
            <4>2. KeyOf[replies[1].to] = k /\ 1 \in 1..Len(replies)
                BY <1>1, <3>1, RepliedFacts
            <4> QED
                BY <2>1, <4>1, <4>2, AnsweredKey DEF a
        <3>2. CASE key # k
            <4>1. floor'[k] = floor[k]
                BY <1>2, <2>1, <3>2
            <4> QED
                BY <2>1, <4>1, KeepsSame
        <3> QED
            BY <3>1, <3>2
    <2>4. KeyInOrder(wire, replies, cache[k], floor'[k], k)
        BY <2>3 DEF Keeps
    <2>5. Keeps(k, Nobody, wire, replies, cache[k], floor'[k], wire, Tail(replies), cache[k], floor'[k], NoValue)
        BY <2>1, <2>2, <2>4, TakenKey
    <2> QED
        BY <1>1, <2>2, <2>3, <2>5, KeepsTwice
<1>5. ValuesInOrder /\ r # Nobody /\ \A q \in Readers : q # Nobody
    BY <1>1, RepliedFacts, AssumedKeys
<1>6. ASSUME NEW q \in Readers, KeyOf[q] \in Coalesced
      PROVE  /\ since'[q] <= floor'[KeyOf[q]]
             /\ (since'[q] = since[q] /\ q # Nobody) \/ Serves(wire', replies', cache'[KeyOf[q]], KeyOf[q], q, since'[q])
             /\ pc'[q] = "done" /\ answer'[q] >= 0 => answer'[q] >= since'[q]
    <2>1. /\ since[q] <= floor[KeyOf[q]] /\ since[q] \in Int /\ floor[KeyOf[q]] \in Int
          /\ floor[KeyOf[q]] <= floor'[KeyOf[q]]
          /\ Serves(wire, replies, cache[KeyOf[q]], KeyOf[q], q, since[q])
        BY <1>4, <1>5, <1>6, OrderFacts
    <2>2. floor'[KeyOf[q]] \in Int
        BY <1>6, ValuesInt DEF Base, Types, TypeOK, Coalesced
    <2>3. since'[q] <= floor'[KeyOf[q]]
        BY <1>1, <2>1, <2>2
    <2>4. CASE q = r
        <3>1. 1 \in 1..Len(replies) /\ replies[1].to = q
            BY <1>1, <2>4, RepliedFacts
        <3>2. since[q] <= a
            BY <1>1, <2>1, <3>1 DEF Serves, a
        <3> QED
            BY <1>1, <1>2, <1>5, <2>1, <2>3, <2>4, <3>2, ValuesInt
    <2>5. CASE q # r
        BY <1>1, <1>2, <1>5, <1>6, <2>3, <2>5, OrderFacts
    <2> QED
        BY <2>4, <2>5
<1>7. ValuesInOrder'
    BY <1>1, <1>4, <1>5, <1>6, PlainOrder
<1> QED
    BY <1>3, <1>7 DEF Orderly

\* Readers keep what they have while no answer is given and nobody arrives.
LEMMA ReadersKept ==
    ASSUME Base, ValuesInOrder, NEW r \in Readers, KeyOf[r] \in Coalesced,
           since'[r] = since[r], floor' = floor, answer'[r] = answer[r],
           pc'[r] = "done" => pc[r] = "done"
    PROVE  /\ since'[r] <= floor'[KeyOf[r]]
           /\ pc'[r] = "done" /\ answer'[r] >= 0 => answer'[r] >= since'[r]
BY OrderFacts

LEMMA JoinOrder == ASSUME Base, Orderly, Base', NEW r \in Readers, Join(r) PROVE Orderly'
<1>1. /\ wire' = wire /\ replies' = Tail(replies)
      /\ UNCHANGED <<version, load, queried, cache, redisUp, since, floor, answer>>
      /\ Replied(r)
    BY DEF Join, Await, loadVars, histVars
<1>2. \A q \in Readers : pc'[q] = IF q = r THEN "waiting" ELSE pc[q]
    BY DEF Join, Base, Types, TypeOK
<1>3. OneOnTheWay'
    <2>1. Reading' = Reading \ {r}
        BY <1>2 DEF Reading
    <2> QED
        BY <1>1, <2>1, NextOne, RepliedFacts DEF OneOnTheWay, Orderly
<1>4. ValuesInOrder /\ replies # <<>>
    BY <1>1, RepliedFacts
<1>5. ASSUME NEW k \in Coalesced
      PROVE  Keeps(k, Nobody, wire, replies, cache[k], floor[k], wire', replies', cache'[k], floor'[k], NoValue)
    BY <1>1, <1>4, TakenKey, OrderFacts
<1>6. ASSUME NEW q \in Readers, KeyOf[q] \in Coalesced
      PROVE  /\ since'[q] <= floor'[KeyOf[q]]
             /\ since'[q] = since[q] /\ q # Nobody
             /\ pc'[q] = "done" /\ answer'[q] >= 0 => answer'[q] >= since'[q]
    BY <1>1, <1>2, <1>4, <1>6, ReadersKept, AssumedKeys
<1>7. ValuesInOrder'
    BY <1>1, <1>4, <1>5, <1>6, PlainOrder
<1> QED
    BY <1>3, <1>7 DEF Orderly

LEMMA StartLoadOrder == ASSUME Base, Orderly, Base', NEW r \in Readers, StartLoad(r) PROVE Orderly'
<1>1. /\ Replied(r) /\ UNCHANGED <<version, queried, cache, redisUp, floor, answer>> /\ redisUp
    BY UpSends DEF StartLoad, Load, Await, Note, histVars
<1>2. /\ ValuesInOrder /\ replies # <<>> /\ load[r] = "none"
      /\ wire \in Seq(Commands) /\ replies \in Seq(Replies) /\ Tail(replies) \in Seq(Replies)
      /\ OneEach(wire, Tail(replies), Reading \ {r})
    BY <1>1, RepliedFacts, Shorter
<1>3. ASSUME NEW k \in Coalesced, NEW q
      PROVE  /\ Keeps(k, q, wire, replies, cache[k], floor[k], wire, Tail(replies), cache[k], floor[k], NoValue)
             /\ KeyInOrder(wire, Tail(replies), cache[k], floor[k], k)
             /\ cache[k] \in Values /\ floor[k] \in Values
    BY <1>2, TakenKey, OrderFacts DEF Keeps
<1>4. CASE r \notin Related
    <2>1. /\ wire' = wire /\ replies' = Tail(replies) /\ UNCHANGED since
          /\ load' = [load EXCEPT ![r] = "querying"] /\ pc' = [pc EXCEPT ![r] = "waiting"]
        BY <1>4 DEF StartLoad, Load, histVars
    <2>2. \A q \in Readers : /\ pc'[q] = IF q = r THEN "waiting" ELSE pc[q]
                             /\ load'[q] = "answering" => load[q] = "answering"
        BY <2>1 DEF Base, Types, TypeOK
    <2>3. OneOnTheWay'
        <3>1. Reading' = Reading \ {r}
            BY <2>2 DEF Reading
        <3> QED
            BY <1>1, <1>2, <2>1, <3>1, NextOne DEF OneOnTheWay
    <2>4. ASSUME NEW k \in Coalesced
          PROVE  Keeps(k, Nobody, wire, replies, cache[k], floor[k], wire', replies', cache'[k], floor'[k], NoValue)
        BY <1>1, <1>3, <2>1
    <2>5. ASSUME NEW q \in Readers, KeyOf[q] \in Coalesced
          PROVE  /\ since'[q] <= floor'[KeyOf[q]]
                 /\ since'[q] = since[q] /\ q # Nobody
                 /\ pc'[q] = "done" /\ answer'[q] >= 0 => answer'[q] >= since'[q]
        BY <1>1, <1>2, <2>1, <2>2, <2>5, ReadersKept, AssumedKeys
    <2>6. ValuesInOrder'
        BY <1>1, <1>2, <2>2, <2>4, <2>5, PlainOrder
    <2> QED
        BY <2>3, <2>6 DEF Orderly
<1>5. CASE r \in Related
    <2> DEFINE h == Helper[r]
    <2>1. h \in Readers /\ h # r /\ pc[h] = "idle"
        BY <1>2, <1>5, AssumedKeys DEF Base, Loads, LoadOrder
    <2>2. /\ wire' = Append(wire, Get(h)) /\ replies' = Tail(replies)
          /\ load' = [load EXCEPT ![r] = "detail"]
          /\ pc' = [pc EXCEPT ![r] = "waiting", ![h] = "reading"]
          /\ since' = [since EXCEPT ![h] = floor[KeyOf[h]]]
        BY <1>5, UpSends DEF StartLoad, Load, Note
    <2> HIDE DEF h
    <2>3. \A q \in Readers : /\ pc'[q] = IF q = h THEN "reading" ELSE IF q = r THEN "waiting" ELSE pc[q]
                             /\ load'[q] = "answering" => load[q] = "answering"
                             /\ since'[q] = IF q = h THEN floor[KeyOf[h]] ELSE since[q]
        BY <2>1, <2>2 DEF Base, Types, TypeOK
    <2>4. h \in Readers \ (Reading \ {r}) /\ Get(h) \in Commands /\ Get(h).by = h /\ Get(h).op = "get"
        BY <2>1, GetIsCommand DEF Reading, Get
    <2>5. OneOnTheWay'
        <3>1. OneEach(wire', replies', (Reading \ {r}) \cup {h})
            BY <1>2, <2>2, <2>4, OneAsked
        <3>2. Reading' = (Reading \ {r}) \cup {h}
            BY <2>1, <2>3 DEF Reading
        <3> QED
            BY <1>1, <3>1, <3>2, NextOne DEF OneOnTheWay
    <2>6. ASSUME NEW k \in Coalesced
          PROVE  Keeps(k, h, wire, replies, cache[k], floor[k], wire', replies', cache'[k], floor'[k], NoValue)
        <3>1. Keeps(k, h, wire, replies, cache[k], floor[k], wire, Tail(replies), cache[k], floor[k], NoValue)
            BY <1>3
        <3>2. Keeps(k, h, wire, Tail(replies), cache[k], floor[k],
                    Append(wire, Get(h)), Tail(replies), cache[k], floor[k], NoValue)
            BY <1>2, <1>3, <2>4, KeepsSent
        <3> QED
            BY <1>1, <2>2, <3>1, <3>2, KeepsTwice
    <2>7. KeyOf[h] \in Coalesced => Serves(wire', replies', cache'[KeyOf[h]], KeyOf[h], h, since'[h])
        BY <1>1, <1>2, <1>3, <2>1, <2>2, <2>3, <2>4, AskedServed
    <2>8. ASSUME NEW q \in Readers, KeyOf[q] \in Coalesced
          PROVE  /\ since'[q] <= floor'[KeyOf[q]]
                 /\ (since'[q] = since[q] /\ q # h) \/ Serves(wire', replies', cache'[KeyOf[q]], KeyOf[q], q, since'[q])
                 /\ pc'[q] = "done" /\ answer'[q] >= 0 => answer'[q] >= since'[q]
        <3>1. CASE q = h
            <4>1. floor[KeyOf[q]] \in Int
                BY <1>2, <2>8, OrderFacts
            <4> QED
                BY <1>1, <2>3, <2>7, <2>8, <3>1, <4>1
        <3>2. CASE q # h
            BY <1>1, <1>2, <2>3, <2>8, <3>2, ReadersKept
        <3> QED
            BY <3>1, <3>2
    <2>9. ValuesInOrder'
        BY <1>1, <1>2, <2>3, <2>6, <2>8, PlainOrder
    <2> QED
        BY <2>5, <2>9 DEF Orderly
<1> QED
    BY <1>4, <1>5

\* Who awaits the load of r, answered with a.
LEMMA SettleFacts ==
    ASSUME Base, NEW r \in Readers, InFlight(r), NEW state \in {"stored", "failed"}, NEW a \in Answers,
           Settle(r, state, a)
    PROVE  \E who \in SUBSET Readers :
             /\ \A q \in who : pc[q] = "waiting" /\ KeyOf[q] = KeyOf[r]
             /\ \A q \in Readers : /\ pc'[q] = IF q \in who THEN "done" ELSE pc[q]
                                   /\ answer'[q] = IF q \in who THEN a ELSE answer[q]
                                   /\ load'[q] = IF q = r THEN state ELSE load[q]
             /\ \A k \in Keys : floor'[k] = IF a > floor[k] /\ \E q \in who : KeyOf[q] = k THEN a ELSE floor[k]
             /\ floor' = [k \in Keys |-> floor'[k]]
             /\ UNCHANGED <<since, warm, joined>>
<1> DEFINE who == {q \in Readers : pc[q] = "waiting" /\ joined[q] = r}
<1>1. Answer(who, a) /\ load' = [load EXCEPT ![r] = state] /\ joined' = joined
    BY DEF Settle
<1>2. \A q \in who : pc[q] = "waiting" /\ KeyOf[q] = KeyOf[r]
    BY AssumedKeys DEF Base, Loads, KeysAgree
<1>3. who \in SUBSET Readers
    OBVIOUS
<1> HIDE DEF who
<1>4. \A q \in Readers : /\ pc'[q] = IF q \in who THEN "done" ELSE pc[q]
                         /\ answer'[q] = IF q \in who THEN a ELSE answer[q]
    BY <1>1 DEF Answer
<1>5. \A q \in Readers : load'[q] = IF q = r THEN state ELSE load[q]
    BY <1>1 DEF Base, Types, TypeOK
<1>6. /\ \A k \in Keys : floor'[k] = IF a > floor[k] /\ \E q \in who : KeyOf[q] = k THEN a ELSE floor[k]
      /\ floor' = [k \in Keys |-> floor'[k]]
      /\ UNCHANGED <<since, warm>>
    BY <1>1 DEF Answer
<1> QED
    BY <1>1, <1>2, <1>3, <1>4, <1>5, <1>6

\* A load that fails: nothing is written, and no answer counts as a value.
LEMMA FailedOrder ==
    ASSUME Base, Orderly, Base', NEW r \in Readers, InFlight(r), NEW a \in Answers, a < 0,
           Settle(r, "failed", a),
           UNCHANGED <<version, queried, cache, wire, replies, redisUp>>
    PROVE  Orderly'
<1>1. PICK who \in SUBSET Readers :
             /\ \A q \in who : pc[q] = "waiting" /\ KeyOf[q] = KeyOf[r]
             /\ \A q \in Readers : /\ pc'[q] = IF q \in who THEN "done" ELSE pc[q]
                                   /\ answer'[q] = IF q \in who THEN a ELSE answer[q]
                                   /\ load'[q] = IF q = r THEN "failed" ELSE load[q]
             /\ \A k \in Keys : floor'[k] = IF a > floor[k] /\ \E q \in who : KeyOf[q] = k THEN a ELSE floor[k]
             /\ floor' = [k \in Keys |-> floor'[k]]
             /\ UNCHANGED <<since, warm, joined>>
    BY SettleFacts
<1>2. a \in Int
    BY ValuesInt DEF Answers, Missing, Error
<1>3. ASSUME NEW k \in Keys PROVE floor'[k] = floor[k]
    <2>1. floor[k] \in Int /\ floor[k] >= -1
        BY MaxVersionNat DEF Base, Types, TypeOK, Values, NoValue
    <2> QED
        BY <1>1, <1>2, <2>1
<1>4. floor' = floor
    BY <1>1, <1>3 DEF Base, Types, TypeOK
<1>5. OneOnTheWay'
    <2>1. Reading' = Reading
        BY <1>1 DEF Reading
    <2> QED
        BY <2>1, NextOne DEF OneOnTheWay, Orderly
<1>6. ValuesInOrder
    BY DEF Orderly
<1>7. ASSUME NEW k \in Coalesced
      PROVE  Keeps(k, Nobody, wire, replies, cache[k], floor[k], wire', replies', cache'[k], floor'[k], NoValue)
    BY <1>4, <1>6, KeepsSame, OrderFacts
<1>8. ASSUME NEW q \in Readers, KeyOf[q] \in Coalesced
      PROVE  /\ since'[q] <= floor'[KeyOf[q]]
             /\ since'[q] = since[q] /\ q # Nobody
             /\ pc'[q] = "done" /\ answer'[q] >= 0 => answer'[q] >= since'[q]
    <2>1. CASE q \in who
        BY <1>1, <1>2, <1>4, <1>6, <1>8, <2>1, OrderFacts, AssumedKeys
    <2>2. CASE q \notin who
        BY <1>1, <1>4, <1>6, <1>8, <2>2, ReadersKept, AssumedKeys
    <2> QED
        BY <2>1, <2>2
<1>9. ValuesInOrder'
    BY <1>1, <1>6, <1>7, <1>8, PlainOrder
<1> QED
    BY <1>5, <1>9 DEF Orderly

\* A load that is stored: the value a it writes is the newest of its key.
LEMMA StoredOrder ==
    ASSUME Base, Orderly, Base', NEW r \in Readers, InFlight(r), NEW a \in 0..MaxVersion,
           Settle(r, "stored", a), SendAway(Set(r, a)),
           UNCHANGED <<version, queried, cache, replies, redisUp>>,
           a <= version, KeyOf[r] \in Coalesced => Newest(KeyOf[r], a),
           r \in Unembedded => a = 0
    PROVE  Orderly'
<1> DEFINE key == KeyOf[r]
           x == Set(r, a)
<1>1. a \in Answers /\ a \in Int /\ 0 <= a
    BY MaxVersionNat DEF Answers, Values
<1>2. PICK who \in SUBSET Readers :
             /\ \A q \in who : pc[q] = "waiting" /\ KeyOf[q] = KeyOf[r]
             /\ \A q \in Readers : /\ pc'[q] = IF q \in who THEN "done" ELSE pc[q]
                                   /\ answer'[q] = IF q \in who THEN a ELSE answer[q]
                                   /\ load'[q] = IF q = r THEN "stored" ELSE load[q]
             /\ \A k \in Keys : floor'[k] = IF a > floor[k] /\ \E q \in who : KeyOf[q] = k THEN a ELSE floor[k]
             /\ floor' = [k \in Keys |-> floor'[k]]
             /\ UNCHANGED <<since, warm, joined>>
    BY <1>1, SettleFacts
<1>3. /\ x \in Commands /\ x.op = "set" /\ x.key = key /\ x.val = a
      /\ wire' = Append(wire, x) /\ redisUp
    BY SetIsCommand, UpSends DEF Set
<1>4. ValuesInOrder /\ OneEach(wire, replies, Reading)
    BY DEF Orderly, OneOnTheWay
<1> HIDE DEF x
<1>5. OneOnTheWay'
    <2>1. OneEach(wire', replies', Reading)
        <3>1. OneEach(Append(wire, x), replies, Reading \cup {x.by})
            BY <1>3, <1>4, OneAsked, OrderFacts
        <3>2. \A q : ~Asks(wire', Len(wire) + 1, q) /\ \A i \in 1..Len(wire') : i \in 1..Len(wire) \/ i = Len(wire) + 1
            BY <1>3, <1>4, OrderFacts, Longer DEF Asks
        <3>3. \A i \in 1..Len(wire) : wire'[i] = wire[i]
            BY <1>3, <1>4, OrderFacts, Longer
        <3>4. \A q \in Readers : \A i \in 1..Len(wire') : Asks(wire', i, q) => i \in 1..Len(wire) /\ Asks(wire, i, q)
            BY <3>2, <3>3 DEF Asks
        <3> QED
            BY <1>4, <3>4 DEF OneEach
    <2>2. Reading' = Reading
        BY <1>2 DEF Reading
    <2> QED
        BY <1>3, <2>1, <2>2, NextOne DEF OneOnTheWay
<1>6. ASSUME NEW k \in Coalesced
      PROVE  /\ floor[k] <= floor'[k] /\ floor'[k] \in Int
             /\ k = key => Newest(key, a)
             /\ k # key => floor'[k] = floor[k]
             /\ floor'[k] \in {floor[k], a}
    <2>1. k \in Keys /\ floor[k] \in Int
        BY <1>4, OrderFacts
    <2> QED
        BY <1>1, <1>2, <2>1
<1>7. ASSUME NEW k \in Coalesced
      PROVE  Keeps(k, Nobody, wire, replies, cache[k], floor[k], wire', replies', cache'[k], floor'[k],
                   IF k = key THEN a ELSE NoValue)
    <2>1. /\ wire \in Seq(Commands) /\ replies \in Seq(Replies)
          /\ cache[k] \in Values /\ floor[k] \in Values
          /\ KeyInOrder(wire, replies, cache[k], floor[k], k)
        BY <1>4, OrderFacts
    <2>2. CASE k = key
        <3>1. AtMost(wire, replies, cache[k], floor[k], k, x.val)
            BY <1>3, <1>6, <2>2 DEF Newest
        <3>2. Keeps(k, Nobody, wire, replies, cache[k], floor[k],
                    Append(wire, x), replies, cache[k], floor'[k], x.val)
            BY <1>3, <1>6, <2>1, <2>2, <3>1, WrittenKey
        <3> QED
            BY <1>3, <2>2, <3>2
    <2>3. CASE k # key
        <3>1. Keeps(k, Nobody, wire, replies, cache[k], floor[k],
                    Append(wire, x), replies, cache[k], floor[k], NoValue)
            BY <1>3, <2>1, <2>3, KeepsSent
        <3> QED
            BY <1>3, <1>6, <2>3, <3>1
    <2> QED
        BY <2>2, <2>3
<1>8. StepKeeps(key, Nobody, a)
    BY <1>7 DEF StepKeeps
<1>9. ASSUME NEW q \in Readers, KeyOf[q] \in Coalesced, load'[q] = "answering"
      PROVE  load[q] = "answering" /\ queried'[q] = queried[q] /\ KeyOf[q] # key
    <2>1. q # r /\ load[q] = "answering"
        BY <1>2, <1>9
    <2>2. KeyOf[q] # key
        BY <1>9, <2>1 DEF Base, Loads, MapIsLoad, InFlight, Coalesced
    <2> QED
        BY <2>1, <2>2
<1>10. \A q \in Unembedded : KeyOf[q] = key => a <= 0
    BY <1>1, AssumedKeys
<1>11. ASSUME NEW q \in Readers, KeyOf[q] \in Coalesced
       PROVE  /\ since'[q] <= floor'[KeyOf[q]]
              /\ since'[q] = since[q] /\ q # Nobody
              /\ pc'[q] = "done" /\ answer'[q] >= 0 => answer'[q] >= since'[q]
    <2>1. /\ since[q] \in Int /\ since[q] <= floor[KeyOf[q]] /\ floor[KeyOf[q]] \in Int
          /\ since'[q] = since[q] /\ q # Nobody
        BY <1>2, <1>4, <1>11, OrderFacts, AssumedKeys
    <2>2. since'[q] <= floor'[KeyOf[q]]
        BY <1>6, <1>11, <2>1
    <2>3. CASE q \in who
        <3>1. KeyOf[q] = key /\ floor[key] <= a /\ answer'[q] = a
            BY <1>2, <1>6, <1>11, <2>3 DEF Newest, AtMost
        <3> QED
            BY <1>1, <2>1, <2>2, <3>1
    <2>4. CASE q \notin who
        BY <1>2, <1>4, <1>11, <2>1, <2>2, <2>4, OrderFacts
    <2> QED
        BY <2>3, <2>4
<1>12. /\ NoValue <= a /\ version <= version' /\ version \in Int
    BY <1>1, <1>4, OrderFacts, MaxVersionNat DEF NoValue
<1>13. ValuesInOrder'
    BY <1>1, <1>4, <1>8, <1>9, <1>10, <1>11, <1>12, OrderStep
<1> QED
    BY <1>5, <1>13 DEF Orderly

\* What Execute does to the cache of a coalesced key, and to the replies.
LEMMA ExecuteFacts ==
    ASSUME Base, Execute
    PROVE  /\ wire # <<>> /\ wire' = Tail(wire)
           /\ UNCHANGED <<version, pc, joined, answer, load, queried, map>>
           /\ UNCHANGED <<redisUp, faults, floor, since, warm>>
           /\ \A k \in Coalesced : cache'[k] = After(wire, cache[k], k)
           /\ \/ replies' = replies
              \/ \E x \in Replies : /\ replies' = Append(replies, x) /\ Asks(wire, 1, x.to)
                                    /\ x.val = cache[KeyOf[x.to]]
<1>1. TypeOK /\ Types /\ wire # <<>>
    BY DEF Base, Types, Execute
<1>2. /\ UNCHANGED <<version, pc, joined, answer, load, queried, map>>
      /\ UNCHANGED <<redisUp, faults, floor, since, warm>>
      /\ wire' = Tail(wire)
    BY DEF Execute, readerVars, loadVars, histVars
<1>3. CASE /\ wire[1].op = "get"
           /\ replies' = Append(replies, [to |-> wire[1].by, val |-> cache[wire[1].key]])
           /\ UNCHANGED <<cache, dropped>>
    <2> DEFINE x == [to |-> wire[1].by, val |-> cache[wire[1].key]]
    <2>1. x \in Replies /\ x.to = wire[1].by /\ x.val = cache[KeyOf[x.to]]
        BY <1>1, <1>3, HeadTypes DEF Replies, TypeOK
    <2>2. Asks(wire, 1, x.to)
        BY <1>3 DEF Asks
    <2>3. \A k \in Coalesced : cache'[k] = After(wire, cache[k], k)
        BY <1>3 DEF After, Writes
    <2> QED
        BY <1>1, <1>2, <1>3, <2>1, <2>2, <2>3
<1>4. CASE /\ wire[1].op = "set"
           /\ cache' = [cache EXCEPT ![wire[1].key] = wire[1].val]
           /\ UNCHANGED <<replies, dropped>>
    <2>1. \A k \in Coalesced : cache'[k] = After(wire, cache[k], k)
        BY <1>1, <1>4 DEF After, Writes, TypeOK, Coalesced
    <2> QED
        BY <1>1, <1>2, <1>4, <2>1
<1>5. CASE /\ wire[1].op = "del"
           /\ cache' = [cache EXCEPT ![wire[1].key] = NoValue]
           /\ UNCHANGED replies
    <2>1. wire[1].key \in Uncoalesced
        BY <1>1, <1>5, HeadTypes DEF Commands
    <2>2. \A k \in Coalesced : cache'[k] = After(wire, cache[k], k)
        BY <1>1, <1>5, <2>1 DEF After, Writes, TypeOK, Coalesced
    <2> QED
        BY <1>1, <1>2, <1>5, <2>2
<1> QED
    BY <1>1, <1>3, <1>4, <1>5, HeadTypes DEF Execute

LEMMA ExecuteOrder == ASSUME Base, Orderly, Base', Execute PROVE Orderly'
<1>1. /\ wire # <<>> /\ wire' = Tail(wire)
      /\ UNCHANGED <<version, pc, answer, load, queried, redisUp, floor, since>>
      /\ \A k \in Coalesced : cache'[k] = After(wire, cache[k], k)
    BY ExecuteFacts
<1>2. /\ ValuesInOrder /\ OneEach(wire, replies, Reading) /\ redisUp
      /\ wire \in Seq(Commands) /\ replies \in Seq(Replies) /\ Reading' = Reading
    BY <1>1, OrderFacts DEF Orderly, OneOnTheWay, Reading
<1>3. /\ OneEach(wire', replies', Reading)
      /\ \A k \in Coalesced :
           Keeps(k, Nobody, wire, replies, cache[k], floor[k], wire', replies', cache'[k], floor'[k], NoValue)
    <2>1. CASE replies' = replies
        <3>1. ASSUME NEW k \in Coalesced
              PROVE  Keeps(k, Nobody, wire, replies, cache[k], floor[k], wire', replies', cache'[k], floor'[k], NoValue)
            BY <1>1, <1>2, <2>1, LeftKey, OrderFacts
        <3> QED
            BY <1>1, <1>2, <2>1, <3>1, OneLeft
    <2>2. CASE \E x \in Replies : /\ replies' = Append(replies, x) /\ Asks(wire, 1, x.to)
                                  /\ x.val = cache[KeyOf[x.to]]
        <3>1. PICK x \in Replies : /\ replies' = Append(replies, x) /\ Asks(wire, 1, x.to)
                                   /\ x.val = cache[KeyOf[x.to]]
            BY <2>2
        <3>2. ASSUME NEW k \in Coalesced
              PROVE  Keeps(k, Nobody, wire, replies, cache[k], floor[k], wire', replies', cache'[k], floor'[k], NoValue)
            <4>1. /\ cache[k] \in Values /\ floor[k] \in Values
                  /\ KeyInOrder(wire, replies, cache[k], floor[k], k)
                BY <1>2, OrderFacts
            <4>2. Keeps(k, Nobody, wire, replies, cache[k], floor[k], wire, replies', cache[k], floor[k], NoValue)
                BY <1>1, <1>2, <3>1, <4>1, ReplyKey
            <4>3. KeyInOrder(wire, replies', cache[k], floor[k], k) /\ replies' \in Seq(Replies)
                BY <4>2 DEF Keeps, Base, Types
            <4>4. Keeps(k, Nobody, wire, replies', cache[k], floor[k],
                        Tail(wire), replies', After(wire, cache[k], k), floor[k], NoValue)
                BY <1>1, <1>2, <4>1, <4>3, LeftKey
            <4> QED
                BY <1>1, <4>2, <4>4, KeepsTwice
        <3> QED
            BY <1>1, <1>2, <3>1, <3>2, OneReplied
    <2> QED
        BY <2>1, <2>2, ExecuteFacts
<1>4. OneOnTheWay'
    BY <1>1, <1>2, <1>3, NextOne DEF OneOnTheWay
<1>5. ASSUME NEW q \in Readers, KeyOf[q] \in Coalesced
      PROVE  /\ since'[q] <= floor'[KeyOf[q]]
             /\ since'[q] = since[q] /\ q # Nobody
             /\ pc'[q] = "done" /\ answer'[q] >= 0 => answer'[q] >= since'[q]
    BY <1>1, <1>2, <1>5, ReadersKept, AssumedKeys
<1>6. ValuesInOrder'
    BY <1>1, <1>2, <1>3, <1>5, PlainOrder
<1> QED
    BY <1>4, <1>6 DEF Orderly

LEMMA CacheLostOrder == ASSUME Base, Orderly, Base', NEW k1 \in Keys, CacheLost(k1) PROVE Orderly'
<1>1. /\ UNCHANGED <<version, pc, joined, answer, load, queried, map, wire, replies>>
      /\ UNCHANGED <<redisUp, floor, since, warm>>
      /\ cache' = [cache EXCEPT ![k1] = NoValue]
    BY DEF CacheLost, readerVars, loadVars, connVars, histVars
<1>2. ValuesInOrder /\ OneOnTheWay
    BY DEF Orderly
<1>3. ASSUME NEW k \in Coalesced
      PROVE  Keeps(k, Nobody, wire, replies, cache[k], floor[k], wire', replies', cache'[k], floor'[k], NoValue)
    <2>1. /\ wire \in Seq(Commands) /\ replies \in Seq(Replies)
          /\ cache[k] \in Values /\ floor[k] \in Values /\ k \in Keys
          /\ KeyInOrder(wire, replies, cache[k], floor[k], k)
        BY <1>2, OrderFacts
    <2>2. cache'[k] = IF k = k1 THEN NoValue ELSE cache[k]
        BY <1>1, <2>1 DEF Base, Types, TypeOK
    <2>3. Keeps(k, Nobody, wire, replies, cache[k], floor[k], wire, replies, NoValue, floor[k], NoValue)
        BY <2>1, LostKey
    <2>4. Keeps(k, Nobody, wire, replies, cache[k], floor[k], wire, replies, cache[k], floor[k], NoValue)
        BY <2>1, KeepsSame
    <2> QED
        BY <1>1, <2>2, <2>3, <2>4
<1>4. OneOnTheWay'
    <2>1. Reading' = Reading
        BY <1>1 DEF Reading
    <2> QED
        BY <1>1, <1>2, <2>1, NextOne DEF OneOnTheWay
<1>5. ASSUME NEW q \in Readers, KeyOf[q] \in Coalesced
      PROVE  /\ since'[q] <= floor'[KeyOf[q]]
             /\ since'[q] = since[q] /\ q # Nobody
             /\ pc'[q] = "done" /\ answer'[q] >= 0 => answer'[q] >= since'[q]
    BY <1>1, <1>2, <1>5, ReadersKept, AssumedKeys
<1>6. ValuesInOrder'
    BY <1>1, <1>2, <1>3, <1>5, PlainOrder
<1> QED
    BY <1>4, <1>6 DEF Orderly

LEMMA OnCompletedOrder == ASSUME Base, Orderly, Base', NEW k1 \in Keys, OnCompleted(k1) PROVE Orderly'
<1> DEFINE x == Del(k1, version)
<1>1. /\ UNCHANGED <<version, pc, joined, answer, load, queried, map, cache, replies>>
      /\ UNCHANGED <<redisUp, floor, since, warm>>
      /\ k1 \in Uncoalesced /\ wire' = Append(wire, x) /\ redisUp
    BY UpSends DEF OnCompleted, readerVars, loadVars, histVars, Orderly, OneOnTheWay
<1>2. ValuesInOrder /\ OneEach(wire, replies, Reading)
    BY DEF Orderly, OneOnTheWay
<1>3. x \in Commands /\ x.op = "del" /\ x.by = Nobody
    BY <1>1, DelIsCommand DEF Base, Types, TypeOK, Del
<1> HIDE DEF x
<1>4. ASSUME NEW k \in Coalesced
      PROVE  Keeps(k, Nobody, wire, replies, cache[k], floor[k], wire', replies', cache'[k], floor'[k], NoValue)
    BY <1>1, <1>2, <1>3, KeepsSent, OrderFacts
<1>5. OneOnTheWay'
    <2>1. OneEach(wire', replies', Reading \cup {Nobody})
        BY <1>1, <1>2, <1>3, OneAsked, OrderFacts
    <2>2. OneEach(wire', replies', Reading')
        BY <1>1, <2>1, AssumedKeys DEF OneEach, Reading
    <2> QED
        BY <1>1, <2>2, NextOne DEF OneOnTheWay
<1>6. ASSUME NEW q \in Readers, KeyOf[q] \in Coalesced
      PROVE  /\ since'[q] <= floor'[KeyOf[q]]
             /\ since'[q] = since[q] /\ q # Nobody
             /\ pc'[q] = "done" /\ answer'[q] >= 0 => answer'[q] >= since'[q]
    BY <1>1, <1>2, <1>6, ReadersKept, AssumedKeys
<1>7. ValuesInOrder'
    BY <1>1, <1>2, <1>4, <1>6, PlainOrder
<1> QED
    BY <1>5, <1>7 DEF Orderly

-----------------------------------------------------------------------------
(* What was stored: one step *)

LEMMA NextFed ==
    ASSUME NEW k, NEW r
    PROVE  /\ Holds(wire, Len(wire), cache[k], k)' <=> Holds(wire', Len(wire'), cache'[k], k)
           /\ Fed(wire, replies, cache[k], k, r)' <=> Fed(wire', replies', cache'[k], k, r)
<1>1. Holds(wire, Len(wire), cache[k], k)' <=> Holds(wire', Len(wire'), cache'[k], k)
    BY DEF Holds, Writes
<1>2. Fed(wire, replies, cache[k], k, r)' <=> Fed(wire', replies', cache'[k], k, r)
    BY DEF Fed, Holds, Asks, Writes
<1> QED
    BY <1>1, <1>2

\* What each key and each reader must do in a step, the reader q looked at apart.
LEMMA WarmStep ==
    ASSUME Base, WarmServed, NEW q,
           \A k \in Coalesced : KeepsFed(k, q, wire, replies, cache[k], wire', replies', cache'[k]),
           \A r \in Readers : KeyOf[r] \in Coalesced /\ load'[r] = "stored" =>
               load[r] = "stored" \/ Holds(wire', Len(wire'), cache'[KeyOf[r]], KeyOf[r]),
           \A r \in warm' : r \in Readers /\ KeyOf[r] \in Coalesced =>
               /\ load'[r] = "none" /\ pc'[r] # "idle"
               /\ (r \in warm /\ r # q) \/ Fed(wire', replies', cache'[KeyOf[r]], KeyOf[r], r),
           warm' \subseteq Readers
    PROVE  WarmServed'
<1>1. ASSUME NEW r \in Readers, KeyOf[r] \in Coalesced, load'[r] = "stored"
      PROVE  Holds(wire, Len(wire), cache[KeyOf[r]], KeyOf[r])'
    <2>1. Holds(wire', Len(wire'), cache'[KeyOf[r]], KeyOf[r])
        BY <1>1 DEF WarmServed, KeepsFed
    <2> QED
        BY <2>1, NextFed
<1>2. ASSUME NEW r \in warm', KeyOf[r] \in Coalesced
      PROVE  load'[r] = "none" /\ pc'[r] # "idle" /\ Fed(wire', replies', cache'[KeyOf[r]], KeyOf[r], r)
    BY <1>2 DEF WarmServed, KeepsFed
<1>3. ASSUME NEW r \in warm', KeyOf[r] \in Coalesced
      PROVE  Fed(wire, replies, cache[KeyOf[r]], KeyOf[r], r)'
    BY <1>2, <1>3, NextFed
<1> QED
    BY <1>1, <1>2, <1>3 DEF WarmServed

LEMMA KeepsFedSame ==
    ASSUME NEW k, NEW q, NEW w, NEW p, NEW c
    PROVE  KeepsFed(k, q, w, p, c, w, p, c)
BY DEF KeepsFed

LEMMA KeepsFedTwice ==
    ASSUME NEW k, NEW q, NEW w, NEW p, NEW c, NEW w1, NEW p1, NEW c1, NEW w2, NEW p2, NEW c2,
           KeepsFed(k, q, w, p, c, w1, p1, c1), KeepsFed(k, q, w1, p1, c1, w2, p2, c2)
    PROVE  KeepsFed(k, q, w, p, c, w2, p2, c2)
BY DEF KeepsFed

LEMMA KeepsFedSent ==
    ASSUME NEW w \in Seq(Commands), NEW p, NEW c, NEW k, NEW q, NEW x \in Commands,
           x.op = "get" => x.by = q
    PROVE  KeepsFed(k, q, w, p, c, Append(w, x), p, c)
<1>1. /\ Holds(w, Len(w), c, k) => Holds(Append(w, x), Len(Append(w, x)), c, k)
      /\ \A r \in Readers :
           (x.op = "get" /\ x.by = r => Holds(w, Len(w), c, k)) /\ Fed(w, p, c, k, r)
             => Fed(Append(w, x), p, c, k, r)
    BY SentFed
<1> QED
    BY <1>1 DEF KeepsFed

\* A step that touches neither Redis nor who is warm.
LEMMA QuietWarm ==
    ASSUME Base, Base', WarmServed, UNCHANGED <<wire, replies, cache, warm>>,
           \A r \in Readers : /\ load'[r] = "stored" => load[r] = "stored"
                              /\ load[r] = "none" => load'[r] = "none"
                              /\ pc[r] # "idle" => pc'[r] # "idle"
    PROVE  WarmServed'
<1>1. \A k \in Coalesced : KeepsFed(k, Nobody, wire, replies, cache[k], wire', replies', cache'[k])
    BY KeepsFedSame
<1>2. warm' \subseteq Readers
    BY DEF Base, Types, TypeOK
<1>3. \A r \in warm' : KeyOf[r] \in Coalesced =>
        load'[r] = "none" /\ pc'[r] # "idle" /\ r \in warm /\ r # Nobody
    BY <1>2, AssumedKeys DEF WarmServed
<1> QED
    BY <1>1, <1>2, <1>3, WarmStep

\* A reader that comes when a load of its key is stored asks behind the write.
LEMMA NotedFed ==
    ASSUME Base, WarmServed, NEW q \in Readers, NEW p, NEW R, OneEach(wire, p, R), q \notin R,
           KeyOf[q] \in Coalesced,
           \E r \in Readers : KeyOf[r] = KeyOf[q] /\ load[r] = "stored"
    PROVE  Fed(Append(wire, Get(q)), p, cache[KeyOf[q]], KeyOf[q], q)
<1>1. Holds(wire, Len(wire), cache[KeyOf[q]], KeyOf[q])
    BY DEF WarmServed
<1>2. Fed(wire, p, cache[KeyOf[q]], KeyOf[q], q)
    BY NotOnWay
<1>3. wire \in Seq(Commands) /\ Get(q) \in Commands
    BY GetIsCommand DEF Base, Types
<1> QED
    BY <1>1, <1>2, <1>3, SentFed

LEMMA ArriveWarm ==
    ASSUME Base, Orderly, WarmServed, Base', NEW r \in Readers, Arrive(r)
    PROVE  WarmServed'
<1>1. /\ wire' = Append(wire, Get(r)) /\ replies' = replies
      /\ UNCHANGED <<load, cache>> /\ pc[r] = "idle"
      /\ warm' = IF \E q \in Readers : KeyOf[q] = KeyOf[r] /\ load[q] = "stored" THEN warm \cup {r} ELSE warm
    BY UpSends DEF Arrive, Note, loadVars
<1>2. \A q \in Readers : pc'[q] = IF q = r THEN "reading" ELSE pc[q]
    BY DEF Arrive, Base, Types, TypeOK
<1>3. OneEach(wire, replies, Reading) /\ r \notin Reading /\ load[r] = "none"
    BY <1>1 DEF Orderly, OneOnTheWay, Reading, Base, Loads, LoadOrder
<1>4. wire \in Seq(Commands) /\ Get(r) \in Commands /\ Get(r).by = r /\ warm' \subseteq Readers
    BY GetIsCommand DEF Get, Base, Types, TypeOK
<1>5. \A k \in Coalesced : KeepsFed(k, r, wire, replies, cache[k], wire', replies', cache'[k])
    BY <1>1, <1>4, KeepsFedSent
<1>6. ASSUME NEW q \in warm', KeyOf[q] \in Coalesced
      PROVE  /\ load'[q] = "none" /\ pc'[q] # "idle"
             /\ (q \in warm /\ q # r) \/ Fed(wire', replies', cache'[KeyOf[q]], KeyOf[q], q)
    <2>1. CASE q = r
        <3>1. r \notin warm
            BY <1>1, <1>6, <2>1 DEF WarmServed
        <3>2. \E s \in Readers : KeyOf[s] = KeyOf[r] /\ load[s] = "stored"
            BY <1>1, <1>6, <2>1, <3>1
        <3>3. Fed(Append(wire, Get(r)), replies, cache[KeyOf[r]], KeyOf[r], r)
            BY <1>3, <1>6, <2>1, <3>2, NotedFed
        <3> QED
            BY <1>1, <1>2, <1>3, <2>1, <3>3
    <2>2. CASE q # r
        <3>1. q \in warm /\ q \in Readers
            BY <1>1, <1>4, <1>6, <2>2
        <3> QED
            BY <1>1, <1>2, <1>6, <2>2, <3>1 DEF WarmServed
    <2> QED
        BY <2>1, <2>2
<1> QED
    BY <1>1, <1>4, <1>5, <1>6, WarmStep

LEMMA TakeWarm ==
    ASSUME Base, Orderly, WarmServed, Base', NEW r \in Readers, Hit(r) \/ Join(r)
    PROVE  WarmServed'
<1>1. /\ wire' = wire /\ replies' = Tail(replies) /\ Replied(r)
      /\ UNCHANGED <<load, cache, warm>>
    BY DEF Hit, Join, Answer, loadVars, histVars
<1>2. \A q \in Readers : pc[q] # "idle" => pc'[q] # "idle"
    BY DEF Hit, Join, Answer, Base, Types, TypeOK
<1>3. \A k \in Coalesced : KeepsFed(k, Nobody, wire, replies, cache[k], wire', replies', cache'[k])
    BY <1>1, RepliedFacts, TakenFed
<1>4. warm' \subseteq Readers
    BY DEF Base, Types, TypeOK
<1>5. \A q \in warm' : KeyOf[q] \in Coalesced =>
        load'[q] = "none" /\ pc'[q] # "idle" /\ q \in warm /\ q # Nobody
    BY <1>1, <1>2, <1>4, AssumedKeys DEF WarmServed
<1> QED
    BY <1>1, <1>3, <1>4, <1>5, WarmStep

\* Who starts a load found nothing, so nothing was stored when it came.
LEMMA StartLoadWarm ==
    ASSUME Base, Orderly, WarmServed, Base', NEW r \in Readers, StartLoad(r)
    PROVE  WarmServed'
<1>1. /\ Replied(r) /\ UNCHANGED cache /\ Head(replies).val = NoValue
    BY DEF StartLoad, Load
<1>2. /\ replies # <<>> /\ load[r] = "none" /\ pc[r] = "reading"
      /\ 1 \in 1..Len(replies) /\ replies[1].to = r /\ replies[1].val = NoValue
      /\ wire \in Seq(Commands) /\ replies \in Seq(Replies)
      /\ OneEach(wire, Tail(replies), Reading \ {r})
    BY <1>1, RepliedFacts
<1>3. r \in warm => KeyOf[r] \notin Coalesced
    BY <1>2 DEF WarmServed, Fed
<1>4. ASSUME NEW k, NEW q PROVE KeepsFed(k, q, wire, replies, cache[k], wire, Tail(replies), cache[k])
    BY <1>2, TakenFed
<1>5. warm' \subseteq Readers /\ warm \subseteq Readers
    BY DEF Base, Types, TypeOK
<1>6. CASE r \notin Related
    <2>1. /\ wire' = wire /\ replies' = Tail(replies) /\ UNCHANGED warm
          /\ load' = [load EXCEPT ![r] = "querying"] /\ pc' = [pc EXCEPT ![r] = "waiting"]
        BY <1>6 DEF StartLoad, Load, histVars
    <2>2. \A q \in Readers : /\ pc'[q] = IF q = r THEN "waiting" ELSE pc[q]
                             /\ load'[q] = IF q = r THEN "querying" ELSE load[q]
        BY <2>1 DEF Base, Types, TypeOK
    <2>3. \A q \in warm' : KeyOf[q] \in Coalesced =>
            load'[q] = "none" /\ pc'[q] # "idle" /\ q \in warm /\ q # Nobody
        BY <1>3, <1>5, <2>1, <2>2, AssumedKeys DEF WarmServed
    <2>4. \A k \in Coalesced : KeepsFed(k, Nobody, wire, replies, cache[k], wire', replies', cache'[k])
        BY <1>1, <1>4, <2>1
    <2> QED
        BY <1>5, <2>2, <2>3, <2>4, WarmStep
<1>7. CASE r \in Related
    <2> DEFINE h == Helper[r]
    <2>1. h \in Readers /\ h # r /\ pc[h] = "idle" /\ load[h] = "none"
        BY <1>2, <1>7, AssumedKeys DEF Base, Loads, LoadOrder
    <2>2. /\ wire' = Append(wire, Get(h)) /\ replies' = Tail(replies)
          /\ load' = [load EXCEPT ![r] = "detail"]
          /\ pc' = [pc EXCEPT ![r] = "waiting", ![h] = "reading"]
          /\ warm' = IF \E q \in Readers : KeyOf[q] = KeyOf[h] /\ load[q] = "stored" THEN warm \cup {h} ELSE warm
        BY <1>7, UpSends DEF StartLoad, Load, Note
    <2> HIDE DEF h
    <2>3. \A q \in Readers : /\ pc'[q] = IF q = h THEN "reading" ELSE IF q = r THEN "waiting" ELSE pc[q]
                             /\ load'[q] = IF q = r THEN "detail" ELSE load[q]
        BY <2>1, <2>2 DEF Base, Types, TypeOK
    <2>4. Get(h) \in Commands /\ Get(h).by = h /\ h \notin Reading \ {r}
        BY <2>1, GetIsCommand DEF Reading, Get
    <2>5. ASSUME NEW k \in Coalesced
          PROVE  KeepsFed(k, h, wire, replies, cache[k], wire', replies', cache'[k])
        <3>1. KeepsFed(k, h, wire, replies, cache[k], wire, Tail(replies), cache[k])
            BY <1>4
        <3>2. KeepsFed(k, h, wire, Tail(replies), cache[k], Append(wire, Get(h)), Tail(replies), cache[k])
            BY <1>2, <2>4, KeepsFedSent
        <3> QED
            BY <1>1, <2>2, <3>1, <3>2, KeepsFedTwice
    <2>6. ASSUME NEW q \in warm', KeyOf[q] \in Coalesced
          PROVE  /\ load'[q] = "none" /\ pc'[q] # "idle"
                 /\ (q \in warm /\ q # h) \/ Fed(wire', replies', cache'[KeyOf[q]], KeyOf[q], q)
        <3>1. CASE q = h
            <4>1. h \notin warm
                BY <2>1, <2>6, <3>1 DEF WarmServed
            <4>2. \E s \in Readers : KeyOf[s] = KeyOf[h] /\ load[s] = "stored"
                BY <2>2, <2>6, <3>1, <4>1
            <4>3. Fed(Append(wire, Get(h)), Tail(replies), cache[KeyOf[h]], KeyOf[h], h)
                BY <1>2, <2>1, <2>4, <2>6, <3>1, <4>2, NotedFed
            <4>4. Fed(wire', replies', cache'[KeyOf[h]], KeyOf[h], h)
                BY <1>1, <2>2, <4>3
            <4>5. load'[h] = "none" /\ pc'[h] # "idle"
                BY <2>1, <2>3
            <4> QED
                BY <3>1, <4>4, <4>5
        <3>2. CASE q # h
            <4>1. q \in warm /\ q \in Readers /\ q # r
                BY <1>3, <1>5, <2>2, <2>6, <3>2
            <4> QED
                BY <2>3, <2>6, <3>2, <4>1 DEF WarmServed
        <3> QED
            BY <3>1, <3>2
    <2> QED
        BY <1>5, <2>3, <2>5, <2>6, WarmStep
<1> QED
    BY <1>6, <1>7

LEMMA FailedWarm ==
    ASSUME Base, WarmServed, Base', NEW r \in Readers, InFlight(r), NEW a \in Answers,
           Settle(r, "failed", a), UNCHANGED <<cache, wire, replies>>
    PROVE  WarmServed'
<1>1. /\ warm' = warm
      /\ \A q \in Readers : /\ pc[q] # "idle" => pc'[q] # "idle"
                            /\ load'[q] = IF q = r THEN "failed" ELSE load[q]
    BY SettleFacts
<1>2. load[r] # "none"
    BY DEF InFlight
<1> QED
    BY <1>1, <1>2, QuietWarm

LEMMA StoredWarm ==
    ASSUME Base, Orderly, WarmServed, Base', NEW r \in Readers, InFlight(r), NEW a \in 0..MaxVersion,
           Settle(r, "stored", a), SendAway(Set(r, a)), UNCHANGED <<cache, replies>>
    PROVE  WarmServed'
<1>1. a \in Answers /\ warm \subseteq Readers
    BY MaxVersionNat DEF Answers, Values, Base, Types, TypeOK
<1>2. /\ warm' = warm
      /\ \A q \in Readers : /\ pc[q] # "idle" => pc'[q] # "idle"
                            /\ load'[q] = IF q = r THEN "stored" ELSE load[q]
    BY <1>1, SettleFacts
<1>3. load[r] # "none"
    BY DEF InFlight
<1>4. /\ wire' = Append(wire, Set(r, a)) /\ Set(r, a) \in Commands /\ wire \in Seq(Commands)
      /\ Set(r, a).op = "set" /\ Set(r, a).key = KeyOf[r]
    BY UpSends, SetIsCommand DEF Set, Base, Types
<1>5. \A k \in Coalesced : KeepsFed(k, Nobody, wire, replies, cache[k], wire', replies', cache'[k])
    BY <1>4, KeepsFedSent
<1>6. Holds(wire', Len(wire'), cache'[KeyOf[r]], KeyOf[r])
    BY <1>4, HoldsMore
<1>7. \A q \in Readers : KeyOf[q] \in Coalesced /\ load'[q] = "stored" =>
        load[q] = "stored" \/ Holds(wire', Len(wire'), cache'[KeyOf[q]], KeyOf[q])
    BY <1>2, <1>6
<1>8. \A q \in warm' : KeyOf[q] \in Coalesced =>
        load'[q] = "none" /\ pc'[q] # "idle" /\ q \in warm /\ q # Nobody
    BY <1>1, <1>2, <1>3, AssumedKeys DEF WarmServed
<1> QED
    BY <1>1, <1>2, <1>5, <1>7, <1>8, WarmStep

LEMMA ExecuteWarm == ASSUME Base, WarmServed, Base', Execute PROVE WarmServed'
<1>1. /\ wire # <<>> /\ wire' = Tail(wire) /\ UNCHANGED <<pc, load, warm>>
      /\ \A k \in Coalesced : cache'[k] = After(wire, cache[k], k)
      /\ wire \in Seq(Commands) /\ replies \in Seq(Replies) /\ warm \subseteq Readers
    BY ExecuteFacts DEF Base, Types, TypeOK
<1>2. ASSUME NEW k \in Coalesced
      PROVE  KeepsFed(k, Nobody, wire, replies, cache[k], wire', replies', cache'[k])
    <2>1. CASE replies' = replies
        BY <1>1, <2>1, LeftFed
    <2>2. CASE \E x \in Replies : /\ replies' = Append(replies, x) /\ Asks(wire, 1, x.to)
                                  /\ x.val = cache[KeyOf[x.to]]
        <3>1. PICK x \in Replies : /\ replies' = Append(replies, x) /\ Asks(wire, 1, x.to)
                                   /\ x.val = cache[KeyOf[x.to]]
            BY <2>2
        <3>2. KeepsFed(k, Nobody, wire, replies, cache[k], wire, replies', cache[k])
            BY <1>1, <3>1, ReplyFed
        <3>3. KeepsFed(k, Nobody, wire, replies', cache[k], Tail(wire), replies', After(wire, cache[k], k))
            BY <1>1, LeftFed
        <3> QED
            BY <1>1, <3>2, <3>3, KeepsFedTwice
    <2> QED
        BY <2>1, <2>2, ExecuteFacts
<1>3. \A q \in warm' : KeyOf[q] \in Coalesced =>
        load'[q] = "none" /\ pc'[q] # "idle" /\ q \in warm /\ q # Nobody
    BY <1>1, AssumedKeys DEF WarmServed
<1> QED
    BY <1>1, <1>2, <1>3, WarmStep

LEMMA OnCompletedWarm ==
    ASSUME Base, Orderly, WarmServed, Base', NEW k1 \in Keys, OnCompleted(k1)
    PROVE  WarmServed'
<1> DEFINE x == Del(k1, version)
<1>1. /\ UNCHANGED <<pc, load, cache, replies, warm>>
      /\ k1 \in Uncoalesced /\ wire' = Append(wire, x)
      /\ wire \in Seq(Commands) /\ warm \subseteq Readers
    BY UpSends DEF OnCompleted, readerVars, loadVars, histVars, Base, Types, TypeOK
<1>2. x \in Commands /\ x.op = "del"
    BY <1>1, DelIsCommand DEF Base, Types, TypeOK, Del
<1> HIDE DEF x
<1>3. \A k \in Coalesced : KeepsFed(k, Nobody, wire, replies, cache[k], wire', replies', cache'[k])
    BY <1>1, <1>2, KeepsFedSent
<1>4. \A q \in warm' : KeyOf[q] \in Coalesced =>
        load'[q] = "none" /\ pc'[q] # "idle" /\ q \in warm /\ q # Nobody
    BY <1>1, AssumedKeys DEF WarmServed
<1> QED
    BY <1>1, <1>3, <1>4, WarmStep

-----------------------------------------------------------------------------
(* The inductive invariant *)

LEMMA BaseStep == ASSUME Base, [Next]_vars PROVE Base'
<1>1. CASE \E r \in Readers : Arrive(r) \/ ReaderStep(r) \/ LoadStep(r)
    BY <1>1, ArriveBase, HitBase, JoinBase, StartLoadBase, DetailFoundBase,
       DetailWithoutEmbeddingBase, DetailThrewBase, QueryRunsBase, QueryReturnsBase,
       QueryFindsNoRowBase, QueryFailsBase DEF ReaderStep, LoadStep
<1>2. CASE \E k \in Keys : OnCompleted(k) \/ CacheLost(k)
    BY <1>2, OnCompletedBase, CacheLostBase
<1>3. CASE Execute \/ TableChanges \/ RedisDown \/ RedisBack
    BY <1>3, ExecuteBase, TableChangesBase, RedisDownBase, RedisBackBase
<1>4. CASE AllAnswered \/ UNCHANGED vars
    BY <1>4, StutterBase DEF AllAnswered
<1> QED
    BY <1>1, <1>2, <1>3, <1>4 DEF Next

\* Faults are counted and never forgotten.
LEMMA FaultsStay ==
    ASSUME Base, [Next]_vars, NEW f \in Kinds, faults'[f] = 0
    PROVE  faults[f] = 0
<1>1. CASE UNCHANGED faults
    BY <1>1
<1>2. ASSUME NEW kind \in Kinds, NEW max, Count(kind, max) PROVE faults[f] = 0
    BY <1>2, CountTypes DEF Base, Types
<1>3. UNCHANGED faults \/ \E kind \in Kinds, max \in Nat : Count(kind, max)
    <2>1. CASE \E r \in Readers : Arrive(r) \/ ReaderStep(r)
        BY <2>1 DEF Arrive, ReaderStep, Hit, Join, StartLoad, Load
    <2>2. CASE \E r \in Readers : LoadStep(r)
        <3>1. "query" \in Kinds /\ MaxQueryFailures \in Nat
            BY ReadAssumption DEF Kinds
        <3> QED
            BY <2>2, <3>1 DEF LoadStep, DetailFound, DetailWithoutEmbedding, DetailThrew, QueryRuns,
                              QueryReturns, QueryFindsNoRow, QueryFails
    <2>3. CASE \E k \in Keys : OnCompleted(k) \/ CacheLost(k)
        <3>1. "loss" \in Kinds /\ MaxCacheLosses \in Nat
            BY ReadAssumption DEF Kinds
        <3> QED
            BY <2>3, <3>1 DEF OnCompleted, CacheLost
    <2>4. CASE Execute \/ TableChanges \/ RedisDown \/ RedisBack
        <3>1. "outage" \in Kinds /\ MaxOutages \in Nat
            BY ReadAssumption DEF Kinds
        <3> QED
            BY <2>4, <3>1 DEF Execute, TableChanges, RedisDown, RedisBack
    <2>5. CASE AllAnswered \/ UNCHANGED vars
        BY <2>5 DEF AllAnswered, vars
    <2> QED
        BY <2>1, <2>2, <2>3, <2>4, <2>5 DEF Next
<1> QED
    BY <1>1, <1>2, <1>3

\* The loads that write: what they write is the newest value of the key.
LEMMA WritingLoads ==
    ASSUME Base, Orderly, NEW r \in Readers
    PROVE  /\ load[r] = "answering" =>
                /\ queried[r] \in 0..MaxVersion /\ queried[r] <= version /\ r \notin Unembedded
                /\ KeyOf[r] \in Coalesced => Newest(KeyOf[r], queried[r])
           /\ 0 \in 0..MaxVersion /\ 0 <= version
           /\ r \in Unembedded => Newest(KeyOf[r], 0)
<1>1. NewestKnown /\ ValuesInOrder
    BY DEF Orderly, ValuesInOrder
<1>2. load[r] = "answering" => /\ queried[r] \in 0..MaxVersion /\ queried[r] <= version
                               /\ r \notin Unembedded
    BY QueriedValue, MaxVersionNat DEF Base, Types, TypeOK, Loads, NoQuery
<1> QED
    BY <1>1, <1>2, ZeroIsValue, OrderFacts DEF NewestKnown

LEMMA OrderlyStep == ASSUME Base, Orderly, Base', [Next]_vars, Calm' PROVE Orderly'
<1>1. ASSUME NEW r \in Readers, Arrive(r) \/ ReaderStep(r) PROVE Orderly'
    BY <1>1, ArriveOrder, HitOrder, JoinOrder, StartLoadOrder DEF ReaderStep
<1>2. ASSUME NEW r \in Readers, DetailFound(r) \/ QueryRuns(r) PROVE Orderly'
    <2>1. UNCHANGED <<version, wire, replies, cache, floor, since, pc, answer, redisUp>>
        BY <1>2 DEF DetailFound, QueryRuns, connVars, histVars, readerVars
    <2>2. \A q \in Readers : load'[q] = "answering" =>
            (load[q] = "answering" /\ queried'[q] = queried[q]) \/ queried'[q] = version
        BY <1>2 DEF DetailFound, QueryRuns, Base, Types, TypeOK
    <2>3. version <= version'
        BY <2>1 DEF Base, Types, TypeOK
    <2> QED
        BY <2>1, <2>2, <2>3, QuietOrder
<1>3. ASSUME NEW r \in Readers, DetailWithoutEmbedding(r) PROVE Orderly'
    BY <1>3, StoredOrder, WritingLoads DEF DetailWithoutEmbedding, InFlight
<1>4. ASSUME NEW r \in Readers, QueryReturns(r) PROVE Orderly'
    BY <1>4, StoredOrder, WritingLoads DEF QueryReturns, InFlight
<1>5. ASSUME NEW r \in Readers, DetailThrew(r) PROVE Orderly'
    <2>1. answer[Helper[r]] \in Answers /\ answer[Helper[r]] < 0 /\ InFlight(r)
        BY <1>5, AssumedKeys DEF DetailThrew, InFlight, Base, Types, TypeOK, Loads, LoadOrder, Answers
    <2> QED
        BY <1>5, <2>1, FailedOrder DEF DetailThrew, connVars
<1>6. ASSUME NEW r \in Readers, QueryFindsNoRow(r) \/ QueryFails(r) PROVE Orderly'
    <2>1. Missing < 0 /\ Error < 0
        BY DEF Missing, Error
    <2> QED
        BY <1>6, <2>1, FailedOrder, ZeroIsValue DEF QueryFindsNoRow, QueryFails, InFlight, connVars
<1>7. ASSUME NEW r \in Readers, LoadStep(r) PROVE Orderly'
    BY <1>2, <1>3, <1>4, <1>5, <1>6, <1>7 DEF LoadStep
<1>8. ASSUME NEW k \in Keys, OnCompleted(k) \/ CacheLost(k) PROVE Orderly'
    BY <1>8, OnCompletedOrder, CacheLostOrder
<1>9. CASE TableChanges \/ AllAnswered \/ UNCHANGED vars
    <2>1. /\ UNCHANGED <<wire, replies, cache, floor, since, pc, answer, redisUp, load, queried>>
          /\ version' \in {version, version + 1}
        BY <1>9 DEF TableChanges, AllAnswered, vars, connVars, histVars, readerVars, loadVars
    <2>2. version <= version'
        BY <2>1 DEF Base, Types, TypeOK
    <2> QED
        BY <2>1, <2>2, QuietOrder
<1>10. CASE RedisDown
    <2>1. faults'["outage"] # 0
        BY <1>10, CountTypes DEF RedisDown, Kinds, Base, Types
    <2> QED
        BY <2>1 DEF Calm
<1>11. CASE RedisBack
    BY <1>11 DEF RedisBack, Orderly, OneOnTheWay
<1> QED
    BY <1>1, <1>7, <1>8, <1>9, <1>10, <1>11, ExecuteOrder DEF Next

LEMMA WarmServedStep ==
    ASSUME Base, Orderly, WarmServed, Base', [Next]_vars, Lossless'
    PROVE  WarmServed'
<1>1. ASSUME NEW r \in Readers, Arrive(r) \/ ReaderStep(r) PROVE WarmServed'
    BY <1>1, ArriveWarm, TakeWarm, StartLoadWarm DEF ReaderStep
<1>2. ASSUME NEW r \in Readers, DetailFound(r) \/ QueryRuns(r) PROVE WarmServed'
    <2>1. UNCHANGED <<wire, replies, cache, warm, pc>>
        BY <1>2 DEF DetailFound, QueryRuns, connVars, histVars, readerVars
    <2>2. \A q \in Readers : /\ load'[q] = "stored" => load[q] = "stored"
                             /\ load[q] = "none" => load'[q] = "none"
        BY <1>2 DEF DetailFound, QueryRuns, Base, Types, TypeOK
    <2> QED
        BY <2>1, <2>2, QuietWarm
<1>3. ASSUME NEW r \in Readers, DetailWithoutEmbedding(r) PROVE WarmServed'
    BY <1>3, StoredWarm, ZeroIsValue DEF DetailWithoutEmbedding, InFlight
<1>4. ASSUME NEW r \in Readers, QueryReturns(r) PROVE WarmServed'
    BY <1>4, StoredWarm, WritingLoads DEF QueryReturns, InFlight
<1>5. ASSUME NEW r \in Readers, DetailThrew(r) PROVE WarmServed'
    <2>1. answer[Helper[r]] \in Answers /\ InFlight(r)
        BY <1>5, AssumedKeys DEF DetailThrew, InFlight, Base, Types, TypeOK, Loads, LoadOrder, Answers
    <2> QED
        BY <1>5, <2>1, FailedWarm DEF DetailThrew, connVars
<1>6. ASSUME NEW r \in Readers, QueryFindsNoRow(r) \/ QueryFails(r) PROVE WarmServed'
    BY <1>6, FailedWarm, ZeroIsValue DEF QueryFindsNoRow, QueryFails, InFlight, connVars
<1>7. ASSUME NEW r \in Readers, LoadStep(r) PROVE WarmServed'
    BY <1>2, <1>3, <1>4, <1>5, <1>6, <1>7 DEF LoadStep
<1>8. ASSUME NEW k \in Keys, OnCompleted(k) PROVE WarmServed'
    BY <1>8, OnCompletedWarm
<1>9. ASSUME NEW k \in Keys, CacheLost(k) PROVE WarmServed'
    <2>1. faults'["loss"] # 0
        BY <1>9, CountTypes DEF CacheLost, Kinds, Base, Types
    <2> QED
        BY <2>1 DEF Lossless
<1>10. CASE TableChanges \/ AllAnswered \/ UNCHANGED vars
    <2>1. UNCHANGED <<wire, replies, cache, warm, pc, load>>
        BY <1>10 DEF TableChanges, AllAnswered, vars, connVars, histVars, readerVars, loadVars
    <2> QED
        BY <2>1, QuietWarm
<1>11. CASE RedisDown
    <2>1. faults'["outage"] # 0
        BY <1>11, CountTypes DEF RedisDown, Kinds, Base, Types
    <2> QED
        BY <2>1 DEF Lossless, Calm
<1>12. CASE RedisBack
    BY <1>12 DEF RedisBack, Orderly, OneOnTheWay
<1> QED
    BY <1>1, <1>7, <1>8, <1>9, <1>10, <1>11, <1>12, ExecuteWarm DEF Next

LEMMA InitBase == ASSUME Init PROVE Base
<1>1. TypeOK
    BY MaxVersionNat DEF Init, TypeOK, Values, Missing, Error
<1>2. Types
    BY <1>1, EmptySeq DEF Init, Types
<1>3. MapIsLoad
    BY AssumedKeys DEF Init, MapIsLoad, InFlight
<1>4. LoadOrder /\ KeysAgree /\ NoQuery
    BY AssumedKeys DEF Init, LoadOrder, KeysAgree, NoQuery
<1> QED
    BY <1>2, <1>3, <1>4 DEF Base, Loads

LEMMA InitOrderly == ASSUME Init PROVE Orderly /\ WarmServed
<1>1. /\ wire = <<>> /\ replies = <<>> /\ redisUp /\ version = 0 /\ warm = {}
      /\ \A r \in Readers : pc[r] = "idle" /\ load[r] = "none" /\ since[r] = NoValue
      /\ \A k \in Keys : cache[k] = NoValue /\ floor[k] = NoValue
    BY DEF Init
<1>2. /\ 1..Len(wire) = {} /\ 1..Len(replies) = {}
    BY <1>1
<1>3. OneOnTheWay
    BY <1>1, <1>2 DEF OneOnTheWay, OneEach
<1>4. NoValue <= NoValue /\ NoValue <= 0
    BY DEF NoValue
<1>5. \A k \in Coalesced : /\ KeyInOrder(wire, replies, cache[k], floor[k], k)
                           /\ Newest(k, 0)
    BY <1>1, <1>2, <1>4 DEF KeyInOrder, Rising, Covers, Behind, Newest, AtMost, Coalesced
<1>6. NewestKnown
    BY <1>1, <1>5, AssumedKeys DEF NewestKnown, Coalesced
<1>7. ReadersServed
    BY <1>1, <1>2, <1>4 DEF ReadersServed, Serves, Coalesced
<1>8. WarmServed
    BY <1>1 DEF WarmServed
<1> QED
    BY <1>3, <1>5, <1>6, <1>7, <1>8 DEF Orderly, ValuesInOrder

\* The invariant holds in every state that can be reached.
THEOREM Invariance == Spec => []IInv
<1>1. Init => IInv
    BY InitBase, InitOrderly DEF IInv
<1>2. IInv /\ [Next]_vars => IInv'
    <2> SUFFICES ASSUME IInv, [Next]_vars PROVE IInv'
        OBVIOUS
    <2>1. Base /\ Base'
        BY BaseStep DEF IInv
    <2>2. Calm' => Calm /\ (Lossless' => Lossless)
        BY <2>1, FaultsStay DEF Calm, Lossless, Kinds
    <2>3. Lossless' => Calm'
        BY DEF Lossless
    <2>4. Calm' => Orderly'
        BY <2>1, <2>2, OrderlyStep DEF IInv
    <2>5. Lossless' => WarmServed'
        BY <2>1, <2>2, <2>3, WarmServedStep DEF IInv
    <2> QED
        BY <2>1, <2>4, <2>5 DEF IInv
<1> QED
    BY <1>1, <1>2, PTL DEF Spec

\* Every variable keeps its type.
THEOREM TypeCorrect == Spec => []TypeOK
<1>1. IInv => TypeOK
    BY DEF IInv, Base, Types
<1> QED
    BY <1>1, Invariance, PTL

\* The maps of pending loads (trends-query.service.ts:19-23) hold exactly the loads in
\* flight, through every failure, outage and lost value.
THEOREM MapIsLoadHolds == Spec => []MapIsLoad
<1>1. IInv => MapIsLoad
    BY DEF IInv, Base, Loads
<1> QED
    BY <1>1, Invariance, PTL

\* Without an outage no reader of a coalesced key is answered with something older
\* than what was answered before it came.
THEOREM NeverGoesBackHolds == Spec => []NeverGoesBack
<1>1. IInv => NeverGoesBack
    BY AssumedKeys DEF IInv, Orderly, ValuesInOrder, ReadersServed, Calm, Coalesced, NeverGoesBack
<1> QED
    BY <1>1, Invariance, PTL

\* Without an outage or a lost value who comes after a stored load starts none.
THEOREM WarmKeyHolds == Spec => []WarmKeyIsHit
<1>1. IInv => WarmKeyIsHit
    BY AssumedKeys DEF IInv, WarmServed, Lossless, Calm, Coalesced, WarmKeyIsHit, Base, Types, TypeOK
<1> QED
    BY <1>1, Invariance, PTL

=============================================================================
