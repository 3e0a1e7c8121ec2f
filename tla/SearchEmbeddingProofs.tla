------------------------ MODULE SearchEmbeddingProofs ------------------------
(***************************************************************************)
(* Proofs about SearchEmbedding, for every set of requests, keywords and   *)
(* processes, every number of permits and rounds, and every number of      *)
(* faults.                                                                 *)
(*                                                                         *)
(* The argument: a connection lists each of its requests once, and which   *)
(* list a request is on follows from its step (Lines).  An owner keeps its *)
(* lock until the lock is lost (OwnerHasLock), and without an outage or a  *)
(* crash every lock has an owner that will release it (LockHasOwner).      *)
(* That one call serves a keyword rests on the order of one connection:    *)
(* whoever missed a vector that is there by now is ahead of the owner that *)
(* stored it, and tries or looks at the lock before it is gone             *)
(* (MissedIsAhead).                                                        *)
(***************************************************************************)
EXTENDS SearchEmbedding, FiniteSetTheorems, SequenceTheorems, TLAPS

\* s lists every member of S, once.
Lists(s, S) ==
    /\ \A i \in 1..Len(s) : s[i] \in S
    /\ \A i, j \in 1..Len(s) : s[i] = s[j] => i = j
    /\ \A x \in S : \E i \in 1..Len(s) : s[i] = x

Before(s, x, y) == \E i, j \in 1..Len(s) : i < j /\ s[i] = x /\ s[j] = y

Sent(p) ==
    {r \in Requests : ProcessOf[r] = p /\ pc[r] \in Commands /\ result[r] = "pending"}

Replying(p) ==
    {r \in Requests : ProcessOf[r] = p /\ pc[r] \in Commands /\ result[r] # "pending"}

\* A connection holds the requests whose command is not executed, and those
\* whose reply is not handled.
Lines ==
    \A p \in Processes : Lists(wire[p], Sent(p)) /\ Lists(replies[p], Replying(p))

Calling(p) == {r \in Requests : ProcessOf[r] = p /\ pc[r] = "calling"}

\* Every permit is free or held by a call.
PermitsCounted == \A p \in Processes : permits[p] + Cardinality(Calling(p)) = Permits

\* Only the last round ends the wait.
RoundsLeft == \A r \in Requests : pc[r] # "done" => polls[r] < MaxPolls

Calm == faults["outage"] = 0 /\ faults["crash"] = 0

\* Only a broken connection makes a command reject.
NothingRejected == Calm => redisUp /\ \A r \in Requests : result[r] # "error"

\* Without outage and crash a lock has an owner that has yet to release it.
LockHasOwner ==
    Calm => \A k \in Keys : lock[k] # NoOwner => KeyOf[lock[k]] = k /\ Owner(lock[k])

Serene == Calm /\ faults["lock"] = 0 /\ faults["cache"] = 0

NothingExpired == Serene => expired = {}

OneProcess == \A r, q \in Requests : ProcessOf[r] = ProcessOf[q]

\* q has found no vector, and its answer is on the way.
HasMissed(q) == pc[q] \in {"reading", "polling"} /\ result[q] = "no"

\* q has found no vector, and its look at the lock is on the way.
LooksAtLock(q) == pc[q] \in {"locking", "checking"} /\ result[q] = "pending"

AheadOf(q, r) ==
    /\ r \in Requests
    /\ \/ /\ pc[r] = "storing" /\ result[r] # "pending"
          /\ HasMissed(q) => Before(replies[ProcessOf[q]], q, r)
       \/ /\ pc[r] = "releasing" /\ result[r] = "pending"
          /\ LooksAtLock(q) /\ Before(wire[ProcessOf[q]], q, r)

\* Who missed a vector that is there by now is ahead of the owner that stored it.
MissedIsAhead ==
    OneProcess /\ Serene =>
        \A q \in Requests :
            /\ HasMissed(q) \/ LooksAtLock(q)
            /\ cache[KeyOf[q]]
            => AheadOf(q, lock[KeyOf[q]])

NoFault == Serene /\ faults["api"] = 0

\* Without faults an owner that has stored its vector, or releases, left it there.
Stored ==
    NoFault => \A r \in Requests :
        (pc[r] = "storing" /\ result[r] # "pending") \/ pc[r] = "releasing" => cache[KeyOf[r]]

\* Without faults a waiter waits for something.
WaitsForSomething ==
    NoFault => \A r \in Requests :
        pc[r] \in {"sleeping", "polling", "checking"} \/ (pc[r] = "locking" /\ result[r] = "no")
        => cache[KeyOf[r]] \/ lock[KeyOf[r]] # NoOwner

\* Without faults nobody has called for a keyword before its owner does.
CallsCounted ==
    OneProcess /\ NoFault =>
        \A k \in Keys :
            /\ calls[k] <= 1
            /\ lock[k] = NoOwner /\ ~cache[k] => calls[k] = 0
            /\ lock[k] # NoOwner /\ pc[lock[k]] \in {"locking", "queued"} => calls[k] = 0

Base == TypeOK /\ Lines /\ PermitsCounted /\ RoundsLeft

Ownership == OwnerHasLock /\ NothingRejected /\ LockHasOwner /\ NothingExpired

Sharing == MissedIsAhead /\ Stored /\ WaitsForSomething /\ CallsCounted

IInv == Base /\ Ownership /\ Sharing

-----------------------------------------------------------------------------
(* Lemmas about lists *)

\* The empty sequence lists nobody.
LEMMA ListsNobody == Lists(<<>>, {})
BY DEF Lists

\* Who joins a list is on it.
LEMMA ListsJoined ==
    ASSUME NEW R, NEW s \in Seq(R), NEW S, NEW x \in R, Lists(s, S), x \notin S
    PROVE  Lists(Append(s, x), S \cup {x})
<1> DEFINE t == Append(s, x)
<1>1. /\ Len(t) = Len(s) + 1
      /\ \A i \in 1..Len(s) : t[i] = s[i]
      /\ t[Len(t)] = x
      /\ Len(s) \in Nat
    OBVIOUS
<1> HIDE DEF t
<1>2. Lists(t, S \cup {x})
    BY <1>1 DEF Lists
<1> QED
    BY <1>2 DEF t

\* Who leaves a list at its head is no longer on it.
LEMMA ListsLeft ==
    ASSUME NEW R, NEW s \in Seq(R), NEW S, Lists(s, S), s # <<>>
    PROVE  Head(s) \in S /\ Lists(Tail(s), S \ {Head(s)})
<1> DEFINE t == Tail(s)
<1>1. /\ Len(s) \in Nat \ {0}
      /\ Len(t) = Len(s) - 1
      /\ \A i \in 1..Len(t) : t[i] = s[i + 1]
      /\ Head(s) = s[1]
    OBVIOUS
<1> HIDE DEF t
<1>2. Head(s) \in S
    BY <1>1 DEF Lists
<1>3. \A i \in 1..Len(t) : t[i] \in S \ {Head(s)}
    BY <1>1 DEF Lists
<1>4. ASSUME NEW i \in 1..Len(t), NEW j \in 1..Len(t), t[i] = t[j] PROVE i = j
    <2>1. i + 1 \in 1..Len(s) /\ j + 1 \in 1..Len(s) /\ s[i + 1] = s[j + 1]
        BY <1>1, <1>4
    <2>2. i + 1 = j + 1
        BY <2>1 DEF Lists
    <2> QED
        BY <2>2, <1>1
<1>5. ASSUME NEW y \in S \ {Head(s)} PROVE \E i \in 1..Len(t) : t[i] = y
    <2>1. PICK j \in 1..Len(s) : s[j] = y
        BY DEF Lists
    <2>2. j # 1 /\ j - 1 \in 1..Len(t) /\ t[j - 1] = y
        BY <1>1, <2>1
    <2> QED
        BY <2>2
<1> QED
    BY <1>2, <1>3, <1>4, <1>5 DEF Lists, t

\* One list behind the other.
LEMMA ListsJoint ==
    ASSUME NEW R, NEW s \in Seq(R), NEW t \in Seq(R), NEW S, NEW T,
           Lists(s, S), Lists(t, T), S \cap T = {}
    PROVE  Lists(s \o t, S \cup T)
<1> DEFINE u == s \o t
<1>1. /\ Len(s) \in Nat /\ Len(t) \in Nat
      /\ Len(u) = Len(s) + Len(t)
      /\ \A i \in 1..Len(u) : u[i] = IF i <= Len(s) THEN s[i] ELSE t[i - Len(s)]
    OBVIOUS
<1> HIDE DEF u
<1>2. \A i \in 1..Len(u) :
        \/ i \in 1..Len(s) /\ u[i] = s[i] /\ u[i] \in S
        \/ i - Len(s) \in 1..Len(t) /\ u[i] = t[i - Len(s)] /\ u[i] \in T
    BY <1>1 DEF Lists
<1>3. ASSUME NEW i \in 1..Len(u), NEW j \in 1..Len(u), u[i] = u[j] PROVE i = j
    <2>1. CASE u[i] \in S
        BY <1>1, <1>2, <1>3, <2>1 DEF Lists
    <2>2. CASE u[i] \in T
        <3>1. /\ i - Len(s) \in 1..Len(t) /\ j - Len(s) \in 1..Len(t)
              /\ t[i - Len(s)] = t[j - Len(s)]
            BY <1>2, <1>3, <2>2
        <3>2. i - Len(s) = j - Len(s)
            BY <3>1 DEF Lists
        <3> QED
            BY <3>2, <1>1
    <2> QED
        BY <1>2, <2>1, <2>2
<1>4. ASSUME NEW x \in S PROVE \E i \in 1..Len(u) : u[i] = x
    <2>1. PICK i \in 1..Len(s) : s[i] = x
        BY DEF Lists
    <2>2. i \in 1..Len(u) /\ u[i] = x
        BY <1>1, <2>1
    <2> QED
        BY <2>2
<1>5. ASSUME NEW x \in T PROVE \E i \in 1..Len(u) : u[i] = x
    <2>1. PICK i \in 1..Len(t) : t[i] = x
        BY DEF Lists
    <2> DEFINE j == i + Len(s)
    <2>2. j \in 1..Len(u) /\ ~(j <= Len(s)) /\ j - Len(s) = i
        BY <1>1
    <2>3. u[j] = x
        BY <1>1, <2>1, <2>2
    <2> QED
        BY <2>2, <2>3
<1> QED
    BY <1>2, <1>3, <1>4, <1>5 DEF Lists, u

\* Nobody is ahead of the head.
LEMMA NobodyBeforeHead ==
    ASSUME NEW R, NEW s \in Seq(R), NEW S, Lists(s, S), s # <<>>, NEW x
    PROVE  ~Before(s, x, Head(s))
<1>1. Len(s) \in Nat \ {0} /\ Head(s) = s[1]
    OBVIOUS
<1> QED
    BY <1>1 DEF Lists, Before

\* The rest keeps its order when the head leaves,
LEMMA BeforeInTail ==
    ASSUME NEW R, NEW s \in Seq(R), s # <<>>, NEW x, NEW y, Before(s, x, y), x # Head(s)
    PROVE  Before(Tail(s), x, y)
<1> DEFINE t == Tail(s)
<1>1. /\ Len(s) \in Nat \ {0}
      /\ Len(t) = Len(s) - 1
      /\ \A i \in 1..Len(t) : t[i] = s[i + 1]
      /\ Head(s) = s[1]
    OBVIOUS
<1>2. PICK i \in 1..Len(s), j \in 1..Len(s) : i < j /\ s[i] = x /\ s[j] = y
    BY DEF Before
<1> HIDE DEF t
<1>3. /\ i # 1 /\ i - 1 \in 1..Len(t) /\ j - 1 \in 1..Len(t) /\ i - 1 < j - 1
      /\ t[i - 1] = x /\ t[j - 1] = y
    BY <1>1, <1>2
<1> QED
    BY <1>3 DEF Before, t

\* and when somebody joins,
LEMMA BeforeInJoined ==
    ASSUME NEW R, NEW s \in Seq(R), NEW z \in R, NEW x, NEW y, Before(s, x, y)
    PROVE  Before(Append(s, z), x, y)
<1> DEFINE t == Append(s, z)
<1>1. Len(s) \in Nat /\ Len(t) = Len(s) + 1 /\ \A i \in 1..Len(s) : t[i] = s[i]
    OBVIOUS
<1> HIDE DEF t
<1>2. Before(t, x, y)
    BY <1>1 DEF Before
<1> QED
    BY <1>2 DEF t

\* who is behind everybody.
LEMMA BeforeLast ==
    ASSUME NEW R, NEW s \in Seq(R), NEW S, Lists(s, S), NEW x \in S, NEW z \in R
    PROVE  Before(Append(s, z), x, z)
<1> DEFINE t == Append(s, z)
<1>1. /\ Len(s) \in Nat /\ Len(t) = Len(s) + 1
      /\ \A i \in 1..Len(s) : t[i] = s[i]
      /\ t[Len(t)] = z
    OBVIOUS
<1>2. PICK i \in 1..Len(s) : s[i] = x
    BY DEF Lists
<1> HIDE DEF t
<1>3. i \in 1..Len(t) /\ Len(t) \in 1..Len(t) /\ i < Len(t) /\ t[i] = x
    BY <1>1, <1>2
<1>4. Before(t, x, z)
    BY <1>1, <1>3 DEF Before
<1> QED
    BY <1>4 DEF t

-----------------------------------------------------------------------------
(* What a step does to a connection *)

\* The head of the wire waits for its reply, and is on no other list.
LEMMA HeadIsSent ==
    ASSUME TypeOK, Lines, NEW r \in Requests, NEW c \in Commands, AtRedis(r, c)
    PROVE  ProcessOf[r] \in Processes /\ r \in Sent(ProcessOf[r]) /\ result[r] = "pending"
<1>1. ProcessOf[r] \in Processes
    BY EmbeddingAssumption
<1>2. Head(wire[ProcessOf[r]]) \in Sent(ProcessOf[r])
    BY <1>1, ListsLeft DEF TypeOK, Lines, AtRedis
<1> QED
    BY <1>1, <1>2 DEF AtRedis, Sent

\* The head of the replies has its reply.
LEMMA HeadIsReplying ==
    ASSUME TypeOK, Lines, NEW r \in Requests, NEW c \in Commands, Replied(r, c)
    PROVE  ProcessOf[r] \in Processes /\ r \in Replying(ProcessOf[r]) /\ result[r] # "pending"
<1>1. ProcessOf[r] \in Processes
    BY EmbeddingAssumption
<1>2. Head(replies[ProcessOf[r]]) \in Replying(ProcessOf[r])
    BY <1>1, ListsLeft DEF TypeOK, Lines, Replied
<1> QED
    BY <1>1, <1>2 DEF Replied, Replying

\* An executed command moves from the wire to the replies.
LEMMA ExecutedLines ==
    ASSUME TypeOK, Lines, NEW r \in Requests, NEW c \in Commands, NEW outcome \in {"yes", "no"},
           AtRedis(r, c), Executed(r, outcome), pc' = pc
    PROVE  /\ Lines'
           /\ result' \in [Requests -> Results]
           /\ wire' \in [Processes -> Seq(Requests)]
           /\ replies' \in [Processes -> Seq(Requests)]
<1> DEFINE P == ProcessOf[r]
<1>1. P \in Processes /\ r \in Sent(P) /\ result[r] = "pending"
    BY HeadIsSent
<1>2. /\ wire[P] \in Seq(Requests) /\ wire[P] # <<>> /\ Head(wire[P]) = r
      /\ replies[P] \in Seq(Requests)
      /\ Tail(wire[P]) \in Seq(Requests)
      /\ Append(replies[P], r) \in Seq(Requests)
    BY <1>1 DEF TypeOK, AtRedis
<1>3. /\ wire' = [wire EXCEPT ![P] = Tail(wire[P])]
      /\ replies' = [replies EXCEPT ![P] = Append(replies[P], r)]
      /\ result' = [result EXCEPT ![r] = outcome]
    BY DEF Executed
<1>4. result' \in [Requests -> Results]
    BY <1>3 DEF TypeOK, Results
<1>5. /\ wire' \in [Processes -> Seq(Requests)]
      /\ replies' \in [Processes -> Seq(Requests)]
    BY <1>2, <1>3 DEF TypeOK
<1>6. Sent(P)' = Sent(P) \ {r} /\ Replying(P)' = Replying(P) \cup {r}
    BY <1>1, <1>3 DEF TypeOK, Sent, Replying
<1>7. r \notin Replying(P)
    BY <1>1 DEF Replying
<1>8. Lists(wire[P], Sent(P)) /\ Lists(replies[P], Replying(P))
    BY <1>1 DEF Lines
<1>9. Lists(Tail(wire[P]), Sent(P) \ {r})
    BY <1>2, <1>8, ListsLeft
<1>10. Lists(Append(replies[P], r), Replying(P) \cup {r})
    BY <1>2, <1>7, <1>8, ListsJoined
<1>11. wire'[P] = Tail(wire[P]) /\ replies'[P] = Append(replies[P], r)
    BY <1>1, <1>3 DEF TypeOK
<1>12. ASSUME NEW p \in Processes, p # P
       PROVE  /\ Sent(p)' = Sent(p) /\ Replying(p)' = Replying(p)
              /\ wire'[p] = wire[p] /\ replies'[p] = replies[p]
    BY <1>1, <1>3, <1>12 DEF TypeOK, Sent, Replying
<1> HIDE DEF P
<1>13. Lines'
    BY <1>6, <1>9, <1>10, <1>11, <1>12 DEF Lines
<1> QED
    BY <1>4, <1>5, <1>13

\* A command goes on the wire, or its rejection to the replies.
LEMMA SendLines ==
    ASSUME TypeOK, Lines, NEW r \in Requests, NEW command \in Commands,
           NEW out \in Seq(Requests),
           Lists(out, Replying(ProcessOf[r]) \ {r}),
           r \notin Sent(ProcessOf[r]),
           Send(r, command, out)
    PROVE  /\ Lines'
           /\ pc' \in [Requests -> Steps]
           /\ result' \in [Requests -> Results]
           /\ wire' \in [Processes -> Seq(Requests)]
           /\ replies' \in [Processes -> Seq(Requests)]
<1> DEFINE P == ProcessOf[r]
<1>1. P \in Processes
    BY EmbeddingAssumption
<1>2. /\ wire[P] \in Seq(Requests) /\ Append(wire[P], r) \in Seq(Requests)
      /\ Append(out, r) \in Seq(Requests)
    BY <1>1 DEF TypeOK
<1>3. pc' = [pc EXCEPT ![r] = command] /\ command \in Steps
    BY DEF Send, Steps
<1>4. Lists(wire[P], Sent(P))
    BY <1>1 DEF Lines
<1>5. CASE redisUp
    <2>1. /\ result' = [result EXCEPT ![r] = "pending"]
          /\ wire' = [wire EXCEPT ![P] = Append(wire[P], r)]
          /\ replies' = [replies EXCEPT ![P] = out]
        BY <1>5 DEF Send
    <2>2. Sent(P)' = Sent(P) \cup {r} /\ Replying(P)' = Replying(P) \ {r}
        BY <1>3, <2>1 DEF TypeOK, Sent, Replying
    <2>3. Lists(Append(wire[P], r), Sent(P) \cup {r})
        BY <1>2, <1>4, ListsJoined
    <2>4. wire'[P] = Append(wire[P], r) /\ replies'[P] = out
        BY <1>1, <2>1 DEF TypeOK
    <2>5. ASSUME NEW p \in Processes, p # P
          PROVE  /\ Sent(p)' = Sent(p) /\ Replying(p)' = Replying(p)
                 /\ wire'[p] = wire[p] /\ replies'[p] = replies[p]
        BY <1>3, <2>1, <2>5 DEF TypeOK, Sent, Replying
    <2>6. /\ result' \in [Requests -> Results]
          /\ wire' \in [Processes -> Seq(Requests)]
          /\ replies' \in [Processes -> Seq(Requests)]
        BY <1>2, <2>1 DEF TypeOK, Results
    <2>7. Lines'
        BY <2>2, <2>3, <2>4, <2>5 DEF Lines
    <2> QED
        BY <1>3, <2>6, <2>7 DEF TypeOK
<1>6. CASE ~redisUp
    <2>1. /\ result' = [result EXCEPT ![r] = "error"]
          /\ wire' = wire
          /\ replies' = [replies EXCEPT ![P] = Append(out, r)]
        BY <1>6 DEF Send
    <2>2. Sent(P)' = Sent(P) /\ Replying(P)' = (Replying(P) \ {r}) \cup {r}
        BY <1>3, <2>1 DEF TypeOK, Sent, Replying
    <2>3. Lists(Append(out, r), (Replying(P) \ {r}) \cup {r})
        BY <1>2, ListsJoined
    <2>4. wire'[P] = wire[P] /\ replies'[P] = Append(out, r)
        BY <1>1, <2>1 DEF TypeOK
    <2>5. ASSUME NEW p \in Processes, p # P
          PROVE  /\ Sent(p)' = Sent(p) /\ Replying(p)' = Replying(p)
                 /\ wire'[p] = wire[p] /\ replies'[p] = replies[p]
        BY <1>3, <2>1, <2>5 DEF TypeOK, Sent, Replying
    <2>6. /\ result' \in [Requests -> Results]
          /\ wire' \in [Processes -> Seq(Requests)]
          /\ replies' \in [Processes -> Seq(Requests)]
        BY <1>2, <2>1 DEF TypeOK, Results
    <2>7. Lines'
        <3>1. ASSUME NEW p \in Processes
              PROVE  Lists(wire'[p], Sent(p)') /\ Lists(replies'[p], Replying(p)')
            <4>1. CASE p # P
                BY <2>5, <4>1 DEF Lines
            <4>2. CASE p = P
                BY <1>4, <2>2, <2>3, <2>4, <4>2
            <4> QED
                BY <4>1, <4>2
        <3>2. Lines' <=> \A p \in Processes : /\ Lists(wire'[p], Sent(p)')
                                             /\ Lists(replies'[p], Replying(p)')
            BY DEF Lines, Lists, Sent, Replying
        <3> QED
            BY <3>1, <3>2
    <2> QED
        BY <1>3, <2>6, <2>7 DEF TypeOK
<1> QED
    BY <1>5, <1>6

\* A request that waits for no reply sends its command,
LEMMA SendNewLines ==
    ASSUME TypeOK, Lines, NEW r \in Requests, pc[r] \notin Commands,
           NEW command \in Commands, SendNew(r, command)
    PROVE  /\ Lines'
           /\ pc' \in [Requests -> Steps]
           /\ result' \in [Requests -> Results]
           /\ wire' \in [Processes -> Seq(Requests)]
           /\ replies' \in [Processes -> Seq(Requests)]
<1> DEFINE P == ProcessOf[r]
<1>1. P \in Processes
    BY EmbeddingAssumption
<1>2. r \notin Sent(P) /\ Replying(P) \ {r} = Replying(P)
    BY DEF Sent, Replying
<1>3. replies[P] \in Seq(Requests) /\ Lists(replies[P], Replying(P))
    BY <1>1 DEF TypeOK, Lines
<1>4. Lists(replies[P], Replying(P) \ {r})
    BY <1>2, <1>3
<1> QED
    BY <1>2, <1>3, <1>4, SendLines DEF SendNew

\* and one whose reply is handled its next command.
LEMMA SendNextLines ==
    ASSUME TypeOK, Lines, NEW r \in Requests, NEW c \in Commands, Replied(r, c),
           NEW command \in Commands, SendNext(r, command)
    PROVE  /\ Lines'
           /\ pc' \in [Requests -> Steps]
           /\ result' \in [Requests -> Results]
           /\ wire' \in [Processes -> Seq(Requests)]
           /\ replies' \in [Processes -> Seq(Requests)]
<1> DEFINE P == ProcessOf[r]
<1>1. P \in Processes /\ r \in Replying(P) /\ result[r] # "pending"
    BY HeadIsReplying
<1>2. r \notin Sent(P)
    BY <1>1 DEF Sent
<1>3. replies[P] \in Seq(Requests) /\ Lists(replies[P], Replying(P))
    BY <1>1 DEF TypeOK, Lines
<1>4. replies[P] # <<>> /\ Head(replies[P]) = r
    BY DEF Replied
<1>5. Lists(Tail(replies[P]), Replying(P) \ {r}) /\ Tail(replies[P]) \in Seq(Requests)
    BY <1>3, <1>4, ListsLeft
<1> QED
    BY <1>2, <1>5, SendLines DEF SendNext

\* A request whose reply is handled leaves the connection.
LEMMA GoOnLines ==
    ASSUME TypeOK, Lines, NEW r \in Requests, NEW c \in Commands, Replied(r, c),
           NEW step \in Steps \ Commands, GoOn(r, step)
    PROVE  /\ Lines'
           /\ pc' \in [Requests -> Steps]
           /\ result' \in [Requests -> Results]
           /\ wire' \in [Processes -> Seq(Requests)]
           /\ replies' \in [Processes -> Seq(Requests)]
<1> DEFINE P == ProcessOf[r]
<1>1. P \in Processes /\ r \in Replying(P) /\ result[r] # "pending"
    BY HeadIsReplying
<1>2. replies[P] \in Seq(Requests) /\ Lists(replies[P], Replying(P))
    BY <1>1 DEF TypeOK, Lines
<1>3. replies[P] # <<>> /\ Head(replies[P]) = r
    BY DEF Replied
<1>4. Lists(Tail(replies[P]), Replying(P) \ {r}) /\ Tail(replies[P]) \in Seq(Requests)
    BY <1>2, <1>3, ListsLeft
<1>5. /\ pc' = [pc EXCEPT ![r] = step]
      /\ result' = [result EXCEPT ![r] = "pending"]
      /\ replies' = [replies EXCEPT ![P] = Tail(replies[P])]
      /\ wire' = wire
    BY DEF GoOn
<1>6. /\ pc' \in [Requests -> Steps]
      /\ result' \in [Requests -> Results]
      /\ wire' \in [Processes -> Seq(Requests)]
      /\ replies' \in [Processes -> Seq(Requests)]
    BY <1>4, <1>5 DEF TypeOK, Results
<1>7. Sent(P)' = Sent(P) /\ Replying(P)' = Replying(P) \ {r}
    BY <1>1, <1>5 DEF TypeOK, Sent, Replying
<1>8. replies'[P] = Tail(replies[P])
    BY <1>1, <1>5 DEF TypeOK
<1>9. ASSUME NEW p \in Processes, p # P
      PROVE  /\ Sent(p)' = Sent(p) /\ Replying(p)' = Replying(p)
             /\ replies'[p] = replies[p]
    BY <1>1, <1>5, <1>9 DEF TypeOK, Sent, Replying
<1>10. Lines'
    BY <1>4, <1>5, <1>7, <1>8, <1>9 DEF Lines
<1> QED
    BY <1>6, <1>10

\* A request that is on no list stays on none.
LEMMA QuietLines ==
    ASSUME TypeOK, Lines, NEW r \in Requests, pc[r] \notin Commands,
           NEW step \in Steps \ Commands, pc' = [pc EXCEPT ![r] = step], UNCHANGED connVars
    PROVE  Lines'
<1>1. \A p \in Processes : Sent(p)' = Sent(p) /\ Replying(p)' = Replying(p)
    BY DEF TypeOK, Sent, Replying, connVars
<1> QED
    BY <1>1 DEF Lines, connVars

\* A step that leaves the requests alone leaves the connections alone.
LEMMA SameLines ==
    ASSUME Lines, UNCHANGED <<pc, connVars>>
    PROVE  Lines'
BY DEF Lines, Lists, Sent, Replying, connVars

\* The replies to come behind the replies there: everybody's command rejects.
LEMMA RedisDownLines ==
    ASSUME TypeOK, Lines, RedisDown
    PROVE  /\ Lines'
           /\ result' \in [Requests -> Results]
           /\ wire' \in [Processes -> Seq(Requests)]
           /\ replies' \in [Processes -> Seq(Requests)]
<1>1. /\ replies' = [p \in Processes |-> replies[p] \o wire[p]]
      /\ wire' = [p \in Processes |-> <<>>]
      /\ result' = [r \in Requests |-> IF pc[r] \in Commands THEN "error" ELSE result[r]]
      /\ pc' = pc
    BY DEF RedisDown
<1>2. \A p \in Processes :
        /\ replies[p] \in Seq(Requests) /\ wire[p] \in Seq(Requests)
        /\ replies[p] \o wire[p] \in Seq(Requests)
        /\ <<>> \in Seq(Requests)
    BY DEF TypeOK
<1>3. /\ result' \in [Requests -> Results]
      /\ wire' \in [Processes -> Seq(Requests)]
      /\ replies' \in [Processes -> Seq(Requests)]
    BY <1>1, <1>2 DEF TypeOK, Results
<1>4. ASSUME NEW p \in Processes
      PROVE  Lists(wire'[p], Sent(p)') /\ Lists(replies'[p], Replying(p)')
    <2>1. Sent(p)' = {} /\ Replying(p)' = Replying(p) \cup Sent(p)
        BY <1>1 DEF TypeOK, Sent, Replying
    <2>2. Lists(wire[p], Sent(p)) /\ Lists(replies[p], Replying(p))
        BY DEF Lines
    <2>3. Replying(p) \cap Sent(p) = {}
        BY DEF Sent, Replying
    <2>4. Lists(replies[p] \o wire[p], Replying(p) \cup Sent(p))
        BY <1>2, <2>2, <2>3, ListsJoint
    <2> QED
        BY <1>1, <2>1, <2>4, ListsNobody
<1> QED
    BY <1>3, <1>4 DEF Lines

\* A dead process has no connection, the others keep theirs.
LEMMA CrashLines ==
    ASSUME TypeOK, Lines, NEW q \in Processes, Crash(q)
    PROVE  /\ Lines'
           /\ pc' \in [Requests -> Steps]
           /\ result' \in [Requests -> Results]
           /\ wire' \in [Processes -> Seq(Requests)]
           /\ replies' \in [Processes -> Seq(Requests)]
<1>1. /\ pc' = [r \in Requests |->
                  IF ProcessOf[r] = q /\ pc[r] # "idle" THEN "done" ELSE pc[r]]
      /\ result' = [r \in Requests |-> IF ProcessOf[r] = q THEN "pending" ELSE result[r]]
      /\ wire' = [wire EXCEPT ![q] = <<>>]
      /\ replies' = [replies EXCEPT ![q] = <<>>]
    BY DEF Crash
<1>2. /\ pc' \in [Requests -> Steps]
      /\ result' \in [Requests -> Results]
    BY <1>1 DEF TypeOK, Steps, Results
<1>3. /\ wire' \in [Processes -> Seq(Requests)]
      /\ replies' \in [Processes -> Seq(Requests)]
    BY <1>1 DEF TypeOK
<1>4. ASSUME NEW p \in Processes
      PROVE  Lists(wire'[p], Sent(p)') /\ Lists(replies'[p], Replying(p)')
    <2>1. CASE p = q
        <3>1. wire'[p] = <<>> /\ replies'[p] = <<>>
            BY <1>1, <2>1 DEF TypeOK
        <3>2. Sent(p)' = {} /\ Replying(p)' = {}
            BY <1>1, <2>1 DEF Sent, Replying, Commands
        <3> QED
            BY <3>1, <3>2, ListsNobody
    <2>2. CASE p # q
        <3>1. wire'[p] = wire[p] /\ replies'[p] = replies[p]
            BY <1>1, <2>2 DEF TypeOK
        <3>2. Sent(p)' = Sent(p) /\ Replying(p)' = Replying(p)
            BY <1>1, <2>2 DEF Sent, Replying
        <3> QED
            BY <3>1, <3>2 DEF Lines
    <2> QED
        BY <2>1, <2>2
<1> QED
    BY <1>2, <1>3, <1>4 DEF Lines

-----------------------------------------------------------------------------
(* Permits and rounds *)

LEMMA CallingFinite ==
    ASSUME NEW p \in Processes
    PROVE  IsFiniteSet(Calling(p)) /\ Cardinality(Calling(p)) \in Nat
<1>1. Calling(p) \subseteq Requests
    BY DEF Calling
<1> QED
    BY <1>1, EmbeddingAssumption, FS_Subset, FS_CardinalityType

\* A call holds one of the permits.
LEMMA CallHoldsPermit ==
    ASSUME TypeOK, PermitsCounted, NEW r \in Requests, pc[r] = "calling"
    PROVE  /\ ProcessOf[r] \in Processes
           /\ permits[ProcessOf[r]] \in 0..(Permits - 1)
           /\ [permits EXCEPT ![ProcessOf[r]] = @ + 1] \in [Processes -> 0..Permits]
<1> DEFINE P == ProcessOf[r]
<1>1. P \in Processes /\ Permits \in Nat
    BY EmbeddingAssumption
<1>2. r \in Calling(P)
    BY DEF Calling
<1>3. IsFiniteSet(Calling(P)) /\ Cardinality(Calling(P)) \in Nat
    BY <1>1, CallingFinite
<1>4. Cardinality(Calling(P)) # 0
    BY <1>2, <1>3, FS_EmptySet
<1>5. permits[P] \in 0..Permits /\ permits[P] + Cardinality(Calling(P)) = Permits
    BY <1>1 DEF TypeOK, PermitsCounted
<1> HIDE DEF P
<1>6. permits[P] \in 0..(Permits - 1)
    BY <1>1, <1>3, <1>4, <1>5
<1>7. [permits EXCEPT ![P] = @ + 1] \in [Processes -> 0..Permits]
    BY <1>1, <1>6 DEF TypeOK
<1> QED
    BY <1>1, <1>6, <1>7 DEF P

\* Who calls no more gives the permit back.
LEMMA PermitGivenBack ==
    ASSUME TypeOK, PermitsCounted, NEW r \in Requests, pc[r] = "calling",
           NEW step \in Steps \ {"calling"}, pc' = [pc EXCEPT ![r] = step], LeaveSemaphore(r)
    PROVE  PermitsCounted'
<1> DEFINE P == ProcessOf[r]
<1>1. P \in Processes /\ permits[P] \in 0..(Permits - 1) /\ Permits \in Nat
    BY CallHoldsPermit, EmbeddingAssumption
<1>2. permits' = [permits EXCEPT ![P] = @ + 1]
    BY DEF LeaveSemaphore
<1>3. r \in Calling(P) /\ Calling(P)' = Calling(P) \ {r}
    BY DEF Calling, TypeOK
<1>4. Cardinality(Calling(P)') = Cardinality(Calling(P)) - 1
    BY <1>1, <1>3, CallingFinite, FS_RemoveElement
<1>5. permits'[P] + Cardinality(Calling(P)') = Permits
    <2>1. permits'[P] = permits[P] + 1
        BY <1>1, <1>2 DEF TypeOK
    <2>2. permits[P] + Cardinality(Calling(P)) = Permits /\ Cardinality(Calling(P)) \in Nat
        BY <1>1, CallingFinite DEF PermitsCounted
    <2> HIDE DEF P
    <2> QED
        BY <1>1, <1>4, <2>1, <2>2
<1>6. ASSUME NEW p \in Processes, p # P
      PROVE  permits'[p] = permits[p] /\ Calling(p)' = Calling(p)
    BY <1>1, <1>2, <1>6 DEF TypeOK, Calling
<1> HIDE DEF P
<1> QED
    BY <1>5, <1>6 DEF PermitsCounted

\* A step that neither begins nor ends a call moves no permit.
LEMMA PermitsStay ==
    ASSUME PermitsCounted, permits' = permits, \A p \in Processes : Calling(p)' = Calling(p)
    PROVE  PermitsCounted'
BY DEF PermitsCounted

LEMMA SameCalls ==
    ASSUME TypeOK, NEW r \in Requests, pc[r] # "calling",
           NEW step \in Steps \ {"calling"}, pc' = [pc EXCEPT ![r] = step]
    PROVE  \A p \in Processes : Calling(p)' = Calling(p)
BY DEF TypeOK, Calling

-----------------------------------------------------------------------------
(* Types, connections, permits and rounds *)

ConnTypes ==
    /\ pc \in [Requests -> Steps]
    /\ result \in [Requests -> Results]
    /\ wire \in [Processes -> Seq(Requests)]
    /\ replies \in [Processes -> Seq(Requests)]

\* A request goes on without a permit and without a round.
LEMMA CarriedOn ==
    ASSUME Base, NEW r \in Requests, pc[r] \notin {"calling", "done"},
           NEW step \in Steps \ {"calling"}, pc' = [pc EXCEPT ![r] = step],
           UNCHANGED <<polls, permits>>
    PROVE  PermitsCounted' /\ RoundsLeft'
<1>1. PermitsCounted'
    BY SameCalls, PermitsStay DEF Base
<1>2. RoundsLeft'
    BY DEF Base, TypeOK, RoundsLeft
<1> QED
    BY <1>1, <1>2

\* The three ways to go on, seen from the connection.
LEMMA Sends ==
    ASSUME Base, NEW r \in Requests, pc[r] \notin Commands,
           NEW command \in Commands, SendNew(r, command)
    PROVE  Lines' /\ ConnTypes' /\ pc' = [pc EXCEPT ![r] = command]
BY SendNewLines DEF Base, ConnTypes, SendNew, Send

LEMMA SendsNext ==
    ASSUME Base, NEW r \in Requests, NEW c \in Commands, Replied(r, c),
           NEW command \in Commands, SendNext(r, command)
    PROVE  Lines' /\ ConnTypes' /\ pc' = [pc EXCEPT ![r] = command] /\ pc[r] = c
BY SendNextLines DEF Base, ConnTypes, SendNext, Send, Replied

LEMMA GoesOn ==
    ASSUME Base, NEW r \in Requests, NEW c \in Commands, Replied(r, c),
           NEW step \in Steps \ Commands, GoOn(r, step)
    PROVE  Lines' /\ ConnTypes' /\ pc' = [pc EXCEPT ![r] = step] /\ pc[r] = c
BY GoOnLines DEF Base, ConnTypes, GoOn, Replied

\* An answer ends the request.
LEMMA Answers ==
    ASSUME Base, NEW r \in Requests, NEW c \in Commands, Replied(r, c),
           NEW isVector \in BOOLEAN, Answer(r, isVector), UNCHANGED <<redisVars, histVars>>
    PROVE  Base'
<1>1. GoOn(r, "done") /\ answered' = [answered EXCEPT ![r] = isVector]
      /\ UNCHANGED <<vector, polls, semVars>>
    BY DEF Answer
<1>2. Lines' /\ ConnTypes' /\ pc' = [pc EXCEPT ![r] = "done"] /\ pc[r] = c
    <2>1. "done" \in Steps \ Commands
        BY DEF Steps, Commands
    <2> QED
        BY <1>1, <2>1, GoesOn
<1>3. TypeOK'
    BY <1>1, <1>2 DEF Base, TypeOK, ConnTypes, semVars, redisVars, histVars
<1>4. PermitsCounted' /\ RoundsLeft'
    BY <1>1, <1>2, CarriedOn DEF Commands, Steps, semVars
<1> QED
    BY <1>2, <1>3, <1>4 DEF Base

\* The rest of a step that moves no permit, no round and nothing else.
LEMMA OnlyMoved ==
    ASSUME Base, Lines', ConnTypes', NEW r \in Requests, NEW step \in Steps \ {"calling"},
           pc[r] \notin {"calling", "done"}, pc' = [pc EXCEPT ![r] = step],
           UNCHANGED <<localVars, semVars, redisVars, histVars>>
    PROVE  Base'
<1>1. TypeOK'
    BY DEF Base, TypeOK, ConnTypes, localVars, semVars, redisVars, histVars
<1>2. PermitsCounted' /\ RoundsLeft'
    BY CarriedOn DEF localVars, semVars
<1> QED
    BY <1>1, <1>2 DEF Base

\* A command takes effect at Redis.
LEMMA RedisStepBase ==
    ASSUME Base, NEW r \in Requests, RedisStep(r)
    PROVE  Base'
<1> DEFINE D == \E c \in Commands, o \in {"yes", "no"} : AtRedis(r, c) /\ Executed(r, o)
<1>1. D /\ UNCHANGED <<pc, localVars, semVars, redisUp, histVars>>
      /\ cache' \in [Keys -> BOOLEAN] /\ lock' \in [Keys -> Requests \cup {NoOwner}]
    <2>1. KeyOf[r] \in Keys
        BY EmbeddingAssumption
    <2>2. CASE GetCache(r)
        BY <2>1, <2>2 DEF GetCache, YesIf, Commands, Base, TypeOK, redisVars
    <2>3. CASE AcquireLock(r)
        BY <2>1, <2>3 DEF AcquireLock, YesIf, Commands, Base, TypeOK
    <2>4. CASE SetCache(r)
        <3>1. cache' = [cache EXCEPT ![KeyOf[r]] = TRUE] /\ cache \in [Keys -> BOOLEAN]
            BY <2>4 DEF SetCache, Base, TypeOK
        <3>2. cache' \in [Keys -> BOOLEAN]
            BY <3>1
        <3> QED
            BY <2>4, <3>2 DEF SetCache, Commands, Base, TypeOK
    <2>5. CASE ReleaseLock(r)
        BY <2>1, <2>5 DEF ReleaseLock, Commands, Base, TypeOK
    <2>6. CASE Exists(r)
        BY <2>1, <2>6 DEF Exists, YesIf, Commands, Base, TypeOK, redisVars
    <2> QED
        BY <2>2, <2>3, <2>4, <2>5, <2>6 DEF RedisStep
<1>2. PICK c \in Commands, o \in {"yes", "no"} : AtRedis(r, c) /\ Executed(r, o)
    BY <1>1
<1> HIDE DEF D
<1>3. Lines' /\ ConnTypes'
    BY <1>1, <1>2, ExecutedLines DEF Base, ConnTypes, TypeOK
<1>4. TypeOK'
    BY <1>1, <1>3 DEF Base, TypeOK, ConnTypes, localVars, semVars, histVars
<1>5. PermitsCounted' /\ RoundsLeft'
    BY <1>1 DEF Base, PermitsCounted, Calling, RoundsLeft, localVars, semVars
<1> QED
    BY <1>3, <1>4, <1>5 DEF Base

\* The step of a process.
LEMMA ProcessStepBase ==
    ASSUME Base, NEW r \in Requests, Arrive(r) \/ RequestStep(r), ~RedisStep(r)
    PROVE  Base'
<1> USE EmbeddingAssumption
<1>1. CASE Arrive(r)
    <2>1. Lines' /\ ConnTypes' /\ pc' = [pc EXCEPT ![r] = "reading"] /\ pc[r] = "idle"
        BY <1>1, Sends DEF Arrive, Commands
    <2> QED
        BY <1>1, <2>1, OnlyMoved DEF Arrive, Steps, Commands
<1>2. CASE AfterRead(r)
    <2>1. CASE result[r] = "yes"
        BY <1>2, <2>1, Answers DEF AfterRead, Commands
    <2>2. CASE result[r] # "yes"
        <3>1. Lines' /\ ConnTypes' /\ pc' = [pc EXCEPT ![r] = "locking"] /\ pc[r] = "reading"
            BY <1>2, <2>2, SendsNext DEF AfterRead, Commands
        <3> QED
            BY <1>2, <2>2, <3>1, OnlyMoved DEF AfterRead, Steps, Commands
    <2> QED
        BY <2>1, <2>2
<1>3. CASE AfterLock(r)
    <2>1. CASE result[r] = "yes"
        <3>1. Lines' /\ ConnTypes' /\ pc' = [pc EXCEPT ![r] = "queued"] /\ pc[r] = "locking"
            BY <1>3, <2>1, GoesOn DEF AfterLock, Steps, Commands
        <3>2. semQueue' = [semQueue EXCEPT ![ProcessOf[r]] = Append(@, r)]
            BY <1>3, <2>1 DEF AfterLock
        <3>3. semQueue' \in [Processes -> Seq(Requests)]
            BY <3>2 DEF Base, TypeOK
        <3>4. TypeOK'
            BY <1>3, <3>1, <3>3
            DEF AfterLock, Base, TypeOK, ConnTypes, localVars, redisVars, histVars
        <3>5. PermitsCounted' /\ RoundsLeft'
            BY <1>3, <3>1, CarriedOn DEF AfterLock, Steps, Commands, localVars
        <3> QED
            BY <3>1, <3>4, <3>5 DEF Base
    <2>2. CASE result[r] # "yes"
        <3>1. Lines' /\ ConnTypes' /\ pc' = [pc EXCEPT ![r] = "sleeping"] /\ pc[r] = "locking"
            BY <1>3, <2>2, GoesOn DEF AfterLock, Steps, Commands
        <3> QED
            BY <1>3, <2>2, <3>1, OnlyMoved DEF AfterLock, Steps, Commands, semVars
    <2> QED
        BY <2>1, <2>2
<1>4. CASE EnterSemaphore(r)
    <2> DEFINE P == ProcessOf[r]
    <2>1. /\ P \in Processes /\ KeyOf[r] \in Keys /\ Permits \in Nat
          /\ pc[r] = "queued" /\ permits[P] > 0 /\ semQueue[P] # <<>>
          /\ semQueue' = [semQueue EXCEPT ![P] = Tail(@)]
          /\ permits' = [permits EXCEPT ![P] = @ - 1]
          /\ calls' = [calls EXCEPT ![KeyOf[r]] = @ + 1]
          /\ pc' = [pc EXCEPT ![r] = "calling"]
          /\ UNCHANGED <<localVars, connVars, redisVars, expired, faults>>
        BY <1>4 DEF EnterSemaphore
    <2>2. semQueue' \in [Processes -> Seq(Requests)]
        BY <2>1 DEF Base, TypeOK
    <2>3. permits' \in [Processes -> 0..Permits] /\ calls' \in [Keys -> Nat]
        <3>1. permits \in [Processes -> 0..Permits] /\ calls \in [Keys -> Nat]
            BY DEF Base, TypeOK
        <3>2. permits[P] - 1 \in 0..Permits /\ calls[KeyOf[r]] + 1 \in Nat
            BY <2>1, <3>1
        <3> QED
            BY <2>1, <3>1, <3>2
    <2>4. Lines' /\ pc' \in [Requests -> Steps]
        BY <2>1, QuietLines DEF Base, TypeOK, Steps, Commands
    <2>5. TypeOK'
        BY <2>1, <2>2, <2>3, <2>4
        DEF Base, TypeOK, localVars, connVars, redisVars
    <2>6. PermitsCounted'
        <3>1. r \notin Calling(P) /\ Calling(P)' = Calling(P) \cup {r}
            <4>1. ASSUME NEW q \in Requests PROVE pc'[q] = IF q = r THEN "calling" ELSE pc[q]
                BY <2>1 DEF Base, TypeOK
            <4> QED
                BY <2>1, <4>1 DEF Calling
        <3>2. Cardinality(Calling(P)') = Cardinality(Calling(P)) + 1
            BY <2>1, <3>1, CallingFinite, FS_AddElement
        <3>3. permits'[P] + Cardinality(Calling(P)') = Permits
            <4>1. permits'[P] = permits[P] - 1 /\ permits[P] \in Nat
                BY <2>1 DEF Base, TypeOK
            <4>2. /\ permits[P] + Cardinality(Calling(P)) = Permits
                  /\ Cardinality(Calling(P)) \in Nat
                BY <2>1, CallingFinite DEF Base, PermitsCounted
            <4> DEFINE n == Cardinality(Calling(P))
                       m == Cardinality(Calling(P)')
                       a == permits[P]
                       b == permits'[P]
            <4>3. m = n + 1 /\ b = a - 1 /\ a + n = Permits /\ a \in Nat /\ n \in Nat
                BY <3>2, <4>1, <4>2
            <4> HIDE DEF n, m, a, b
            <4>4. b + m = Permits
                BY <4>3
            <4> QED
                BY <4>4 DEF b, m
        <3>4. ASSUME NEW p \in Processes, p # P
              PROVE  permits'[p] = permits[p] /\ Calling(p)' = Calling(p)
            BY <2>1, <3>4 DEF Base, TypeOK, Calling
        <3> HIDE DEF P
        <3> QED
            BY <3>3, <3>4 DEF Base, PermitsCounted
    <2>7. RoundsLeft'
        BY <2>1 DEF Base, TypeOK, RoundsLeft, localVars
    <2> QED
        BY <2>4, <2>5, <2>6, <2>7 DEF Base
<1>5. CASE ApiReturns(r)
    <2>1. Lines' /\ ConnTypes' /\ pc' = [pc EXCEPT ![r] = "storing"] /\ pc[r] = "calling"
        BY <1>5, Sends DEF ApiReturns, Commands
    <2>2. LeaveSemaphore(r) /\ PermitsCounted'
        BY <1>5, <2>1, PermitGivenBack DEF ApiReturns, Base, Steps, Commands
    <2>3. permits' \in [Processes -> 0..Permits]
        BY <2>1, <2>2, CallHoldsPermit DEF LeaveSemaphore, Base
    <2>4. vector' \in [Requests -> BOOLEAN]
        BY <1>5 DEF ApiReturns, Base, TypeOK
    <2>5. TypeOK'
        BY <1>5, <2>1, <2>3, <2>4
        DEF ApiReturns, Base, TypeOK, ConnTypes, redisVars, histVars
    <2>6. RoundsLeft'
        BY <1>5, <2>1 DEF ApiReturns, Base, TypeOK, RoundsLeft
    <2> QED
        BY <2>1, <2>2, <2>5, <2>6 DEF Base
<1>6. CASE ApiFails(r)
    <2>1. Lines' /\ ConnTypes' /\ pc' = [pc EXCEPT ![r] = "releasing"] /\ pc[r] = "calling"
        BY <1>6, Sends DEF ApiFails, Commands
    <2>2. LeaveSemaphore(r) /\ PermitsCounted'
        BY <1>6, <2>1, PermitGivenBack DEF ApiFails, Base, Steps, Commands
    <2>3. permits' \in [Processes -> 0..Permits]
        BY <2>1, <2>2, CallHoldsPermit DEF LeaveSemaphore, Base
    <2>4. faults' \in [Kinds -> Nat]
        <3>1. faults' = [faults EXCEPT !["api"] = @ + 1]
            BY <1>6 DEF ApiFails
        <3>2. faults \in [Kinds -> Nat]
            BY DEF Base, TypeOK
        <3>3. "api" \in Kinds
            BY DEF Kinds
        <3>4. faults["api"] + 1 \in Nat
            BY <3>2, <3>3
        <3> QED
            BY <3>1, <3>2, <3>4
    <2>5. TypeOK'
        BY <1>6, <2>1, <2>3, <2>4
        DEF ApiFails, Base, TypeOK, ConnTypes, localVars, redisVars
    <2>6. RoundsLeft'
        BY <1>6, <2>1 DEF ApiFails, Base, TypeOK, RoundsLeft, localVars
    <2> QED
        BY <2>1, <2>2, <2>5, <2>6 DEF Base
<1>7. CASE AfterStore(r)
    <2>1. Lines' /\ ConnTypes' /\ pc' = [pc EXCEPT ![r] = "releasing"] /\ pc[r] = "storing"
        BY <1>7, SendsNext DEF AfterStore, Commands
    <2>2. vector' \in [Requests -> BOOLEAN]
        BY <1>7 DEF AfterStore, Base, TypeOK
    <2>3. TypeOK'
        BY <1>7, <2>1, <2>2
        DEF AfterStore, Base, TypeOK, ConnTypes, semVars, redisVars, histVars
    <2>4. PermitsCounted' /\ RoundsLeft'
        BY <1>7, <2>1, CarriedOn DEF AfterStore, Steps, Commands, semVars
    <2> QED
        BY <2>1, <2>3, <2>4 DEF Base
<1>8. CASE AfterRelease(r)
    <2>1. vector[r] \in BOOLEAN
        BY DEF Base, TypeOK
    <2> QED
        BY <1>8, <2>1, Answers DEF AfterRelease, Commands
<1>9. CASE Poll(r)
    <2>1. Lines' /\ ConnTypes' /\ pc' = [pc EXCEPT ![r] = "polling"] /\ pc[r] = "sleeping"
        BY <1>9, Sends DEF Poll, Commands
    <2> QED
        BY <1>9, <2>1, OnlyMoved DEF Poll, Steps, Commands
<1>10. CASE AfterPoll(r)
    <2>1. CASE result[r] = "yes"
        BY <1>10, <2>1, Answers DEF AfterPoll, Commands
    <2>2. CASE result[r] # "yes"
        <3>1. Lines' /\ ConnTypes' /\ pc' = [pc EXCEPT ![r] = "checking"] /\ pc[r] = "polling"
            BY <1>10, <2>2, SendsNext DEF AfterPoll, Commands
        <3> QED
            BY <1>10, <2>2, <3>1, OnlyMoved DEF AfterPoll, Steps, Commands
    <2> QED
        BY <2>1, <2>2
<1>11. CASE EarlyExit(r)
    BY <1>11, Answers DEF EarlyExit, Commands
<1>12. CASE NextRound(r)
    <2> DEFINE step == IF polls'[r] = MaxPolls THEN "done" ELSE "sleeping"
    <2>1. step \in Steps \ Commands /\ step # "calling"
        BY DEF Steps, Commands
    <2>2. /\ Replied(r, "checking") /\ GoOn(r, step)
          /\ polls' = [polls EXCEPT ![r] = @ + 1]
          /\ UNCHANGED <<answered, vector, semVars, redisVars, histVars>>
        BY <1>12 DEF NextRound
    <2>3. Lines' /\ ConnTypes' /\ pc' = [pc EXCEPT ![r] = step] /\ pc[r] = "checking"
        BY <2>1, <2>2, GoesOn DEF Commands
    <2>4. polls[r] \in Nat /\ polls[r] < MaxPolls /\ polls'[r] = polls[r] + 1 /\ MaxPolls \in Nat
        BY <2>2, <2>3 DEF Base, TypeOK, RoundsLeft
    <2>5. polls' \in [Requests -> 0..MaxPolls]
        <3>1. polls \in [Requests -> 0..MaxPolls]
            BY DEF Base, TypeOK
        <3>2. polls[r] + 1 \in 0..MaxPolls
            BY <2>4
        <3> QED
            BY <2>2, <3>1, <3>2
    <2>6. TypeOK'
        BY <2>2, <2>3, <2>5 DEF Base, TypeOK, ConnTypes, semVars, redisVars, histVars
    <2>7. PermitsCounted'
        BY <2>1, <2>2, <2>3, SameCalls, PermitsStay DEF Base, semVars
    <2>8. RoundsLeft'
        <3>1. pc'[r] # "done" => polls'[r] < MaxPolls
            BY <2>3, <2>4 DEF Base, TypeOK
        <3>2. ASSUME NEW q \in Requests, q # r PROVE pc'[q] = pc[q] /\ polls'[q] = polls[q]
            BY <2>2, <2>3, <3>2 DEF Base, TypeOK
        <3> QED
            BY <3>1, <3>2 DEF Base, RoundsLeft
    <2> QED
        BY <2>3, <2>6, <2>7, <2>8 DEF Base
<1>13. CASE CommandRejected(r)
    <2>1. PICK c \in Commands \ {"storing"} : Replied(r, c)
        BY <1>13 DEF CommandRejected
    <2> QED
        BY <1>13, <2>1, Answers DEF CommandRejected
<1> QED
    BY <1>1, <1>2, <1>3, <1>4, <1>5, <1>6, <1>7, <1>8, <1>9, <1>10, <1>11, <1>12, <1>13
    DEF RequestStep

\* Something fails, or is back.
LEMMA FaultBase ==
    ASSUME Base, Fault
    PROVE  Base'
<1>1. ASSUME NEW k \in Keys, LockLost(k) PROVE Base'
    <2>1. /\ UNCHANGED <<pc, localVars, connVars, semVars, cache, redisUp, calls>>
          /\ lock[k] # NoOwner /\ expired' = expired \cup {lock[k]}
          /\ lock' = [lock EXCEPT ![k] = NoOwner]
          /\ faults' = [faults EXCEPT !["lock"] = @ + 1]
        BY <1>1 DEF LockLost, Count
    <2>2. faults' \in [Kinds -> Nat] /\ expired' \subseteq Requests
          /\ lock' \in [Keys -> Requests \cup {NoOwner}]
        BY <2>1 DEF Base, TypeOK, Kinds
    <2>3. TypeOK'
        BY <2>1, <2>2 DEF Base, TypeOK, localVars, connVars, semVars
    <2>4. Lines' /\ PermitsCounted' /\ RoundsLeft'
        BY <2>1, SameLines
        DEF Base, PermitsCounted, Calling, RoundsLeft, localVars, semVars, connVars
    <2> QED
        BY <2>3, <2>4 DEF Base
<1>2. ASSUME NEW k \in Keys, CacheLost(k) PROVE Base'
    <2>1. /\ UNCHANGED <<pc, localVars, connVars, semVars, lock, redisUp, expired, calls>>
          /\ cache' = [cache EXCEPT ![k] = FALSE]
          /\ faults' = [faults EXCEPT !["cache"] = @ + 1]
        BY <1>2 DEF CacheLost, Count
    <2>2. faults' \in [Kinds -> Nat]
        BY <2>1 DEF Base, TypeOK, Kinds
    <2>3. cache' \in [Keys -> BOOLEAN]
        BY <2>1 DEF Base, TypeOK
    <2>4. TypeOK'
        BY <2>1, <2>2, <2>3 DEF Base, TypeOK, localVars, connVars, semVars
    <2>5. Lines' /\ PermitsCounted' /\ RoundsLeft'
        BY <2>1, SameLines
        DEF Base, PermitsCounted, Calling, RoundsLeft, localVars, semVars, connVars
    <2> QED
        BY <2>4, <2>5 DEF Base
<1>3. CASE RedisDown
    <2>1. /\ Lines'
          /\ result' \in [Requests -> Results]
          /\ wire' \in [Processes -> Seq(Requests)]
          /\ replies' \in [Processes -> Seq(Requests)]
        BY <1>3, RedisDownLines DEF Base
    <2>2. /\ UNCHANGED <<pc, localVars, semVars, cache, lock, expired, calls>>
          /\ redisUp' = FALSE
          /\ faults' = [faults EXCEPT !["outage"] = @ + 1]
        BY <1>3 DEF RedisDown, Count
    <2>3. faults' \in [Kinds -> Nat]
        BY <2>2 DEF Base, TypeOK, Kinds
    <2>4. TypeOK'
        BY <2>1, <2>2, <2>3 DEF Base, TypeOK, localVars, semVars
    <2>5. PermitsCounted' /\ RoundsLeft'
        BY <2>2 DEF Base, PermitsCounted, Calling, RoundsLeft, localVars, semVars
    <2> QED
        BY <2>1, <2>4, <2>5 DEF Base
<1>4. CASE RedisBack
    <2>1. /\ UNCHANGED <<pc, localVars, connVars, semVars, calls, faults>>
          /\ redisUp' = TRUE
        BY <1>4 DEF RedisBack
    <2>2. cache' \in [Keys -> BOOLEAN] /\ redisUp' \in BOOLEAN
        BY <1>4, <2>1 DEF RedisBack, Base, TypeOK
    <2>3. lock' \in [Keys -> Requests \cup {NoOwner}] /\ expired' \subseteq Requests
        BY <1>4 DEF RedisBack, Base, TypeOK
    <2>4. TypeOK'
        BY <2>1, <2>2, <2>3 DEF Base, TypeOK, localVars, connVars, semVars
    <2>5. Lines' /\ PermitsCounted' /\ RoundsLeft'
        BY <2>1, SameLines
        DEF Base, PermitsCounted, Calling, RoundsLeft, localVars, semVars, connVars
    <2> QED
        BY <2>4, <2>5 DEF Base
<1>5. ASSUME NEW q \in Processes, Crash(q) PROVE Base'
    <2>1. Lines' /\ ConnTypes'
        BY <1>5, CrashLines DEF Base, ConnTypes
    <2>2. /\ pc' = [r \in Requests |->
                      IF ProcessOf[r] = q /\ pc[r] # "idle" THEN "done" ELSE pc[r]]
          /\ permits' = [permits EXCEPT ![q] = Permits]
          /\ semQueue' = [semQueue EXCEPT ![q] = <<>>]
          /\ UNCHANGED <<localVars, redisVars, expired, calls>>
          /\ faults' = [faults EXCEPT !["crash"] = @ + 1]
        BY <1>5 DEF Crash, Count
    <2>3. /\ faults' \in [Kinds -> Nat]
          /\ semQueue' \in [Processes -> Seq(Requests)]
        BY <2>2 DEF Base, TypeOK, Kinds
    <2>4. Permits \in Nat /\ permits' \in [Processes -> 0..Permits]
        BY <2>2, EmbeddingAssumption DEF Base, TypeOK
    <2>5. TypeOK'
        BY <2>1, <2>2, <2>3, <2>4 DEF Base, TypeOK, ConnTypes, localVars, redisVars
    <2>6. ASSUME NEW p \in Processes PROVE permits'[p] + Cardinality(Calling(p)') = Permits
        <3>1. CASE p = q
            <4>1. Calling(p)' = {} /\ permits'[p] = Permits
                BY <2>2, <3>1 DEF Calling, Base, TypeOK
            <4> QED
                BY <2>4, <4>1, FS_EmptySet
        <3>2. CASE p # q
            <4>1. Calling(p)' = Calling(p) /\ permits'[p] = permits[p]
                BY <2>2, <3>2 DEF Calling, Base, TypeOK
            <4> QED
                BY <4>1 DEF Base, PermitsCounted
        <3> QED
            BY <3>1, <3>2
    <2>7. RoundsLeft'
        BY <2>2 DEF Base, TypeOK, RoundsLeft, localVars
    <2> QED
        BY <2>1, <2>5, <2>6, <2>7 DEF Base, PermitsCounted
<1> QED
    BY <1>1, <1>2, <1>3, <1>4, <1>5 DEF Fault

LEMMA NextBase ==
    ASSUME Base, [Next]_vars
    PROVE  Base'
<1>1. ASSUME NEW r \in Requests, Arrive(r) \/ RequestStep(r) PROVE Base'
    BY <1>1, RedisStepBase, ProcessStepBase
<1>2. CASE Fault
    BY <1>2, FaultBase
<1>3. CASE UNCHANGED vars
    BY <1>3, SameLines
    DEF vars, localVars, connVars, semVars, redisVars, histVars,
        Base, TypeOK, PermitsCounted, Calling, RoundsLeft
<1> QED
    BY <1>1, <1>2, <1>3 DEF Next, AllAnswered

-----------------------------------------------------------------------------
(* Owners and locks *)

\* What sending a command does to a request.
LEMMA SendEffect ==
    ASSUME TypeOK, NEW r \in Requests, NEW command, NEW out, Send(r, command, out)
    PROVE  /\ pc' = [pc EXCEPT ![r] = command]
           /\ result' = [result EXCEPT ![r] = IF redisUp THEN "pending" ELSE "error"]
BY DEF Send, TypeOK

\* Faults are only counted up.
LEMMA FaultsGrow ==
    ASSUME TypeOK, NEW f \in Kinds,
           faults' = faults \/ faults' = [faults EXCEPT ![f] = @ + 1]
    PROVE  (Calm' => Calm) /\ (Serene' => Serene) /\ (NoFault' => NoFault)
<1>1. \A g \in Kinds : faults[g] \in Nat /\ faults'[g] \in Nat /\ faults[g] <= faults'[g]
    <2>1. faults \in [Kinds -> Nat]
        BY DEF TypeOK
    <2> QED
        BY <2>1
<1>2. {"lock", "cache", "outage", "api", "crash"} \subseteq Kinds
    BY DEF Kinds
<1>3. \A g \in Kinds : faults'[g] = 0 => faults[g] = 0
    BY <1>1
<1> QED
    BY <1>2, <1>3 DEF Calm, Serene, NoFault

\* A step of r that makes it neither an owner nor stop being one.
LEMMA OwnershipStays ==
    ASSUME TypeOK, Ownership, NEW r \in Requests, NEW step, NEW outcome,
           pc' = [pc EXCEPT ![r] = step], result' = [result EXCEPT ![r] = outcome],
           UNCHANGED <<lock, redisUp, expired>>,
           Calm' => Calm, Serene' => Serene,
           Calm => outcome # "error",
           Owner(r)' => Owner(r),
           Calm => (Owner(r) => Owner(r)')
    PROVE  Ownership'
<1>1. ASSUME NEW q \in Requests, q # r PROVE Owner(q)' <=> Owner(q)
    BY <1>1 DEF TypeOK, Owner
<1>2. OwnerHasLock'
    BY <1>1 DEF Ownership, OwnerHasLock
<1>3. NothingRejected'
    BY DEF Ownership, NothingRejected, TypeOK
<1>4. LockHasOwner'
    <2>1. ASSUME Calm, NEW k \in Keys, lock[k] # NoOwner
          PROVE  KeyOf[lock[k]] = k /\ Owner(lock[k])'
        <3>1. lock[k] \in Requests /\ KeyOf[lock[k]] = k /\ Owner(lock[k])
            BY <2>1 DEF TypeOK, Ownership, LockHasOwner
        <3> QED
            BY <1>1, <2>1, <3>1
    <2> QED
        BY <2>1 DEF LockHasOwner
<1>5. NothingExpired'
    BY DEF Ownership, NothingExpired
<1> QED
    BY <1>2, <1>3, <1>4, <1>5 DEF Ownership

\* Nobody owns a lock by executing another command than the lock's, and
\* nobody's lock is touched by executing it.
LEMMA RedisStepOwnership ==
    ASSUME Base, Ownership, NEW r \in Requests, RedisStep(r)
    PROVE  Ownership'
<1>1. TypeOK /\ Lines /\ KeyOf[r] \in Keys /\ NoOwner \notin Requests
    BY EmbeddingAssumption DEF Base
<1>2. CASE GetCache(r) \/ SetCache(r) \/ Exists(r)
    <2>1. PICK c \in Commands \ {"locking", "releasing"}, o \in {"yes", "no"} :
            AtRedis(r, c) /\ Executed(r, o)
        BY <1>2 DEF GetCache, SetCache, Exists, YesIf, Commands
    <2>2. UNCHANGED <<pc, lock, redisUp, expired, faults>>
        BY <1>2 DEF GetCache, SetCache, Exists, redisVars, histVars
    <2>3. pc[r] = c /\ pc' = [pc EXCEPT ![r] = pc[r]] /\ result' = [result EXCEPT ![r] = o]
        BY <1>1, <2>1, <2>2 DEF AtRedis, Executed, TypeOK
    <2>4. Owner(r)' <=> Owner(r)
        BY <1>1, <2>1, <2>3 DEF Owner, TypeOK
    <2>5. (Calm' => Calm) /\ (Serene' => Serene)
        BY <2>2 DEF Calm, Serene
    <2> QED
        BY <1>1, <2>1, <2>2, <2>3, <2>4, <2>5, OwnershipStays
<1>3. CASE AcquireLock(r)
    <2>1. /\ AtRedis(r, "locking") /\ pc' = pc
          /\ result' = [result EXCEPT ![r] = YesIf(lock[KeyOf[r]] = NoOwner)]
          /\ lock' = [lock EXCEPT ![KeyOf[r]] = IF @ = NoOwner THEN r ELSE @]
          /\ UNCHANGED <<redisUp, expired, faults>>
        BY <1>3 DEF AcquireLock, Executed, histVars
    <2>2. pc[r] = "locking" /\ result[r] = "pending"
        BY <1>1, <2>1, HeadIsSent DEF AtRedis, Commands
    <2>3. (Calm' <=> Calm) /\ (Serene' <=> Serene)
        BY <2>1 DEF Calm, Serene
    <2>4. ASSUME NEW q \in Requests, q # r PROVE Owner(q)' <=> Owner(q)
        BY <1>1, <2>1, <2>4 DEF Owner, TypeOK
    <2>5. ~Owner(r) /\ (Owner(r)' <=> lock[KeyOf[r]] = NoOwner)
        BY <1>1, <2>1, <2>2 DEF Owner, TypeOK, YesIf
    <2>6. OwnerHasLock'
        <3>1. ASSUME NEW q \in Requests, Owner(q)', q \notin expired'
              PROVE  lock'[KeyOf[q]] = q
            <4>1. KeyOf[q] \in Keys
                BY EmbeddingAssumption
            <4>2. CASE q = r
                BY <1>1, <2>1, <2>5, <3>1, <4>2 DEF TypeOK
            <4>3. CASE q # r
                <5>1. lock[KeyOf[q]] = q /\ q # NoOwner
                    BY <1>1, <2>1, <2>4, <3>1, <4>3 DEF Ownership, OwnerHasLock
                <5> QED
                    BY <1>1, <2>1, <4>1, <5>1 DEF TypeOK
            <4> QED
                BY <4>2, <4>3
        <3> QED
            BY <3>1 DEF OwnerHasLock
    <2>7. NothingRejected'
        BY <1>1, <2>1, <2>3 DEF Ownership, NothingRejected, TypeOK, YesIf
    <2>8. LockHasOwner'
        <3>1. ASSUME Calm, NEW k \in Keys, lock'[k] # NoOwner
              PROVE  KeyOf[lock'[k]] = k /\ (Owner(lock[k]))'
            <4>1. CASE lock[k] # NoOwner
                <5>1. lock'[k] = lock[k]
                    BY <1>1, <2>1, <4>1 DEF TypeOK
                <5>2. lock[k] \in Requests /\ KeyOf[lock[k]] = k /\ Owner(lock[k])
                    BY <1>1, <3>1, <4>1 DEF TypeOK, Ownership, LockHasOwner
                <5> QED
                    BY <2>4, <2>5, <5>1, <5>2 DEF Owner
            <4>2. CASE lock[k] = NoOwner
                <5>1. k = KeyOf[r] /\ lock'[k] = r
                    BY <1>1, <2>1, <3>1, <4>2 DEF TypeOK
                <5> QED
                    BY <2>5, <4>2, <5>1 DEF Owner
            <4> QED
                BY <4>1, <4>2
        <3> QED
            BY <2>3, <3>1 DEF LockHasOwner
    <2>9. NothingExpired'
        BY <2>1, <2>3 DEF Ownership, NothingExpired
    <2> QED
        BY <2>6, <2>7, <2>8, <2>9 DEF Ownership
<1>4. CASE ReleaseLock(r)
    <2>1. /\ AtRedis(r, "releasing") /\ pc' = pc
          /\ result' = [result EXCEPT ![r] = "yes"]
          /\ lock' = [lock EXCEPT ![KeyOf[r]] = IF @ = r THEN NoOwner ELSE @]
          /\ UNCHANGED <<redisUp, expired, faults>>
        BY <1>4 DEF ReleaseLock, Executed, histVars
    <2>2. pc[r] = "releasing" /\ result[r] = "pending"
        BY <1>1, <2>1, HeadIsSent DEF AtRedis, Commands
    <2>3. (Calm' <=> Calm) /\ (Serene' <=> Serene)
        BY <2>1 DEF Calm, Serene
    <2>4. ASSUME NEW q \in Requests, q # r PROVE Owner(q)' <=> Owner(q)
        BY <1>1, <2>1, <2>4 DEF Owner, TypeOK
    <2>5. ~Owner(r)'
        BY <1>1, <2>1, <2>2 DEF Owner, TypeOK
    <2>6. OwnerHasLock'
        <3>1. ASSUME NEW q \in Requests, Owner(q)', q \notin expired'
              PROVE  lock'[KeyOf[q]] = q
            <4>1. q # r /\ KeyOf[q] \in Keys /\ lock[KeyOf[q]] = q
                BY <2>1, <2>4, <2>5, <3>1, EmbeddingAssumption DEF Ownership, OwnerHasLock
            <4> QED
                BY <1>1, <2>1, <4>1 DEF TypeOK
        <3> QED
            BY <3>1 DEF OwnerHasLock
    <2>7. NothingRejected'
        BY <1>1, <2>1, <2>3 DEF Ownership, NothingRejected, TypeOK
    <2>8. LockHasOwner'
        <3>1. ASSUME Calm, NEW k \in Keys, lock'[k] # NoOwner
              PROVE  KeyOf[lock'[k]] = k /\ (Owner(lock[k]))'
            <4>1. lock'[k] = lock[k] /\ lock[k] # NoOwner /\ (k = KeyOf[r] => lock[k] # r)
                BY <1>1, <2>1, <3>1 DEF TypeOK
            <4>2. lock[k] \in Requests /\ KeyOf[lock[k]] = k /\ Owner(lock[k])
                BY <1>1, <3>1, <4>1 DEF TypeOK, Ownership, LockHasOwner
            <4>3. lock[k] # r
                BY <2>1, <4>1, <4>2
            <4> QED
                BY <2>4, <4>1, <4>2, <4>3 DEF Owner
        <3> QED
            BY <2>3, <3>1 DEF LockHasOwner
    <2>9. NothingExpired'
        BY <2>1, <2>3 DEF Ownership, NothingExpired
    <2> QED
        BY <2>6, <2>7, <2>8, <2>9 DEF Ownership
<1> QED
    BY <1>2, <1>3, <1>4 DEF RedisStep

\* Two requests that own nothing before and after: an answer, and a reply that
\* leads to the next command.
LEMMA AnswerOwnership ==
    ASSUME Base, Ownership, NEW r \in Requests, NEW c \in Commands \ {"storing"}, Replied(r, c),
           NEW isVector, Answer(r, isVector), UNCHANGED <<redisVars, histVars>>,
           ~Owner(r) \/ result[r] = "error"
    PROVE  Ownership'
<1>1. TypeOK /\ Lines /\ pc[r] = c /\ result[r] # "pending"
    BY HeadIsReplying DEF Base, Replied
<1>2. /\ pc' = [pc EXCEPT ![r] = "done"] /\ result' = [result EXCEPT ![r] = "pending"]
      /\ UNCHANGED <<lock, redisUp, expired, faults>>
    BY DEF Answer, GoOn, redisVars, histVars
<1>3. ~Owner(r)'
    BY <1>1, <1>2 DEF Owner, TypeOK
<1>4. Calm => ~Owner(r)
    BY <1>1 DEF Ownership, NothingRejected
<1>5. (Calm' => Calm) /\ (Serene' => Serene)
    BY <1>2 DEF Calm, Serene
<1> QED
    BY <1>1, <1>2, <1>3, <1>4, <1>5, OwnershipStays

LEMMA SendOwnership ==
    ASSUME Base, Ownership, NEW r \in Requests, NEW c, NEW command \in Commands, NEW out,
           pc[r] = c, Send(r, command, out), UNCHANGED <<lock, redisUp, expired>>,
           Calm' => Calm, Serene' => Serene,
           c \in {"calling", "storing"} <=> command \in {"storing", "releasing"},
           c \notin {"locking", "queued", "releasing"}
    PROVE  Ownership'
<1> DEFINE o == IF redisUp THEN "pending" ELSE "error"
<1>1. TypeOK /\ pc' = [pc EXCEPT ![r] = command] /\ result' = [result EXCEPT ![r] = o]
    BY SendEffect DEF Base
<1>2. Calm => o = "pending"
    BY DEF Ownership, NothingRejected
<1>3. Owner(r) <=> c \in {"calling", "storing"}
    BY DEF Owner
<1>4. pc'[r] = command /\ result'[r] = o /\ o # "yes"
    BY <1>1 DEF TypeOK
<1> HIDE DEF o
<1>5. Owner(r)' => Owner(r)
    BY <1>3, <1>4 DEF Owner, Commands
<1>6. Calm => (Owner(r) => Owner(r)')
    BY <1>2, <1>3, <1>4 DEF Owner
<1>7. Calm => o # "error"
    BY <1>2
<1> QED
    BY <1>1, <1>5, <1>6, <1>7, OwnershipStays

LEMMA ProcessStepOwnership ==
    ASSUME Base, Ownership, NEW r \in Requests, Arrive(r) \/ RequestStep(r), ~RedisStep(r)
    PROVE  Ownership'
<1>1. TypeOK /\ Lines
    BY DEF Base
<1>2. faults' = faults => (Calm' => Calm) /\ (Serene' => Serene)
    BY DEF Calm, Serene
<1>3. CASE Arrive(r)
    <2>1. /\ pc[r] = "idle" /\ Send(r, "reading", replies[ProcessOf[r]])
          /\ UNCHANGED <<lock, redisUp, expired, faults>>
        BY <1>3 DEF Arrive, SendNew, redisVars, histVars
    <2> QED
        BY <1>2, <2>1, SendOwnership DEF Commands
<1>4. CASE AfterRead(r)
    <2>1. /\ Replied(r, "reading") /\ pc[r] = "reading"
          /\ UNCHANGED <<redisVars, histVars>>
        BY <1>4 DEF AfterRead, Replied
    <2>2. CASE result[r] = "yes"
        BY <1>4, <2>1, <2>2, AnswerOwnership DEF AfterRead, Owner, Commands
    <2>3. CASE result[r] # "yes"
        BY <1>2, <1>4, <2>1, <2>3, SendOwnership
        DEF AfterRead, SendNext, redisVars, histVars, Commands
    <2> QED
        BY <2>2, <2>3
<1>5. CASE AfterLock(r)
    <2> DEFINE step == IF result[r] = "yes" THEN "queued" ELSE "sleeping"
    <2>1. /\ pc[r] = "locking" /\ result[r] # "error"
          /\ pc' = [pc EXCEPT ![r] = step] /\ result' = [result EXCEPT ![r] = "pending"]
          /\ UNCHANGED <<lock, redisUp, expired, faults>>
        BY <1>5 DEF AfterLock, Replied, GoOn, redisVars, histVars
    <2>2. pc'[r] = step /\ result'[r] = "pending"
        BY <1>1, <2>1 DEF TypeOK
    <2>3. Owner(r)' <=> Owner(r)
        BY <2>1, <2>2 DEF Owner
    <2> HIDE DEF step
    <2> QED
        BY <1>1, <1>2, <2>1, <2>3, OwnershipStays
<1>6. CASE EnterSemaphore(r)
    <2>1. /\ pc[r] = "queued" /\ pc' = [pc EXCEPT ![r] = "calling"]
          /\ result' = [result EXCEPT ![r] = result[r]]
          /\ UNCHANGED <<lock, redisUp, expired, faults>>
        BY <1>1, <1>6 DEF EnterSemaphore, connVars, redisVars, TypeOK
    <2>2. Owner(r) /\ Owner(r)'
        BY <1>1, <2>1 DEF Owner, TypeOK
    <2>3. Calm => result[r] # "error"
        BY DEF Ownership, NothingRejected
    <2> QED
        BY <1>1, <1>2, <2>1, <2>2, <2>3, OwnershipStays
<1>7. CASE ApiReturns(r)
    BY <1>2, <1>7, SendOwnership DEF ApiReturns, SendNew, redisVars, histVars, Commands
<1>8. CASE ApiFails(r)
    <2>1. /\ pc[r] = "calling" /\ Send(r, "releasing", replies[ProcessOf[r]])
          /\ UNCHANGED <<lock, redisUp, expired>>
          /\ faults' = [faults EXCEPT !["api"] = @ + 1] /\ "api" \in Kinds
        BY <1>8 DEF ApiFails, SendNew, redisVars, Kinds
    <2>2. (Calm' => Calm) /\ (Serene' => Serene)
        BY <1>1, <2>1, FaultsGrow
    <2> QED
        BY <2>1, <2>2, SendOwnership DEF Commands
<1>9. CASE AfterStore(r)
    <2>1. /\ pc[r] = "storing" /\ SendNext(r, "releasing")
          /\ UNCHANGED <<lock, redisUp, expired, faults>>
        BY <1>9 DEF AfterStore, Replied, redisVars, histVars
    <2> QED
        BY <1>2, <2>1, SendOwnership DEF SendNext, Commands
<1>10. CASE AfterRelease(r)
    <2>1. /\ Replied(r, "releasing") /\ pc[r] = "releasing" /\ Answer(r, vector[r])
          /\ UNCHANGED <<redisVars, histVars>>
        BY <1>10 DEF AfterRelease, Replied
    <2>2. result[r] # "pending"
        BY <1>1, <2>1, HeadIsReplying DEF Commands
    <2> QED
        BY <2>1, <2>2, AnswerOwnership DEF Owner, Commands
<1>11. CASE Poll(r)
    BY <1>2, <1>11, SendOwnership DEF Poll, SendNew, redisVars, histVars, Commands
<1>12. CASE AfterPoll(r)
    <2>1. /\ Replied(r, "polling") /\ pc[r] = "polling"
          /\ UNCHANGED <<redisVars, histVars>>
        BY <1>12 DEF AfterPoll, Replied
    <2>2. CASE result[r] = "yes"
        BY <1>12, <2>1, <2>2, AnswerOwnership DEF AfterPoll, Owner, Commands
    <2>3. CASE result[r] # "yes"
        BY <1>2, <1>12, <2>1, <2>3, SendOwnership
        DEF AfterPoll, SendNext, redisVars, histVars, Commands
    <2> QED
        BY <2>2, <2>3
<1>13. CASE EarlyExit(r)
    BY <1>13, AnswerOwnership DEF EarlyExit, Replied, Owner, Commands
<1>14. CASE NextRound(r)
    <2> DEFINE step == IF polls'[r] = MaxPolls THEN "done" ELSE "sleeping"
    <2>1. /\ pc[r] = "checking"
          /\ pc' = [pc EXCEPT ![r] = step] /\ result' = [result EXCEPT ![r] = "pending"]
          /\ UNCHANGED <<lock, redisUp, expired, faults>>
        BY <1>14 DEF NextRound, Replied, GoOn, redisVars, histVars
    <2>2. pc'[r] \in {"done", "sleeping"}
        BY <1>1, <2>1 DEF TypeOK
    <2>3. ~Owner(r) /\ ~Owner(r)'
        BY <2>1, <2>2 DEF Owner
    <2> HIDE DEF step
    <2> QED
        BY <1>1, <1>2, <2>1, <2>3, OwnershipStays
<1>15. CASE CommandRejected(r)
    <2>1. PICK c \in Commands \ {"storing"} : Replied(r, c)
        BY <1>15 DEF CommandRejected
    <2> QED
        BY <1>15, <2>1, AnswerOwnership DEF CommandRejected
<1> QED
    BY <1>3, <1>4, <1>5, <1>6, <1>7, <1>8, <1>9, <1>10, <1>11, <1>12, <1>13, <1>14, <1>15
    DEF RequestStep

\* A fault takes an owner's lock only with a note in `expired`.
LEMMA FaultOwnership ==
    ASSUME Base, Ownership, Fault
    PROVE  Ownership'
<1>1. TypeOK /\ NoOwner \notin Requests /\ \A q \in Requests : KeyOf[q] \in Keys
    BY EmbeddingAssumption DEF Base
<1>2. ASSUME NEW k \in Keys, LockLost(k) PROVE Ownership'
    <2>1. /\ UNCHANGED <<pc, result, redisUp>>
          /\ lock[k] # NoOwner /\ expired' = expired \cup {lock[k]}
          /\ lock' = [lock EXCEPT ![k] = NoOwner]
          /\ faults' = [faults EXCEPT !["lock"] = @ + 1]
        BY <1>2 DEF LockLost, Count, connVars
    <2>2. faults'["lock"] # 0 /\ (Calm' <=> Calm)
        <3>1. faults \in [Kinds -> Nat] /\ {"lock", "outage", "crash"} \subseteq Kinds
            BY <1>1 DEF TypeOK, Kinds
        <3>2. /\ faults'["lock"] = faults["lock"] + 1 /\ faults'["outage"] = faults["outage"]
              /\ faults'["crash"] = faults["crash"] /\ faults["lock"] \in Nat
            BY <2>1, <3>1
        <3> QED
            BY <3>2 DEF Calm
    <2>3. \A q \in Requests : Owner(q)' <=> Owner(q)
        BY <2>1 DEF Owner
    <2>4. OwnerHasLock'
        <3>1. ASSUME NEW q \in Requests, Owner(q)', q \notin expired'
              PROVE  lock'[KeyOf[q]] = q
            <4>1. lock[KeyOf[q]] = q /\ q # lock[k]
                BY <2>1, <2>3, <3>1 DEF Ownership, OwnerHasLock
            <4> QED
                BY <1>1, <2>1, <4>1 DEF TypeOK
        <3> QED
            BY <3>1 DEF OwnerHasLock
    <2>5. NothingRejected'
        BY <2>1, <2>2 DEF Ownership, NothingRejected
    <2>6. LockHasOwner'
        <3>1. ASSUME Calm, NEW j \in Keys, lock'[j] # NoOwner
              PROVE  KeyOf[lock'[j]] = j /\ (Owner(lock[j]))'
            <4>1. lock'[j] = lock[j] /\ lock[j] \in Requests
                BY <1>1, <2>1, <3>1 DEF TypeOK
            <4> QED
                BY <2>1, <3>1, <4>1 DEF Ownership, LockHasOwner, Owner
        <3> QED
            BY <2>2, <3>1 DEF LockHasOwner
    <2>7. NothingExpired'
        BY <2>2 DEF NothingExpired, Serene
    <2> QED
        BY <2>4, <2>5, <2>6, <2>7 DEF Ownership
<1>3. ASSUME NEW k \in Keys, CacheLost(k) PROVE Ownership'
    <2>1. /\ UNCHANGED <<pc, result, lock, redisUp, expired>>
          /\ faults' = [faults EXCEPT !["cache"] = @ + 1] /\ "cache" \in Kinds
        BY <1>3 DEF CacheLost, Count, connVars, Kinds
    <2>2. (Calm' => Calm) /\ (Serene' => Serene)
        BY <1>1, <2>1, FaultsGrow
    <2> QED
        BY <2>1, <2>2 DEF Ownership, OwnerHasLock, NothingRejected, LockHasOwner, NothingExpired, Owner
<1>4. CASE RedisDown
    <2>1. /\ UNCHANGED <<pc, lock, expired>>
          /\ result' = [q \in Requests |-> IF pc[q] \in Commands THEN "error" ELSE result[q]]
          /\ faults' = [faults EXCEPT !["outage"] = @ + 1]
        BY <1>4 DEF RedisDown, Count
    <2>2. faults["outage"] \in Nat /\ faults'["outage"] = faults["outage"] + 1
        BY <1>1, <2>1 DEF TypeOK, Kinds
    <2>3. ~Calm' /\ ~Serene'
        BY <2>2 DEF Calm, Serene
    <2>4. \A q \in Requests : Owner(q)' => Owner(q)
        BY <2>1 DEF Owner, Commands
    <2> QED
        BY <2>1, <2>3, <2>4
        DEF Ownership, OwnerHasLock, NothingRejected, LockHasOwner, NothingExpired
<1>5. CASE RedisBack
    <2>1. UNCHANGED <<pc, result, faults>> /\ ~redisUp
        BY <1>5 DEF RedisBack, connVars
    <2>2. ~Calm' /\ ~Serene'
        BY <2>1 DEF Ownership, NothingRejected, Calm, Serene
    <2>3. \A q \in Requests : Owner(q)' <=> Owner(q)
        BY <2>1 DEF Owner
    <2>4. OwnerHasLock'
        <3>1. CASE UNCHANGED <<cache, lock, expired>>
            BY <2>3, <3>1 DEF Ownership, OwnerHasLock
        <3>2. CASE expired' = expired \cup {q \in Requests : lock[KeyOf[q]] = q}
            BY <2>3, <3>2 DEF Ownership, OwnerHasLock
        <3> QED
            BY <1>5, <3>1, <3>2 DEF RedisBack
    <2> QED
        BY <2>2, <2>4 DEF Ownership, NothingRejected, LockHasOwner, NothingExpired
<1>6. ASSUME NEW p \in Processes, Crash(p) PROVE Ownership'
    <2>1. /\ UNCHANGED <<lock, expired>>
          /\ pc' = [q \in Requests |->
                      IF ProcessOf[q] = p /\ pc[q] # "idle" THEN "done" ELSE pc[q]]
          /\ result' = [q \in Requests |-> IF ProcessOf[q] = p THEN "pending" ELSE result[q]]
          /\ faults' = [faults EXCEPT !["crash"] = @ + 1]
        BY <1>6 DEF Crash, Count, redisVars
    <2>2. faults["crash"] \in Nat /\ faults'["crash"] = faults["crash"] + 1
        BY <1>1, <2>1 DEF TypeOK, Kinds
    <2>3. ~Calm' /\ ~Serene'
        BY <2>2 DEF Calm, Serene
    <2>4. \A q \in Requests : Owner(q)' => Owner(q)
        BY <2>1 DEF Owner
    <2> QED
        BY <2>1, <2>3, <2>4
        DEF Ownership, OwnerHasLock, NothingRejected, LockHasOwner, NothingExpired
<1> QED
    BY <1>2, <1>3, <1>4, <1>5, <1>6 DEF Fault

-----------------------------------------------------------------------------
(* The order of one connection *)

\* Whoever has missed is on the connection's list of its step.
LEMMA MissedIsListed ==
    ASSUME Base, NEW q \in Requests
    PROVE  /\ HasMissed(q) => q \in Replying(ProcessOf[q])
           /\ LooksAtLock(q) => q \in Sent(ProcessOf[q])
BY DEF HasMissed, LooksAtLock, Replying, Sent, Commands

\* A command of r is executed: who is ahead of another stays ahead of it, and
\* who is behind someone on the wire was not executed.
LEMMA ExecutedAhead ==
    ASSUME Base, NEW r \in Requests, NEW q \in Requests, q # r, ProcessOf[q] = ProcessOf[r],
           NEW c \in Commands, NEW o \in {"yes", "no"},
           AtRedis(r, c), Executed(r, o), pc' = pc,
           NEW l, AheadOf(q, l)
    PROVE  l # r /\ AheadOf(q, l)'
<1> DEFINE P == ProcessOf[r]
<1>1. P \in Processes /\ r \in Sent(P) /\ result[r] = "pending"
    BY HeadIsSent DEF Base
<1>2. /\ wire[P] \in Seq(Requests) /\ wire[P] # <<>> /\ Head(wire[P]) = r
      /\ replies[P] \in Seq(Requests)
      /\ Lists(wire[P], Sent(P))
    BY <1>1 DEF Base, TypeOK, AtRedis, Lines
<1>3. /\ wire'[P] = Tail(wire[P]) /\ replies'[P] = Append(replies[P], r)
      /\ result' = [result EXCEPT ![r] = o] /\ result \in [Requests -> Results]
    BY <1>1 DEF Executed, Base, TypeOK
<1>4. ~Before(wire[P], q, r)
    BY <1>2, NobodyBeforeHead
<1>5. l # r /\ l \in Requests
    <2>1. ASSUME l = r PROVE FALSE
        <3>1. AheadOf(q, r)
            BY <2>1
        <3>2. Before(wire[ProcessOf[q]], q, r)
            BY <1>1, <3>1 DEF AheadOf
        <3> QED
            BY <1>4, <3>2
    <2> QED
        BY <2>1 DEF AheadOf
<1>6. Before(replies[P], q, l) => Before(replies'[P], q, l)
    BY <1>2, <1>3, BeforeInJoined
<1>7. Before(wire[P], q, l) => Before(wire'[P], q, l)
    BY <1>2, <1>3, BeforeInTail
<1>8. /\ result'[l] = result[l] /\ pc'[l] = pc[l]
      /\ result'[q] = result[q] /\ pc'[q] = pc[q]
    BY <1>3, <1>5
<1> HIDE DEF P
<1>9. AheadOf(q, l)'
    BY <1>5, <1>6, <1>7, <1>8 DEF AheadOf, HasMissed, LooksAtLock, P
<1> QED
    BY <1>5, <1>9

LEMMA RedisStepAhead ==
    ASSUME Base, Ownership, MissedIsAhead, NEW r \in Requests, RedisStep(r)
    PROVE  MissedIsAhead'
<1> SUFFICES ASSUME OneProcess, Serene', NEW q \in Requests,
                    HasMissed(q)' \/ LooksAtLock(q)', cache'[KeyOf[q]]
             PROVE  (AheadOf(q, lock[KeyOf[q]]))'
    BY DEF MissedIsAhead
<1> DEFINE K == KeyOf[q]
<1> DEFINE P == ProcessOf[r]
<1>1. /\ TypeOK /\ Lines /\ K \in Keys /\ KeyOf[r] \in Keys /\ ProcessOf[q] = P
      /\ NoOwner \notin Requests /\ P \in Processes
    BY EmbeddingAssumption DEF Base, OneProcess
<1>2. /\ UNCHANGED <<pc, expired>> /\ Serene
      /\ \E c \in Commands, o \in {"yes", "no"} : AtRedis(r, c) /\ Executed(r, o)
    BY DEF RedisStep, GetCache, AcquireLock, SetCache, ReleaseLock, Exists, YesIf, Commands,
           histVars, Serene, Calm
<1>3. PICK c \in Commands, o \in {"yes", "no"} : AtRedis(r, c) /\ Executed(r, o)
    BY <1>2
<1>4. /\ pc[r] = c /\ result[r] = "pending" /\ r \in Sent(P)
      /\ result' = [result EXCEPT ![r] = o]
    BY <1>1, <1>3, HeadIsSent DEF AtRedis, Executed
<1>5. q # r
    <2>1. ASSUME q = r PROVE FALSE
        <3>1. result'[r] = o
            BY <1>1, <1>4 DEF TypeOK
        <3>2. result'[r] = "no" /\ pc[r] \in {"reading", "polling"}
            BY <1>2, <1>3, <2>1, <3>1 DEF HasMissed, LooksAtLock
        <3>3. GetCache(r)
            BY <3>2 DEF RedisStep, AcquireLock, SetCache, ReleaseLock, Exists, AtRedis
        <3>4. result'[r] = YesIf(cache[K]) /\ cache' = cache
            BY <1>1, <2>1, <3>3 DEF GetCache, Executed, TypeOK, redisVars
        <3> QED
            BY <3>2, <3>4 DEF YesIf
    <2> QED
        BY <2>1
<1>6. (HasMissed(q)' <=> HasMissed(q)) /\ (LooksAtLock(q)' <=> LooksAtLock(q))
    BY <1>1, <1>2, <1>4, <1>5 DEF HasMissed, LooksAtLock, TypeOK
<1>7. CASE cache[K]
    <2>1. AheadOf(q, lock[K])
        BY <1>2, <1>6, <1>7 DEF MissedIsAhead
    <2>2. lock[K] # r /\ lock[K] \in Requests
        BY <1>1, <1>2, <1>3, <1>5, <2>1, ExecutedAhead DEF AheadOf
    <2>3. lock'[K] = lock[K]
        BY <1>1, <2>2
        DEF RedisStep, GetCache, AcquireLock, SetCache, ReleaseLock, Exists, redisVars, TypeOK
    <2>4. ASSUME NEW l, l = lock[K] PROVE AheadOf(q, l)'
        BY <1>1, <1>2, <1>3, <1>5, <2>1, <2>4, ExecutedAhead
    <2> QED
        BY <2>3, <2>4 DEF AheadOf
<1>8. CASE ~cache[K]
    <2>1. SetCache(r) /\ KeyOf[r] = K
        BY <1>1, <1>8
        DEF RedisStep, GetCache, AcquireLock, SetCache, ReleaseLock, Exists, redisVars, TypeOK
    <2>2. pc[r] = "storing" /\ UNCHANGED lock
        BY <2>1 DEF SetCache, AtRedis
    <2>3. lock[K] = r
        BY <1>2, <2>1, <2>2 DEF Ownership, NothingExpired, OwnerHasLock, Owner
    <2>4. result'[r] # "pending" /\ pc'[r] = "storing" /\ lock'[K] = r
        BY <1>1, <1>2, <1>4, <2>2, <2>3 DEF TypeOK
    <2>5. HasMissed(q) => Before(replies'[P], q, r)
        <3>1. HasMissed(q) => q \in Replying(P)
            BY <1>1, MissedIsListed
        <3>2. /\ replies[P] \in Seq(Requests) /\ Lists(replies[P], Replying(P))
              /\ replies'[P] = Append(replies[P], r)
            BY <1>1, <1>3 DEF TypeOK, Lines, Executed
        <3> QED
            BY <3>1, <3>2, BeforeLast
    <2> QED
        BY <1>1, <1>6, <2>4, <2>5 DEF AheadOf
<1> QED
    BY <1>7, <1>8

\* A step of r's process: who is ahead of another request stays ahead of it.
LEMMA MovedAhead ==
    ASSUME Base, NEW r \in Requests, NEW q \in Requests, q # r, ProcessOf[q] = ProcessOf[r],
           NEW step, NEW o, pc' = [pc EXCEPT ![r] = step], result' = [result EXCEPT ![r] = o],
           \/ wire'[ProcessOf[r]] = wire[ProcessOf[r]]
           \/ wire'[ProcessOf[r]] = Append(wire[ProcessOf[r]], r),
           \/ replies'[ProcessOf[r]] = replies[ProcessOf[r]]
           \/ /\ replies'[ProcessOf[r]] = Tail(replies[ProcessOf[r]])
              /\ replies[ProcessOf[r]] # <<>> /\ Head(replies[ProcessOf[r]]) = r,
           NEW l, l # r, AheadOf(q, l)
    PROVE  AheadOf(q, l)'
<1> DEFINE P == ProcessOf[r]
<1>1. P \in Processes /\ wire[P] \in Seq(Requests) /\ replies[P] \in Seq(Requests)
    BY EmbeddingAssumption DEF Base, TypeOK
<1>2. Before(replies[P], q, l) => Before(replies'[P], q, l)
    BY <1>1, BeforeInTail
<1>3. Before(wire[P], q, l) => Before(wire'[P], q, l)
    BY <1>1, BeforeInJoined
<1>4. l \in Requests
    BY DEF AheadOf
<1>5. /\ result'[l] = result[l] /\ pc'[l] = pc[l]
      /\ result'[q] = result[q] /\ pc'[q] = pc[q]
    BY <1>4 DEF Base, TypeOK
<1> QED
    BY <1>2, <1>3, <1>4, <1>5 DEF AheadOf, HasMissed, LooksAtLock

\* r waits for nobody behind it.
LEMMA NobodyAhead ==
    ASSUME NEW r \in Requests, pc[r] # "storing", pc[r] = "releasing" => result[r] # "pending",
           NEW q
    PROVE  ~AheadOf(q, r)
BY DEF AheadOf

\* A process goes on with r: nobody new has missed, and if r looks at the lock
\* it has missed before.
LEMMA ProcessAhead ==
    ASSUME Base, Ownership, MissedIsAhead, NEW r \in Requests, NEW step, NEW o,
           Serene' => Serene, UNCHANGED <<cache, lock>>,
           Serene =>
             /\ pc' = [pc EXCEPT ![r] = step] /\ result' = [result EXCEPT ![r] = o] /\ o = "pending"
             /\ \/ wire'[ProcessOf[r]] = wire[ProcessOf[r]]
                \/ wire'[ProcessOf[r]] = Append(wire[ProcessOf[r]], r)
             /\ \/ replies'[ProcessOf[r]] = replies[ProcessOf[r]]
                \/ /\ replies'[ProcessOf[r]] = Tail(replies[ProcessOf[r]])
                   /\ replies[ProcessOf[r]] # <<>> /\ Head(replies[ProcessOf[r]]) = r,
           Serene => (step \in {"locking", "checking"} => HasMissed(r)),
           \A q \in Requests :
             /\ OneProcess /\ Serene /\ q # r
             /\ HasMissed(q) \/ LooksAtLock(q)
             /\ AheadOf(q, r)
             => AheadOf(q, r)'
    PROVE  MissedIsAhead'
<1> SUFFICES ASSUME OneProcess, Serene', NEW q \in Requests,
                    HasMissed(q)' \/ LooksAtLock(q)', cache'[KeyOf[q]]
             PROVE  (AheadOf(q, lock[KeyOf[q]]))'
    BY DEF MissedIsAhead
<1>1. /\ Serene /\ TypeOK /\ ProcessOf[q] = ProcessOf[r]
      /\ pc' = [pc EXCEPT ![r] = step] /\ result' = [result EXCEPT ![r] = o] /\ o = "pending"
    BY DEF Base, OneProcess
<1> DEFINE K == KeyOf[q]
<1>2. HasMissed(q) \/ LooksAtLock(q)
    <2>1. CASE q = r
        BY <1>1, <2>1 DEF HasMissed, LooksAtLock, TypeOK
    <2>2. CASE q # r
        BY <1>1, <2>2 DEF HasMissed, LooksAtLock, TypeOK
    <2> QED
        BY <2>1, <2>2
<1>3. cache[K] /\ lock'[K] = lock[K]
    OBVIOUS
<1>4. AheadOf(q, lock[K])
    BY <1>1, <1>2, <1>3 DEF MissedIsAhead
<1>5. ASSUME NEW l, l = lock[K] PROVE AheadOf(q, l)'
    <2>1. AheadOf(q, l) /\ l \in Requests
        BY <1>4, <1>5 DEF AheadOf
    <2>2. CASE q = r
        <3>1. HasMissed(r) /\ ~HasMissed(r)' /\ ~LooksAtLock(r)
            BY <1>1, <2>2 DEF HasMissed, LooksAtLock, TypeOK
        <3>2. pc[l] = "storing" /\ result[l] # "pending"
            BY <2>1, <2>2, <3>1 DEF AheadOf
        <3>3. l # r
            BY <3>1, <3>2 DEF HasMissed
        <3> QED
            BY <1>1, <2>1, <2>2, <3>1, <3>2, <3>3 DEF AheadOf, TypeOK
    <2>3. CASE q # r /\ l = r
        <3>1. AheadOf(q, r)
            BY <2>1, <2>3
        <3>2. AheadOf(q, r)'
            BY <1>1, <1>2, <2>3, <3>1
        <3> QED
            BY <2>3, <3>2
    <2>4. CASE q # r /\ l # r
        BY <1>1, <2>1, <2>4, MovedAhead
    <2> QED
        BY <2>2, <2>3, <2>4
<1> QED
    BY <1>3, <1>5 DEF AheadOf

\* With Redis in reach a command goes on the wire.
LEMMA SendForm ==
    ASSUME Base, Ownership, Serene, NEW r \in Requests, NEW command, NEW out,
           Send(r, command, out)
    PROVE  /\ pc' = [pc EXCEPT ![r] = command] /\ result' = [result EXCEPT ![r] = "pending"]
           /\ wire'[ProcessOf[r]] = Append(wire[ProcessOf[r]], r)
           /\ replies'[ProcessOf[r]] = out
<1>1. redisUp /\ ProcessOf[r] \in Processes
    BY EmbeddingAssumption DEF Ownership, NothingRejected, Serene
<1> QED
    BY <1>1 DEF Send, Base, TypeOK

\* The two ways to send, and the answer.
LEMMA SendNewAhead ==
    ASSUME Base, Ownership, MissedIsAhead, NEW r \in Requests,
           NEW command \in Commands \ {"locking", "checking"}, pc[r] \notin Commands,
           SendNew(r, command), Serene' => Serene, UNCHANGED <<cache, lock>>
    PROVE  MissedIsAhead'
<1>1. \A q \in Requests : ~AheadOf(q, r)
    BY NobodyAhead DEF Commands
<1>2. Serene =>
        /\ pc' = [pc EXCEPT ![r] = command] /\ result' = [result EXCEPT ![r] = "pending"]
        /\ wire'[ProcessOf[r]] = Append(wire[ProcessOf[r]], r)
        /\ replies'[ProcessOf[r]] = replies[ProcessOf[r]]
    BY SendForm DEF SendNew
<1> QED
    BY <1>1, <1>2, ProcessAhead

LEMMA SendNextAhead ==
    ASSUME Base, Ownership, MissedIsAhead, NEW r \in Requests, NEW c \in Commands,
           Replied(r, c), NEW command \in Commands,
           SendNext(r, command), UNCHANGED <<cache, lock, faults>>,
           \/ c = "storing" /\ command = "releasing"
           \/ Serene => HasMissed(r)
    PROVE  MissedIsAhead'
<1> DEFINE P == ProcessOf[r]
<1>1. /\ pc[r] = c /\ replies[P] # <<>> /\ Head(replies[P]) = r
      /\ P \in Processes /\ result[r] # "pending" /\ r \in Replying(P)
      /\ Serene' => Serene
    BY HeadIsReplying DEF Replied, Base, Serene, Calm
<1>2. Serene =>
        /\ pc' = [pc EXCEPT ![r] = command] /\ result' = [result EXCEPT ![r] = "pending"]
        /\ wire'[P] = Append(wire[P], r)
        /\ replies'[P] = Tail(replies[P])
    BY SendForm DEF SendNext
<1>3. ASSUME NEW q \in Requests, OneProcess, Serene, q # r, AheadOf(q, r),
             HasMissed(q) \/ LooksAtLock(q)
      PROVE  AheadOf(q, r)'
    <2>1. /\ P = ProcessOf[q] /\ wire[P] \in Seq(Requests) /\ replies[P] \in Seq(Requests)
          /\ Lists(wire[P], Sent(P)) /\ Lists(replies[P], Replying(P))
        BY <1>1, <1>3 DEF OneProcess, Base, TypeOK, Lines
    <2>2. pc[r] = "storing"
        BY <1>1, <1>3 DEF AheadOf
    <2>3. ~HasMissed(q)
        <3>1. ~Before(replies[P], q, r)
            BY <1>1, <2>1, NobodyBeforeHead
        <3> QED
            BY <1>3, <2>1, <2>2, <3>1 DEF AheadOf
    <2>4. LooksAtLock(q) /\ q \in Sent(P)
        BY <1>3, <2>1, <2>3, MissedIsListed
    <2>5. Before(wire'[P], q, r)
        <3>1. Before(Append(wire[P], r), q, r)
            BY <2>1, <2>4, BeforeLast
        <3> QED
            BY <1>2, <1>3, <3>1
    <2>6. /\ pc'[r] = "releasing" /\ result'[r] = "pending"
          /\ pc'[q] = pc[q] /\ result'[q] = result[q]
        BY <1>1, <1>2, <1>3, <2>2 DEF Base, TypeOK, HasMissed
    <2> QED
        BY <2>1, <2>4, <2>5, <2>6 DEF AheadOf, LooksAtLock
<1> QED
    BY <1>1, <1>2, <1>3, ProcessAhead

LEMMA GoOnAhead ==
    ASSUME Base, Ownership, MissedIsAhead, NEW r \in Requests, NEW c \in Commands \ {"storing"},
           Replied(r, c), NEW step \in Steps \ Commands, GoOn(r, step),
           UNCHANGED <<cache, lock, faults>>
    PROVE  MissedIsAhead'
<1> DEFINE P == ProcessOf[r]
<1>1. /\ pc[r] = c /\ replies[P] # <<>> /\ Head(replies[P]) = r
      /\ P \in Processes /\ result[r] # "pending"
      /\ Serene' => Serene
    BY HeadIsReplying DEF Replied, Base, Serene, Calm
<1>2. /\ pc' = [pc EXCEPT ![r] = step] /\ result' = [result EXCEPT ![r] = "pending"]
      /\ wire'[P] = wire[P] /\ replies'[P] = Tail(replies[P])
    BY <1>1 DEF GoOn, Base, TypeOK
<1>3. \A q \in Requests : ~AheadOf(q, r)
    BY <1>1, NobodyAhead
<1>4. step \notin {"locking", "checking"}
    BY DEF Commands
<1> QED
    BY <1>1, <1>2, <1>3, <1>4, ProcessAhead

LEMMA ProcessStepAhead ==
    ASSUME Base, Ownership, MissedIsAhead, NEW r \in Requests,
           Arrive(r) \/ RequestStep(r), ~RedisStep(r)
    PROVE  MissedIsAhead'
<1>1. TypeOK /\ (faults' = faults => (Serene' => Serene))
    BY DEF Base, Serene, Calm
<1>2. CASE Arrive(r)
    BY <1>1, <1>2, SendNewAhead DEF Arrive, redisVars, histVars, Commands
<1>3. CASE AfterRead(r) \/ AfterPoll(r)
    <2>1. PICK c \in {"reading", "polling"}, command \in {"locking", "checking"} :
            /\ Replied(r, c) /\ result[r] # "error"
            /\ UNCHANGED <<cache, lock, faults>>
            /\ result[r] = "yes" => GoOn(r, "done")
            /\ result[r] # "yes" => SendNext(r, command)
        BY <1>3 DEF AfterRead, AfterPoll, Answer, redisVars, histVars
    <2>2. result[r] # "pending" /\ pc[r] = c
        BY <2>1, HeadIsReplying DEF Base, Replied, Commands
    <2>3. CASE result[r] = "yes"
        BY <2>1, <2>3, GoOnAhead DEF Commands, Steps
    <2>4. CASE result[r] # "yes"
        <3>1. HasMissed(r)
            BY <1>1, <2>1, <2>2, <2>4 DEF HasMissed, TypeOK, Results
        <3> QED
            BY <2>1, <2>4, <3>1, SendNextAhead DEF Commands
    <2> QED
        BY <2>3, <2>4
<1>4. CASE AfterLock(r)
    <2>1. /\ Replied(r, "locking") /\ UNCHANGED <<cache, lock, faults>>
          /\ GoOn(r, "queued") \/ GoOn(r, "sleeping")
        BY <1>4 DEF AfterLock, redisVars, histVars
    <2> QED
        BY <2>1, GoOnAhead DEF Commands, Steps
<1>5. CASE EnterSemaphore(r)
    <2>1. /\ pc[r] = "queued" /\ pc' = [pc EXCEPT ![r] = "calling"]
          /\ UNCHANGED <<result, wire, replies, cache, lock, faults>>
        BY <1>5 DEF EnterSemaphore, connVars, redisVars
    <2>2. ASSUME NEW q \in Requests, HasMissed(q)' \/ LooksAtLock(q)'
          PROVE  /\ HasMissed(q)' <=> HasMissed(q)
                 /\ LooksAtLock(q)' <=> LooksAtLock(q)
                 /\ HasMissed(q) \/ LooksAtLock(q)
                 /\ \A l : AheadOf(q, l) => AheadOf(q, l)'
        <3>1. q # r /\ pc'[q] = pc[q]
            BY <1>1, <2>1, <2>2 DEF TypeOK, HasMissed, LooksAtLock
        <3>2. ASSUME NEW l, AheadOf(q, l) PROVE AheadOf(q, l)'
            <4>1. l # r /\ l \in Requests
                BY <2>1, <3>2 DEF AheadOf
            <4>2. pc'[l] = pc[l]
                BY <1>1, <2>1, <4>1 DEF TypeOK
            <4> QED
                BY <2>1, <3>1, <3>2, <4>1, <4>2 DEF AheadOf, HasMissed, LooksAtLock
        <3> QED
            BY <2>1, <2>2, <3>1, <3>2 DEF HasMissed, LooksAtLock
    <2>3. ASSUME OneProcess, Serene', NEW q \in Requests,
                 HasMissed(q)' \/ LooksAtLock(q)', cache'[KeyOf[q]]
          PROVE  (AheadOf(q, lock[KeyOf[q]]))'
        <3>1. AheadOf(q, lock[KeyOf[q]])
            BY <1>1, <2>1, <2>2, <2>3 DEF MissedIsAhead
        <3> QED
            BY <2>1, <2>2, <2>3, <3>1 DEF AheadOf
    <2> QED
        BY <2>3 DEF MissedIsAhead
<1>6. CASE ApiReturns(r)
    BY <1>1, <1>6, SendNewAhead DEF ApiReturns, redisVars, histVars, Commands
<1>7. CASE ApiFails(r)
    <2>1. /\ pc[r] = "calling" /\ SendNew(r, "releasing") /\ UNCHANGED <<cache, lock>>
          /\ faults' = [faults EXCEPT !["api"] = @ + 1] /\ "api" \in Kinds
        BY <1>7 DEF ApiFails, redisVars, Kinds
    <2>2. Serene' => Serene
        BY <1>1, <2>1, FaultsGrow
    <2> QED
        BY <2>1, <2>2, SendNewAhead DEF Commands
<1>8. CASE AfterStore(r)
    BY <1>8, SendNextAhead DEF AfterStore, redisVars, histVars, Commands
<1>9. CASE AfterRelease(r)
    BY <1>9, GoOnAhead DEF AfterRelease, Answer, redisVars, histVars, Commands, Steps
<1>10. CASE Poll(r)
    BY <1>1, <1>10, SendNewAhead DEF Poll, redisVars, histVars, Commands
<1>11. CASE EarlyExit(r)
    BY <1>11, GoOnAhead DEF EarlyExit, Answer, redisVars, histVars, Commands, Steps
<1>12. CASE NextRound(r)
    <2> DEFINE step == IF polls'[r] = MaxPolls THEN "done" ELSE "sleeping"
    <2>1. step \in Steps \ Commands
        BY DEF Steps, Commands
    <2> HIDE DEF step
    <2> QED
        BY <1>12, <2>1, GoOnAhead DEF NextRound, redisVars, histVars, Commands, step
<1>13. CASE CommandRejected(r)
    <2>1. PICK c \in Commands \ {"storing"} : Replied(r, c)
        BY <1>13 DEF CommandRejected
    <2> QED
        BY <1>13, <2>1, GoOnAhead
        DEF CommandRejected, Answer, redisVars, histVars, Commands, Steps
<1> QED
    BY <1>2, <1>3, <1>4, <1>5, <1>6, <1>7, <1>8, <1>9, <1>10, <1>11, <1>12, <1>13
    DEF RequestStep

-----------------------------------------------------------------------------
(* One call for all *)

\* A fault leaves nothing to show.
LEMMA FaultIsNotSerene ==
    ASSUME Base, Ownership, Fault
    PROVE  ~Serene'
<1>1. /\ {"lock", "cache", "outage", "crash"} \subseteq Kinds
      /\ faults \in [Kinds -> Nat] /\ \A f \in Kinds : faults[f] + 1 # 0
    <2>1. faults \in [Kinds -> Nat]
        BY DEF Base, TypeOK
    <2> QED
        BY <2>1 DEF Kinds
<1>2. ASSUME NEW k \in Keys, LockLost(k) \/ CacheLost(k) PROVE ~Serene'
    BY <1>1, <1>2 DEF LockLost, CacheLost, Count, Serene
<1>3. CASE RedisDown
    BY <1>1, <1>3 DEF RedisDown, Count, Serene, Calm
<1>4. CASE RedisBack
    BY <1>4 DEF RedisBack, Serene, Calm, Ownership, NothingRejected
<1>5. ASSUME NEW p \in Processes, Crash(p) PROVE ~Serene'
    BY <1>1, <1>5 DEF Crash, Count, Serene, Calm
<1> QED
    BY <1>2, <1>3, <1>4, <1>5 DEF Fault

\* Without faults a process step other than a call's start moves one request,
\* from a step that knows of the vector or of the lock to one that has to.
LEMMA ProcessMove ==
    ASSUME Base, Ownership, NEW r \in Requests, Arrive(r) \/ RequestStep(r),
           ~RedisStep(r), ~EnterSemaphore(r), NoFault'
    PROVE  /\ NoFault /\ UNCHANGED <<cache, lock, calls>>
           /\ \E step \in Steps :
                /\ pc' = [pc EXCEPT ![r] = step]
                /\ result' = [result EXCEPT ![r] = "pending"]
                /\ step = "releasing" => pc[r] = "storing" /\ result[r] # "pending"
                /\ step \in {"sleeping", "polling", "checking"} =>
                     \/ pc[r] \in {"sleeping", "polling", "checking"}
                     \/ pc[r] = "locking" /\ result[r] = "no"
                /\ step \in {"locking", "queued"} =>
                     pc[r] = "reading" \/ (pc[r] = "locking" /\ result[r] = "yes")
<1> DEFINE Moves(step) ==
      /\ pc' = [pc EXCEPT ![r] = step]
      /\ result' = [result EXCEPT ![r] = "pending"]
<1>1. TypeOK /\ Lines
    BY DEF Base
<1>2. ~ApiFails(r) /\ faults' = faults
    <2>1. faults \in [Kinds -> Nat] /\ "api" \in Kinds
        BY <1>1 DEF TypeOK, Kinds
    <2>2. ~ApiFails(r)
        BY <2>1 DEF ApiFails, NoFault
    <2> QED
        BY <2>2 DEF RequestStep, Arrive, AfterRead, AfterLock, ApiReturns, AfterStore,
               AfterRelease, Poll, AfterPoll, EarlyExit, NextRound, CommandRejected, histVars
<1>3. NoFault /\ Serene /\ UNCHANGED <<cache, lock, calls>>
    <2>1. NoFault /\ Serene
        BY <1>2 DEF NoFault, Serene, Calm
    <2>2. UNCHANGED <<cache, lock, calls>>
        BY <1>2 DEF RequestStep, Arrive, AfterRead, AfterLock, ApiReturns, AfterStore,
               AfterRelease, Poll, AfterPoll, EarlyExit, NextRound, CommandRejected,
               redisVars, histVars
    <2> QED
        BY <2>1, <2>2
<1>4. ASSUME NEW command \in Commands, NEW out, Send(r, command, out) PROVE Moves(command)
    BY <1>3, <1>4, SendForm
<1>5. ASSUME NEW step, GoOn(r, step) PROVE Moves(step)
    BY <1>5 DEF GoOn
<1>6. ASSUME NEW c \in Commands, Replied(r, c) PROVE pc[r] = c /\ result[r] # "pending"
    BY <1>1, <1>6, HeadIsReplying DEF Replied
<1>7. result[r] \in {"pending", "yes", "no"}
    BY <1>1, <1>3 DEF TypeOK, Results, Ownership, NothingRejected, Serene
<1>8. Commands \subseteq Steps /\ {"queued", "sleeping", "done"} \subseteq Steps
    BY DEF Steps
<1> DEFINE Goal(step) ==
      /\ step \in Steps
      /\ Moves(step)
      /\ step = "releasing" => pc[r] = "storing" /\ result[r] # "pending"
      /\ step \in {"sleeping", "polling", "checking"} =>
           \/ pc[r] \in {"sleeping", "polling", "checking"}
           \/ pc[r] = "locking" /\ result[r] = "no"
      /\ step \in {"locking", "queued"} =>
           pc[r] = "reading" \/ (pc[r] = "locking" /\ result[r] = "yes")
<1> HIDE DEF Moves
<1>9. CASE Arrive(r)
    <2>1. Goal("reading")
        BY <1>4, <1>8, <1>9 DEF Arrive, SendNew, Commands
    <2> QED
        BY <1>3, <2>1 DEF Moves
<1>10. CASE AfterRead(r)
    <2>1. Goal("done") \/ Goal("locking")
        BY <1>4, <1>5, <1>6, <1>8, <1>10 DEF AfterRead, Answer, SendNext, Commands
    <2> QED
        BY <1>3, <2>1 DEF Moves
<1>11. CASE AfterLock(r)
    <2>1. Goal("queued") \/ Goal("sleeping")
        BY <1>5, <1>6, <1>7, <1>8, <1>11 DEF AfterLock, Commands
    <2> QED
        BY <1>3, <2>1 DEF Moves
<1>12. CASE ApiReturns(r)
    <2>1. Goal("storing")
        BY <1>4, <1>8, <1>12 DEF ApiReturns, SendNew, Commands
    <2> QED
        BY <1>3, <2>1 DEF Moves
<1>13. CASE AfterStore(r)
    <2>1. Goal("releasing")
        BY <1>4, <1>6, <1>8, <1>13 DEF AfterStore, SendNext, Commands
    <2> QED
        BY <1>3, <2>1 DEF Moves
<1>14. CASE AfterRelease(r) \/ EarlyExit(r) \/ CommandRejected(r)
    <2>1. Goal("done")
        BY <1>5, <1>8, <1>14 DEF AfterRelease, EarlyExit, CommandRejected, Answer
    <2> QED
        BY <1>3, <2>1 DEF Moves
<1>15. CASE Poll(r)
    <2>1. Goal("polling")
        BY <1>4, <1>8, <1>15 DEF Poll, SendNew, Commands
    <2> QED
        BY <1>3, <2>1 DEF Moves
<1>16. CASE AfterPoll(r)
    <2>1. Goal("done") \/ Goal("checking")
        BY <1>4, <1>5, <1>6, <1>8, <1>16 DEF AfterPoll, Answer, SendNext, Commands
    <2> QED
        BY <1>3, <2>1 DEF Moves
<1>17. CASE NextRound(r)
    <2>1. Goal("done") \/ Goal("sleeping")
        BY <1>5, <1>6, <1>8, <1>17 DEF NextRound, Commands
    <2> QED
        BY <1>3, <2>1 DEF Moves
<1> QED
    BY <1>2, <1>9, <1>10, <1>11, <1>12, <1>13, <1>14, <1>15, <1>16, <1>17 DEF RequestStep

LEMMA ProcessStepSharing ==
    ASSUME Base, Ownership, Sharing, NEW r \in Requests, Arrive(r) \/ RequestStep(r),
           ~RedisStep(r), NoFault'
    PROVE  Stored' /\ WaitsForSomething' /\ CallsCounted'
<1>1. TypeOK /\ NoOwner \notin Requests /\ \A q \in Requests : KeyOf[q] \in Keys
    BY EmbeddingAssumption DEF Base
<1>2. CASE EnterSemaphore(r)
    <2> DEFINE K == KeyOf[r]
    <2>1. /\ pc[r] = "queued" /\ pc' = [pc EXCEPT ![r] = "calling"]
          /\ calls' = [calls EXCEPT ![K] = @ + 1]
          /\ UNCHANGED <<result, cache, lock, faults>>
        BY <1>2 DEF EnterSemaphore, connVars, redisVars
    <2>2. NoFault /\ Serene
        BY <2>1 DEF NoFault, Serene, Calm
    <2>3. \A q \in Requests : q # r => pc'[q] = pc[q]
        BY <1>1, <2>1 DEF TypeOK
    <2>4. pc'[r] = "calling"
        BY <1>1, <2>1 DEF TypeOK
    <2>5. Stored' /\ WaitsForSomething'
        BY <2>1, <2>2, <2>3, <2>4 DEF Sharing, Stored, WaitsForSomething
    <2>6. lock[K] = r
        BY <2>1, <2>2 DEF Ownership, OwnerHasLock, NothingExpired, Owner
    <2>7. CallsCounted'
        <3>1. SUFFICES ASSUME OneProcess, NEW k \in Keys
                       PROVE  /\ calls'[k] <= 1
                              /\ lock'[k] = NoOwner /\ ~cache'[k] => calls'[k] = 0
                              /\ lock'[k] # NoOwner /\ pc'[lock'[k]] \in {"locking", "queued"}
                                   => calls'[k] = 0
            BY DEF CallsCounted
        <3>2. /\ calls[k] <= 1
              /\ lock[k] = NoOwner /\ ~cache[k] => calls[k] = 0
              /\ lock[k] # NoOwner /\ pc[lock[k]] \in {"locking", "queued"} => calls[k] = 0
            BY <2>2, <3>1 DEF Sharing, CallsCounted
        <3>3. CASE k = K
            <4>1. calls[k] = 0 /\ calls'[k] = 1
                BY <1>1, <2>1, <2>6, <3>2, <3>3 DEF TypeOK
            <4> QED
                BY <1>1, <2>1, <2>4, <2>6, <3>3, <4>1
        <3>4. CASE k # K
            <4>1. calls'[k] = calls[k]
                BY <1>1, <2>1, <3>4 DEF TypeOK
            <4>2. lock[k] # r /\ lock[k] \in Requests \cup {NoOwner}
                BY <1>1, <2>2, <3>4 DEF Ownership, LockHasOwner, Serene, TypeOK
            <4> QED
                BY <2>1, <2>3, <3>2, <4>1, <4>2
        <3> QED
            BY <3>3, <3>4
    <2> QED
        BY <2>5, <2>7
<1>3. CASE ~EnterSemaphore(r)
    <2>1. NoFault /\ UNCHANGED <<cache, lock, calls>>
        BY <1>3, ProcessMove
    <2>2. PICK step \in Steps :
            /\ pc' = [pc EXCEPT ![r] = step]
            /\ result' = [result EXCEPT ![r] = "pending"]
            /\ step = "releasing" => pc[r] = "storing" /\ result[r] # "pending"
            /\ step \in {"sleeping", "polling", "checking"} =>
                 \/ pc[r] \in {"sleeping", "polling", "checking"}
                 \/ pc[r] = "locking" /\ result[r] = "no"
            /\ step \in {"locking", "queued"} =>
                 pc[r] = "reading" \/ (pc[r] = "locking" /\ result[r] = "yes")
        BY <1>3, ProcessMove
    <2>3. /\ \A q \in Requests : q # r => pc'[q] = pc[q] /\ result'[q] = result[q]
          /\ pc'[r] = step /\ result'[r] = "pending"
        BY <1>1, <2>2 DEF TypeOK
    <2>4. Stored'
        BY <2>1, <2>2, <2>3 DEF Sharing, Stored
    <2>5. WaitsForSomething'
        BY <2>1, <2>2, <2>3 DEF Sharing, WaitsForSomething
    <2>6. CallsCounted'
        <3>1. SUFFICES ASSUME OneProcess, NEW k \in Keys, lock[k] # NoOwner,
                              pc'[lock[k]] \in {"locking", "queued"}
                       PROVE  pc[lock[k]] \in {"locking", "queued"}
            BY <2>1 DEF Sharing, CallsCounted
        <3>2. lock[k] \in Requests /\ Owner(lock[k])
            BY <1>1, <2>1, <3>1 DEF TypeOK, Ownership, LockHasOwner, NoFault, Serene
        <3> QED
            BY <2>2, <2>3, <3>1, <3>2 DEF Owner
    <2> QED
        BY <2>4, <2>5, <2>6
<1> QED
    BY <1>2, <1>3

LEMMA RedisStepSharing ==
    ASSUME Base, Ownership, Sharing, NEW r \in Requests, RedisStep(r), NoFault'
    PROVE  Stored' /\ WaitsForSomething' /\ CallsCounted'
<1> DEFINE K == KeyOf[r]
<1>1. TypeOK /\ Lines /\ NoOwner \notin Requests /\ K \in Keys
    BY EmbeddingAssumption DEF Base
<1>2. /\ UNCHANGED <<pc, calls, faults>>
      /\ \E c \in Commands, o \in {"yes", "no"} : AtRedis(r, c) /\ Executed(r, o)
    BY DEF RedisStep, GetCache, AcquireLock, SetCache, ReleaseLock, Exists, YesIf, Commands,
           histVars
<1>3. PICK c \in Commands, o \in {"yes", "no"} : AtRedis(r, c) /\ Executed(r, o)
    BY <1>2
<1>4. /\ pc[r] = c /\ result[r] = "pending"
      /\ result'[r] = o /\ \A q \in Requests : q # r => result'[q] = result[q]
    BY <1>1, <1>3, HeadIsSent DEF AtRedis, Executed, TypeOK
<1>5. NoFault /\ Serene
    BY <1>2 DEF NoFault, Serene, Calm
<1>6. \A k \in Keys : cache[k] => cache'[k]
    BY <1>1
    DEF RedisStep, GetCache, AcquireLock, SetCache, ReleaseLock, Exists, redisVars, TypeOK
<1>7. c = "storing" => cache'[K]
    BY <1>1, <1>4
    DEF RedisStep, GetCache, AcquireLock, SetCache, ReleaseLock, Exists, AtRedis, TypeOK
<1>8. c = "locking" => /\ lock' = [lock EXCEPT ![K] = IF @ = NoOwner THEN r ELSE @]
                       /\ o = "no" => lock[K] # NoOwner
    BY <1>1, <1>4
    DEF RedisStep, GetCache, AcquireLock, SetCache, ReleaseLock, Exists, AtRedis,
        Executed, YesIf, TypeOK
<1>9. c = "releasing" => lock' = [lock EXCEPT ![K] = IF @ = r THEN NoOwner ELSE @]
    BY <1>4 DEF RedisStep, GetCache, AcquireLock, SetCache, ReleaseLock, Exists, AtRedis
<1>10. c \notin {"locking", "releasing"} => lock' = lock
    BY <1>4
    DEF RedisStep, GetCache, AcquireLock, SetCache, ReleaseLock, Exists, AtRedis, redisVars
<1>11. c = "releasing" => cache[K]
    BY <1>4, <1>5 DEF Sharing, Stored
<1>12. Stored'
    BY <1>1, <1>2, <1>4, <1>5, <1>6, <1>7, EmbeddingAssumption DEF Sharing, Stored
<1>13. ASSUME NEW k \in Keys, ~cache'[k], lock[k] # NoOwner PROVE lock'[k] # NoOwner
    BY <1>1, <1>6, <1>8, <1>9, <1>10, <1>11, <1>13 DEF TypeOK
<1>14. WaitsForSomething'
    <2>1. SUFFICES ASSUME NEW q \in Requests,
                          \/ pc[q] \in {"sleeping", "polling", "checking"}
                          \/ pc[q] = "locking" /\ result'[q] = "no"
                   PROVE  cache'[KeyOf[q]] \/ lock'[KeyOf[q]] # NoOwner
        BY <1>2 DEF WaitsForSomething
    <2>2. KeyOf[q] \in Keys
        BY EmbeddingAssumption
    <2>3. cache[KeyOf[q]] \/ lock[KeyOf[q]] # NoOwner
        BY <1>4, <1>5, <1>8, <2>1 DEF Sharing, WaitsForSomething
    <2> QED
        BY <1>6, <1>13, <2>2, <2>3
<1>15. CallsCounted'
    <2>1. SUFFICES ASSUME OneProcess, NEW k \in Keys
                   PROVE  /\ calls[k] <= 1
                          /\ lock'[k] = NoOwner /\ ~cache'[k] => calls[k] = 0
                          /\ lock'[k] # NoOwner /\ pc[lock'[k]] \in {"locking", "queued"}
                               => calls[k] = 0
        BY <1>2 DEF CallsCounted
    <2>2. /\ calls[k] <= 1
          /\ lock[k] = NoOwner /\ ~cache[k] => calls[k] = 0
          /\ lock[k] # NoOwner /\ pc[lock[k]] \in {"locking", "queued"} => calls[k] = 0
        BY <1>5, <2>1 DEF Sharing, CallsCounted
    <2>3. ASSUME lock'[k] # NoOwner, lock'[k] # lock[k] PROVE calls[k] = 0
        <3>1. c = "locking" /\ k = K /\ lock[k] = NoOwner
            BY <1>1, <1>8, <1>9, <1>10, <2>3 DEF TypeOK
        <3>2. LooksAtLock(r)
            BY <1>4, <3>1 DEF LooksAtLock
        <3>3. ~cache[k]
            BY <1>1, <1>5, <2>1, <3>1, <3>2 DEF Sharing, MissedIsAhead, AheadOf
        <3> QED
            BY <2>2, <3>1, <3>3
    <2> QED
        BY <1>6, <1>13, <2>2, <2>3
<1> QED
    BY <1>12, <1>14, <1>15

LEMMA NextIInv == IInv /\ [Next]_vars => IInv'
<1> SUFFICES ASSUME IInv, [Next]_vars PROVE IInv'
    OBVIOUS
<1>1. Base'
    BY NextBase DEF IInv
<1>2. ASSUME NEW r \in Requests, Arrive(r) \/ RequestStep(r) PROVE Ownership' /\ Sharing'
    <2>1. Ownership'
        BY <1>2, RedisStepOwnership, ProcessStepOwnership DEF IInv
    <2>2. MissedIsAhead'
        BY <1>2, RedisStepAhead, ProcessStepAhead DEF IInv, Sharing
    <2>3. Stored' /\ WaitsForSomething' /\ CallsCounted'
        <3>1. CASE NoFault'
            BY <1>2, <3>1, RedisStepSharing, ProcessStepSharing DEF IInv
        <3>2. CASE ~NoFault'
            BY <3>2 DEF Stored, WaitsForSomething, CallsCounted
        <3> QED
            BY <3>1, <3>2
    <2> QED
        BY <2>1, <2>2, <2>3 DEF Sharing
<1>3. CASE Fault
    <2>1. Ownership' /\ ~Serene' /\ ~NoFault'
        BY <1>3, FaultOwnership, FaultIsNotSerene DEF IInv, NoFault
    <2> QED
        BY <1>1, <2>1
        DEF IInv, Sharing, MissedIsAhead, Stored, WaitsForSomething, CallsCounted
<1>4. CASE UNCHANGED vars
    <2>1. UNCHANGED <<pc, result, wire, replies, cache, lock, redisUp, expired, calls, faults>>
        BY <1>4 DEF vars, connVars, redisVars, histVars
    <2>2. Ownership'
        BY <2>1
        DEF IInv, Ownership, OwnerHasLock, NothingRejected, LockHasOwner, NothingExpired,
            Owner, Calm, Serene
    <2>3. MissedIsAhead'
        BY <2>1
        DEF IInv, Sharing, MissedIsAhead, HasMissed, LooksAtLock, AheadOf, Before, Calm, Serene
    <2>4. Stored' /\ WaitsForSomething' /\ CallsCounted'
        BY <2>1
        DEF IInv, Sharing, Stored, WaitsForSomething, CallsCounted, NoFault, Calm, Serene
    <2> QED
        BY <1>1, <2>2, <2>3, <2>4 DEF IInv, Sharing
<1> QED
    BY <1>1, <1>2, <1>3, <1>4 DEF Next, AllAnswered, IInv

-----------------------------------------------------------------------------
(* Theorems *)

LEMMA InitIInv == Init => IInv
<1> SUFFICES ASSUME Init PROVE IInv
    OBVIOUS
<1>1. /\ Permits \in Nat /\ MaxPolls \in Nat \ {0} /\ NoOwner \notin Requests
      /\ \A r \in Requests : ProcessOf[r] \in Processes /\ KeyOf[r] \in Keys
    BY EmbeddingAssumption
<1>2. TypeOK
    BY <1>1 DEF Init, TypeOK, Steps, Results
<1>3. \A p \in Processes : Sent(p) = {} /\ Replying(p) = {} /\ Calling(p) = {}
    BY DEF Init, Sent, Replying, Calling, Commands
<1>4. Lines
    BY <1>3, ListsNobody DEF Init, Lines
<1>5. PermitsCounted
    <2>1. \A p \in Processes : permits[p] = Permits /\ Cardinality(Calling(p)) = 0
        BY <1>3, FS_EmptySet DEF Init
    <2> QED
        BY <1>1, <2>1 DEF PermitsCounted
<1>6. RoundsLeft
    BY <1>1 DEF Init, RoundsLeft
<1>7. Ownership
    BY DEF Init, Ownership, OwnerHasLock, NothingRejected, LockHasOwner, NothingExpired, Owner
<1>8. Sharing
    BY <1>1
    DEF Init, Sharing, MissedIsAhead, HasMissed, LooksAtLock, Stored, WaitsForSomething,
        CallsCounted
<1> QED
    BY <1>2, <1>4, <1>5, <1>6, <1>7, <1>8 DEF IInv, Base

\* The inductive invariant.
THEOREM Invariance == Spec => []IInv
<1> QED
    BY InitIInv, NextIInv, PTL DEF Spec

\* Every variable keeps its type; in particular no semaphore of a process ever
\* gives away more permits than it has, nor gets back more (embedSearchQuery's
\* withRetry inside semaphore.runExclusive).
THEOREM TypeCorrect == Spec => []TypeOK
<1>1. IInv => TypeOK
    BY DEF IInv, Base
<1> QED
    BY <1>1, Invariance, PTL

\* Nobody but time, memory pressure and a restart of Redis takes an owner's lock
\* (acquireLock and releaseLock of redis.service.ts).
THEOREM OwnerHolds == Spec => []OwnerHasLock
<1>1. IInv => OwnerHasLock
    BY DEF IInv, Ownership
<1> QED
    BY <1>1, Invariance, PTL

\* Without an outage or a crash no path of embedSearchQuery leaves its lock
\* behind, however the API call ends.
THEOREM NoLockStays == Spec => []NoLockLeftBehind
<1>1. IInv => NoLockLeftBehind
    <2> SUFFICES ASSUME IInv, faults["outage"] + faults["crash"] = 0,
                        NEW k \in Keys, lock[k] # NoOwner
                 PROVE  pc[lock[k]] # "done"
        BY DEF NoLockLeftBehind
    <2>1. faults["outage"] \in Nat /\ faults["crash"] \in Nat
        BY DEF IInv, Base, TypeOK, Kinds
    <2>2. Calm
        BY <2>1 DEF Calm
    <2>3. Owner(lock[k])
        BY <2>2 DEF IInv, Ownership, LockHasOwner
    <2> QED
        BY <2>3 DEF Owner
<1> QED
    BY <1>1, Invariance, PTL

\* In one process one API call serves all requests for a keyword, however many
\* search at once, as long as nothing fails (README line 57).
THEOREM OneCallHolds ==
    ASSUME OneProcess
    PROVE  Spec => []OneCallPerKey
<1>1. IInv => OneCallPerKey
    <2> SUFFICES ASSUME IInv, Untroubled, NEW k \in Keys
                 PROVE  calls[k] <= 1
        BY DEF OneCallPerKey
    <2>1. NoFault
        BY DEF Untroubled, Kinds, NoFault, Serene, Calm
    <2> QED
        BY <2>1 DEF IInv, Sharing, CallsCounted
<1> QED
    BY <1>1, Invariance, PTL

\* Of a sum that is nothing both parts are nothing.
LEMMA NoneOfSum ==
    ASSUME NEW m \in Nat, NEW n \in Nat, m + n = 0
    PROVE  m = 0 /\ n = 0
OBVIOUS

\* In one process a waiter that finds the lock gone is right to give up: no
\* vector is there, and an API call has failed (waitForCache).
THEOREM EarlyExitIsRight ==
    ASSUME OneProcess
    PROVE  Spec => EarlyExitMeansFailure
<1> DEFINE Right ==
      \A r \in Requests :
         /\ pc[r] = "checking" /\ result[r] = "pending" /\ result'[r] = "no"
         /\ faults["lock"] + faults["cache"] + faults["outage"] + faults["crash"] = 0
         => ~cache[KeyOf[r]] /\ faults["api"] > 0
<1>1. IInv /\ [Next]_vars => [Right]_vars
    <2> SUFFICES ASSUME IInv, Next, NEW r \in Requests,
                        pc[r] = "checking", result[r] = "pending", result'[r] = "no",
                        faults["lock"] + faults["cache"] + faults["outage"] + faults["crash"] = 0
                 PROVE  ~cache[KeyOf[r]] /\ faults["api"] > 0
        OBVIOUS
    <2>1. /\ \A f \in Kinds : faults[f] \in Nat
          /\ {"lock", "cache", "outage", "api", "crash"} \subseteq Kinds
        BY DEF IInv, Base, TypeOK, Kinds
    <2>2. Serene
        <3>1. /\ faults["lock"] \in Nat /\ faults["cache"] \in Nat
              /\ faults["outage"] \in Nat /\ faults["crash"] \in Nat
            BY <2>1
        <3>2. /\ faults["lock"] + faults["cache"] \in Nat
              /\ faults["lock"] + faults["cache"] + faults["outage"] \in Nat
            BY <3>1
        <3>3. /\ faults["lock"] = 0 /\ faults["cache"] = 0
              /\ faults["outage"] = 0 /\ faults["crash"] = 0
            BY <3>1, <3>2, NoneOfSum
        <3> QED
            BY <3>3 DEF Serene, Calm
    <2>3. TypeOK /\ Lines
        BY DEF IInv, Base
    <2>4. Exists(r)
        <3>1. ASSUME NEW q \in Requests, RedisStep(q) PROVE Exists(r)
            <4>1. PICK c \in Commands, o \in {"yes", "no"} : AtRedis(q, c) /\ Executed(q, o)
                BY <3>1
                DEF RedisStep, GetCache, AcquireLock, SetCache, ReleaseLock, Exists, YesIf,
                    Commands
            <4>2. result' = [result EXCEPT ![q] = o]
                BY <4>1 DEF Executed
            <4>3. q = r
                BY <2>3, <4>2 DEF TypeOK
            <4> QED
                BY <3>1, <4>3
                DEF RedisStep, GetCache, AcquireLock, SetCache, ReleaseLock, AtRedis
        <3>2. ASSUME NEW q \in Requests, Arrive(q) \/ RequestStep(q), ~RedisStep(q) PROVE FALSE
            <4>1. \E o \in {"pending", "error", result[q]} : result' = [result EXCEPT ![q] = o]
                BY <2>3, <3>2
                DEF Arrive, RequestStep, AfterRead, AfterLock, EnterSemaphore, ApiReturns,
                    ApiFails, AfterStore, AfterRelease, Poll, AfterPoll, EarlyExit, NextRound,
                    CommandRejected, Answer, GoOn, SendNew, SendNext, Send, connVars, TypeOK
            <4> QED
                BY <2>3, <4>1 DEF TypeOK
        <3>3. CASE Fault
            <4>1. result'[r] \in {"pending", "error", result[r]}
                BY <2>3, <3>3
                DEF Fault, LockLost, CacheLost, RedisDown, RedisBack, Crash, connVars, TypeOK
            <4> QED
                BY <4>1
        <3>4. CASE UNCHANGED vars
            BY <3>4 DEF vars, connVars
        <3> QED
            BY <3>1, <3>2, <3>3, <3>4 DEF Next, AllAnswered
    <2>5. lock[KeyOf[r]] = NoOwner
        BY <2>3, <2>4 DEF Exists, Executed, YesIf, TypeOK
    <2>6. ~cache[KeyOf[r]]
        <3>1. LooksAtLock(r) /\ NoOwner \notin Requests
            BY EmbeddingAssumption DEF LooksAtLock
        <3> QED
            BY <2>2, <2>5, <3>1 DEF IInv, Sharing, MissedIsAhead, AheadOf
    <2>7. ~NoFault
        BY <2>5, <2>6 DEF IInv, Sharing, WaitsForSomething
    <2>8. faults["api"] # 0 /\ faults["api"] \in Nat
        BY <2>1, <2>2, <2>7 DEF NoFault
    <2> QED
        BY <2>6, <2>8
<1> QED
    BY <1>1, Invariance, PTL DEF Spec, EarlyExitMeansFailure

=============================================================================
