------------------------------ MODULE TrendSearch ------------------------------
(***************************************************************************)
(* Lists and searches of TrendsQueryService, page after page, while the    *)
(* collection goes on storing articles.  A reader asks for page 1, and for *)
(* the next page as long as the answer before says there is one.           *)
(*                                                                         *)
(* An answer comes of two queries that run side by side: the rows of the   *)
(* page and the number of all rows, for a list the number a cache may      *)
(* hold.  Rows are only ever added.  A row is its id, the place in the     *)
(* table, and what the sort orders look at: `rel` its ts_rank (0: no       *)
(* match), `near` how close its embedding is (0: none, or beyond the       *)
(* threshold) and `col` the columns sorted by before the id.  A filter by  *)
(* source only makes the table smaller and is left out, and so is the one  *)
(* for new articles in a hybrid search.                                    *)
(***************************************************************************)
EXTENDS Integers, Sequences, FiniteSets

CONSTANTS
    PageSize,
    CandidateLimit,  \* rows a ranking gives to the hybrid search: 50
    RrfK,            \* rrfK: 60
    Scale,           \* common denominator of the scores 1 / (RrfK + place)
    Grades,          \* values of rel and near
    MaxRows          \* bound: rows of the table

None    == -1
NoRows  == {None}
NoCount == [n |-> None, day |-> None]

\* With more candidates the last two places of both rankings would add up to less
\* than the first place in one; SEARCH_CANDIDATE_LIMIT can be configured, rrfK not.
ASSUME SearchAssumption ==
    /\ {PageSize, CandidateLimit, RrfK, Scale, MaxRows} \subseteq Nat \ {0}
    /\ CandidateLimit <= RrfK + 1
    /\ \A i \in 1..CandidateLimit : \E n \in 1..Scale : n * (RrfK + i) = Scale
    /\ Grades \subseteq Nat

VARIABLES
    day,
    table,      \* the rows in the order of their ids
    query,      \* what the reader asks for
    phase,      \* of the reader: "reading" what it has, "asking", "done"
    page,       \* the page it asks for
    vector,     \* the keyword's embedding is at hand for this request
    data,       \* rows of the page, NoRows before its query ran
    total,      \* number of all rows and the day it was counted on
    countCache, \* the cached number of a list
    shown,      \* history: the pages so far, as sets of rows
    announced,  \* history: the total of the last answer
    first,      \* history: rows there when the reader began
    firstDay,   \* history: the day it began on
    quiet       \* history: nothing changed since and no count was old

requestVars == <<phase, page, vector, data, total>>
histVars    == <<shown, announced, first, firstDay, quiet>>
vars == <<day, table, query, requestVars, countCache, histVars>>

Attributes == [rel : Grades, near : Grades, col : {0, 1}, mined : {1, 2}]

Queries ==
    [kind : {"list"}, sort : {"DESC", "ASC"}, isNew : BOOLEAN]
    \cup [kind : {"keyword"}, sort : {"DESC", "ASC", "RELEVANCE"}, isNew : BOOLEAN]
    \cup [kind : {"hybrid"}, sort : {"RELEVANCE"}, isNew : {FALSE}]

-----------------------------------------------------------------------------
(* TechTrendRepository *)

\* u before v in a descending order of tuples of one length.
Above(u, v) == \E i \in DOMAIN u : u[i] > v[i] /\ \A j \in 1..(i - 1) : u[j] = v[j]

\* The place of r among the rows that `key` ranks.
Place(key, r) == 1 + Cardinality({x \in DOMAIN key : Above(key[x], key[r])})

\* applyListFilters, the commonWhere of the searches
Filtered(q, t) == {r \in DOMAIN t : q.isNew => t[r].mined = day}

\* listTrends: the id descends in every order.
ListKey(q, t) ==
    [r \in Filtered(q, t) |-> <<IF q.sort = "ASC" THEN -t[r].col ELSE t[r].col, r>>]

Matching(q, t) == {r \in Filtered(q, t) : t[r].rel > 0}

Relevance(q, t) == [r \in Matching(q, t) |-> <<t[r].rel, t[r].col, r>>]

\* searchKeyword: the id goes the way of the column.
KeywordKey(q, t) ==
    CASE q.sort = "RELEVANCE" -> Relevance(q, t)
      [] q.sort = "DESC" -> [r \in Matching(q, t) |-> <<t[r].col, r>>]
      [] q.sort = "ASC"  -> [r \in Matching(q, t) |-> <<-t[r].col, -r>>]

Nearness(q, t) == [r \in {x \in Filtered(q, t) : t[x].near > 0} |-> <<t[r].near, t[r].col, r>>]

\* keyword_ranked and vector_ranked: the first rows of a ranking
Candidates(key) == {r \in DOMAIN key : Place(key, r) <= CandidateLimit}

\* 1 / (RrfK + place), in units of the common denominator
Share(key, r) == IF r \in Candidates(key) THEN Scale \div (RrfK + Place(key, r)) ELSE 0

\* Mutant: COALESCE of the two ranks instead of a sum.
RrfScoreOfOne(q, t, r) ==
    IF Share(Relevance(q, t), r) > 0 THEN Share(Relevance(q, t), r) ELSE Share(Nearness(q, t), r)

RrfScore(q, t, r) == Share(Relevance(q, t), r) + Share(Nearness(q, t), r)

\* searchHybrid: the full outer join of the candidates
HybridKey(q, t) ==
    [r \in Candidates(Relevance(q, t)) \cup Candidates(Nearness(q, t)) |->
        <<RrfScore(q, t, r), t[r].col, r>>]

\* searchTrends: without a vector the keyword search answers.
Key(q, t, v) ==
    CASE q.kind = "list" -> ListKey(q, t)
      [] q.kind = "hybrid" /\ v -> HybridKey(q, t)
      [] OTHER -> KeywordKey(q, t)

\* Mutant: the offset of the page after.
RowsOfNextPage(q, t, v, p) ==
    LET key == Key(q, t, v)
    IN  {r \in DOMAIN key : Place(key, r) \in (p * PageSize + 1)..((p + 1) * PageSize)}

\* LIMIT and OFFSET, skip and take
RowsOfPage(q, t, v, p) ==
    LET key == Key(q, t, v)
    IN  {r \in DOMAIN key : Place(key, r) \in ((p - 1) * PageSize + 1)..(p * PageSize)}

\* countTrends and the countSql of the searches
CountOf(q, t, v) == Cardinality(DOMAIN Key(q, t, v))

\* Mutant: one page more than full ones.
TotalPagesOneMore(n) == n \div PageSize + 1

\* Mutant: full pages only.
TotalPagesFull(n) == n \div PageSize

TotalPages(n) == (n + PageSize - 1) \div PageSize

-----------------------------------------------------------------------------
(* The reader and the service *)

Init ==
    /\ day = 1
    /\ table = <<>>
    /\ query \in Queries
    /\ phase = "reading"
    /\ page = 1
    /\ vector = FALSE
    /\ data = NoRows
    /\ total = NoCount
    /\ countCache = NoCount
    /\ shown = <<>>
    /\ announced = NoCount
    /\ first = None
    /\ firstDay = None
    /\ quiet = TRUE

\* embedSearchQuery has answered: a vector, or null.
Ask ==
    /\ phase = "reading"
    /\ phase' = "asking"
    /\ vector' \in IF query.kind = "hybrid" THEN BOOLEAN ELSE {FALSE}
    /\ IF first = None
       THEN first' = Len(table) /\ firstDay' = day /\ quiet' = TRUE
       ELSE quiet' = (quiet /\ vector' = vector) /\ UNCHANGED <<first, firstDay>>
    /\ UNCHANGED <<day, table, query, page, data, total, countCache, shown, announced>>

QueryRows ==
    /\ phase = "asking"
    /\ data = NoRows
    /\ data' = RowsOfPage(query, table, vector, page)
    /\ UNCHANGED <<day, table, query, phase, page, vector, total, countCache, histVars>>

Counted == [n |-> CountOf(query, table, vector), day |-> day]

\* getListCount for a list, a COUNT of its own for a search
QueryCount ==
    /\ phase = "asking"
    /\ total = NoCount
    /\ total' = IF countCache # NoCount THEN countCache ELSE Counted
    /\ countCache' = IF query.kind = "list" THEN total' ELSE NoCount
    /\ quiet' = (quiet /\ total' = Counted)
    /\ UNCHANGED <<day, table, query, phase, page, vector, data, shown, announced,
                   first, firstDay>>

Forget == data' = NoRows /\ total' = NoCount

\* Mutant: the reader goes on after the last page.
AnswerAlwaysMore ==
    /\ phase = "asking"
    /\ data # NoRows /\ total # NoCount
    /\ shown' = Append(shown, data)
    /\ announced' = total
    /\ phase' = "reading"
    /\ page' = page + 1
    /\ Forget
    /\ UNCHANGED <<day, table, query, vector, countCache, first, firstDay, quiet>>

Answer ==
    /\ phase = "asking"
    /\ data # NoRows /\ total # NoCount
    /\ shown' = Append(shown, data)
    /\ announced' = total
    /\ IF page < TotalPages(total.n)
       THEN phase' = "reading" /\ page' = page + 1
       ELSE phase' = "done" /\ UNCHANGED page
    /\ Forget
    /\ UNCHANGED <<day, table, query, vector, countCache, first, firstDay, quiet>>

\* A query rejects, and with it the request; the reader asks again.
RequestFails ==
    /\ phase = "asking"
    /\ phase' = "reading"
    /\ Forget
    /\ UNCHANGED <<day, table, query, page, vector, countCache, histVars>>

-----------------------------------------------------------------------------
(* Around the reader *)

\* The collection stores an article, published whenever.  What the query does not
\* look at is fixed.
SaveTrend ==
    /\ Len(table) < MaxRows
    /\ \E row \in Attributes :
          /\ row.mined = day
          /\ row.rel  = 0 \/ query.kind # "list"
          /\ row.near = 0 \/ query.kind = "hybrid"
          /\ row.col  = 0 \/ query.kind # "hybrid"
          /\ table' = Append(table, row)
    /\ quiet' = FALSE
    /\ UNCHANGED <<day, query, requestVars, countCache, shown, announced, first, firstDay>>

\* Another reader counted for the same list.
OtherCounts ==
    /\ query.kind = "list"
    /\ countCache = NoCount
    /\ countCache' = Counted
    /\ UNCHANGED <<day, table, query, requestVars, histVars>>

\* After 180 seconds, or evicted.
CountExpires ==
    /\ countCache # NoCount
    /\ countCache' = NoCount
    /\ UNCHANGED <<day, table, query, requestVars, histVars>>

Midnight ==
    /\ day = 1
    /\ query.isNew
    /\ day' = 2
    /\ quiet' = FALSE
    /\ UNCHANGED <<table, query, requestVars, countCache, shown, announced, first, firstDay>>

Read == phase = "done" /\ UNCHANGED vars

Next ==
    \/ Ask \/ QueryRows \/ QueryCount \/ Answer \/ RequestFails
    \/ SaveTrend \/ OtherCounts \/ CountExpires \/ Midnight
    \/ Read

Spec == Init /\ [][Next]_vars

-----------------------------------------------------------------------------
(* Properties *)

Seen == UNION {shown[i] : i \in DOMAIN shown}

\* Every variable keeps its type.
TypeOK ==
    /\ day \in {1, 2}
    /\ table \in Seq(Attributes)
    /\ query \in Queries
    /\ phase \in {"reading", "asking", "done"}
    /\ page \in 1..TotalPages(MaxRows)
    /\ {vector, quiet} \subseteq BOOLEAN
    /\ data = NoRows \/ data \subseteq DOMAIN table
    /\ \A c \in {total, countCache, announced} : c = NoCount \/ c \in [n : 0..MaxRows, day : {1, 2}]
    /\ shown \in Seq(SUBSET DOMAIN table)
    /\ first \in {None} \cup 0..MaxRows
    /\ firstDay \in {None, 1, 2}

\* A reader of a list or a keyword search misses nothing on the way: what was
\* there when it began and now ranks within the pages it has is among them, since
\* new rows can only push others back.  The filter for new articles must not have
\* changed its day (tech-trend.repository.ts:182, 209-248).
NothingSkipped ==
    query.kind # "hybrid" /\ (query.isNew => day = firstDay) =>
        LET key == Key(query, table, FALSE)
        IN  \A r \in DOMAIN key :
                r <= first /\ Place(key, r) <= Len(shown) * PageSize => r \in Seen

\* When nothing changes while the reader reads, the pages and their number fit:
\* it ends with every row once, the hybrid search included.
QuietReadingIsComplete ==
    phase = "done" /\ quiet =>
        /\ Seen = DOMAIN Key(query, table, vector)
        /\ \A i, j \in DOMAIN shown : i # j => shown[i] \cap shown[j] = {}

\* A page an answer has announced is not empty, unless `today` is no longer the
\* day its number was counted on; the cached number does not say for which day it
\* was made.  A hybrid search may shrink: a new article can push two candidates out,
\* or the next request gets no vector and falls back to the keyword search.
AnnouncedPageHasRows ==
    page > 1 /\ data = {} => query.kind = "hybrid" \/ (query.isNew /\ announced.day # day)

\* The fused order respects both rankings: who is ahead in one and not behind in
\* the other comes first, and who is a candidate of both comes before everybody who
\* is a candidate of one only.
FusionRespectsRankings ==
    query.kind = "hybrid" =>
        LET rel  == Relevance(query, table)
            near == Nearness(query, table)
            key  == HybridKey(query, table)
            both == Candidates(rel) \cap Candidates(near)
            NotBehind(k, a, b) ==
                b \in Candidates(k) => a \in Candidates(k) /\ Place(k, a) <= Place(k, b)
        IN  \A a, b \in DOMAIN key :
                a # b /\ (\/ NotBehind(rel, a, b) /\ NotBehind(near, a, b)
                          \/ a \in both /\ b \notin both)
                => Place(key, a) < Place(key, b)
=============================================================================
