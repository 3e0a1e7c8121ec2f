-------------------------- MODULE TrendSearchProofs --------------------------
(***************************************************************************)
(* Proofs about TrendSearch, for every page size, number of candidates and *)
(* rrfK, all grades and any number of rows.                                *)
(*                                                                         *)
(* The argument: every sort order ends with the id, so it ranks its rows   *)
(* strictly (Ranks) and their places are 1, 2, ... up to their number.  A  *)
(* new row can only push the places of a list or a keyword search back     *)
(* (PlaceMovesBack), so what is on the pages shown stays behind them       *)
(* (Skips), and a number counted earlier is not too large (Numbers).       *)
(***************************************************************************)
EXTENDS TrendSearch, FiniteSetTheorems, TLAPS

Plain == query.kind # "hybrid"

\* What a list or a keyword search ranks.
Now == Key(query, table, FALSE)

NowCount == Cardinality(DOMAIN Now)

\* What is known of a request belongs to it, and one page follows another.
Shape ==
    /\ phase # "asking" => data = NoRows /\ total = NoCount
    /\ Len(shown) = IF phase = "done" THEN page ELSE page - 1
    /\ first = None => phase = "reading" /\ shown = <<>>
    /\ firstDay <= day
    /\ first <= Len(table) /\ Len(table) <= MaxRows

\* The rows of the first n pages that were there from the beginning are in `rows`.
NoneSkipped(n, rows) ==
    \A r \in DOMAIN Now : r <= first /\ Place(Now, r) <= n * PageSize => r \in rows

Skips ==
    Plain /\ (query.isNew => day = firstDay) =>
        /\ NoneSkipped(Len(shown), Seen)
        /\ data # NoRows => NoneSkipped(Len(shown) + 1, Seen \cup data)

\* As long as nothing changed the pages are those of one ranking.
Fits ==
    quiet =>
        /\ \A i \in DOMAIN shown : shown[i] = RowsOfPage(query, table, vector, i)
        /\ data # NoRows => data = RowsOfPage(query, table, vector, page)
        /\ total # NoCount => total = Counted
        /\ phase = "done" => TotalPages(CountOf(query, table, vector)) <= page

\* A number counted today is not too large.
NotTooLarge(c) ==
    c # NoCount =>
        /\ c.day <= day
        /\ Plain /\ (query.isNew => c.day = day) => c.n <= NowCount

Numbers == NotTooLarge(total) /\ NotTooLarge(countCache) /\ NotTooLarge(announced)

\* The reader asks for a page that the last answer announced.
Ahead == phase # "done" /\ page > 1 => announced # NoCount /\ page <= TotalPages(announced.n)

IInv ==
    /\ TypeOK
    /\ Shape
    /\ Skips
    /\ Fits
    /\ Numbers
    /\ Ahead
    /\ AnnouncedPageHasRows

-----------------------------------------------------------------------------
(* Lemmas about numbers *)

LEMMA MulMono ==
    ASSUME NEW a \in Int, NEW b \in Int, NEW c \in Nat, a <= b
    PROVE  a * c <= b * c
<1>1. (b - a) \in Nat
    OBVIOUS
<1>2. (b - a) * c >= 0
    BY <1>1
<1>3. (b - a) * c = b * c - a * c
    OBVIOUS
<1> QED
    BY <1>2, <1>3

LEMMA Divided ==
    ASSUME NEW a \in Nat, NEW b \in Nat \ {0}
    PROVE  a \div b \in Nat /\ (a \div b) * b <= a /\ a < (a \div b) * b + b
OBVIOUS

LEMMA PageSizeNat == PageSize \in Nat \ {0} /\ MaxRows \in Nat \ {0}
BY SearchAssumption

\* n rows fill the pages, the last one at least with one row.
LEMMA Pages ==
    ASSUME NEW n \in Nat
    PROVE  /\ TotalPages(n) \in Nat
           /\ n <= TotalPages(n) * PageSize
           /\ TotalPages(n) * PageSize < n + PageSize
BY PageSizeNat, Divided DEF TotalPages

LEMMA PagesGrow ==
    ASSUME NEW m \in Nat, NEW n \in Nat, m <= n
    PROVE  TotalPages(m) <= TotalPages(n)
<1>1. CASE TotalPages(n) + 1 <= TotalPages(m)
    <2>1. (TotalPages(n) + 1) * PageSize <= TotalPages(m) * PageSize
        BY <1>1, Pages, PageSizeNat, MulMono
    <2>2. (TotalPages(n) + 1) * PageSize = TotalPages(n) * PageSize + PageSize
        BY Pages, PageSizeNat
    <2>3. /\ TotalPages(n) * PageSize \in Nat /\ TotalPages(m) * PageSize \in Nat
          /\ n <= TotalPages(n) * PageSize /\ TotalPages(m) * PageSize < m + PageSize
        BY Pages, PageSizeNat
    <2> QED
        BY <2>1, <2>2, <2>3, PageSizeNat
<1> QED
    BY <1>1, Pages

\* The place before an announced page is one of n.
LEMMA AnnouncedPageBegins ==
    ASSUME NEW n \in Nat, NEW p \in Nat \ {0}, p <= TotalPages(n)
    PROVE  (p - 1) * PageSize + 1 \in 1..n
<1>0. TotalPages(n) \in Nat
    BY Pages
<1>1. p * PageSize <= TotalPages(n) * PageSize
    BY <1>0, PageSizeNat, MulMono
<1>2. p * PageSize = (p - 1) * PageSize + PageSize /\ (p - 1) * PageSize \in Nat
    BY PageSizeNat
<1>3. TotalPages(n) * PageSize \in Nat /\ TotalPages(n) * PageSize < n + PageSize
    BY Pages, PageSizeNat
<1> QED
    BY <1>1, <1>2, <1>3, PageSizeNat

\* Each place is on one page.
LEMMA PageOfPlace ==
    ASSUME NEW n \in Nat, NEW m \in 1..(n * PageSize)
    PROVE  \E i \in 1..n : m \in ((i - 1) * PageSize + 1)..(i * PageSize)
<1> DEFINE j == (m - 1) \div PageSize
<1>1. j \in Nat /\ j * PageSize <= m - 1 /\ m - 1 < j * PageSize + PageSize
    BY PageSizeNat, Divided
<1>2. n * PageSize \in Nat /\ j * PageSize \in Nat
    BY <1>1, PageSizeNat
<1> HIDE DEF j
<1>3. (j + 1) * PageSize = j * PageSize + PageSize
    BY <1>1, PageSizeNat
<1>4. CASE n <= j
    <2>1. n * PageSize <= j * PageSize
        BY <1>1, <1>4, PageSizeNat, MulMono
    <2> QED
        BY <1>1, <1>2, <2>1
<1>5. CASE j + 1 <= n
    <2>1. j + 1 \in 1..n /\ (j + 1) - 1 = j
        BY <1>1, <1>5
    <2>2. m \in (j * PageSize + 1)..((j + 1) * PageSize)
        BY <1>1, <1>2, <1>3, PageSizeNat
    <2> QED
        BY <2>1, <2>2
<1> QED
    BY <1>1, <1>4, <1>5

LEMMA PagesApart ==
    ASSUME NEW i \in Nat \ {0}, NEW j \in Nat, i < j, NEW m \in Int,
           m \in ((i - 1) * PageSize + 1)..(i * PageSize)
    PROVE  m \notin ((j - 1) * PageSize + 1)..(j * PageSize)
<1>1. i * PageSize <= (j - 1) * PageSize
    BY PageSizeNat, MulMono
<1>2. i * PageSize \in Int /\ (j - 1) * PageSize \in Int
    BY PageSizeNat
<1> QED
    BY <1>1, <1>2

-----------------------------------------------------------------------------
(* Lemmas about rankings *)

LEMMA AboveOfTwo ==
    ASSUME NEW a \in Int, NEW b \in Int, NEW c \in Int, NEW d \in Int
    PROVE  Above(<<a, b>>, <<c, d>>) <=> a > c \/ (a = c /\ b > d)
BY DEF Above

LEMMA AboveOfThree ==
    ASSUME NEW a \in Int, NEW b \in Int, NEW c \in Int,
           NEW d \in Int, NEW e \in Int, NEW f \in Int
    PROVE  Above(<<a, b, c>>, <<d, e, f>>) <=> a > d \/ (a = d /\ (b > e \/ (b = e /\ c > f)))
BY DEF Above

LEMMA GreaterFirst ==
    ASSUME NEW a \in Int, NEW b \in Int, NEW c \in Int,
           NEW d \in Int, NEW e \in Int, NEW f \in Int, a > d
    PROVE  Above(<<a, b, c>>, <<d, e, f>>)
BY AboveOfThree

\* `key` ranks its rows strictly.
Ranks(key) ==
    /\ IsFiniteSet(DOMAIN key)
    /\ \A x \in DOMAIN key : ~Above(key[x], key[x])
    /\ \A x, y \in DOMAIN key : x # y => Above(key[x], key[y]) \/ Above(key[y], key[x])
    /\ \A x, y, z \in DOMAIN key :
         Above(key[x], key[y]) /\ Above(key[y], key[z]) => Above(key[x], key[z])

\* A key that no two rows share ranks them.
LEMMA PairsRank ==
    ASSUME NEW S, IsFiniteSet(S), NEW key \in [S -> Int \X Int],
           \A x, y \in S : key[x][2] = key[y][2] => x = y
    PROVE  Ranks(key)
<1>1. \A x \in S : key[x] = <<key[x][1], key[x][2]>> /\ key[x][1] \in Int /\ key[x][2] \in Int
    OBVIOUS
<1>2. \A x, y \in S : Above(key[x], key[y]) <=>
          key[x][1] > key[y][1] \/ (key[x][1] = key[y][1] /\ key[x][2] > key[y][2])
    BY <1>1, AboveOfTwo
<1> QED
    BY <1>1, <1>2 DEF Ranks

LEMMA TriplesRank ==
    ASSUME NEW S, IsFiniteSet(S), NEW key \in [S -> Int \X Int \X Int],
           \A x, y \in S : key[x][3] = key[y][3] => x = y
    PROVE  Ranks(key)
<1>1. \A x \in S : /\ key[x] = <<key[x][1], key[x][2], key[x][3]>>
                   /\ key[x][1] \in Int /\ key[x][2] \in Int /\ key[x][3] \in Int
    OBVIOUS
<1>2. \A x, y \in S : Above(key[x], key[y]) <=>
          \/ key[x][1] > key[y][1]
          \/ /\ key[x][1] = key[y][1]
             /\ key[x][2] > key[y][2] \/ (key[x][2] = key[y][2] /\ key[x][3] > key[y][3])
    BY <1>1, AboveOfThree
<1> QED
    BY <1>1, <1>2 DEF Ranks

\* The rows before r.
Before(key, r) == {x \in DOMAIN key : Above(key[x], key[r])}

LEMMA PlaceBounds ==
    ASSUME NEW key, Ranks(key), NEW r \in DOMAIN key
    PROVE  Place(key, r) \in 1..Cardinality(DOMAIN key) /\ Cardinality(DOMAIN key) \in Nat
<1>1. Before(key, r) \in SUBSET (DOMAIN key \ {r})
    BY DEF Ranks, Before
<1>2. /\ IsFiniteSet(DOMAIN key \ {r})
      /\ Cardinality(DOMAIN key \ {r}) = Cardinality(DOMAIN key) - 1
    BY FS_RemoveElement DEF Ranks
<1>3. IsFiniteSet(Before(key, r)) /\ Cardinality(Before(key, r)) <= Cardinality(DOMAIN key) - 1
    BY <1>1, <1>2, FS_Subset
<1>4. Cardinality(Before(key, r)) \in Nat /\ Cardinality(DOMAIN key) \in Nat
    BY <1>3, FS_CardinalityType DEF Ranks
<1> QED
    BY <1>3, <1>4 DEF Place, Before

LEMMA PlaceFalls ==
    ASSUME NEW key, Ranks(key), NEW x \in DOMAIN key, NEW y \in DOMAIN key, Above(key[x], key[y])
    PROVE  Place(key, x) < Place(key, y)
<1>1. Before(key, x) \in SUBSET Before(key, y) /\ x \in Before(key, y) /\ x \notin Before(key, x)
    BY DEF Ranks, Before
<1>2. IsFiniteSet(Before(key, y)) /\ IsFiniteSet(Before(key, x))
    BY FS_Subset DEF Ranks, Before
<1>3. /\ Cardinality(Before(key, x)) <= Cardinality(Before(key, y))
      /\ Cardinality(Before(key, x)) # Cardinality(Before(key, y))
    BY <1>1, <1>2, FS_Subset
<1>4. Cardinality(Before(key, x)) \in Nat /\ Cardinality(Before(key, y)) \in Nat
    BY <1>2, FS_CardinalityType
<1> QED
    BY <1>3, <1>4 DEF Place, Before

LEMMA PlaceOfOne ==
    ASSUME NEW key, Ranks(key), NEW x \in DOMAIN key, NEW y \in DOMAIN key,
           Place(key, x) = Place(key, y)
    PROVE  x = y
<1>1. Place(key, x) \in Int
    BY PlaceBounds
<1>2. ~Above(key[x], key[y]) /\ ~Above(key[y], key[x])
    BY <1>1, PlaceFalls
<1> QED
    BY <1>2 DEF Ranks

\* No place is left free.
LEMMA PlaceTaken ==
    ASSUME NEW key, Ranks(key), NEW n \in 1..Cardinality(DOMAIN key)
    PROVE  \E r \in DOMAIN key : Place(key, r) = n
<1> DEFINE S == DOMAIN key
           T == 1..Cardinality(S)
           f == [r \in S |-> Place(key, r)]
<1>1. IsFiniteSet(S) /\ Cardinality(S) \in Nat
    BY FS_CardinalityType DEF Ranks
<1>2. IsFiniteSet(T) /\ Cardinality(T) = Cardinality(S)
    BY <1>1, FS_Interval
<1>3. f \in Injection(S, T)
    BY PlaceBounds, PlaceOfOne DEF Injection, IsInjective
<1>4. f \in Surjection(S, T)
    BY <1>2, <1>3, FS_Injection
<1>5. \A t \in T : \E s \in S : f[s] = t
    BY <1>4 DEF Surjection
<1> QED
    BY <1>5

\* More rows only push places back.
LEMMA PlaceMovesBack ==
    ASSUME NEW key, NEW new, IsFiniteSet(DOMAIN new), DOMAIN key \subseteq DOMAIN new,
           \A x \in DOMAIN key : new[x] = key[x], NEW r \in DOMAIN key
    PROVE  Place(key, r) <= Place(new, r) /\ Place(key, r) \in Nat /\ Place(new, r) \in Nat
<1>1. Before(key, r) \in SUBSET Before(new, r)
    BY DEF Before
<1>2. IsFiniteSet(Before(new, r))
    BY FS_Subset DEF Before
<1>3. /\ Cardinality(Before(key, r)) <= Cardinality(Before(new, r))
      /\ Cardinality(Before(key, r)) \in Nat /\ Cardinality(Before(new, r)) \in Nat
    BY <1>1, <1>2, FS_Subset, FS_CardinalityType
<1> QED
    BY <1>3 DEF Place, Before

-----------------------------------------------------------------------------
(* Lemmas about the sort orders *)

LEMMA RowsFinite ==
    ASSUME NEW n \in Nat
    PROVE  IsFiniteSet(1..n) /\ Cardinality(1..n) = n
<1>1. 1 \in Int /\ n \in Int
    OBVIOUS
<1> QED
    BY <1>1, FS_Interval

LEMMA FilteredRows ==
    ASSUME NEW q, NEW t \in Seq(Attributes)
    PROVE  /\ Filtered(q, t) \subseteq 1..Len(t) /\ IsFiniteSet(Filtered(q, t))
           /\ Len(t) \in Nat
           /\ \A r \in Filtered(q, t) :
                /\ r \in Int /\ t[r].rel \in Nat /\ t[r].near \in Nat /\ t[r].col \in Int
<1>1. Filtered(q, t) \in SUBSET (1..Len(t)) /\ Len(t) \in Nat
    BY DEF Filtered
<1>2. IsFiniteSet(Filtered(q, t))
    <2>1. IsFiniteSet(1..Len(t))
        BY <1>1, RowsFinite
    <2> QED
        BY <1>1, <2>1, FS_Subset
<1>3. \A r \in 1..Len(t) : t[r].rel \in Nat /\ t[r].near \in Nat /\ t[r].col \in Int
    <2>1. \A r \in 1..Len(t) : t[r] \in Attributes
        OBVIOUS
    <2>2. \A x \in Attributes : x.rel \in Grades /\ x.near \in Grades /\ x.col \in Int
        BY DEF Attributes
    <2> QED
        BY <2>1, <2>2, SearchAssumption
<1> QED
    BY <1>1, <1>2, <1>3

LEMMA SubsetIsFinite == ASSUME NEW S, IsFiniteSet(S), NEW T, T \subseteq S PROVE IsFiniteSet(T)
BY FS_Subset

LEMMA ListRanks ==
    ASSUME NEW q, NEW t \in Seq(Attributes)
    PROVE  Ranks(ListKey(q, t)) /\ DOMAIN ListKey(q, t) = Filtered(q, t)
<1>1. ListKey(q, t) \in [Filtered(q, t) -> Int \X Int]
    BY FilteredRows DEF ListKey
<1>2. \A x, y \in Filtered(q, t) : ListKey(q, t)[x][2] = ListKey(q, t)[y][2] => x = y
    BY DEF ListKey
<1> QED
    BY <1>1, <1>2, PairsRank, FilteredRows

LEMMA RelevanceRanks ==
    ASSUME NEW q, NEW t \in Seq(Attributes)
    PROVE  /\ Ranks(Relevance(q, t))
           /\ DOMAIN Relevance(q, t) = Matching(q, t)
           /\ Matching(q, t) \subseteq Filtered(q, t) /\ IsFiniteSet(Matching(q, t))
<1>1. Matching(q, t) \subseteq Filtered(q, t) /\ IsFiniteSet(Matching(q, t))
    BY FilteredRows, SubsetIsFinite DEF Matching
<1>2. Relevance(q, t) \in [Matching(q, t) -> Int \X Int \X Int]
    BY <1>1, FilteredRows DEF Relevance
<1>3. \A x, y \in Matching(q, t) : Relevance(q, t)[x][3] = Relevance(q, t)[y][3] => x = y
    BY DEF Relevance
<1> QED
    BY <1>1, <1>2, <1>3, TriplesRank

LEMMA NearnessRanks ==
    ASSUME NEW q, NEW t \in Seq(Attributes)
    PROVE  Ranks(Nearness(q, t)) /\ DOMAIN Nearness(q, t) \subseteq Filtered(q, t)
<1> DEFINE S == {x \in Filtered(q, t) : t[x].near > 0}
<1>1. S \subseteq Filtered(q, t) /\ IsFiniteSet(S)
    BY FilteredRows, SubsetIsFinite
<1>2. /\ Nearness(q, t) \in [S -> Int \X Int \X Int]
      /\ \A x, y \in S : Nearness(q, t)[x][3] = Nearness(q, t)[y][3] => x = y
    BY FilteredRows DEF Nearness
<1> HIDE DEF S
<1> QED
    BY <1>1, <1>2, TriplesRank

LEMMA KeywordRanks ==
    ASSUME NEW q, NEW t \in Seq(Attributes), q.sort \in {"DESC", "ASC", "RELEVANCE"}
    PROVE  Ranks(KeywordKey(q, t)) /\ DOMAIN KeywordKey(q, t) = Matching(q, t)
<1>1. CASE q.sort = "RELEVANCE"
    BY <1>1, RelevanceRanks DEF KeywordKey
<1>2. CASE q.sort = "DESC"
    <2>1. KeywordKey(q, t) = [r \in Matching(q, t) |-> <<t[r].col, r>>]
        BY <1>2 DEF KeywordKey
    <2>2. /\ KeywordKey(q, t) \in [Matching(q, t) -> Int \X Int]
          /\ \A x, y \in Matching(q, t) : KeywordKey(q, t)[x][2] = KeywordKey(q, t)[y][2] => x = y
        BY <2>1, FilteredRows, RelevanceRanks
    <2> QED
        BY <2>2, PairsRank, RelevanceRanks
<1>3. CASE q.sort = "ASC"
    <2>1. KeywordKey(q, t) = [r \in Matching(q, t) |-> <<-t[r].col, -r>>]
        BY <1>3 DEF KeywordKey
    <2>2. /\ KeywordKey(q, t) \in [Matching(q, t) -> Int \X Int]
          /\ \A x, y \in Matching(q, t) : KeywordKey(q, t)[x][2] = KeywordKey(q, t)[y][2] => x = y
        BY <2>1, FilteredRows, RelevanceRanks
    <2> QED
        BY <2>2, PairsRank, RelevanceRanks
<1> QED
    BY <1>1, <1>2, <1>3

\* What a place among the candidates is worth.
Worth(p) == Scale \div (RrfK + p)

LEMMA WorthIsExact ==
    ASSUME NEW p \in 1..CandidateLimit
    PROVE  Worth(p) \in Nat \ {0} /\ Worth(p) * (RrfK + p) = Scale
<1>1. PICK n \in 1..Scale : n * (RrfK + p) = Scale
    BY SearchAssumption
<1>2. RrfK + p \in Nat \ {0} /\ n \in Nat \ {0}
    BY SearchAssumption
<1>3. (n * (RrfK + p)) \div (RrfK + p) = n
    BY <1>2
<1> QED
    BY <1>1, <1>2, <1>3 DEF Worth

LEMMA WorthFalls ==
    ASSUME NEW p \in 1..CandidateLimit, NEW r \in 1..CandidateLimit, p < r
    PROVE  Worth(p) > Worth(r)
<1> DEFINE k == RrfK
           u == Worth(p)
           v == Worth(r)
<1>1. /\ k \in Nat /\ p \in Nat /\ r \in Nat
      /\ u \in Nat \ {0} /\ v \in Nat \ {0} /\ u * (k + p) = v * (k + r)
    BY WorthIsExact, SearchAssumption
<1> HIDE DEF k, u, v
<1>2. CASE u <= v
    <2>1. u * (k + p) <= v * (k + p)
        BY <1>1, <1>2, MulMono
    <2>2. v * (k + r) = v * (k + p) + v * (r - p)
        BY <1>1
    <2>3. v * (r - p) > 0
        BY <1>1
    <2> QED
        BY <1>1, <2>1, <2>2, <2>3
<1> QED
    BY <1>1, <1>2 DEF u, v

\* Two places in both rankings are worth more than one.
LEMMA WorthOfTwo ==
    ASSUME NEW p \in 1..CandidateLimit, NEW r \in 1..CandidateLimit, NEW s \in 1..CandidateLimit
    PROVE  Worth(p) + Worth(r) > Worth(s)
<1> DEFINE k == RrfK
           u == Worth(p)
           v == Worth(r)
           w == Worth(s)
<1>1. /\ k \in Nat \ {0} /\ p \in Nat /\ r \in Nat /\ s \in Nat \ {0}
      /\ p <= k + 1 /\ r <= k + 1
      /\ u \in Nat \ {0} /\ v \in Nat \ {0} /\ w \in Nat \ {0}
      /\ u * (k + p) = Scale /\ v * (k + r) = Scale /\ w * (k + s) = Scale
    BY WorthIsExact, SearchAssumption
<1> HIDE DEF k, u, v, w
<1>2. u * (k + p) <= u * (2 * k + 1) /\ v * (k + r) <= v * (2 * k + 1)
    <2>1. (k + p) * u <= (2 * k + 1) * u /\ (k + r) * v <= (2 * k + 1) * v
        BY <1>1, MulMono
    <2> QED
        BY <1>1, <2>1
<1>3. (k + 1) * w <= Scale
    <2>1. (k + 1) * w <= (k + s) * w
        BY <1>1, MulMono
    <2> QED
        BY <1>1, <2>1
<1>4. CASE u + v <= w
    <2>1. (u + v) * (2 * k + 1) <= w * (2 * k + 1)
        BY <1>1, <1>4, MulMono
    <2>2. (u + v) * (2 * k + 1) = u * (2 * k + 1) + v * (2 * k + 1)
        BY <1>1
    <2>3. w * (2 * k + 1) = 2 * ((k + 1) * w) - w
        BY <1>1
    <2>4. /\ u * (2 * k + 1) \in Int /\ v * (2 * k + 1) \in Int
          /\ (k + 1) * w \in Int /\ Scale \in Int
        BY <1>1, SearchAssumption
    <2> QED
        BY <1>1, <1>2, <1>3, <2>1, <2>2, <2>3, <2>4
<1> QED
    BY <1>1, <1>4 DEF u, v, w

LEMMA ShareOfPlace ==
    ASSUME NEW key, Ranks(key), NEW r
    PROVE  /\ r \in Candidates(key) => /\ Place(key, r) \in 1..CandidateLimit
                                       /\ Share(key, r) = Worth(Place(key, r))
           /\ r \notin Candidates(key) => Share(key, r) = 0
           /\ Share(key, r) \in Nat
           /\ Candidates(key) \subseteq DOMAIN key
<1>1. Candidates(key) \subseteq DOMAIN key
    BY DEF Candidates
<1>2. ASSUME r \in Candidates(key)
      PROVE  /\ Place(key, r) \in 1..CandidateLimit
             /\ Share(key, r) = Worth(Place(key, r))
    BY <1>2, PlaceBounds, SearchAssumption DEF Candidates, Share, Worth
<1>3. r \notin Candidates(key) => Share(key, r) = 0
    BY DEF Share
<1> QED
    BY <1>1, <1>2, <1>3, WorthIsExact

LEMMA HybridRanks ==
    ASSUME NEW q, NEW t \in Seq(Attributes)
    PROVE  Ranks(HybridKey(q, t)) /\ DOMAIN HybridKey(q, t) \subseteq Filtered(q, t)
<1> DEFINE S == Candidates(Relevance(q, t)) \cup Candidates(Nearness(q, t))
<1>1. S \subseteq Filtered(q, t) /\ IsFiniteSet(S)
    BY RelevanceRanks, NearnessRanks, FilteredRows, SubsetIsFinite DEF Candidates
<1>2. \A r \in S : RrfScore(q, t, r) \in Int
    BY RelevanceRanks, NearnessRanks, ShareOfPlace DEF RrfScore
<1>3. HybridKey(q, t) = [r \in S |-> <<RrfScore(q, t, r), t[r].col, r>>]
    BY DEF HybridKey
<1> HIDE DEF S
<1>4. HybridKey(q, t) \in [S -> Int \X Int \X Int]
    BY <1>1, <1>2, <1>3, FilteredRows
<1>5. \A x, y \in S : HybridKey(q, t)[x][3] = HybridKey(q, t)[y][3] => x = y
    BY <1>3
<1> QED
    BY <1>1, <1>4, <1>5, TriplesRank

\* Whatever is asked, it is ranked.
LEMMA KeyRanks ==
    ASSUME NEW q \in Queries, NEW t \in Seq(Attributes), NEW v
    PROVE  /\ Ranks(Key(q, t, v))
           /\ DOMAIN Key(q, t, v) \subseteq 1..Len(t)
           /\ CountOf(q, t, v) \in 0..Len(t) /\ Len(t) \in Nat
<1>1. q.sort \in {"DESC", "ASC", "RELEVANCE"}
    BY DEF Queries
<1>2. Ranks(Key(q, t, v)) /\ DOMAIN Key(q, t, v) \subseteq Filtered(q, t)
    BY <1>1, ListRanks, KeywordRanks, HybridRanks, RelevanceRanks DEF Key
<1>3. DOMAIN Key(q, t, v) \in SUBSET (1..Len(t)) /\ Len(t) \in Nat
    BY <1>2, FilteredRows
<1>4. /\ IsFiniteSet(1..Len(t)) /\ Cardinality(1..Len(t)) = Len(t)
    BY <1>3, RowsFinite
<1>5. Cardinality(DOMAIN Key(q, t, v)) <= Len(t) /\ Cardinality(DOMAIN Key(q, t, v)) \in Nat
    BY <1>2, <1>3, <1>4, FS_Subset, FS_CardinalityType
<1> QED
    BY <1>2, <1>3, <1>5 DEF CountOf

\* Without a hybrid search there is no vector to ask with.
LEMMA PlainKey ==
    ASSUME NEW q, NEW t, NEW v, q.kind # "hybrid"
    PROVE  Key(q, t, v) = Key(q, t, FALSE)
BY DEF Key

-----------------------------------------------------------------------------
(* Lemmas about the state *)

LEMMA Unmoved ==
    ASSUME UNCHANGED <<day, table, query>>
    PROVE  Now' = Now /\ NowCount' = NowCount
BY DEF Now, NowCount, Key, ListKey, KeywordKey, HybridKey, Relevance, Nearness, Matching,
       Filtered, Candidates, RrfScore, Share, Place, Above

LEMMA AskedUnmoved ==
    ASSUME UNCHANGED <<day, table, query, vector>>
    PROVE  /\ \A i : RowsOfPage(query, table, vector, i)' = RowsOfPage(query, table, vector, i)
           /\ CountOf(query, table, vector)' = CountOf(query, table, vector)
           /\ Counted' = Counted
<1>1. Key(query, table, vector)' = Key(query, table, vector)
    BY DEF Key, ListKey, KeywordKey, HybridKey, Relevance, Nearness, Matching,
           Filtered, Candidates, RrfScore, Share, Place, Above
<1>2. \A i : RowsOfPage(query, table, vector, i)' = RowsOfPage(query, table, vector, i)
    BY <1>1 DEF RowsOfPage, Place
<1>3. CountOf(query, table, vector)' = CountOf(query, table, vector)
    BY <1>1 DEF CountOf
<1> QED
    BY <1>2, <1>3 DEF Counted

\* A new row leaves the rows of a list or a keyword search what they are.
LEMMA KeyGrows ==
    ASSUME NEW q \in Queries, q.kind # "hybrid", NEW t \in Seq(Attributes), NEW x \in Attributes,
           NEW v
    PROVE  /\ DOMAIN Key(q, t, v) = DOMAIN Key(q, Append(t, x), v) \cap (1..Len(t))
           /\ \A r \in DOMAIN Key(q, t, v) :
                Key(q, Append(t, x), v)[r] = Key(q, t, v)[r]
<1> DEFINE u == Append(t, x)
           old == 1..Len(t)
<1>1. /\ u \in Seq(Attributes) /\ DOMAIN t = old /\ old \subseteq DOMAIN u
      /\ \A r \in old : u[r] = t[r]
    OBVIOUS
<1> HIDE DEF u, old
<1>2. /\ Filtered(q, t) = Filtered(q, u) \cap old
      /\ \A r \in Filtered(q, t) : u[r] = t[r]
    BY <1>1 DEF Filtered
<1>3. /\ Matching(q, t) = Matching(q, u) \cap old
      /\ \A r \in Matching(q, t) : u[r] = t[r]
    BY <1>2 DEF Matching
<1>4. CASE q.kind = "list"
    <2>1. Key(q, t, v) = ListKey(q, t) /\ Key(q, u, v) = ListKey(q, u)
        BY <1>4 DEF Key
    <2>2. DOMAIN ListKey(q, t) = Filtered(q, t) /\ DOMAIN ListKey(q, u) = Filtered(q, u)
        BY DEF ListKey
    <2>3. \A r \in Filtered(q, t) : ListKey(q, u)[r] = ListKey(q, t)[r]
        BY <1>2 DEF ListKey
    <2> QED
        BY <1>2, <2>1, <2>2, <2>3 DEF u, old
<1>5. CASE q.kind = "keyword"
    <2>1. Key(q, t, v) = KeywordKey(q, t) /\ Key(q, u, v) = KeywordKey(q, u)
        BY <1>5 DEF Key
    <2>2. q.sort \in {"DESC", "ASC", "RELEVANCE"}
        BY DEF Queries
    <2>3. CASE q.sort = "DESC"
        <3>1. /\ KeywordKey(q, t) = [r \in Matching(q, t) |-> <<t[r].col, r>>]
              /\ KeywordKey(q, u) = [r \in Matching(q, u) |-> <<u[r].col, r>>]
            BY <2>3 DEF KeywordKey
        <3> QED
            BY <1>3, <2>1, <3>1 DEF u, old
    <2>4. CASE q.sort = "ASC"
        <3>1. /\ KeywordKey(q, t) = [r \in Matching(q, t) |-> <<-t[r].col, -r>>]
              /\ KeywordKey(q, u) = [r \in Matching(q, u) |-> <<-u[r].col, -r>>]
            BY <2>4 DEF KeywordKey
        <3> QED
            BY <1>3, <2>1, <3>1 DEF u, old
    <2>5. CASE q.sort = "RELEVANCE"
        <3>1. KeywordKey(q, t) = Relevance(q, t) /\ KeywordKey(q, u) = Relevance(q, u)
            BY <2>5 DEF KeywordKey
        <3> QED
            BY <1>3, <2>1, <3>1 DEF Relevance, u, old
    <2> QED
        BY <2>2, <2>3, <2>4, <2>5
<1> QED
    BY <1>4, <1>5 DEF Queries

LEMMA Ranked ==
    ASSUME TypeOK
    PROVE  /\ Ranks(Now) /\ DOMAIN Now \subseteq 1..Len(table)
           /\ \A r \in DOMAIN Now : Place(Now, r) \in Nat \ {0}
           /\ NowCount \in 0..Len(table)
           /\ CountOf(query, table, vector) \in 0..Len(table)
           /\ Len(table) \in Nat
<1>1. query \in Queries /\ table \in Seq(Attributes)
    BY DEF TypeOK
<1>2. /\ Ranks(Now) /\ DOMAIN Now \subseteq 1..Len(table)
      /\ NowCount \in 0..Len(table) /\ Len(table) \in Nat
    BY <1>1, KeyRanks DEF Now, NowCount, CountOf
<1>3. CountOf(query, table, vector) \in 0..Len(table)
    BY <1>1, KeyRanks
<1>4. \A r \in DOMAIN Now : Place(Now, r) \in Nat \ {0}
    BY <1>2, PlaceBounds
<1> QED
    BY <1>2, <1>3, <1>4

LEMMA TableFits == ASSUME TypeOK, Shape PROVE Len(table) \in 0..MaxRows
BY Ranked, PageSizeNat DEF Shape

\* The rows of a page are rows of the table.
LEMMA PageInTable ==
    ASSUME TypeOK, NEW p
    PROVE  /\ RowsOfPage(query, table, vector, p) \subseteq DOMAIN table
           /\ RowsOfPage(query, table, vector, p) # NoRows
<1>1. query \in Queries /\ table \in Seq(Attributes)
    BY DEF TypeOK
<1>2. DOMAIN Key(query, table, vector) \subseteq 1..Len(table)
    BY <1>1, KeyRanks
<1>3. RowsOfPage(query, table, vector, p) \subseteq 1..Len(table)
    BY <1>2 DEF RowsOfPage
<1> QED
    BY <1>1, <1>3 DEF NoRows, None

\* A list or a keyword search has no use for a vector.
LEMMA PlainAsked ==
    ASSUME Plain
    PROVE  /\ CountOf(query, table, vector) = NowCount
           /\ \A p : RowsOfPage(query, table, vector, p) =
                {r \in DOMAIN Now : Place(Now, r) \in ((p - 1) * PageSize + 1)..(p * PageSize)}
<1>1. Key(query, table, vector) = Now
    BY PlainKey DEF Plain, Now
<1>2. CountOf(query, table, vector) = NowCount
    BY <1>1 DEF CountOf, NowCount
<1>3. \A p : RowsOfPage(query, table, vector, p) =
                {r \in DOMAIN Now : Place(Now, r) \in ((p - 1) * PageSize + 1)..(p * PageSize)}
    BY <1>1 DEF RowsOfPage
<1> QED
    BY <1>2, <1>3

-----------------------------------------------------------------------------
(* What a step that leaves the rows alone keeps *)

LEMMA SkipsKept ==
    ASSUME TypeOK, Skips, UNCHANGED <<day, table, query, shown, first, firstDay>>,
           data' \in {data, NoRows}
    PROVE  Skips'
<1>1. Now' = Now
    BY Unmoved
<1>2. Seen' = Seen
    BY DEF Seen
<1> QED
    BY <1>1, <1>2 DEF Skips, Plain, NoneSkipped

LEMMA NumbersKept ==
    ASSUME Numbers, UNCHANGED <<day, table, query, announced>>,
           NotTooLarge(total)' \/ total' \in {total, NoCount},
           NotTooLarge(countCache)' \/ countCache' \in {countCache, NoCount}
    PROVE  Numbers'
BY Unmoved DEF Numbers, NotTooLarge, Plain

LEMMA FitsKept ==
    ASSUME Fits, UNCHANGED <<day, table, query, vector, shown, page>>, quiet' => quiet,
           data' \in {data, NoRows}, total' \in {total, NoCount},
           phase' = "done" => phase = "done"
    PROVE  Fits'
BY AskedUnmoved DEF Fits

LEMMA CountedIsRight ==
    ASSUME TypeOK
    PROVE  /\ Counted # NoCount
           /\ Counted \in [n : 0..MaxRows, day : {1, 2}] \/ Len(table) > MaxRows
           /\ NotTooLarge(Counted)
<1>1. Counted.n = CountOf(query, table, vector) /\ Counted.day = day
    BY DEF Counted
<1>2. Counted.n \in 0..Len(table) /\ Len(table) \in Nat /\ day \in {1, 2}
    BY <1>1, Ranked DEF TypeOK
<1>3. Counted # NoCount
    BY <1>1, <1>2 DEF NoCount, None
<1>4. Counted \in [n : 0..MaxRows, day : {1, 2}] \/ Len(table) > MaxRows
    BY <1>2, PageSizeNat DEF Counted
<1>5. NotTooLarge(Counted)
    <2>1. Counted.day <= day
        BY <1>1, <1>2
    <2>2. ASSUME Plain PROVE  Counted.n <= NowCount
        <3>1. CountOf(query, table, vector) = NowCount
            BY <2>2, PlainAsked
        <3> QED
            BY <1>1, <1>2, <3>1
    <2> QED
        BY <2>1, <2>2 DEF NotTooLarge
<1> QED
    BY <1>3, <1>4, <1>5

-----------------------------------------------------------------------------
(* Every action keeps the invariant *)

LEMMA InitHolds == Init => IInv
<1> SUFFICES ASSUME Init PROVE IInv
    OBVIOUS
<1>1. TotalPages(MaxRows) \in Nat \ {0}
    BY Pages, PageSizeNat DEF TotalPages
<1>2. TypeOK
    <2>1. table \in Seq(Attributes) /\ shown \in Seq(SUBSET DOMAIN table)
        BY DEF Init
    <2>2. page \in 1..TotalPages(MaxRows)
        BY <1>1 DEF Init
    <2> QED
        BY <2>1, <2>2 DEF Init, TypeOK
<1>3. Shape
    BY PageSizeNat DEF Init, Shape, None
<1>4. Skips
    <2>1. DOMAIN Now \subseteq 1..0
        BY <1>2, Ranked DEF Init
    <2> QED
        BY <2>1 DEF Init, Skips, NoneSkipped
<1> QED
    BY <1>2, <1>3, <1>4 DEF Init, IInv, Fits, Numbers, NotTooLarge, Ahead, AnnouncedPageHasRows,
       NoRows

LEMMA AskKeeps == ASSUME IInv, Ask PROVE IInv'
<1>1. /\ phase = "reading" /\ phase' = "asking" /\ vector' \in BOOLEAN
      /\ UNCHANGED <<day, table, query, page, data, total, countCache, shown, announced>>
      /\ \/ first = None /\ first' = Len(table) /\ firstDay' = day /\ quiet' = TRUE
         \/ /\ first # None /\ UNCHANGED <<first, firstDay>>
            /\ quiet' = (quiet /\ vector' = vector)
      /\ data = NoRows /\ total = NoCount
    BY DEF IInv, Ask, Shape
<1>2. TypeOK'
    BY <1>1, TableFits DEF IInv, TypeOK
<1>3. Shape'
    <2>1. Len(shown') = page' - 1
        BY <1>1 DEF IInv, Shape
    <2>2. first' # None /\ firstDay' <= day' /\ first' <= Len(table') /\ Len(table') <= MaxRows
        BY <1>1, PageSizeNat DEF IInv, Shape, None, TypeOK
    <2> QED
        BY <1>1, <2>1, <2>2 DEF Shape
<1>4. Skips'
    <2>1. CASE first = None
        <3>1. shown' = <<>> /\ data' = NoRows
            BY <1>1, <2>1 DEF IInv, Shape
        <3>2. \A r \in DOMAIN Now' : Place(Now, r)' \in Nat \ {0}
            BY <1>1, Ranked, Unmoved DEF IInv
        <3>3. \A r \in DOMAIN Now' : ~(Place(Now, r)' <= 0 * PageSize)
            BY <3>2, PageSizeNat
        <3> QED
            BY <3>1, <3>3 DEF Skips, NoneSkipped
    <2>2. CASE first # None
        BY <1>1, <2>2, SkipsKept DEF IInv
    <2> QED
        BY <2>1, <2>2
<1>5. Fits'
    <2>1. CASE first = None
        BY <1>1, <2>1 DEF IInv, Shape, Fits
    <2>2. CASE first # None /\ vector' = vector
        BY <1>1, <2>2, FitsKept DEF IInv
    <2>3. CASE first # None /\ vector' # vector
        BY <1>1, <2>3 DEF Fits
    <2> QED
        BY <2>1, <2>2, <2>3
<1>6. Numbers'
    BY <1>1, NumbersKept DEF IInv
<1> QED
    BY <1>1, <1>2, <1>3, <1>4, <1>5, <1>6 DEF IInv, Ahead, AnnouncedPageHasRows

LEMMA QueryRowsKeeps == ASSUME IInv, QueryRows PROVE IInv'
<1>1. /\ phase = "asking" /\ data = NoRows
      /\ data' = RowsOfPage(query, table, vector, page)
      /\ UNCHANGED <<day, table, query, phase, page, vector, total, countCache, histVars>>
    BY DEF QueryRows
<1>2. data' \subseteq DOMAIN table /\ data' # NoRows
    BY <1>1, PageInTable DEF IInv
<1>3. TypeOK'
    BY <1>1, <1>2 DEF IInv, TypeOK, histVars
<1>4. Shape'
    BY <1>1 DEF IInv, Shape, histVars
<1>5. Len(shown) = page - 1 /\ Len(shown) \in Nat /\ page \in Nat \ {0}
    BY <1>1 DEF IInv, Shape, TypeOK
<1>6. ASSUME Plain, query.isNew => day = firstDay
      PROVE  NoneSkipped(Len(shown), Seen) /\ NoneSkipped(Len(shown) + 1, Seen \cup data')
    <2>1. NoneSkipped(Len(shown), Seen)
        BY <1>6 DEF IInv, Skips
    <2>2. ASSUME NEW r \in DOMAIN Now, r <= first, Place(Now, r) <= page * PageSize
          PROVE  r \in Seen \cup data'
        <3>1. /\ Place(Now, r) \in Nat \ {0}
              /\ page * PageSize \in Nat /\ (page - 1) * PageSize \in Nat
            BY <1>5, PageSizeNat, Ranked DEF IInv
        <3>2. CASE Place(Now, r) <= (page - 1) * PageSize
            BY <1>5, <2>1, <2>2, <3>2 DEF NoneSkipped
        <3>3. CASE Place(Now, r) \in ((page - 1) * PageSize + 1)..(page * PageSize)
            BY <1>1, <1>6, <3>3, PlainAsked
        <3> QED
            BY <2>2, <3>1, <3>2, <3>3
    <2> QED
        BY <1>5, <2>1, <2>2 DEF NoneSkipped
<1>7. Skips'
    <2>1. Now' = Now /\ Seen' = Seen
        BY <1>1, Unmoved DEF Seen, histVars
    <2> QED
        BY <1>1, <1>6, <2>1 DEF Skips, NoneSkipped, Plain, histVars
<1>8. Fits'
    BY <1>1, AskedUnmoved DEF IInv, Fits, histVars
<1>9. Numbers'
    BY <1>1, NumbersKept DEF IInv, histVars
<1>10. ASSUME page > 1, Plain, query.isNew => announced.day = day
       PROVE  data' # {}
    <2>1. announced # NoCount /\ page <= TotalPages(announced.n)
        BY <1>1, <1>10 DEF IInv, Ahead
    <2>2. announced.n \in Nat /\ announced.n <= NowCount
        <3>1. announced \in [n : 0..MaxRows, day : {1, 2}]
            BY <2>1 DEF IInv, TypeOK
        <3>2. announced.n <= NowCount
            BY <1>10, <2>1 DEF IInv, Numbers, NotTooLarge
        <3> QED
            BY <3>1, <3>2, PageSizeNat
    <2>3. (page - 1) * PageSize + 1 \in 1..announced.n
        BY <1>5, <2>1, <2>2, AnnouncedPageBegins
    <2>4. (page - 1) * PageSize + 1 \in 1..Cardinality(DOMAIN Now)
        <3>1. NowCount = Cardinality(DOMAIN Now) /\ NowCount \in Nat
            BY Ranked DEF IInv, NowCount
        <3> QED
            BY <2>2, <2>3, <3>1
    <2>5. PICK r \in DOMAIN Now : Place(Now, r) = (page - 1) * PageSize + 1
        BY <2>4, PlaceTaken, Ranked DEF IInv
    <2>6. Place(Now, r) \in ((page - 1) * PageSize + 1)..(page * PageSize)
        <3>1. page * PageSize = (page - 1) * PageSize + PageSize /\ (page - 1) * PageSize \in Nat
            BY <1>5, PageSizeNat
        <3> QED
            BY <2>5, <3>1, PageSizeNat
    <2> QED
        BY <1>1, <1>10, <2>6, PlainAsked
<1>11. AnnouncedPageHasRows'
    BY <1>1, <1>10 DEF AnnouncedPageHasRows, Plain, histVars
<1> QED
    BY <1>1, <1>3, <1>4, <1>7, <1>8, <1>9, <1>11 DEF IInv, Ahead, histVars

LEMMA QueryCountKeeps == ASSUME IInv, QueryCount PROVE IInv'
<1>1. /\ phase = "asking" /\ total = NoCount
      /\ total' = IF countCache # NoCount THEN countCache ELSE Counted
      /\ countCache' = IF query.kind = "list" THEN total' ELSE NoCount
      /\ quiet' = (quiet /\ total' = Counted)
      /\ UNCHANGED <<day, table, query, phase, page, vector, data, shown, announced,
                     first, firstDay>>
    BY DEF QueryCount
<1>2. total' \in [n : 0..MaxRows, day : {1, 2}] /\ total' # NoCount /\ NotTooLarge(total')
    <2>1. CASE countCache # NoCount
        BY <1>1, <2>1 DEF IInv, TypeOK, Numbers
    <2>2. CASE countCache = NoCount
        <3>1. Len(table) <= MaxRows /\ Len(table) \in Nat
            BY Ranked DEF IInv, Shape
        <3> QED
            BY <1>1, <2>2, <3>1, CountedIsRight, PageSizeNat DEF IInv
    <2> QED
        BY <2>1, <2>2
<1>3. TypeOK'
    BY <1>1, <1>2 DEF IInv, TypeOK
<1>4. Shape'
    BY <1>1 DEF IInv, Shape
<1>5. Skips'
    BY <1>1, SkipsKept DEF IInv
<1>6. Fits'
    BY <1>1, AskedUnmoved DEF IInv, Fits
<1>7. Numbers'
    <2>1. NotTooLarge(total)'
        BY <1>1, <1>2, Unmoved DEF NotTooLarge, Plain
    <2>2. NotTooLarge(countCache)'
        BY <1>1, <2>1 DEF NotTooLarge
    <2> QED
        BY <1>1, <2>1, <2>2, NumbersKept DEF IInv
<1> QED
    BY <1>1, <1>3, <1>4, <1>5, <1>6, <1>7 DEF IInv, Ahead, AnnouncedPageHasRows

-----------------------------------------------------------------------------
LEMMA AnswerKeeps == ASSUME IInv, Answer PROVE IInv'
<1>1. /\ phase = "asking" /\ data # NoRows /\ total # NoCount
      /\ shown' = Append(shown, data) /\ announced' = total
      /\ data' = NoRows /\ total' = NoCount
      /\ \/ page < TotalPages(total.n) /\ phase' = "reading" /\ page' = page + 1
         \/ ~(page < TotalPages(total.n)) /\ phase' = "done" /\ page' = page
      /\ UNCHANGED <<day, table, query, vector, countCache, first, firstDay, quiet>>
    BY DEF Answer, Forget
<1>2. total \in [n : 0..MaxRows, day : {1, 2}] /\ data \subseteq DOMAIN table
    BY <1>1 DEF IInv, TypeOK
<1>3. total.n \in Nat /\ total.n <= MaxRows /\ MaxRows \in Nat
    BY <1>2, PageSizeNat
<1>4. /\ TotalPages(total.n) \in Nat /\ TotalPages(MaxRows) \in Nat
      /\ TotalPages(total.n) <= TotalPages(MaxRows)
    BY <1>3, Pages, PagesGrow
<1>5. /\ page \in 1..TotalPages(MaxRows) /\ Len(shown) = page - 1
      /\ shown \in Seq(SUBSET DOMAIN table)
    BY <1>1 DEF IInv, TypeOK, Shape
<1>6. /\ shown' \in Seq(SUBSET DOMAIN table) /\ Len(shown') = Len(shown) + 1
      /\ DOMAIN shown = 1..Len(shown) /\ DOMAIN shown' = 1..(Len(shown) + 1) /\ Len(shown) \in Nat
      /\ shown'[Len(shown) + 1] = data
      /\ \A i \in 1..Len(shown) : shown'[i] = shown[i]
    BY <1>1, <1>2, <1>5
<1>7. TypeOK'
    <2>1. page' \in 1..TotalPages(MaxRows)
        BY <1>1, <1>4, <1>5
    <2>2. TotalPages(MaxRows)' = TotalPages(MaxRows)
        BY DEF TotalPages
    <2> QED
        BY <1>1, <1>2, <1>6, <2>1, <2>2 DEF IInv, TypeOK
<1>8. Shape'
    <2>1. first # None
        BY <1>1 DEF IInv, Shape
    <2> QED
        BY <1>1, <1>4, <1>5, <1>6, <2>1 DEF IInv, Shape
<1>9. Skips'
    <2>1. Seen' = Seen \cup data
        BY <1>6 DEF Seen
    <2>2. Now' = Now
        BY <1>1, Unmoved
    <2> QED
        BY <1>1, <1>6, <2>1, <2>2 DEF IInv, Skips, NoneSkipped, Plain
<1>10. Fits'
    <2> SUFFICES ASSUME quiet PROVE Fits'
        BY <1>1 DEF Fits
    <2>1. \A i \in DOMAIN shown' : shown'[i] = RowsOfPage(query, table, vector, i)
        BY <1>1, <1>5, <1>6 DEF IInv, Fits
    <2>2. total.n = CountOf(query, table, vector)
        BY <1>1 DEF IInv, Fits, Counted
    <2>3. phase' = "done" => TotalPages(CountOf(query, table, vector)) <= page'
        BY <1>1, <1>4, <1>5, <2>2
    <2> QED
        BY <1>1, <2>1, <2>3, AskedUnmoved DEF Fits
<1>11. Numbers'
    <2>1. NotTooLarge(announced)'
        BY <1>1, Unmoved DEF IInv, Numbers, NotTooLarge, Plain
    <2>2. NotTooLarge(countCache)'
        BY <1>1, Unmoved DEF IInv, Numbers, NotTooLarge, Plain
    <2>3. NotTooLarge(total)'
        BY <1>1 DEF NotTooLarge
    <2> QED
        BY <2>1, <2>2, <2>3 DEF Numbers
<1>12. Ahead'
    <2>1. TotalPages(announced.n)' = TotalPages(total.n)
        BY <1>1 DEF TotalPages
    <2> QED
        BY <1>1, <1>4, <1>5, <2>1 DEF Ahead
<1>13. AnnouncedPageHasRows'
    BY <1>1 DEF AnnouncedPageHasRows, NoRows
<1> QED
    BY <1>7, <1>8, <1>9, <1>10, <1>11, <1>12, <1>13 DEF IInv

LEMMA RequestFailsKeeps == ASSUME IInv, RequestFails PROVE IInv'
<1>1. /\ phase = "asking" /\ phase' = "reading" /\ data' = NoRows /\ total' = NoCount
      /\ UNCHANGED <<day, table, query, page, vector, countCache, histVars>>
    BY DEF RequestFails, Forget
<1>2. TypeOK'
    BY <1>1 DEF IInv, TypeOK, histVars
<1>3. Shape'
    BY <1>1 DEF IInv, Shape, histVars
<1>4. Skips' /\ Fits' /\ Numbers'
    BY <1>1, SkipsKept, FitsKept, NumbersKept DEF IInv, histVars
<1>5. Ahead' /\ AnnouncedPageHasRows'
    BY <1>1 DEF IInv, Ahead, AnnouncedPageHasRows, NoRows, histVars
<1> QED
    BY <1>2, <1>3, <1>4, <1>5 DEF IInv

LEMMA SaveTrendKeeps == ASSUME IInv, SaveTrend PROVE IInv'
<1>1. PICK row \in Attributes : table' = Append(table, row)
    BY DEF SaveTrend
<1>2. /\ Len(table) < MaxRows /\ quiet' = FALSE
      /\ UNCHANGED <<day, query, requestVars, countCache, shown, announced, first, firstDay>>
    BY DEF SaveTrend
<1>3. /\ table \in Seq(Attributes) /\ table' \in Seq(Attributes) /\ query \in Queries
      /\ Len(table') = Len(table) + 1 /\ Len(table) \in Nat
      /\ DOMAIN table \subseteq DOMAIN table'
    BY <1>1 DEF IInv, TypeOK
<1>4. TypeOK'
    <2>1. shown' \in Seq(SUBSET DOMAIN table')
        <3>1. shown \in Seq(SUBSET DOMAIN table)
            BY DEF IInv, TypeOK
        <3> QED
            BY <1>2, <1>3, <3>1
    <2> QED
        BY <1>2, <1>3, <2>1 DEF IInv, TypeOK, requestVars
<1>5. Shape'
    BY <1>2, <1>3, PageSizeNat DEF IInv, Shape, TypeOK, None, requestVars
<1>6. ASSUME Plain
      PROVE  /\ DOMAIN Now = DOMAIN Now' \cap (1..Len(table))
             /\ \A r \in DOMAIN Now : Now'[r] = Now[r]
             /\ IsFiniteSet(DOMAIN Now') /\ DOMAIN Now' \subseteq 1..Len(table')
    <2>1. Now' = Key(query, Append(table, row), FALSE)
        BY <1>1, <1>2 DEF Now, Key, ListKey, KeywordKey, HybridKey, Relevance, Nearness, Matching,
           Filtered, Candidates, RrfScore, Share, Place, Above
    <2>2. Append(table, row) \in Seq(Attributes)
        BY <1>1, <1>3
    <2>3. Ranks(Now') /\ DOMAIN Now' \subseteq 1..Len(table')
        BY <1>1, <1>3, <2>1, <2>2, KeyRanks
    <2>4. query.kind # "hybrid"
        BY <1>6 DEF Plain
    <2>5. /\ DOMAIN Now = DOMAIN Now' \cap (1..Len(table))
          /\ \A r \in DOMAIN Now : Now'[r] = Now[r]
        <3>1. \A v : /\ DOMAIN Key(query, table, v) =
                            DOMAIN Key(query, Append(table, row), v) \cap (1..Len(table))
                     /\ \A r \in DOMAIN Key(query, table, v) :
                            Key(query, Append(table, row), v)[r] = Key(query, table, v)[r]
            BY <1>1, <1>3, <2>4, KeyGrows
        <3> QED
            BY <2>1, <3>1, Zenon DEF Now
    <2> QED
        BY <2>3, <2>5 DEF Ranks
<1>7. first \in Int /\ first <= Len(table) /\ Plain' = Plain
    BY <1>2, PageSizeNat DEF IInv, Shape, TypeOK, None, Plain
<1>8. ASSUME Plain, NEW n \in Int, NEW rows, NoneSkipped(n, rows),
             NEW r \in DOMAIN Now', r <= first, Place(Now', r) <= n * PageSize
      PROVE  r \in rows
    <2>2. r \in DOMAIN Now
        BY <1>3, <1>6, <1>7, <1>8
    <2>3. Place(Now, r) <= Place(Now', r) /\ Place(Now, r) \in Nat /\ Place(Now', r) \in Nat
        BY <1>6, <1>8, <2>2, PlaceMovesBack
    <2>4. n * PageSize \in Int
        BY PageSizeNat
    <2> QED
        BY <1>8, <2>2, <2>3, <2>4 DEF NoneSkipped
<1>9. Skips'
    <2> SUFFICES ASSUME Plain, query.isNew => day = firstDay PROVE Skips'
        BY <1>2, <1>7 DEF Skips
    <2>1. /\ NoneSkipped(Len(shown), Seen)
          /\ data # NoRows => NoneSkipped(Len(shown) + 1, Seen \cup data)
        BY DEF IInv, Skips
    <2>2. Len(shown) \in Int
        BY DEF IInv, TypeOK
    <2>3. /\ NoneSkipped(Len(shown), Seen)'
          /\ data # NoRows => NoneSkipped(Len(shown) + 1, Seen \cup data)'
        <3>1. Seen' = Seen /\ shown' = shown /\ data' = data /\ first' = first
            BY <1>2 DEF Seen, requestVars
        <3>2. NoneSkipped(Len(shown), Seen)'
            BY <1>8, <2>1, <2>2, <3>1 DEF NoneSkipped
        <3>3. ASSUME data # NoRows PROVE NoneSkipped(Len(shown) + 1, Seen \cup data)'
            <4>1. Len(shown) + 1 \in Int /\ NoneSkipped(Len(shown) + 1, Seen \cup data)
                BY <2>1, <2>2, <3>3
            <4>2. \A r \in DOMAIN Now' : r <= first /\ Place(Now', r) <= (Len(shown) + 1) * PageSize
                      => r \in Seen \cup data
                BY <1>8, <4>1
            <4> QED
                BY <3>1, <4>2 DEF NoneSkipped
        <3> QED
            BY <3>2, <3>3
    <2> QED
        BY <1>2, <2>3 DEF Skips, requestVars
<1>10. Fits'
    BY <1>2 DEF Fits
<1>11. Numbers'
    <2>1. Plain => NowCount <= NowCount' /\ NowCount \in Nat /\ NowCount' \in Nat
        <3> SUFFICES ASSUME Plain
                     PROVE  NowCount <= NowCount' /\ NowCount \in Nat /\ NowCount' \in Nat
            OBVIOUS
        <3>1. DOMAIN Now \in SUBSET DOMAIN Now' /\ IsFiniteSet(DOMAIN Now')
            BY <1>6
        <3>2. IsFiniteSet(DOMAIN Now) /\ Cardinality(DOMAIN Now) <= Cardinality(DOMAIN Now')
            BY <3>1, FS_Subset
        <3> QED
            BY <3>1, <3>2, FS_CardinalityType DEF NowCount
    <2>2. \A c \in {total, countCache, announced} : c # NoCount => c.n \in Nat
        BY PageSizeNat DEF IInv, TypeOK
    <2>3. ASSUME NEW c \in {total, countCache, announced}, NotTooLarge(c)
          PROVE  c # NoCount =>
                    /\ c.day <= day
                    /\ Plain /\ (query.isNew => c.day = day) => c.n <= NowCount'
        BY <2>1, <2>2, <2>3 DEF NotTooLarge
    <2> QED
        BY <1>2, <1>7, <2>3 DEF IInv, Numbers, NotTooLarge, requestVars
<1> QED
    BY <1>2, <1>4, <1>5, <1>9, <1>10, <1>11
    DEF IInv, Ahead, AnnouncedPageHasRows, requestVars

-----------------------------------------------------------------------------
LEMMA OtherCountsKeeps == ASSUME IInv, OtherCounts PROVE IInv'
<1>1. /\ countCache' = Counted
      /\ UNCHANGED <<day, table, query, requestVars, histVars>>
    BY DEF OtherCounts
<1>2. Counted \in [n : 0..MaxRows, day : {1, 2}] /\ NotTooLarge(Counted)
    <2>1. Len(table) <= MaxRows /\ Len(table) \in Nat
        BY Ranked DEF IInv, Shape
    <2> QED
        BY <2>1, CountedIsRight, PageSizeNat DEF IInv
<1>3. TypeOK'
    BY <1>1, <1>2 DEF IInv, TypeOK, requestVars, histVars
<1>4. Shape'
    BY <1>1 DEF IInv, Shape, requestVars, histVars
<1>5. Skips' /\ Fits'
    BY <1>1, SkipsKept, FitsKept DEF IInv, requestVars, histVars
<1>6. Numbers'
    <2>1. NotTooLarge(countCache)'
        BY <1>1, <1>2, Unmoved DEF NotTooLarge, Plain
    <2> QED
        BY <1>1, <2>1, NumbersKept DEF IInv, requestVars, histVars
<1> QED
    BY <1>1, <1>3, <1>4, <1>5, <1>6 DEF IInv, Ahead, AnnouncedPageHasRows, requestVars, histVars

LEMMA CountExpiresKeeps == ASSUME IInv, CountExpires PROVE IInv'
<1>1. countCache' = NoCount /\ UNCHANGED <<day, table, query, requestVars, histVars>>
    BY DEF CountExpires
<1>2. TypeOK' /\ Shape'
    BY <1>1 DEF IInv, TypeOK, Shape, requestVars, histVars
<1>3. Skips' /\ Fits' /\ Numbers'
    BY <1>1, SkipsKept, FitsKept, NumbersKept DEF IInv, requestVars, histVars
<1> QED
    BY <1>1, <1>2, <1>3 DEF IInv, Ahead, AnnouncedPageHasRows, requestVars, histVars

LEMMA MidnightKeeps == ASSUME IInv, Midnight PROVE IInv'
<1>1. /\ day = 1 /\ day' = 2 /\ query.isNew /\ quiet' = FALSE
      /\ UNCHANGED <<table, query, requestVars, countCache, shown, announced, first, firstDay>>
    BY DEF Midnight
<1>2. TypeOK'
    BY <1>1 DEF IInv, TypeOK, requestVars
<1>3. Shape'
    BY <1>1, PageSizeNat DEF IInv, TypeOK, Shape, None, requestVars
<1>4. firstDay' # day'
    BY <1>1 DEF IInv, Shape
<1>5. \A c \in {total, countCache, announced} : c # NoCount => c.day # 2 /\ c.day <= 2
    <2>1. \A c \in {total, countCache, announced} : c # NoCount => c.day \in {1, 2} /\ c.day <= day
        BY DEF IInv, TypeOK, Numbers, NotTooLarge
    <2> QED
        BY <1>1, <2>1
<1>6. Skips' /\ Fits'
    BY <1>1, <1>4 DEF Skips, Fits
<1>7. Numbers'
    BY <1>1, <1>5 DEF Numbers, NotTooLarge, requestVars
<1>8. AnnouncedPageHasRows'
    <2> SUFFICES ASSUME page > 1, data = {} PROVE query.kind = "hybrid" \/ announced.day # 2
        BY <1>1 DEF AnnouncedPageHasRows, requestVars
    <2>1. announced # NoCount
        BY DEF IInv, Ahead, Shape, NoRows
    <2> QED
        BY <1>5, <2>1
<1> QED
    BY <1>1, <1>2, <1>3, <1>6, <1>7, <1>8 DEF IInv, Ahead, requestVars

LEMMA StutterKeeps == ASSUME IInv, UNCHANGED vars PROVE IInv'
<1>1. UNCHANGED <<day, table, query, requestVars, countCache, histVars>>
    BY DEF vars
<1>2. TypeOK' /\ Shape'
    BY <1>1 DEF IInv, TypeOK, Shape, requestVars, histVars
<1>3. Skips' /\ Fits' /\ Numbers'
    BY <1>1, SkipsKept, FitsKept, NumbersKept DEF IInv, requestVars, histVars
<1> QED
    BY <1>1, <1>2, <1>3 DEF IInv, Ahead, AnnouncedPageHasRows, requestVars, histVars

LEMMA NextKeeps == IInv /\ [Next]_vars => IInv'
BY AskKeeps, QueryRowsKeeps, QueryCountKeeps, AnswerKeeps, RequestFailsKeeps, SaveTrendKeeps,
   OtherCountsKeeps, CountExpiresKeeps, MidnightKeeps, StutterKeeps DEF Next, Read

-----------------------------------------------------------------------------
(* What it implies *)

\* When nothing changed, the pages shown hold every row, each on one of them.
LEMMA QuietIsComplete == ASSUME IInv PROVE QuietReadingIsComplete
<1> SUFFICES ASSUME phase = "done", quiet
             PROVE  /\ Seen = DOMAIN Key(query, table, vector)
                    /\ \A i, j \in DOMAIN shown : i # j => shown[i] \cap shown[j] = {}
    BY DEF QuietReadingIsComplete
<1> DEFINE key == Key(query, table, vector)
           n == CountOf(query, table, vector)
<1>1. Ranks(key) /\ n \in Nat /\ n = Cardinality(DOMAIN key)
    <2>1. query \in Queries /\ table \in Seq(Attributes)
        BY DEF IInv, TypeOK
    <2> QED
        BY <2>1, KeyRanks DEF CountOf
<1>2. /\ \A i \in DOMAIN shown : shown[i] = RowsOfPage(query, table, vector, i)
      /\ TotalPages(n) <= Len(shown)
      /\ DOMAIN shown = 1..Len(shown) /\ Len(shown) \in Nat
    BY DEF IInv, Fits, Shape, TypeOK
<1>3. \A i : RowsOfPage(query, table, vector, i) =
                {r \in DOMAIN key : Place(key, r) \in ((i - 1) * PageSize + 1)..(i * PageSize)}
    BY DEF RowsOfPage
<1> HIDE DEF key, n
<1>4. ASSUME NEW r \in DOMAIN key PROVE r \in Seen
    <2>1. Place(key, r) \in 1..n
        BY <1>1, PlaceBounds
    <2>2. n <= TotalPages(n) * PageSize /\ TotalPages(n) \in Nat
        BY <1>1, Pages
    <2>3. TotalPages(n) * PageSize <= Len(shown) * PageSize
        BY <1>2, <2>2, PageSizeNat, MulMono
    <2>4. TotalPages(n) * PageSize \in Nat /\ Len(shown) * PageSize \in Nat
        BY <1>2, <2>2, PageSizeNat
    <2>5. Place(key, r) \in 1..(Len(shown) * PageSize)
        BY <1>1, <2>1, <2>2, <2>3, <2>4
    <2>6. PICK i \in 1..Len(shown) : Place(key, r) \in ((i - 1) * PageSize + 1)..(i * PageSize)
        BY <1>2, <2>5, PageOfPlace
    <2> QED
        BY <1>2, <1>3, <2>6 DEF Seen
<1>5. Seen \subseteq DOMAIN key
    BY <1>2, <1>3 DEF Seen
<1>6. ASSUME NEW i \in DOMAIN shown, NEW j \in DOMAIN shown, i < j
      PROVE  shown[i] \cap shown[j] = {}
    <2>1. i \in Nat \ {0} /\ j \in Nat
        BY <1>2
    <2> SUFFICES ASSUME NEW r \in shown[i] PROVE r \notin shown[j]
        OBVIOUS
    <2>2. r \in DOMAIN key /\ Place(key, r) \in ((i - 1) * PageSize + 1)..(i * PageSize)
        BY <1>2, <1>3
    <2>3. Place(key, r) \in Int
        BY <1>1, <2>2, PlaceBounds
    <2>4. Place(key, r) \notin ((j - 1) * PageSize + 1)..(j * PageSize)
        BY <1>6, <2>1, <2>2, <2>3, PagesApart
    <2> QED
        BY <1>2, <1>3, <2>4
<1>7. \A i, j \in DOMAIN shown : i # j => shown[i] \cap shown[j] = {}
    BY <1>2, <1>6
<1> QED
    BY <1>4, <1>5, <1>7 DEF key

\* Who is not behind in a ranking has no smaller share of it.
LEMMA ShareFalls ==
    ASSUME NEW key, Ranks(key), NEW a, NEW b, a # b,
           b \in Candidates(key) => a \in Candidates(key) /\ Place(key, a) <= Place(key, b)
    PROVE  /\ Share(key, a) >= Share(key, b)
           /\ b \in Candidates(key) => Share(key, a) > Share(key, b)
<1>1. Share(key, a) \in Nat /\ Share(key, b) \in Nat
    BY ShareOfPlace
<1>2. CASE b \in Candidates(key)
    <2>1. /\ a \in DOMAIN key /\ b \in DOMAIN key
          /\ Place(key, a) \in 1..CandidateLimit /\ Place(key, b) \in 1..CandidateLimit
          /\ Share(key, a) = Worth(Place(key, a)) /\ Share(key, b) = Worth(Place(key, b))
        BY <1>2, ShareOfPlace
    <2>2. Place(key, a) # Place(key, b)
        BY <2>1, PlaceOfOne
    <2>3. Place(key, a) < Place(key, b)
        BY <1>2, <2>1, <2>2, SearchAssumption
    <2>4. Share(key, a) > Share(key, b)
        BY <2>1, <2>3, WorthFalls
    <2> QED
        BY <1>1, <2>4
<1>3. CASE b \notin Candidates(key)
    BY <1>1, <1>3, ShareOfPlace
<1> QED
    BY <1>2, <1>3

\* The fused order of any table respects both rankings.
LEMMA Fusion == ASSUME TypeOK PROVE FusionRespectsRankings
<1> DEFINE rel  == Relevance(query, table)
           near == Nearness(query, table)
           key  == HybridKey(query, table)
           both == Candidates(rel) \cap Candidates(near)
           NotBehind(k, a, b) ==
               b \in Candidates(k) => a \in Candidates(k) /\ Place(k, a) <= Place(k, b)
<1> SUFFICES ASSUME NEW a \in DOMAIN key, NEW b \in DOMAIN key, a # b,
                    \/ NotBehind(rel, a, b) /\ NotBehind(near, a, b)
                    \/ a \in both /\ b \notin both
             PROVE  Place(key, a) < Place(key, b)
    BY DEF FusionRespectsRankings
<1>1. table \in Seq(Attributes)
    BY DEF TypeOK
<1>2. Ranks(rel) /\ Ranks(near) /\ Ranks(key)
    BY <1>1, RelevanceRanks, NearnessRanks, HybridRanks
<1>3. DOMAIN key = Candidates(rel) \cup Candidates(near)
    BY DEF HybridKey
<1>4. \A r \in DOMAIN key : /\ key[r] = <<Share(rel, r) + Share(near, r), table[r].col, r>>
                            /\ table[r].col \in Int /\ r \in Int
    <2>1. DOMAIN key \subseteq Filtered(query, table)
        BY <1>1, HybridRanks
    <2>2. \A r \in DOMAIN key : table[r].col \in Int /\ r \in Int
        BY <1>1, <2>1, FilteredRows
    <2> QED
        BY <2>2 DEF HybridKey, RrfScore
<1> HIDE DEF rel, near, key
<1>5. \A r : Share(rel, r) \in Nat /\ Share(near, r) \in Nat
    BY <1>2, ShareOfPlace
<1>6. Share(rel, a) + Share(near, a) > Share(rel, b) + Share(near, b)
    <2>1. CASE NotBehind(rel, a, b) /\ NotBehind(near, a, b)
        <3>1. /\ Share(rel, a) >= Share(rel, b)
              /\ b \in Candidates(rel) => Share(rel, a) > Share(rel, b)
            BY <1>2, <2>1, ShareFalls
        <3>2. /\ Share(near, a) >= Share(near, b)
              /\ b \in Candidates(near) => Share(near, a) > Share(near, b)
            BY <1>2, <2>1, ShareFalls
        <3> QED
            BY <1>3, <1>5, <3>1, <3>2
    <2>2. CASE a \in both /\ b \notin both
        <3>1. /\ Share(rel, a) = Worth(Place(rel, a)) /\ Place(rel, a) \in 1..CandidateLimit
              /\ Share(near, a) = Worth(Place(near, a)) /\ Place(near, a) \in 1..CandidateLimit
            BY <1>2, <2>2, ShareOfPlace
        <3>2. PICK s \in 1..CandidateLimit : Share(rel, b) + Share(near, b) = Worth(s)
            <4>1. CASE b \in Candidates(rel) /\ b \notin Candidates(near)
                <5>1. /\ Share(rel, b) = Worth(Place(rel, b)) /\ Place(rel, b) \in 1..CandidateLimit
                      /\ Share(near, b) = 0
                    BY <1>2, <4>1, ShareOfPlace
                <5> QED
                    BY <1>5, <5>1
            <4>2. CASE b \in Candidates(near) /\ b \notin Candidates(rel)
                <5>1. /\ Share(near, b) = Worth(Place(near, b)) /\ Place(near, b) \in 1..CandidateLimit
                      /\ Share(rel, b) = 0
                    BY <1>2, <4>2, ShareOfPlace
                <5> QED
                    BY <1>5, <5>1
            <4> QED
                BY <1>3, <2>2, <4>1, <4>2
        <3> QED
            BY <3>1, <3>2, WorthOfTwo
    <2> QED
        BY <2>1, <2>2
<1>7. Above(key[a], key[b])
    <2> DEFINE u == Share(rel, a) + Share(near, a)
               v == Share(rel, b) + Share(near, b)
    <2>1. u \in Int /\ v \in Int /\ u > v
        BY <1>5, <1>6
    <2>2. /\ key[a] = <<u, table[a].col, a>> /\ key[b] = <<v, table[b].col, b>>
        BY <1>4
    <2>3. table[a].col \in Int /\ table[b].col \in Int /\ a \in Int /\ b \in Int
        BY <1>4
    <2> HIDE DEF u, v
    <2>4. Above(<<u, table[a].col, a>>, <<v, table[b].col, b>>)
        BY <2>1, <2>3, GreaterFirst
    <2> QED
        BY <2>2, <2>4
<1> QED
    BY <1>2, <1>7, PlaceFalls

-----------------------------------------------------------------------------
(* Theorems *)

\* The invariant holds of every table, whoever stores and counts in between.
THEOREM Invariance == Spec => []IInv
BY InitHolds, NextKeeps, PTL DEF Spec

\* The variables keep their types.
THEOREM TypeCorrect == Spec => []TypeOK
<1>1. IInv => TypeOK
    BY DEF IInv
<1> QED
    BY <1>1, Invariance, PTL

\* Rows stored between the pages of a list or a keyword search push others back;
\* they never make a reader miss one (tech-trend.repository.ts:182, 209-248).
THEOREM NothingSkippedHolds == Spec => []NothingSkipped
<1>1. IInv => NothingSkipped
    BY DEF IInv, Skips, NoneSkipped, NothingSkipped, Plain, Now
<1> QED
    BY <1>1, Invariance, PTL

\* Undisturbed, a reader ends with every row once, the hybrid search included
\* (trends-query.service.ts, totalPages; tech-trend.repository.ts, LIMIT and OFFSET).
THEOREM QuietReadingIsCompleteHolds == Spec => []QuietReadingIsComplete
BY QuietIsComplete, Invariance, PTL

\* An announced page has rows, also when the number that announced it came from the
\* cache or rows were stored since, unless the day changed or the search is hybrid.
THEOREM AnnouncedPageHasRowsHolds == Spec => []AnnouncedPageHasRows
<1>1. IInv => AnnouncedPageHasRows
    BY DEF IInv
<1> QED
    BY <1>1, Invariance, PTL

\* Reciprocal rank fusion keeps to both rankings, with any rrfK and any number of
\* candidates up to rrfK + 1 (tech-trend.repository.ts, searchHybrid).
THEOREM FusionRespectsRankingsHolds == Spec => []FusionRespectsRankings
BY Fusion, TypeCorrect, PTL

=============================================================================
