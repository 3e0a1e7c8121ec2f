------------------------ MODULE TrendsPipelineProofs ------------------------
(***************************************************************************)
(* Proofs about TrendsPipeline, for every finite set of sources and ids,   *)
(* every target, batch size, number of days and bound on lost replies.     *)
(*                                                                         *)
(* The argument: CountMatchesTable says what a run knows of the table, and *)
(* QuotaOfRun how much it may still save; together they leave room for     *)
(* each insert.  RunShape holds the bookkeeping both need.                 *)
(***************************************************************************)
EXTENDS TrendsPipeline, FiniteSetTheorems, TLAPS

\* Where the articles of a run are, and what is still at its initial value.
RunShape ==
    /\ candidates \cup work \subseteq ArticlesOf(source)
    /\ candidates \cap work = {}
    /\ pc # "saving" => batchSaved = {}
    /\ pc \in {"idle", "counting", "collecting", "excluding", "failed"}
         => newlySavedCount = 0 /\ lost = 0 /\ savedArticles = {} /\ work = {}
    /\ pc \in {"idle", "counting", "collecting", "failed"} => candidates = {}
    /\ pc \in {"batching", "done"} => work = {}

\* What the run has counted and what it may still save stay within the target.
QuotaOfRun ==
    /\ pc \in {"collecting", "excluding"} => TotalSoFar < Target
    /\ pc = "batching" => TotalSoFar <= Target
    /\ pc \in {"detailing", "selecting", "summarizing"} => TotalSoFar < Target
    /\ pc = "embedding" => Cardinality(work) <= RemainingQuota
    /\ pc = "saving" => Cardinality(work) + Cardinality(batchSaved) <= RemainingQuota

\* The rows the run has reported or is about to report.
ReportedRows ==
    /\ savedArticles \cup batchSaved \subseteq SavedSince(source, since)
    /\ savedArticles \cap batchSaved = {}
    /\ Cardinality(savedArticles) = newlySavedCount

IInv ==
    /\ TypeOK
    /\ RunShape
    /\ QuotaOfRun
    /\ CountMatchesTable
    /\ WorkIsNew
    /\ ReportedRows
    /\ NoBatchSkipped
    /\ DailyQuota

-----------------------------------------------------------------------------
(* Lemmas about the table and about finite sets of articles *)

\* The rows of s since day d, and on day d, of a table m.
RowsSince(m, s, d) == {a \in Articles : a[1] = s /\ m[a] >= d}
RowsOn(m, s, d)    == {a \in Articles : a[1] = s /\ m[a] = d}

\* A set of articles is finite and has a size.
LEMMA ArticleSetSize ==
    ASSUME NEW S \in SUBSET Articles
    PROVE  IsFiniteSet(S) /\ Cardinality(S) \in Nat
<1>1. IsFiniteSet(Articles)
  BY PipelineAssumption, FS_Product DEF Articles
<1>2. IsFiniteSet(S)
  BY <1>1, FS_Subset
<1>. QED
  BY <1>2, FS_CardinalityType

\* A set of articles with a member is not of size 0.
LEMMA MemberCounts ==
    ASSUME NEW S \in SUBSET Articles, NEW a \in S
    PROVE  /\ Cardinality(S) >= 1
           /\ Cardinality(S \ {a}) = Cardinality(S) - 1
<1>1. IsFiniteSet(S) /\ Cardinality(S) \in Nat
  BY ArticleSetSize
<1>2. Cardinality(S) # 0
  BY <1>1, FS_EmptySet
<1>3. Cardinality(S \ {a}) = IF a \in S THEN Cardinality(S) - 1 ELSE Cardinality(S)
  BY <1>1, FS_RemoveElement
<1>. QED
  BY <1>1, <1>2, <1>3

\* An insert (TrendsPipeline!Insert) adds its article, and no other, to the
\* rows of its source since any day up to the day of the insert.
LEMMA InsertGrowsRowsSince ==
    ASSUME NEW m, NEW n, NEW a \in Articles, m[a] = Absent, n[a] \in Days,
           \A b \in Articles \ {a} : n[b] = m[b],
           NEW s, s = a[1], NEW d \in Days, d <= n[a]
    PROVE  /\ RowsSince(n, s, d) = RowsSince(m, s, d) \cup {a}
           /\ a \notin RowsSince(m, s, d)
           /\ Cardinality(RowsSince(n, s, d)) = Cardinality(RowsSince(m, s, d)) + 1
<1>. DEFINE R == RowsSince(m, s, d)
<1>1. RowsSince(n, s, d) = R \cup {a} /\ a \notin R
  BY DEF RowsSince, Days, Absent
<1>2. IsFiniteSet(R)
  BY ArticleSetSize DEF RowsSince
<1>3. Cardinality(R \cup {a}) = Cardinality(R) + 1
  <2>. HIDE DEF R
  <2>. QED BY <1>1, <1>2, FS_AddElement
<1>. QED
  BY <1>1, <1>3

\* An insert leaves the rows of every other source and day alone.
LEMMA InsertKeepsOtherRows ==
    ASSUME NEW m, NEW n, NEW a \in Articles, m[a] = Absent,
           \A b \in Articles \ {a} : n[b] = m[b],
           NEW s, NEW d \in Days, s # a[1] \/ d # n[a]
    PROVE  RowsOn(n, s, d) = RowsOn(m, s, d)
BY DEF RowsOn, Days, Absent

\* The rows of one day are among the rows since an earlier day.
LEMMA RowsOnAreRowsSince ==
    ASSUME NEW m \in [Articles -> {Absent} \cup Days],
           NEW s, NEW d \in Days, NEW t \in Days, d <= t
    PROVE  Cardinality(RowsOn(m, s, t)) <= Cardinality(RowsSince(m, s, d))
<1>1. RowsOn(m, s, t) \in SUBSET RowsSince(m, s, d)
  BY DEF RowsOn, RowsSince, Days, Absent
<1>2. IsFiniteSet(RowsSince(m, s, d))
  BY ArticleSetSize DEF RowsSince
<1>. QED
  BY <1>1, <1>2, FS_Subset

-----------------------------------------------------------------------------
(* Types *)

LEMMA TypeInit == Init => TypeOK
BY PipelineAssumption DEF Init, TypeOK, Days, Steps

LEMMA TypeStep == TypeOK /\ [Next]_vars => TypeOK'
<1> SUFFICES ASSUME TypeOK, [Next]_vars PROVE TypeOK'
  OBVIOUS
<1>. USE DEF TypeOK, Steps
<1>a. 1 \in Days /\ 1 <= day /\ day \in Int
  BY PipelineAssumption DEF Days
<1>b. ASSUME ForgetRun PROVE /\ source' \in Sources \cup {NoSource}
                             /\ since' \in Days /\ since' <= day
                             /\ savedBaseline' \in Nat /\ newlySavedCount' \in Nat
                             /\ savedArticles' \subseteq Articles
                             /\ candidates' \subseteq Articles
                             /\ work' \subseteq Articles
                             /\ batchSaved' \subseteq Articles
                             /\ lost' \in 0..MaxLost
  BY <1>a, <1>b, PipelineAssumption DEF ForgetRun
<1>1. ASSUME NEW s \in Sources, ExecuteScraperByName(s) PROVE TypeOK'
  BY <1>1, <1>a DEF ExecuteScraperByName
<1>2. CASE CountSavedSince
  <2>1. Cardinality(SavedSince(source, since)) \in Nat
    BY ArticleSetSize DEF SavedSince
  <2>. QED
    BY <1>2, <2>1 DEF CountSavedSince
<1>3. CASE GetArticles
  BY <1>3 DEF GetArticles, ArticlesOf
<1>4. CASE ExcludeExistingArticles
  BY <1>4 DEF ExcludeExistingArticles
<1>5. CASE CollectionFails
  BY <1>5, <1>b DEF CollectionFails, Throw
<1>6. CASE FinishRun
  BY <1>6 DEF FinishRun, runVars
<1>7. CASE StartBatch
  BY <1>7 DEF StartBatch
<1>8. CASE FetchBatchDetailsMap
  BY <1>8 DEF FetchBatchDetailsMap, Narrow
<1>9. CASE SelectValuableArticles
  BY <1>9 DEF SelectValuableArticles, Narrow
<1>10. CASE SummarizeArticles
  BY <1>10 DEF SummarizeArticles, Narrow
<1>11. CASE GenerateEmbeddings
  BY <1>11 DEF GenerateEmbeddings, runVars
<1>12. CASE BatchFails
  BY <1>12, <1>b DEF BatchFails, Throw
<1>13. ASSUME NEW a \in Articles, SaveTrend(a) PROVE TypeOK'
  BY <1>13 DEF SaveTrend, Insert
<1>14. ASSUME NEW a \in Articles, SaveFails(a) PROVE TypeOK'
  BY <1>14 DEF SaveFails
<1>15. ASSUME NEW a \in Articles, SaveReplyLost(a) PROVE TypeOK'
  BY <1>15, PipelineAssumption DEF SaveReplyLost, Insert
<1>16. CASE FinishBatch
  <2>1. Cardinality(batchSaved) \in Nat
    BY ArticleSetSize
  <2>. QED
    BY <1>16, <2>1 DEF FinishBatch
<1>17. CASE Release
  BY <1>17, <1>b DEF Release
<1>18. CASE Crash
  BY <1>18, <1>b DEF Crash
<1>19. CASE NextDay
  BY <1>19, <1>a, PipelineAssumption DEF NextDay, runVars, Days
<1>20. CASE UNCHANGED vars
  BY <1>20 DEF vars, runVars
<1>. QED
  BY <1>1, <1>2, <1>3, <1>4, <1>5, <1>6, <1>7, <1>8, <1>9, <1>10, <1>11, <1>12,
     <1>13, <1>14, <1>15, <1>16, <1>17, <1>18, <1>19, <1>20 DEF Next, RunStep

-----------------------------------------------------------------------------
(* The bookkeeping of a run *)

LEMMA ShapeStep == TypeOK /\ RunShape /\ [Next]_vars => RunShape'
<1> SUFFICES ASSUME TypeOK, RunShape, [Next]_vars PROVE RunShape'
  OBVIOUS
<1>. USE DEF RunShape, ArticlesOf
<1>1. ASSUME NEW s \in Sources, ExecuteScraperByName(s) PROVE RunShape'
  BY <1>1 DEF ExecuteScraperByName
<1>2. CASE CountSavedSince
  BY <1>2 DEF CountSavedSince
<1>3. CASE GetArticles
  BY <1>3 DEF GetArticles
<1>4. CASE ExcludeExistingArticles
  BY <1>4 DEF ExcludeExistingArticles
<1>5. CASE CollectionFails
  BY <1>5 DEF CollectionFails, Throw, ForgetRun
<1>6. CASE FinishRun
  BY <1>6 DEF FinishRun, runVars
<1>7. CASE StartBatch
  BY <1>7 DEF StartBatch
<1>8. CASE FetchBatchDetailsMap
  BY <1>8 DEF FetchBatchDetailsMap, Narrow
<1>9. CASE SelectValuableArticles
  BY <1>9 DEF SelectValuableArticles, Narrow
<1>10. CASE SummarizeArticles
  BY <1>10 DEF SummarizeArticles, Narrow
<1>11. CASE GenerateEmbeddings
  BY <1>11 DEF GenerateEmbeddings, runVars
<1>12. CASE BatchFails
  BY <1>12 DEF BatchFails, Throw, ForgetRun
<1>13. ASSUME NEW a \in Articles, SaveTrend(a) PROVE RunShape'
  BY <1>13 DEF SaveTrend
<1>14. ASSUME NEW a \in Articles, SaveFails(a) PROVE RunShape'
  BY <1>14 DEF SaveFails
<1>15. ASSUME NEW a \in Articles, SaveReplyLost(a) PROVE RunShape'
  BY <1>15 DEF SaveReplyLost
<1>16. CASE FinishBatch
  BY <1>16 DEF FinishBatch
<1>17. CASE Release
  BY <1>17 DEF Release, ForgetRun
<1>18. CASE Crash
  BY <1>18 DEF Crash, ForgetRun
<1>19. CASE NextDay
  BY <1>19 DEF NextDay, runVars
<1>20. CASE UNCHANGED vars
  BY <1>20 DEF vars, runVars
<1>. QED
  BY <1>1, <1>2, <1>3, <1>4, <1>5, <1>6, <1>7, <1>8, <1>9, <1>10, <1>11, <1>12,
     <1>13, <1>14, <1>15, <1>16, <1>17, <1>18, <1>19, <1>20 DEF Next, RunStep

-----------------------------------------------------------------------------
(* What a run may still save *)

LEMMA QuotaOfRunStep ==
    TypeOK /\ RunShape /\ QuotaOfRun /\ [Next]_vars => QuotaOfRun'
<1> SUFFICES ASSUME TypeOK, RunShape, QuotaOfRun, [Next]_vars PROVE QuotaOfRun'
  OBVIOUS
<1>. USE DEF QuotaOfRun, TotalSoFar, RemainingQuota
<1>t. /\ savedBaseline \in Nat /\ newlySavedCount \in Nat /\ Target \in Nat
      /\ work \in SUBSET Articles /\ batchSaved \in SUBSET Articles
      /\ Cardinality(work) \in Nat /\ Cardinality(batchSaved) \in Nat
      /\ Cardinality({}) = 0
  BY PipelineAssumption, ArticleSetSize, FS_EmptySet DEF TypeOK
<1>1. ASSUME NEW s \in Sources, ExecuteScraperByName(s) PROVE QuotaOfRun'
  BY <1>1, <1>t DEF ExecuteScraperByName
<1>2. CASE CountSavedSince
  <2>1. Cardinality(SavedSince(source, since)) \in Nat
    BY ArticleSetSize DEF SavedSince
  <2>. QED
    BY <1>2, <2>1, <1>t DEF CountSavedSince, RunShape
<1>3. CASE GetArticles
  BY <1>3, <1>t DEF GetArticles
<1>4. CASE ExcludeExistingArticles
  BY <1>4, <1>t DEF ExcludeExistingArticles
<1>5. CASE CollectionFails
  BY <1>5, <1>t DEF CollectionFails, Throw, ForgetRun
<1>6. CASE FinishRun
  BY <1>6, <1>t DEF FinishRun, runVars
<1>7. CASE StartBatch
  BY <1>7, <1>t DEF StartBatch
<1>8. CASE FetchBatchDetailsMap
  BY <1>8, <1>t DEF FetchBatchDetailsMap, Narrow
<1>9. CASE SelectValuableArticles
  BY <1>9, <1>t DEF SelectValuableArticles, Narrow
<1>10. CASE SummarizeArticles
  BY <1>10, <1>t DEF SummarizeArticles, Narrow
<1>11. CASE GenerateEmbeddings
  BY <1>11, <1>t DEF GenerateEmbeddings, runVars, RunShape
<1>12. CASE BatchFails
  BY <1>12, <1>t DEF BatchFails, Throw, ForgetRun
<1>13. ASSUME NEW a \in Articles, SaveTrend(a) PROVE QuotaOfRun'
  <2>1. /\ a \in work /\ pc = "saving" /\ pc' = pc
        /\ work' = work \ {a} /\ batchSaved' = batchSaved \cup {a}
        /\ savedBaseline' = savedBaseline /\ newlySavedCount' = newlySavedCount
    BY <1>13 DEF SaveTrend
  <2>2. Cardinality(work') = Cardinality(work) - 1
    BY <2>1, <1>t, MemberCounts
  <2>3. /\ Cardinality(batchSaved') <= Cardinality(batchSaved) + 1
        /\ Cardinality(batchSaved') \in Nat
    <3>1. IsFiniteSet(batchSaved)
      BY <1>t, ArticleSetSize
    <3>2. Cardinality(batchSaved \cup {a})
            = IF a \in batchSaved THEN Cardinality(batchSaved) ELSE Cardinality(batchSaved) + 1
      BY <3>1, FS_AddElement
    <3>. QED
      BY <3>2, <2>1, <1>t
  <2>. QED
    BY <2>1, <2>2, <2>3, <1>t
<1>14. ASSUME NEW a \in Articles, SaveFails(a) PROVE QuotaOfRun'
  <2>1. /\ a \in work /\ pc = "saving" /\ pc' = pc
        /\ work' = work \ {a} /\ batchSaved' = batchSaved
        /\ savedBaseline' = savedBaseline /\ newlySavedCount' = newlySavedCount
    BY <1>14 DEF SaveFails
  <2>2. Cardinality(work') = Cardinality(work) - 1
    BY <2>1, <1>t, MemberCounts
  <2>. QED
    BY <2>1, <2>2, <1>t
<1>15. ASSUME NEW a \in Articles, SaveReplyLost(a) PROVE QuotaOfRun'
  <2>1. /\ a \in work /\ pc = "saving" /\ pc' = pc
        /\ work' = work \ {a} /\ batchSaved' = batchSaved
        /\ savedBaseline' = savedBaseline /\ newlySavedCount' = newlySavedCount
    BY <1>15 DEF SaveReplyLost
  <2>2. Cardinality(work') = Cardinality(work) - 1
    BY <2>1, <1>t, MemberCounts
  <2>. QED
    BY <2>1, <2>2, <1>t
<1>16. CASE FinishBatch
  BY <1>16, <1>t DEF FinishBatch
<1>17. CASE Release
  BY <1>17, <1>t DEF Release, ForgetRun
<1>18. CASE Crash
  BY <1>18, <1>t DEF Crash, ForgetRun
<1>19. CASE NextDay
  BY <1>19, <1>t DEF NextDay, runVars
<1>20. CASE UNCHANGED vars
  BY <1>20, <1>t DEF vars, runVars
<1>. QED
  BY <1>1, <1>2, <1>3, <1>4, <1>5, <1>6, <1>7, <1>8, <1>9, <1>10, <1>11, <1>12,
     <1>13, <1>14, <1>15, <1>16, <1>17, <1>18, <1>19, <1>20 DEF Next, RunStep

-----------------------------------------------------------------------------
(* The run's count against the table *)

LEMMA CountStep ==
    TypeOK /\ RunShape /\ ReportedRows /\ CountMatchesTable /\ [Next]_vars
        => CountMatchesTable'
<1> SUFFICES ASSUME TypeOK, RunShape, ReportedRows, CountMatchesTable,
                    [Next]_vars
             PROVE  CountMatchesTable'
  OBVIOUS
<1>. USE DEF CountMatchesTable, Counted
<1>t. /\ savedBaseline \in Nat /\ newlySavedCount \in Nat /\ lost \in Nat
      /\ batchSaved \in SUBSET Articles
      /\ IsFiniteSet(batchSaved) /\ Cardinality(batchSaved) \in Nat
      /\ Cardinality({}) = 0
  BY PipelineAssumption, ArticleSetSize, FS_EmptySet DEF TypeOK
<1>f. ASSUME UNCHANGED <<mined, source, since>>
      PROVE  SavedSince(source, since)' = SavedSince(source, since)
  BY <1>f DEF SavedSince
<1>s. SavedSince(source, since) = RowsSince(mined, source, since)
  BY DEF SavedSince, RowsSince
<1>i. ASSUME NEW a \in Articles, pc = "saving", a \in work, Insert(a),
             UNCHANGED <<source, since>>
      PROVE  Cardinality(SavedSince(source, since)')
               = Cardinality(SavedSince(source, since)) + 1
  <2>1. a[1] = source
    BY <1>i DEF RunShape, ArticlesOf
  <2>2. /\ mined[a] = Absent /\ mined'[a] = day
        /\ \A b \in Articles \ {a} : mined'[b] = mined[b]
        /\ day \in Days /\ since \in Days /\ since <= day
    BY <1>i DEF TypeOK, Insert
  <2>3. Cardinality(RowsSince(mined', source, since))
          = Cardinality(RowsSince(mined, source, since)) + 1
    BY <2>1, <2>2, InsertGrowsRowsSince
  <2>4. SavedSince(source, since)' = RowsSince(mined', source, since)
    BY <1>i DEF SavedSince, RowsSince
  <2>. QED
    BY <2>1, <2>2, <2>3, <2>4, <1>s
<1>1. ASSUME NEW s \in Sources, ExecuteScraperByName(s) PROVE CountMatchesTable'
  BY <1>1 DEF ExecuteScraperByName
<1>2. CASE CountSavedSince
  <2>1. UNCHANGED <<mined, source, since, newlySavedCount, batchSaved, lost>>
    BY <1>2 DEF CountSavedSince
  <2>2. newlySavedCount = 0 /\ batchSaved = {} /\ lost = 0
    BY <1>2 DEF CountSavedSince, RunShape
  <2>3. Cardinality(SavedSince(source, since)) \in Nat
    BY ArticleSetSize DEF SavedSince
  <2>. QED
    BY <1>2, <2>1, <2>2, <2>3, <1>f, <1>t DEF CountSavedSince
<1>3. CASE GetArticles
  <2>1. UNCHANGED <<mined, source, since, savedBaseline, newlySavedCount, batchSaved, lost>>
    BY <1>3 DEF GetArticles
  <2>. QED
    BY <1>3, <2>1, <1>f DEF GetArticles
<1>4. CASE ExcludeExistingArticles
  <2>1. UNCHANGED <<mined, source, since, savedBaseline, newlySavedCount, batchSaved, lost>>
    BY <1>4 DEF ExcludeExistingArticles
  <2>. QED
    BY <1>4, <2>1, <1>f DEF ExcludeExistingArticles
<1>5. CASE CollectionFails
  BY <1>5 DEF CollectionFails, Throw, ForgetRun
<1>6. CASE FinishRun
  <2>1. UNCHANGED <<mined, source, since, savedBaseline, newlySavedCount, batchSaved, lost>>
    BY <1>6 DEF FinishRun, runVars
  <2>. QED
    BY <1>6, <2>1, <1>f DEF FinishRun, runVars
<1>7. CASE StartBatch
  <2>1. UNCHANGED <<mined, source, since, savedBaseline, newlySavedCount, batchSaved, lost>>
    BY <1>7 DEF StartBatch
  <2>. QED
    BY <1>7, <2>1, <1>f DEF StartBatch
<1>8. CASE FetchBatchDetailsMap
  <2>1. UNCHANGED <<mined, source, since, savedBaseline, newlySavedCount, batchSaved, lost>>
    BY <1>8 DEF FetchBatchDetailsMap, Narrow
  <2>. QED
    BY <1>8, <2>1, <1>f DEF FetchBatchDetailsMap, Narrow
<1>9. CASE SelectValuableArticles
  <2>1. UNCHANGED <<mined, source, since, savedBaseline, newlySavedCount, batchSaved, lost>>
    BY <1>9 DEF SelectValuableArticles, Narrow
  <2>. QED
    BY <1>9, <2>1, <1>f DEF SelectValuableArticles, Narrow
<1>10. CASE SummarizeArticles
  <2>1. UNCHANGED <<mined, source, since, savedBaseline, newlySavedCount, batchSaved, lost>>
    BY <1>10 DEF SummarizeArticles, Narrow
  <2>. QED
    BY <1>10, <2>1, <1>f DEF SummarizeArticles, Narrow
<1>11. CASE GenerateEmbeddings
  <2>1. UNCHANGED <<mined, source, since, savedBaseline, newlySavedCount, batchSaved, lost>>
    BY <1>11 DEF GenerateEmbeddings, runVars
  <2>. QED
    BY <1>11, <2>1, <1>f DEF GenerateEmbeddings, runVars
<1>12. CASE BatchFails
  BY <1>12 DEF BatchFails, Throw, ForgetRun
<1>13. ASSUME NEW a \in Articles, SaveTrend(a) PROVE CountMatchesTable'
  <2>1. Cardinality(SavedSince(source, since)') = Cardinality(SavedSince(source, since)) + 1
    BY <1>13, <1>i DEF SaveTrend
  <2>2. a \notin batchSaved
    BY <1>13 DEF SaveTrend, Insert, ReportedRows, SavedSince, TypeOK, Days, Absent
  <2>3. Cardinality(batchSaved \cup {a}) = Cardinality(batchSaved) + 1
    BY <2>2, <1>t, FS_AddElement
  <2>. QED
    BY <1>13, <2>1, <2>3, <1>t DEF SaveTrend
<1>14. ASSUME NEW a \in Articles, SaveFails(a) PROVE CountMatchesTable'
  <2>1. UNCHANGED <<mined, source, since, savedBaseline, newlySavedCount, batchSaved, lost>>
    BY <1>14 DEF SaveFails
  <2>. QED
    BY <1>14, <2>1, <1>f DEF SaveFails
<1>15. ASSUME NEW a \in Articles, SaveReplyLost(a) PROVE CountMatchesTable'
  <2>1. Cardinality(SavedSince(source, since)') = Cardinality(SavedSince(source, since)) + 1
    BY <1>15, <1>i DEF SaveReplyLost
  <2>. QED
    BY <1>15, <2>1, <1>t DEF SaveReplyLost
<1>16. CASE FinishBatch
  <2>1. UNCHANGED <<mined, source, since, savedBaseline, lost>>
    BY <1>16 DEF FinishBatch
  <2>. QED
    BY <1>16, <2>1, <1>f, <1>t DEF FinishBatch
<1>17. CASE Release
  BY <1>17 DEF Release, ForgetRun
<1>18. CASE Crash
  BY <1>18 DEF Crash, ForgetRun
<1>19. CASE NextDay
  <2>1. UNCHANGED <<mined, source, since, savedBaseline, newlySavedCount, batchSaved, lost>>
    BY <1>19 DEF NextDay, runVars
  <2>. QED
    BY <1>19, <2>1, <1>f DEF NextDay, runVars
<1>20. CASE UNCHANGED vars
  <2>1. UNCHANGED <<mined, source, since, savedBaseline, newlySavedCount, batchSaved, lost>>
    BY <1>20 DEF vars, runVars
  <2>. QED
    BY <1>20, <2>1, <1>f DEF vars, runVars
<1>. QED
  BY <1>1, <1>2, <1>3, <1>4, <1>5, <1>6, <1>7, <1>8, <1>9, <1>10, <1>11, <1>12,
     <1>13, <1>14, <1>15, <1>16, <1>17, <1>18, <1>19, <1>20 DEF Next, RunStep

-----------------------------------------------------------------------------
(* The work of a run is new, and no batch is skipped *)

LEMMA WorkIsNewStep ==
    TypeOK /\ RunShape /\ WorkIsNew /\ [Next]_vars => WorkIsNew'
<1> SUFFICES ASSUME TypeOK, RunShape, WorkIsNew, [Next]_vars PROVE WorkIsNew'
  OBVIOUS
<1>. USE DEF WorkIsNew
<1>1. ASSUME NEW s \in Sources, ExecuteScraperByName(s) PROVE WorkIsNew'
  BY <1>1 DEF ExecuteScraperByName
<1>2. CASE CountSavedSince
  BY <1>2 DEF CountSavedSince
<1>3. CASE GetArticles
  BY <1>3 DEF GetArticles
<1>4. CASE ExcludeExistingArticles
  BY <1>4 DEF ExcludeExistingArticles, RunShape
<1>5. CASE CollectionFails
  BY <1>5 DEF CollectionFails, Throw, ForgetRun
<1>6. CASE FinishRun
  BY <1>6 DEF FinishRun, runVars
<1>7. CASE StartBatch
  BY <1>7 DEF StartBatch
<1>8. CASE FetchBatchDetailsMap
  BY <1>8 DEF FetchBatchDetailsMap, Narrow
<1>9. CASE SelectValuableArticles
  BY <1>9 DEF SelectValuableArticles, Narrow
<1>10. CASE SummarizeArticles
  BY <1>10 DEF SummarizeArticles, Narrow
<1>11. CASE GenerateEmbeddings
  BY <1>11 DEF GenerateEmbeddings, runVars
<1>12. CASE BatchFails
  BY <1>12 DEF BatchFails, Throw, ForgetRun
<1>13. ASSUME NEW a \in Articles, SaveTrend(a) PROVE WorkIsNew'
  BY <1>13 DEF SaveTrend, Insert, TypeOK, RunShape
<1>14. ASSUME NEW a \in Articles, SaveFails(a) PROVE WorkIsNew'
  BY <1>14 DEF SaveFails
<1>15. ASSUME NEW a \in Articles, SaveReplyLost(a) PROVE WorkIsNew'
  BY <1>15 DEF SaveReplyLost, Insert, TypeOK, RunShape
<1>16. CASE FinishBatch
  BY <1>16 DEF FinishBatch
<1>17. CASE Release
  BY <1>17 DEF Release, ForgetRun
<1>18. CASE Crash
  BY <1>18 DEF Crash, ForgetRun
<1>19. CASE NextDay
  BY <1>19 DEF NextDay, runVars
<1>20. CASE UNCHANGED vars
  BY <1>20 DEF vars, runVars
<1>. QED
  BY <1>1, <1>2, <1>3, <1>4, <1>5, <1>6, <1>7, <1>8, <1>9, <1>10, <1>11, <1>12,
     <1>13, <1>14, <1>15, <1>16, <1>17, <1>18, <1>19, <1>20 DEF Next, RunStep

LEMMA NoBatchSkippedStep ==
    TypeOK /\ RunShape /\ NoBatchSkipped /\ [Next]_vars => NoBatchSkipped'
<1> SUFFICES ASSUME TypeOK, RunShape, NoBatchSkipped, [Next]_vars
             PROVE  NoBatchSkipped'
  OBVIOUS
<1>. USE DEF NoBatchSkipped, TotalSoFar
<1>1. ASSUME NEW s \in Sources, ExecuteScraperByName(s) PROVE NoBatchSkipped'
  BY <1>1 DEF ExecuteScraperByName
<1>2. CASE CountSavedSince
  <2>1. newlySavedCount = 0 /\ Target \in Nat
    BY <1>2, PipelineAssumption DEF CountSavedSince, RunShape
  <2>2. Cardinality(SavedSince(source, since)) \in Nat
    BY ArticleSetSize DEF SavedSince
  <2>. QED
    BY <1>2, <2>1, <2>2 DEF CountSavedSince
<1>3. CASE GetArticles
  BY <1>3 DEF GetArticles, RunShape
<1>4. CASE ExcludeExistingArticles
  BY <1>4 DEF ExcludeExistingArticles, RunShape
<1>5. CASE CollectionFails
  BY <1>5 DEF CollectionFails, Throw, ForgetRun
<1>6. CASE FinishRun
  <2>1. work = {} /\ savedBaseline + newlySavedCount \in Nat /\ Target \in Nat
    BY <1>6, PipelineAssumption DEF FinishRun, RunShape, TypeOK
  <2>. QED
    BY <1>6, <2>1 DEF FinishRun, runVars
<1>7. CASE StartBatch
  BY <1>7 DEF StartBatch
<1>8. CASE FetchBatchDetailsMap
  BY <1>8 DEF FetchBatchDetailsMap, Narrow
<1>9. CASE SelectValuableArticles
  BY <1>9 DEF SelectValuableArticles, Narrow
<1>10. CASE SummarizeArticles
  BY <1>10 DEF SummarizeArticles, Narrow
<1>11. CASE GenerateEmbeddings
  BY <1>11 DEF GenerateEmbeddings, runVars
<1>12. CASE BatchFails
  BY <1>12 DEF BatchFails, Throw, ForgetRun
<1>13. ASSUME NEW a \in Articles, SaveTrend(a) PROVE NoBatchSkipped'
  BY <1>13 DEF SaveTrend, Insert
<1>14. ASSUME NEW a \in Articles, SaveFails(a) PROVE NoBatchSkipped'
  BY <1>14 DEF SaveFails
<1>15. ASSUME NEW a \in Articles, SaveReplyLost(a) PROVE NoBatchSkipped'
  BY <1>15 DEF SaveReplyLost, Insert
<1>16. CASE FinishBatch
  BY <1>16 DEF FinishBatch
<1>17. CASE Release
  BY <1>17 DEF Release, ForgetRun
<1>18. CASE Crash
  BY <1>18 DEF Crash, ForgetRun
<1>19. CASE NextDay
  BY <1>19 DEF NextDay, runVars
<1>20. CASE UNCHANGED vars
  BY <1>20 DEF vars, runVars
<1>. QED
  BY <1>1, <1>2, <1>3, <1>4, <1>5, <1>6, <1>7, <1>8, <1>9, <1>10, <1>11, <1>12,
     <1>13, <1>14, <1>15, <1>16, <1>17, <1>18, <1>19, <1>20 DEF Next, RunStep

-----------------------------------------------------------------------------
(* The rows a run reports *)

LEMMA ReportedRowsStep ==
    TypeOK /\ RunShape /\ ReportedRows /\ [Next]_vars => ReportedRows'
<1> SUFFICES ASSUME TypeOK, RunShape, ReportedRows, [Next]_vars
             PROVE  ReportedRows'
  OBVIOUS
<1>. USE DEF ReportedRows
<1>f. ASSUME ForgetRun PROVE ReportedRows'
  BY <1>f, FS_EmptySet DEF ForgetRun
<1>g. ASSUME UNCHANGED <<mined, source, since, savedArticles, batchSaved, newlySavedCount>>
      PROVE  ReportedRows'
  BY <1>g DEF SavedSince
<1>i. ASSUME NEW a \in Articles, pc = "saving", a \in work, Insert(a),
             UNCHANGED <<source, since>>
      PROVE  /\ SavedSince(source, since)' = SavedSince(source, since) \cup {a}
             /\ a \notin SavedSince(source, since)
  BY <1>i DEF TypeOK, Insert, SavedSince, RunShape, ArticlesOf, Days, Absent
<1>1. ASSUME NEW s \in Sources, ExecuteScraperByName(s) PROVE ReportedRows'
  BY <1>1, FS_EmptySet DEF ExecuteScraperByName, RunShape
<1>2. CASE CountSavedSince
  BY <1>2, <1>g DEF CountSavedSince
<1>3. CASE GetArticles
  BY <1>3, <1>g DEF GetArticles
<1>4. CASE ExcludeExistingArticles
  BY <1>4, <1>g DEF ExcludeExistingArticles
<1>5. CASE CollectionFails
  BY <1>5, <1>f DEF CollectionFails, Throw
<1>6. CASE FinishRun
  BY <1>6, <1>g DEF FinishRun, runVars
<1>7. CASE StartBatch
  BY <1>7, <1>g DEF StartBatch
<1>8. CASE FetchBatchDetailsMap
  BY <1>8, <1>g DEF FetchBatchDetailsMap, Narrow
<1>9. CASE SelectValuableArticles
  BY <1>9, <1>g DEF SelectValuableArticles, Narrow
<1>10. CASE SummarizeArticles
  BY <1>10, <1>g DEF SummarizeArticles, Narrow
<1>11. CASE GenerateEmbeddings
  BY <1>11, <1>g DEF GenerateEmbeddings, runVars
<1>12. CASE BatchFails
  BY <1>12, <1>f DEF BatchFails, Throw
<1>13. ASSUME NEW a \in Articles, SaveTrend(a) PROVE ReportedRows'
  BY <1>13, <1>i DEF SaveTrend
<1>14. ASSUME NEW a \in Articles, SaveFails(a) PROVE ReportedRows'
  BY <1>14, <1>g DEF SaveFails
<1>15. ASSUME NEW a \in Articles, SaveReplyLost(a) PROVE ReportedRows'
  BY <1>15, <1>i DEF SaveReplyLost
<1>16. CASE FinishBatch
  <2>1. /\ IsFiniteSet(savedArticles) /\ IsFiniteSet(batchSaved)
        /\ Cardinality(savedArticles) \in Nat /\ Cardinality(batchSaved) \in Nat
    BY ArticleSetSize DEF TypeOK
  <2>2. Cardinality(savedArticles \cup batchSaved)
          = Cardinality(savedArticles) + Cardinality(batchSaved)
              - Cardinality(savedArticles \cap batchSaved)
    BY <2>1, FS_Union
  <2>3. Cardinality(savedArticles \cap batchSaved) = 0
    BY FS_EmptySet
  <2>4. SavedSince(source, since)' = SavedSince(source, since)
    BY <1>16 DEF FinishBatch, SavedSince
  <2>. QED
    BY <1>16, <2>1, <2>2, <2>3, <2>4 DEF FinishBatch, TypeOK
<1>17. CASE Release
  BY <1>17, <1>f DEF Release
<1>18. CASE Crash
  BY <1>18, <1>f DEF Crash
<1>19. CASE NextDay
  BY <1>19, <1>g DEF NextDay, runVars
<1>20. CASE UNCHANGED vars
  BY <1>20, <1>g DEF vars, runVars
<1>. QED
  BY <1>1, <1>2, <1>3, <1>4, <1>5, <1>6, <1>7, <1>8, <1>9, <1>10, <1>11, <1>12,
     <1>13, <1>14, <1>15, <1>16, <1>17, <1>18, <1>19, <1>20 DEF Next, RunStep

-----------------------------------------------------------------------------
(* The daily quota *)

\* The run and the table at the moment of an insert: there was room for it.
LEMMA RoomForInsert ==
    ASSUME IInv, pc = "saving", NEW a \in work
    PROVE  /\ a[1] = source
           /\ Cardinality(SavedSince(source, since)) < Target + MaxLost
           /\ Cardinality(SavedOn(source, day)) <= Cardinality(SavedSince(source, since))
<1>1. /\ savedBaseline \in Nat /\ newlySavedCount \in Nat /\ Target \in Nat
      /\ lost \in Nat /\ MaxLost \in Nat /\ lost <= MaxLost
      /\ Cardinality(work) \in Nat /\ Cardinality(batchSaved) \in Nat
  BY PipelineAssumption, ArticleSetSize DEF IInv, TypeOK
<1>2. Cardinality(work) >= 1
  BY MemberCounts DEF IInv, TypeOK
<1>3. Cardinality(SavedSince(source, since))
        = savedBaseline + newlySavedCount + Cardinality(batchSaved) + lost
  BY DEF IInv, CountMatchesTable, Counted
<1>4. Cardinality(work) + Cardinality(batchSaved)
        <= Target - (savedBaseline + newlySavedCount)
  BY DEF IInv, QuotaOfRun, RemainingQuota, TotalSoFar
<1>5. Cardinality(SavedOn(source, day)) <= Cardinality(SavedSince(source, since))
  <2>1. /\ mined \in [Articles -> {Absent} \cup Days]
        /\ day \in Days /\ since \in Days /\ since <= day
    BY DEF IInv, TypeOK
  <2>2. Cardinality(RowsOn(mined, source, day)) <= Cardinality(RowsSince(mined, source, since))
    BY <2>1, RowsOnAreRowsSince
  <2>. QED
    BY <2>2 DEF RowsOn, RowsSince, SavedOn, SavedSince
<1>6. a[1] = source
  BY DEF IInv, RunShape, ArticlesOf
<1>. QED
  BY <1>1, <1>2, <1>3, <1>4, <1>5, <1>6

\* An insert made by a run keeps the quota of every source and day.
LEMMA InsertKeepsQuota ==
    ASSUME IInv, pc = "saving", NEW a \in work, Insert(a)
    PROVE  DailyQuota'
<1> SUFFICES ASSUME NEW s \in Sources, NEW d \in Days
             PROVE  Cardinality(SavedOn(s, d)') <= Target + MaxLost
  BY DEF DailyQuota
<1>1. /\ a \in Articles /\ mined[a] = Absent /\ mined'[a] = day
      /\ \A b \in Articles \ {a} : mined'[b] = mined[b]
      /\ day \in Days
  BY DEF IInv, TypeOK, Insert
<1>2. CASE s = a[1] /\ d = day
  <2>1. SavedOn(s, d)' = SavedOn(source, day) \cup {a}
    BY <1>1, <1>2, RoomForInsert DEF SavedOn, Days, Absent
  <2>2. IsFiniteSet(SavedOn(source, day)) /\ Cardinality(SavedOn(source, day)) \in Nat
    BY ArticleSetSize DEF SavedOn
  <2>3. Cardinality(SavedOn(source, day) \cup {a}) <= Cardinality(SavedOn(source, day)) + 1
    <3>1. Cardinality(SavedOn(source, day) \cup {a})
            = IF a \in SavedOn(source, day) THEN Cardinality(SavedOn(source, day))
              ELSE Cardinality(SavedOn(source, day)) + 1
      BY <2>2, FS_AddElement
    <3>. QED BY <3>1, <2>2
  <2>4. Cardinality(SavedSince(source, since)) \in Nat
    BY ArticleSetSize DEF SavedSince
  <2>5. IsFiniteSet(SavedOn(source, day) \cup {a})
        /\ Cardinality(SavedOn(source, day) \cup {a}) \in Nat
    BY <1>1, ArticleSetSize DEF SavedOn
  <2>. QED
    BY <2>1, <2>2, <2>3, <2>4, <2>5, RoomForInsert, PipelineAssumption
<1>3. CASE s # a[1] \/ d # day
  <2>1. RowsOn(mined', s, d) = RowsOn(mined, s, d)
    BY <1>1, <1>3, InsertKeepsOtherRows
  <2>2. SavedOn(s, d)' = SavedOn(s, d)
    BY <2>1 DEF SavedOn, RowsOn
  <2>. QED
    BY <2>2 DEF IInv, DailyQuota
<1>. QED
  BY <1>2, <1>3

LEMMA DailyQuotaStep == IInv /\ [Next]_vars => DailyQuota'
<1> SUFFICES ASSUME IInv, [Next]_vars PROVE DailyQuota'
  OBVIOUS
<1>1. CASE UNCHANGED mined
  BY <1>1 DEF IInv, DailyQuota, SavedOn
<1>2. ASSUME NEW a \in Articles, SaveTrend(a) \/ SaveReplyLost(a) PROVE DailyQuota'
  BY <1>2, InsertKeepsQuota DEF SaveTrend, SaveReplyLost
<1>3. UNCHANGED mined \/ \E a \in Articles : SaveTrend(a) \/ SaveReplyLost(a)
  BY DEF Next, RunStep, vars, runVars, ExecuteScraperByName, CountSavedSince,
         GetArticles, ExcludeExistingArticles, CollectionFails, Throw, FinishRun,
         StartBatch, FetchBatchDetailsMap, SelectValuableArticles,
         SummarizeArticles, Narrow, GenerateEmbeddings, BatchFails, SaveFails,
         FinishBatch, Release, Crash, NextDay
<1>. QED
  BY <1>1, <1>2, <1>3

-----------------------------------------------------------------------------
(* Theorems *)

LEMMA InvInit == Init => IInv
<1> SUFFICES ASSUME Init PROVE IInv
  OBVIOUS
<1>1. TypeOK
  BY TypeInit
<1>2. DailyQuota
  <2>1. \A s \in Sources, d \in Days : SavedOn(s, d) = {}
    BY DEF Init, SavedOn, Days, Absent
  <2>. QED
    BY <2>1, FS_EmptySet, PipelineAssumption DEF DailyQuota
<1>3. RunShape /\ QuotaOfRun /\ CountMatchesTable /\ WorkIsNew /\ NoBatchSkipped
  BY DEF Init, RunShape, ArticlesOf, QuotaOfRun, CountMatchesTable, Counted, WorkIsNew,
         NoBatchSkipped
<1>4. ReportedRows
  BY FS_EmptySet DEF Init, ReportedRows
<1>. QED
  BY <1>1, <1>2, <1>3, <1>4 DEF IInv

LEMMA InvStep == IInv /\ [Next]_vars => IInv'
BY TypeStep, ShapeStep, QuotaOfRunStep, CountStep, WorkIsNewStep, ReportedRowsStep,
   NoBatchSkippedStep, DailyQuotaStep DEF IInv

\* Every variable of the pipeline keeps its type.
THEOREM TypeCorrect == Spec => []TypeOK
BY TypeInit, TypeStep, PTL DEF Spec

\* The inductive invariant of a run holds in every reachable state.
THEOREM Invariance == Spec => []IInv
BY InvInit, InvStep, PTL DEF Spec

\* The daily quota of every source (trends-pipeline.service.ts:99-179) holds for
\* every target, batch size, set of articles and number of days, with crashes,
\* retries and runs over midnight; lost insert replies are the only overshoot.
THEOREM QuotaHolds == Spec => []DailyQuota
<1>1. IInv => DailyQuota
  BY DEF IInv
<1>. QED
  BY <1>1, Invariance, PTL

\* The run's own count is the table's count (processSource's baseline and sum).
THEOREM CountHolds == Spec => []CountMatchesTable
<1>1. IInv => CountMatchesTable
  BY DEF IInv
<1>. QED
  BY <1>1, Invariance, PTL

\* No run works on an article that is already stored (excludeExistingArticles).
THEOREM WorkIsNewHolds == Spec => []WorkIsNew
<1>1. IInv => WorkIsNew
  BY DEF IInv
<1>. QED
  BY <1>1, Invariance, PTL

\* A run under its target has tried every candidate (the loop over batches).
THEOREM NoBatchSkippedHolds == Spec => []NoBatchSkipped
<1>1. IInv => NoBatchSkipped
  BY DEF IInv
<1>. QED
  BY <1>1, Invariance, PTL

\* What a job returns is stored and counted (saveTrends, processSource's result).
THEOREM ResultHolds == Spec => []ResultIsStored
<1>1. IInv => ResultIsStored
  BY DEF IInv, ResultIsStored, ReportedRows
<1>. QED
  BY <1>1, Invariance, PTL

\* The pipeline implements the article catalogue: every step of a run maps to
\* one publication under the quota, to the turn of a day or to a stutter.
THEOREM RefinesCatalog == Spec => ImplementsCatalog
<1>c. \A S : Catalog!Cardinality(S) = Cardinality(S)
  BY DEF Cardinality, Catalog!Cardinality, IsFiniteSet, Catalog!IsFiniteSet
<1>1. Init => Catalog!Init
  BY DEF Init, Catalog!Init, Articles, Catalog!Articles, Absent, Catalog!Absent
<1>2. ASSUME IInv, [Next]_vars PROVE [Catalog!Next]_(Catalog!vars)
  <2>1. ASSUME NEW a \in Articles, SaveTrend(a) \/ SaveReplyLost(a)
        PROVE  Catalog!Publish(a)
    <3>1. pc = "saving" /\ a \in work /\ Insert(a) /\ UNCHANGED day
      BY <2>1 DEF SaveTrend, SaveReplyLost
    <3>2. Catalog!PublishedOn(a[1], day) = SavedOn(source, day)
      BY <3>1, <1>2, RoomForInsert
      DEF Catalog!PublishedOn, SavedOn, Articles, Catalog!Articles
    <3>3. /\ Cardinality(SavedOn(source, day)) \in Nat
          /\ Cardinality(SavedSince(source, since)) \in Nat
      BY ArticleSetSize DEF SavedOn, SavedSince
    <3>4. Cardinality(SavedOn(source, day)) < Target + MaxLost
      BY <3>1, <3>3, <1>2, RoomForInsert, PipelineAssumption
    <3>. QED
      BY <3>1, <3>2, <3>4, <1>c DEF Insert, Catalog!Publish, Absent, Catalog!Absent
  <2>2. CASE NextDay
    BY <2>2 DEF NextDay, Catalog!Next, Catalog!Tomorrow
  <2>3. CASE UNCHANGED <<day, mined>>
    BY <2>3 DEF Catalog!vars
  <2>4. \/ UNCHANGED <<day, mined>>
        \/ NextDay
        \/ \E a \in Articles : SaveTrend(a) \/ SaveReplyLost(a)
    BY <1>2 DEF Next, RunStep, vars, runVars, ExecuteScraperByName, CountSavedSince,
         GetArticles, ExcludeExistingArticles, CollectionFails, Throw, FinishRun,
         StartBatch, FetchBatchDetailsMap, SelectValuableArticles,
         SummarizeArticles, Narrow, GenerateEmbeddings, BatchFails, SaveFails,
         FinishBatch, Release, Crash
  <2>. QED
    BY <2>1, <2>2, <2>3, <2>4 DEF Catalog!Next, Articles, Catalog!Articles
<1>. QED
  BY <1>1, <1>2, Invariance, PTL DEF Spec, ImplementsCatalog, Catalog!Spec
=============================================================================
