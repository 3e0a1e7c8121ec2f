--------------------------- MODULE TrendsPipeline ---------------------------
(***************************************************************************)
(* One collection run of the trends pipeline: TrendsPipelineService        *)
(* .processSource and everything it calls, against the tech_trends table   *)
(* and the calendar day of Asia/Seoul.                                     *)
(*                                                                         *)
(* An article is identified by <<source, source_id>>, the unique key of    *)
(* the table.  A row is its mined_at day.  The order in which a scraper    *)
(* returns articles is left open, so a batch is any subset of the          *)
(* candidates of the size chunkArray gives it.                             *)
(*                                                                         *)
(* The worker has concurrency 1 (trends.worker.ts:7), so the process holds *)
(* one run at a time; a crash forgets the run and keeps the rows.          *)
(***************************************************************************)
EXTENDS Integers, FiniteSets

CONSTANTS
    Sources,    \* source names of ScraperFactory
    Ids,        \* source_id values
    Target,     \* SCRAPER_TARGET_SAVE_COUNT
    BatchSize,  \* SCRAPER_BATCH_SIZE
    MaxDay,     \* bound: days 1..MaxDay
    MaxLost     \* bound: inserts per run that commit but whose reply is lost

Articles == Sources \X Ids
Days     == 1..MaxDay
Absent   == 0                       \* mined_at of an article without a row
NoSource == "none"

ASSUME PipelineAssumption ==
    /\ IsFiniteSet(Sources)
    /\ IsFiniteSet(Ids)
    /\ NoSource \notin Sources
    /\ Target \in Nat
    /\ BatchSize \in Nat \ {0}
    /\ MaxDay \in Nat \ {0}
    /\ MaxLost \in Nat

VARIABLES
    day,             \* today in Asia/Seoul
    mined,           \* tech_trends: article -> day of mined_at, or Absent
    pc,              \* the step of the run in progress
    source,          \* scraper.sourceName
    since,           \* the day of getTodayStartUtc() when the run counted
    savedBaseline,
    newlySavedCount,
    savedArticles,   \* reported in the job result
    candidates,      \* fetched articles in no batch yet
    work,            \* articles of the current batch that are still in play
    batchSaved,      \* saved and acknowledged in the current batch
    lost             \* history: inserts of this run whose reply was lost

runVars == <<source, since, savedBaseline, newlySavedCount, savedArticles,
             candidates, work, batchSaved, lost>>
vars    == <<day, mined, pc, runVars>>

-----------------------------------------------------------------------------

Steps == {"idle", "counting", "collecting", "excluding", "batching",
          "detailing", "selecting", "summarizing", "embedding", "saving",
          "done", "failed"}

ArticlesOf(s)    == {a \in Articles : a[1] = s}
SavedSince(s, d) == {a \in Articles : a[1] = s /\ mined[a] >= d}
SavedOn(s, d)    == {a \in Articles : a[1] = s /\ mined[a] = d}

TotalSoFar     == savedBaseline + newlySavedCount
RemainingQuota == Target - TotalSoFar

\* A run that has counted and is at work on articles, or has just ended well.
Counted == pc \notin {"idle", "counting", "failed"}

IsBatch(b) ==
    /\ b \subseteq candidates
    /\ IF Cardinality(candidates) <= BatchSize
       THEN b = candidates
       ELSE Cardinality(b) = BatchSize

Init ==
    /\ day = 1
    /\ mined = [a \in Articles |-> Absent]
    /\ pc = "idle"
    /\ source = NoSource
    /\ since = 1
    /\ savedBaseline = 0
    /\ newlySavedCount = 0
    /\ savedArticles = {}
    /\ candidates = {}
    /\ work = {}
    /\ batchSaved = {}
    /\ lost = 0

\* The locals of a run go out of scope.
ForgetRun ==
    /\ source' = NoSource
    /\ since' = 1
    /\ savedBaseline' = 0
    /\ newlySavedCount' = 0
    /\ savedArticles' = {}
    /\ candidates' = {}
    /\ work' = {}
    /\ batchSaved' = {}
    /\ lost' = 0

\* An exception leaves processSource: nothing the run held survives it.
Throw ==
    /\ pc' = "failed"
    /\ ForgetRun
    /\ UNCHANGED <<day, mined>>

-----------------------------------------------------------------------------
(* processSource up to the loop over batches *)

\* Mutant: the start of the day is a day late.
ExecuteScraperByNameTomorrow(s) ==
    /\ pc = "idle"
    /\ pc' = "counting"
    /\ source' = s
    /\ since' = day + 1
    /\ UNCHANGED <<day, mined, savedBaseline, newlySavedCount, savedArticles,
                   candidates, work, batchSaved, lost>>

\* The worker calls executeScraperByName; getTodayStartUtc() is evaluated
\* before the count is awaited, so midnight may fall between the two.
ExecuteScraperByName(s) ==
    /\ pc = "idle"
    /\ pc' = "counting"
    /\ source' = s
    /\ since' = day
    /\ UNCHANGED <<day, mined, savedBaseline, newlySavedCount, savedArticles,
                   candidates, work, batchSaved, lost>>

\* Mutant: the day is taken again when the count is made, and only it counts.
CountSavedOnDay ==
    /\ pc = "counting"
    /\ savedBaseline' = Cardinality(SavedOn(source, day))
    /\ pc' = IF savedBaseline' >= Target THEN "done" ELSE "collecting"
    /\ UNCHANGED <<day, mined, source, since, newlySavedCount, savedArticles,
                   candidates, work, batchSaved, lost>>

CountSavedSince ==
    /\ pc = "counting"
    /\ savedBaseline' = Cardinality(SavedSince(source, since))
    /\ pc' = IF savedBaseline' >= Target THEN "done" ELSE "collecting"
    /\ UNCHANGED <<day, mined, source, since, newlySavedCount, savedArticles,
                   candidates, work, batchSaved, lost>>

GetArticles ==
    /\ pc = "collecting"
    /\ candidates' \in SUBSET ArticlesOf(source)
    /\ pc' = IF candidates' = {} THEN "done" ELSE "excluding"
    /\ UNCHANGED <<day, mined, source, since, savedBaseline, newlySavedCount,
                   savedArticles, work, batchSaved, lost>>

\* Mutant: articles that have a row stay in play.
ExcludeNothing ==
    /\ pc = "excluding"
    /\ pc' = "batching"
    /\ UNCHANGED <<day, mined, runVars>>

ExcludeExistingArticles ==
    /\ pc = "excluding"
    /\ candidates' = {a \in candidates : mined[a] = Absent}
    /\ pc' = IF candidates' = {} THEN "done" ELSE "batching"
    /\ UNCHANGED <<day, mined, source, since, savedBaseline, newlySavedCount,
                   savedArticles, work, batchSaved, lost>>

\* The count, the list of articles or the lookup of existing ids rejects.
CollectionFails ==
    /\ pc \in {"counting", "collecting", "excluding"}
    /\ Throw

-----------------------------------------------------------------------------
(* The loop over batches, and processBatch *)

\* Leave the loop: the quota is filled or no batch is left.
FinishRun ==
    /\ pc = "batching"
    /\ TotalSoFar >= Target \/ candidates = {}
    /\ pc' = "done"
    /\ UNCHANGED <<day, mined, runVars>>

\* Mutant: the batch is not taken out of what is left.
StartBatchAgain ==
    /\ pc = "batching"
    /\ TotalSoFar < Target
    /\ candidates # {}
    /\ \E b \in SUBSET candidates : IsBatch(b) /\ work' = b
    /\ pc' = "detailing"
    /\ UNCHANGED <<day, mined, source, since, savedBaseline, newlySavedCount,
                   savedArticles, candidates, batchSaved, lost>>

StartBatch ==
    /\ pc = "batching"
    /\ TotalSoFar < Target
    /\ candidates # {}
    /\ \E b \in SUBSET candidates :
          /\ IsBatch(b)
          /\ work' = b
          /\ candidates' = candidates \ b
    /\ pc' = "detailing"
    /\ UNCHANGED <<day, mined, source, since, savedBaseline, newlySavedCount,
                   savedArticles, batchSaved, lost>>

\* The articles still in play shrink to `kept`; a stage that keeps none
\* returns an empty batch result and the loop goes on.
Narrow(kept, next) ==
    /\ work' = kept
    /\ pc' = IF kept = {} THEN "batching" ELSE next
    /\ UNCHANGED <<day, mined, source, since, savedBaseline, newlySavedCount,
                   savedArticles, candidates, batchSaved, lost>>

\* Articles whose body could not be fetched are dropped one by one.
FetchBatchDetailsMap ==
    /\ pc = "detailing"
    /\ \E valid \in SUBSET work : Narrow(valid, "selecting")

SelectValuableArticles ==
    /\ pc = "selecting"
    /\ \E valuable \in SUBSET work : Narrow(valuable, "summarizing")

\* Mutant: no limit on the number of summaries.
SummarizeWithoutLimit ==
    /\ pc = "summarizing"
    /\ \E summarized \in SUBSET work : Narrow(summarized, "embedding")

\* Summaries are made in turn until `limit` of them have succeeded; a failed
\* one is skipped.
SummarizeArticles ==
    /\ pc = "summarizing"
    /\ \E summarized \in SUBSET work :
          /\ Cardinality(summarized) <= RemainingQuota
          /\ Narrow(summarized, "embedding")

GenerateEmbeddings ==
    /\ pc = "embedding"
    /\ pc' = "saving"
    /\ UNCHANGED <<day, mined, runVars>>

\* The value filter or the embedding of the whole batch rejects (a call that
\* used up its retries, or a wrong number of vectors).
BatchFails ==
    /\ pc \in {"selecting", "embedding"}
    /\ Throw

-----------------------------------------------------------------------------
(* saveTrends: one insert after the other, each in a try of its own *)

Insert(a) ==
    /\ mined[a] = Absent
    /\ mined' = [mined EXCEPT ![a] = day]

SaveTrend(a) ==
    /\ pc = "saving"
    /\ a \in work
    /\ Insert(a)
    /\ work' = work \ {a}
    /\ batchSaved' = batchSaved \cup {a}
    /\ UNCHANGED <<day, pc, source, since, savedBaseline, newlySavedCount,
                   savedArticles, candidates, lost>>

\* The insert is refused (unique key, unique link_url, connection): the error
\* is logged and the loop goes on.
SaveFails(a) ==
    /\ pc = "saving"
    /\ a \in work
    /\ work' = work \ {a}
    /\ UNCHANGED <<day, mined, pc, source, since, savedBaseline,
                   newlySavedCount, savedArticles, candidates, batchSaved, lost>>

\* The row commits but the reply never arrives: the code sees an error.
SaveReplyLost(a) ==
    /\ pc = "saving"
    /\ lost < MaxLost
    /\ a \in work
    /\ Insert(a)
    /\ work' = work \ {a}
    /\ lost' = lost + 1
    /\ UNCHANGED <<day, pc, source, since, savedBaseline, newlySavedCount,
                   savedArticles, candidates, batchSaved>>

FinishBatch ==
    /\ pc = "saving"
    /\ work = {}
    /\ newlySavedCount' = newlySavedCount + Cardinality(batchSaved)
    /\ savedArticles' = savedArticles \cup batchSaved
    /\ batchSaved' = {}
    /\ pc' = "batching"
    /\ UNCHANGED <<day, mined, source, since, savedBaseline, candidates, work,
                   lost>>

-----------------------------------------------------------------------------
(* The process and the calendar around the run *)

\* The worker has taken the outcome of the run.
Release ==
    /\ pc \in {"done", "failed"}
    /\ pc' = "idle"
    /\ ForgetRun
    /\ UNCHANGED <<day, mined>>

Crash ==
    /\ pc # "idle"
    /\ pc' = "idle"
    /\ ForgetRun
    /\ UNCHANGED <<day, mined>>

NextDay ==
    /\ day < MaxDay
    /\ day' = day + 1
    /\ UNCHANGED <<mined, pc, runVars>>

RunStep ==
    \/ CountSavedSince
    \/ GetArticles
    \/ ExcludeExistingArticles
    \/ CollectionFails
    \/ FinishRun
    \/ StartBatch
    \/ FetchBatchDetailsMap
    \/ SelectValuableArticles
    \/ SummarizeArticles
    \/ GenerateEmbeddings
    \/ BatchFails
    \/ \E a \in Articles : SaveTrend(a) \/ SaveFails(a) \/ SaveReplyLost(a)
    \/ FinishBatch

Next ==
    \/ \E s \in Sources : ExecuteScraperByName(s)
    \/ RunStep
    \/ Release
    \/ Crash
    \/ NextDay

Spec     == Init /\ [][Next]_vars
\* A run in progress is driven by the event loop: its steps are not withheld.
FairSpec == Spec /\ WF_vars(RunStep) /\ WF_vars(Release)

-----------------------------------------------------------------------------
(* Properties *)

\* Every variable keeps its type: days, articles and counts of one run.
TypeOK ==
    /\ day \in Days
    /\ mined \in [Articles -> {Absent} \cup Days]
    /\ pc \in Steps
    /\ source \in Sources \cup {NoSource}
    /\ since \in Days /\ since <= day
    /\ savedBaseline \in Nat
    /\ newlySavedCount \in Nat
    /\ savedArticles \subseteq Articles
    /\ candidates \subseteq Articles
    /\ work \subseteq Articles
    /\ batchSaved \subseteq Articles
    /\ lost \in 0..MaxLost

\* No source gets more than Target rows on one calendar day, over any number
\* of runs, crashes between two inserts, retries and runs that cross midnight;
\* a run whose insert replies are lost overshoots by those replies and no more
\* (the baseline of processSource, trends-pipeline.service.ts:100-110, 145-160).
DailyQuota ==
    \A s \in Sources, d \in Days : Cardinality(SavedOn(s, d)) <= Target + MaxLost

\* What a run believes is what the table holds: the baseline it read, the
\* batches it counted, the batch it is saving and the replies it lost add up to
\* the rows of its source since the day it started, midnight or not.
CountMatchesTable ==
    Counted => Cardinality(SavedSince(source, since))
                 = savedBaseline + newlySavedCount + Cardinality(batchSaved) + lost

\* After the duplicates are excluded, no article a run still works on has a row:
\* no AI call is spent on a stored article and the unique key is never what
\* refuses an insert (excludeExistingArticles, and one run at a time).
WorkIsNew ==
    pc \in {"batching", "detailing", "selecting", "summarizing", "embedding", "saving"}
        => \A a \in candidates \cup work : mined[a] = Absent

\* A run that ends well below its target has tried every article it was given:
\* no batch is left out while quota remains.
NoBatchSkipped ==
    pc = "done" /\ TotalSoFar < Target => candidates = {} /\ work = {}

\* The job result lists rows that exist, of the job's source, not older than
\* the day the run started on, and its count is the length of the list.
ResultIsStored ==
    pc = "done" => /\ savedArticles \subseteq SavedSince(source, since)
                   /\ Cardinality(savedArticles) = newlySavedCount

\* The pipeline implements the catalogue it promises: seen from the table, every
\* step is one article published under the quota, the turn of a day, or nothing.
Catalog == INSTANCE ArticleCatalog
               WITH today <- day, catalog <- mined, Quota <- Target + MaxLost
ImplementsCatalog == Catalog!Spec

\* A run that is driven ends: the loop over batches and the loop over articles
\* run out, whichever calls fail.
RunEnds == pc # "idle" ~> pc = "idle"
=============================================================================
