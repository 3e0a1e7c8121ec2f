# Tech Trends in TLA+

Tech Trends collects articles from several sites once a day, lets an LLM judge
and summarise them, stores them with an embedding vector, and serves lists,
searches and related articles from one NestJS process.  This directory models
the parts of it whose correctness depends on an order of events: the daily
collection (queue, worker, pipeline) and what is announced of it, the shared
computation of search vectors, the cached reads, lists and searches read page by
page, and the request limit.  Paths below are relative to the repository.

- [The system](#the-system)
- [Modules](#modules)
- [Runs](#runs)
- [Fairness](#fairness)
- [Proofs](#proofs)
- [What is not modelled](#what-is-not-modelled)
- [Plan](#plan)

## The system

One backend process (`docker-compose.front.yml`, `restart: always`), one
PostgreSQL, and two Redis instances: `redis-queue` keeps the BullMQ queue (append
only file, no eviction), `redis-cache` keeps caches, locks and rate counters
(least-recently-used eviction, nothing persisted).

| Component | State | Operations | What makes it hard | What makes it correct |
|---|---|---|---|---|
| Dispatch (`trends.scheduler.ts`, `trends.controller.ts` `test-scraping`, `TrendsPipelineService.dispatchAllScrapersToQueue`) | position in the loop over sources | `getJob`, then `add`, per source | two dispatchers interleave; Redis fails in mid-loop | one job per source and day; an existing job is never touched |
| Queue (BullMQ, `app.module.ts`) | jobs, attempts, stalled counts, wait list, job lock | take, complete, fail, promote, recover stalled | crash under a job, lock lost under a run, retries | a job waits once; it is given up only when its attempts are spent; every job is settled |
| Worker (`trends.worker.ts`) | the job in hand | `process` | outcome of the run against the lock of the job | one run at a time; a job is run no more often than its attempts and stalls allow |
| Pipeline (`trends-pipeline.service.ts`) | locals of one run; rows of `tech_trends` | count, collect, exclude, then per batch: bodies, filter, summaries, embeddings, inserts | crash between two inserts, midnight during a run, lost replies, stages that keep nothing | daily quota per source; counts agree with the table; no work on stored articles; no batch skipped |
| Search vectors (`AiService.embedSearchQuery`, `waitForCache`, `RedisService`) | cache and lock in Redis, semaphore in the process | read, lock, call, store, release, poll | waiting on another request, lock expiry, failures at each await | an owner keeps its lock, no lock stays behind, one call serves all, who gives up does so for a failure, everyone is answered |
| AI client (`executeWithRetry`) | attempt number | retry with backoff or `retry-after` | time spent against the lock's time to live | bounded attempts, none for permanent errors |
| Read-through caches (`trends-query.service.ts`, `trends-cache.service.ts`) | cached values, three maps of pending loads | get, join or load, write back, invalidate | a miss that is handled late; write-back after invalidation | pending loads never leak; one load serves concurrent misses; stale values die |
| Lists and searches (`trends-query.service.ts`, `tech-trend.repository.ts`) | the cached count of a list | rows and count of a page, two rankings fused by RRF, fallback to the keyword search | rows stored between two pages, an old count, midnight, ties, a vector that is there for one page only | nothing is skipped, a quiet reader sees each row once, an announced page has rows, the fusion agrees with both rankings |
| Throttle (`redis-throttler.storage.ts`, Lua script in `redis.service.ts`) | counter and block key with a time to live | `increment` | window edges, Redis away, keys evicted | bounded hits per window, a block is earned and ends, the told time is enough |
| Event listener (`trends-queue.events.ts`) | its handlers in progress | announce, invalidate the source list | overlapping handlers, lost events, midnight, posts that never end | a message accounts for the whole day, what it misses has a reason, no event waits for another |
| Web page (`frontend/index.html`) | page state | fetch and render | answers out of order | the page shows the answer to its last question |
| Scrapers, prompts, migrations, backup, proxy, logging | - | - | - | not modelled, see below |

**Interaction.**  A dispatch puts a job `<source>-<day>` in the queue.  The
worker takes it and awaits the pipeline's run; the run's result completes the
job and its exception fails it.  The pipeline writes rows one by one and keeps
nothing else, so everything a later attempt knows of an earlier one it reads from the
table.  The completed event makes the listener announce the day's rows and drop
the cached source list.  A search asks for a vector and, with or without it,
queries the table.  Ingestion and search share the AI client and the table, but no
lock.  Every request passes the throttle first; its keys live in the same Redis as
the caches.

## Modules

| Module | Models | EXTENDS / INSTANCE |
|---|---|---|
| `ArticleCatalog` | abstract: articles are published once, at most a quota per source and day | - |
| `TrendsPipeline` | one run of `processSource` at a time on the table and the calendar | INSTANCE `ArticleCatalog` |
| `TrendsPipelineProofs` | inductive invariant and theorems | EXTENDS `TrendsPipeline`, TLAPS |
| `JobQueue` | dispatchers, BullMQ, worker, crashes | - |
| `JobQueueProofs` | inductive invariant and theorems | EXTENDS `JobQueue`, TLAPS |
| `Ingestion` | queue, worker and pipeline composed | EXTENDS `TrendsPipeline`, INSTANCE `JobQueue` |
| `IngestionProofs` | both refinements and what ties job and run together | EXTENDS `Ingestion`, `TrendsPipelineProofs`, INSTANCE `JobQueueProofs` |
| `SearchEmbedding` | `embedSearchQuery` and the Redis connection under it | - |
| `SearchEmbeddingProofs` | inductive invariant and theorems | EXTENDS `SearchEmbedding`, TLAPS |
| `ReadThrough` | the cached reads of `TrendsQueryService` and their pending loads | - |
| `ReadThroughProofs` | inductive invariant and theorems | EXTENDS `ReadThrough`, TLAPS |
| `QueueListener` | the events of ended jobs, their handlers and messages, next to a worker that stores rows | - |
| `QueueListenerProofs` | inductive invariant and theorems | EXTENDS `QueueListener`, TLAPS |
| `TrendSearch` | lists and searches over several pages while rows are stored | - |
| `TrendSearchProofs` | inductive invariant and theorems | EXTENDS `TrendSearch`, TLAPS |
| `Throttle` | the counter and the block of one client on one route | - |
| `ThrottleProofs` | inductive invariant and theorems | EXTENDS `Throttle`, TLAPS |
| `MC...` | instances for TLC | each EXTENDS its module |

Definitions marked *Mutant* are faulty variants of the definition they stand before.
They belong to no specification; substituting one for its original shows
which property notices that mistake.

### TrendsPipeline

An article is `<<source, source_id>>`, the table's unique key; `mined` maps it to
the day in its `mined_at` or to `Absent`.  `pc` is the await the run is suspended
at, the other variables are the locals of `processSource` under their own names;
`work` holds the articles of the current batch through all stages of
`processBatch`.  Each action is one stage up to its await:

- `ExecuteScraperByName` evaluates `getTodayStartUtc()`, `CountSavedSince` awaits
  the count: midnight may fall between.
- `GetArticles` is any list of the source; `ExcludeExistingArticles` the database
  lookup; `StartBatch` one chunk of `chunkArray`.  The order of a scraper's list is
  left open, so a batch is any subset of the size the chunk has.  A scraper is
  assumed to list an id once.
- `FetchBatchDetailsMap`, `SelectValuableArticles`, `SummarizeArticles` keep any
  subset, the last one no more than the quota left.  A stage that keeps nothing
  goes back to the loop.  `BatchFails` and `CollectionFails` are the exceptions that
  leave `processSource`.
- `SaveTrend`, `SaveFails` and `SaveReplyLost` are one turn of the loop of
  `saveTrends`: stored, refused, or stored with the reply lost (the code sees the
  same error as for refused).  The column `link_url` is unique too; that refusal is
  `SaveFails`.
- `Crash` forgets the run and keeps the rows.

Process, database session and scheduler all run in Asia/Seoul
(`docker-compose.front.yml`, `database.module.ts`), so `mined_at` and
`getTodayStartUtc` speak of the same day; the models have one `day`.

`ImplementsCatalog` maps the pipeline to `ArticleCatalog`: the table is the catalogue,
the quota is the target plus the lost replies of a run.

### JobQueue

A job id is `<<source, day>>`.  `GetJob` and `AddJob` are the two commands of
the loop body, so another dispatcher can act between them; `add` of an id that
exists is ignored by BullMQ.  What BullMQ does is external and modelled from the options the
code gives it: `attempts: 3`, `removeOnComplete`, failed jobs kept
(`removeOnFail: {count: 50}`; the bound of 50 is not reached by a handful of
sources a day and is left out), `concurrency: 1`, one stalled recovery by default.
`LoseLock` is the stalled check taking the job away from a run that goes on;
`OutcomeRefused` is that run's end.

### Ingestion

`StartRun` is `TakeJob` and `ExecuteScraperByName` in one step, `RunSucceeds`,
`RunRejects` and `RunIsStale` join the end of the run with what BullMQ does to
the job, `ProcessDies` crashes both sides.  `ImplementsPipeline` and
`ImplementsQueue` say that the composition adds no behaviour to either side, so
what holds of the parts (for instance the proved `DailyQuota`) holds here.

`runs` is history: how often a job was run since it was queued.  Failed attempts and stalls are
counted by two fields of the job, and neither counts runs: a stale run adds to one, an
attempt that ends well to none.  `RunsAreBounded` says that together they bound the runs of a job,
which a dispatch that met its given-up job and started it over would break.

### SearchEmbedding

`pc` is the await a request is suspended at.  The model keeps the order
of one Redis connection: `wire` are the commands sent and not executed, `replies`
those executed and not handled.  This matters: with the order of a connection one
call serves all concurrent requests for a keyword, without it a request could read a
miss, be overtaken by store and release, and get the lock.  Commands fail at once
while Redis is away (`enableOfflineQueue: false`, `maxRetriesPerRequest: 0`).

`LockLost` stands for the expiry of the 10 s lock (and for eviction); time is
otherwise left out.  `ApiReturns` and `ApiFails` stand for the whole call with its
retries.  A request of a crashed process is `done` without an answer: its HTTP
connection is gone.  The semaphore is fair (async-mutex serves waiters in order).
A failed read in `JSON.parse` cannot occur on values this code wrote and is left out.

### ReadThrough

`getTrendById`, `getRelatedTrends`, `getListCount` and `getUniqueSources` are four forms
of one protocol: ask Redis, on a miss join the pending load of the key or start one,
write the result back without waiting, drop the load.  The model has the protocol once;
a key is one of four kinds.  `Details` may have no row yet (`Born`) and then answer
`Missing`; a related key calls `getTrendById` first, which is a reader of its own
(`Helper`), and answers the empty list for `Unembedded` articles; `Uncoalesced` keys (the
source list) have no map and are invalidated by `OnCompleted`; a key of no kind is a
list count.  The two lookups after the reply, in the map and the entry into it, have
no await between them and are one action.

A value is the version of the table its query saw, so that old and new can be told
apart; texts and numbers are not kept.  As in SearchEmbedding `wire` and `replies` keep
the order of the connection.  The load leaves the map in the same turn in which its
write is sent: a GET sent later finds the value, one sent earlier may not.

### QueueListener

The worker and the queue are there as far as an event or a row can tell.  `StartJob`, `SaveTrend` and
`JobEnds` are a run that goes well or spends its last attempt; `AttemptFails` ends a run without
an event, and the job is run again.  `LoseLock` is the stalled check of BullMQ under a run that goes on:
the job is put back, or given up with its `failed` event, while the run keeps inserting and ends in
`OutcomeRefused`, of which no event tells.  A row stored then, when its job is over, is in `late`.
`Crash` leaves the job behind (`orphans`), to be run again or to be given up (`GiveUpOrphan`).  How many
attempts and stalls a job has is left to JobQueue; here it may be given up at any of them,
the first or the last, so that every number is covered.  Only a job given up bars its id for the day.

`events` is the stream in Redis; each event carries the `step` of its
handler, which is the await it is suspended at, and the handler's locals.  The
emitter of `@OnQueueEvent` does not await a handler, so `Deliver` only keeps the order of
the stream and handlers overlap.  The listener reads from the end of the stream when it
starts: `Crash` loses what is not handled.  A message is the set of rows it names and the number
of rows it adds; `MaxListed` stands for the 1800 characters.  A post to Discord may be refused, which the
code logs, or never be answered (`PostHangs`: `axios.post` has no timeout).

`MissedForAReason` says when a stored row may go unannounced.  As long as no event of its source came
after it, a job of the source is in play (so that an event will come, or the row's run is at it), or the row is in `late`:
the one way in which nothing is going to tell of it.  If events came, each was of a job given up
(`onFailed` names no rows), was lost with the process or is not handled yet, met a query or a post that
failed or hangs, or was handled after midnight, when `getTodayStartUtc` excludes the row.  A crash or a retry
alone is no reason: the job goes on, and the event at its end covers the rows of the tries before.  A later event of
the same source and day makes up for the first ones.

### TrendSearch

One reader asks for page 1 and goes on while the answer says there is another page; each answer
joins two queries, rows and count, that run in either order (`Promise.all`).  The table only grows.
A row carries what the orders look at: `rel`, `near` (0 for no match and for no embedding within
the threshold) and `col`, the columns an order names before the id, as one value; the six orders
by columns differ in direction only.  `Place` is a row's position under an order, `ListKey`,
`KeywordKey`, `Relevance`, `Nearness` and `HybridKey` are the `ORDER BY` clauses as tuples.  The
score of the fusion is computed with whole numbers: `Scale` is a common denominator of all
1 / (RrfK + place), which any product of the denominators is.  The
candidates of a ranking are the first of its `ROW_NUMBER`; the subquery's `LIMIT` has no `ORDER BY` of its own, and PostgreSQL
returns the rows in the order of the window, which the model takes for granted.

The count of a list comes from a cache that does not name the day (`trendListCountCacheKey`);
`countCache` keeps it as the number and the day it was counted on.  Loading, joining and writing back
are one step here and are taken apart in ReadThrough.

`FusionRespectsRankings` needs `CandidateLimit <= RrfK + 1` (`SearchAssumption`): the code has 50 and
60, but `SEARCH_CANDIDATE_LIMIT` is read from the environment and `rrfK` is not.  With a limit
above 61 a row that both rankings have in their last place may come after the first of either.

### Throttle

`createRedisThrottleKey` gives a client and a route keys of their own, so a
counter and a block are the whole state.  `Count` and `LeaveBlocked` are the Lua script, one atomic
step; `now` counts milliseconds.  Redis keeps a key through the last
millisecond of its time to live (it expires a key when `now > when`), in which `PTTL` is 0 and the script
goes past the block.  `RetryAfter` is the `Math.ceil` to seconds.  `HitFailsOpen` and
`HitReplyLost` are the `catch` of `increment`.  Redis comes back with its data, or empty (`--appendonly no
--save ''`), and may evict either key (`allkeys-lru`).

`counted` remembers the hits let through since the counter was last lost by a fault, each with the
millisecond it came at, the beginning of the counter it was counted in, and its number there; what passes while Redis
is away is not counted by anybody and bounded by nothing.  The true bound over any stretch of
one ttl is `2 * Limit - 1`: the stretch meets at most two windows, and
when it meets two, the first began before it, with a hit that does not lie in it.

## Runs

| Run | Instance | What it shows |
|---|---|---|
| `MCTrendsPipeline.cfg` | one source, 5 ids, target 3, batches of 2, 3 days, one lost reply per run | the safety properties of the pipeline, the refinement of `ArticleCatalog`, and that runs end |
| `MCJobQueue.cfg` | one source over 2 days, two dispatchers, 3 attempts, 2 crashes | the queue under retries, stalls and concurrent dispatch |
| `MCIngestion.cfg` | one source, 2 ids, target 2, batches of 1, 2 attempts, 2 days, one crash | a job is run no more often than it may be, a completed job is a finished one, the composition implements both parts, every queued job is settled over midnight too |
| `MCSearchEmbedding.cfg` | 3 requests for one keyword, one permit, 2 polls, one fault of each kind | lock and sharing of the vector; one call serves all when nothing fails |
| `MCSearchEmbeddingLive.cfg` | 2 requests for one keyword, one for another, one permit; an outage, a failed call and a crash | everyone is answered though Redis goes away, a call fails, or the owner dies and its lock stays for whoever comes after the restart; the semaphore leaks no permit |
| `MCSearchEmbeddingExit.cfg` | 3 requests, one expired lock | **violated**, see below |
| `MCReadThrough.cfg` | one article that appears at version 1 of 2; a reader of it, 2 of its related key with their helpers; a lost value and a failed query | one load per key, nobody is sent back in time, with one load nested in another |
| `MCReadThroughLive.cfg` | 2 readers of the related key of an article without embedding, 1 of the source list, an outage and a failed query | everyone is answered |
| `MCReadThroughStale.cfg` | 2 readers of the source list, one collection, no fault | **violated**, see below |
| `MCThrottle.cfg` | limit 3, ttl 4, 2 ms to a second, 10 ms; one evicted key, one outage | hits over the edge of a window, over an outage and after an eviction; how a denial begins and ends |
| `MCQueueListener.cfg` | one source, 2 rows, 2 events, 2 days, one row fits a message; any retries and lost locks, a crash, a fault | what is announced, what is not and why; a hung post holds up no other event |
| `MCTrendSearch.cfg` | up to 3 rows, pages of 2, 2 candidates, 3 grades of each ranking | paging under inserts, old counts and midnight, the fusion of the rankings, with and without a vector |

**Bounds.**  `MaxDay`, `MaxCrashes`, `MaxLost` and the other `Max...` bound how often
the environment acts; all are guards of environment actions only.  Three requests are
what it takes to have an owner, its successor after an expired lock and a third that
could slip in if the first released the second's lock.  Three readers of a key (one
reader and two helpers) are two whose loads could end in the wrong order and one who sees
the older value.  Three days let a run start before one midnight, end after it and be
followed by another run on the day it reached.  Target 3 with batches of 2
makes the quota of the second batch smaller than the batch, and five ids leave enough
new articles to break the target.  A run touches rows of its own source only, and the
proofs are for any number of sources.  In the queue the
jobs of one source on two days compete like those of two sources on one day: a job is
known by its id only.  Two polls are one that goes on and one that gives up; the
code's 25 differ only in number.  One permit is contended by two owners; the code's 3
would need four keywords.  The throttle's clock covers two and a half windows: a window, the
one that begins at any moment of it, and the end of a block set in it; 2 ms to a second tell rounding
up from rounding down.  Two events of the listener are one and the one that makes up for it or overtakes
it; one source is enough, since a handler reads the rows of its own source only, and the proofs are for
any number of sources.  Three rows are a full page and a row beyond it, two that tie in one ranking and differ in the other, and one more than
a ranking's candidates.  Symmetry is used only for the requests of a run without
liveness, where nothing names or orders them.

**Deadlock** is checked everywhere: all systems can always take a step, in
SearchEmbedding and ReadThrough the step `AllAnswered` once every request is answered,
in QueueListener `Idle` and in TrendSearch `Read` once the bound or the last page is reached (the listener also when every job of the days so far is given up).

**Violated: `EarlyExitIsHopeless`.**  `waitForCache` ends a wait when the lock is gone, and its comment
(`src/ai/ai.service.ts:344`) says that then the owner has failed and no
vector will come.  `EarlyExitIsHopeless` states that.  TLC finds the other way to the same
state: the lock expires while its owner waits for the semaphore or for the API.
The lock lives 10 s; the retries of one call wait 3 s and 9 s after rate limit
errors.  The waiter then searches without the vector, and a new request takes the
lock and calls the API a second time.  `EarlyExitMeansFailure` (checked) is the true form: an
early exit means failure as long as no lock was lost.

**Violated: `InvalidationSticks`.**  The listener drops the cached source list at the end of
a collection (`src/trends/processors/trends-queue.events.ts:96`).  A request whose query ran before
the rows were stored and whose result comes after the DEL writes the old list
back, for the 24 h of its time to live.  It matters when a collection brings the first article of a
source.

## Fairness

- Pipeline: weak fairness of the steps of a run.  Each awaited call ends, well or
  badly: HTTP clients and database have timeouts, and both outcomes are steps.
- Queue: weak fairness of taking and ending jobs, of `Restart` (`restart: always`), of
  promoting delayed jobs and recovering stalled ones (timers of BullMQ).  No fairness for
  dispatch, crashes or lost locks: nothing promises them.  Crashes are bounded;
  with unbounded crashes a job is still given up, by its stalled count.
- Ingestion: the same fairness on the composed steps.
- SearchEmbedding: weak fairness per request (Redis executes, timers fire, API
  calls end) and of `RedisBack` (`retryStrategy` never gives up).
- ReadThrough: weak fairness of Redis, of each reader and of each load (a query ends,
  well or badly).  None for `RedisBack`: while Redis is away reads reject at once.
- QueueListener: weak fairness of each event's handler (BullMQ delivers, the database
  answers, a post that does not hang ends).  A post may hang, and nothing is assumed of jobs or of `Restart`.

## Proofs

TLC checks the instances above; the theorems hold for every value of the constants that satisfies
the assumption of the module (`PipelineAssumption`, `QueueAssumption` and so on: numbers are
numbers, sets of requests and ids are finite, a request has a key).  Each `...Proofs` module has one
inductive invariant `IInv`, a lemma for each action that keeps it, and the theorems that
follow from it.  TLC found no reachable state that breaks an `IInv` on the instance of its module.

| Module | Proved of every behaviour |
|---|---|
| `TrendsPipelineProofs` | `TypeOK`, `DailyQuota`, `CountMatchesTable`, `WorkIsNew`, `NoBatchSkipped`, `ResultIsStored`; the pipeline implements `ArticleCatalog` |
| `JobQueueProofs` | `TypeOK`, `WaitsOnce`, `GivenUpOnlyWhenSpent`, `DispatchKeepsJobs`; only an active job is locked |
| `IngestionProofs` | `ImplementsQueue`, `ImplementsPipeline`, with them the quota, the catalogue and the queue's invariants of the composition; `RunsAreBounded`, `CompletedMeansDone` |
| `SearchEmbeddingProofs` | `TypeOK`, `OwnerHasLock`, `NoLockLeftBehind`; in one process `OneCallPerKey` and `EarlyExitMeansFailure` |
| `ReadThroughProofs` | `TypeOK`, `MapIsLoad`, `NeverGoesBack`, `WarmKeyIsHit` |
| `QueueListenerProofs` | `TypeOK`, `AnnouncesWholeDay`, `MissedForAReason` |
| `TrendSearchProofs` | `TypeOK`, `NothingSkipped`, `QuietReadingIsComplete`, `AnnouncedPageHasRows`, `FusionRespectsRankings` |
| `ThrottleProofs` | `TypeOK`, `LessThanTwiceTheLimit`, `DenialIsEarned`, `DenialEnds`, `RetryAfterIsEnough` |

**TrendsPipeline.**  `DailyQuota` is not inductive: nothing in it says why the next insert is allowed.
The argument goes through what the run knows.  `CountMatchesTable` ties the
run's numbers to the table.  `QuotaOfRun` bounds what the run may still save by
the quota left: at `saving`, the articles in play and those saved in the batch fit in
it.  `RunShape` says which variables are empty at which step, that candidates and work are
disjoint and of the run's source.  `WorkIsNew` makes each insert a new row, so that
the count grows by exactly one.  An insert on day `d` while the run counts since
`since <= d` then leaves at most `Target + lost` rows since `since`, and those of
day `d` are among them.  `NoBatchSkipped` and `ResultIsStored` are checked by no run of their
own; `CompletedMeansDone` of Ingestion says the former of the composed system.

**JobQueue.**  After a stalled recovery the worker still runs a job it no longer owns, and
that job may be anywhere.  `LockedIsActive` says that an outcome Redis accepts is that of an
active job, so ending a job never touches one that waits.  `FreshJob` says that an id that is
free again starts without attempts.

**Ingestion.**  A step of the whole is a step of the queue or leaves the queue alone; this follows from
the actions.  That it is also a step of the pipeline needs that the job a run starts with is of a
known source, which is the queue's type invariant, obtained through the first refinement.  The
invariants of both parts then hold of the composition without a second proof.  On top of them
`IngestInv` has three parts: `RunIsOfCurrentJob` and `NoJobAhead` (no job is of a day to come) give
`CompletedMeansDone` the source and the day of the run, and `RunsAddUp` gives `RunsAreBounded`: while a job waits its runs are
its attempts and stalls, at work one more, and only what ends the last one may give the job up.
`IngestionAssumption` repeats `QueueAssumption` for the queue inside.

**SearchEmbedding.**  `Lines` says that each connection lists its requests once and that a request's step
tells which list it is on.
`NoLockLeftBehind` needs `LockHasOwner`: without an outage or a crash, every lock has an owner that
has yet to release it.  `OneCallPerKey` rests on the order of one connection: whoever missed a vector that
is there by now has its next command ahead of the release of the owner that stored it (`MissedIsAhead`).
Two processes have two connections and no such order, so this theorem and the one about early exits
have `OneProcess` as their hypothesis, as the code runs; the others hold for any number of
processes.  `PermitsCounted` shows that the semaphore loses no permit.

**ReadThrough.**  The loads of a coalesced key follow one another, since the map has one entry; so the values
on their way to the cache rise (`Rising`), and none is newer than the query of a load still running (`Newest`).
A GET is behind the write of every answer given before it was sent (`Covers`, `Serves`): it finds
a value as new, or none and then waits for a query that began later.  An outage breaks this order, and
`NeverGoesBack` speaks of behaviours without one; `MapIsLoad` holds with any fault.  `ReadAssumption` says
that readers of one key agree on what kind of key it is.

**QueueListener.**  What is true of an event depends on the step of its own handler and on the rows
(`Sound`), rows are only appended, and a handler touches no event but its own; so handlers that overlap need no
more than handlers that do not.  `RowsCovered` says that a row no event covers has a job in play or was stored
when its job was over, and `RunInPlay` that a run which owns its lock has a job in play: so only the end
of a job takes it out of play, and its event then covers every row so far.  Messages are assumed to have room for one row (`MaxListed >= 1`).

**TrendSearch.**  Every order ends with the id, so it ranks its rows strictly (`Ranks`), the places are
distinct, and a pigeonhole argument shows that they are 1, 2, ... up to the number of rows (`PlaceTaken`).  A new row
only pushes places of a list or a keyword search back (`PlaceMovesBack`), which keeps `Skips`: what was there
at the beginning and ranks within the pages shown is on them.  `Numbers` says that a number counted on the day
of the filter, cached or not, is not above the number of rows now; so a page it announced is not beyond the last.
`Fits` ties the pages of a quiet reader to one ranking.  `FusionRespectsRankings` holds of any table: the worth of a
place falls strictly (`WorthFalls`), and two last places outweigh one first if `CandidateLimit <= RrfK + 1`
(`WorthOfTwo`).

**Throttle.**  The counters Redis kept lie more than a ttl apart (`WindowsApart`), so a stretch of one ttl meets
at most two, and of the earlier one only requests after its first; `NumberedOnce` and `AllCounted` turn
the numbers the script gives into a count.  `DenialBounded` says what a series of denials knows of the two keys,
from which the end of a denial and the honesty of `Retry-After` follow.

**Limits of what is stated.**  Some properties end where the code stops promising.  `FusionRespectsRankings` is about
limits up to `RrfK + 1`, as above.  `QuietReadingIsComplete` and `AnnouncedPageHasRows` leave out a hybrid
search that loses or finds its vector between two pages, and the latter a reader whose cached count
is from the day before: the model has these behaviours, and there the statements are false.  `MapIsLoad` and
`WarmKeyIsHit` allow the second load of a reader who missed before the first one's value was stored.
In the run of `EveryRequestAnswered` a lock never expires: a waiter has more to wait for
behind the lock of a dead owner than when the lock is gone, which sends it away at once.

**Model-checked only.**  Liveness (`RunEnds`, `QueuedJobSettles`, `EveryRequestAnswered`, `EveryReaderAnswered`,
`EveryEventHandled`): the proof system does not reason about fairness and ENABLED.  `EarlyExitIsHopeless` and
`InvalidationSticks` are false.  Every other property of a run is a theorem.

## What is not modelled

- Scrapers: requests to other sites and HTML parsing.  The pipeline sees any
  list, any subset of bodies, or an error, which covers them.
- Texts: prompts, summaries, sanitising, embedding text, vectors as numbers.
- SQL and indexes, migrations, the backup script: no state of the program.
- Proxy, containers, deployment workflow, load tests, logging, performance monitor.
- Retry delays (`executeWithRetry`): an API call ends well or badly after its retries;
  that a retry may outlast the lock is `LockLost` in SearchEmbedding.
- The web page: it keeps nothing beyond its own reload.  Its list request carries no
  number, so that of two answers the later one is shown (`frontend/index.html:972`);
  no text says which it should be.
- The query for related articles: its load is in ReadThrough, its order is one column and an id.

## Plan

Done: all modules of the table with their runs, and the theorems above.

Next:

1. `RetryTiming`: the delays of `executeWithRetry` against the ten seconds of the lock, which
   SearchEmbedding leaves to `LockLost`.  It would bound how long an owner may hold a lock that is no longer its own.
2. Theorems about what a lost order costs: a bound on how far `NeverGoesBack` fails over one outage, in the
   number of loads in flight when it begins.
3. SearchEmbedding: for several processes, at most one call per keyword and process without faults.
4. QueueListener: an abstract account of the day (every row named, numbered or missed for a stated cause)
   that the handlers implement.
