# Combflow: models, checks and proofs

This directory holds TLA+ models of combflow, the TLC configurations that check them, and theorems about them that
TLAPS proves. Paths below are relative to the repository; `backfill.py:84-97` and the like name lines of the source.
`PROJECT.json` maps every definition to the lines it stands for.

## 1. The system

Combflow classifies posts of the Hive blockchain and serves them in a browsable feed. A *worker* process reads the
chain and fills a PostgreSQL database; an *API* process answers queries out of it; *browser code* keeps a feed and the
user's lists. The processes share nothing but the database.

| Part | Source | State it keeps | Operations |
|---|---|---|---|
| Worker process | `project/worker/main.py` | the generation: stop event, threads, database bridge | `run`, `_stream`, SIGTERM handler |
| Live stream | `project/worker/stream.py` | batch, last block, post count, activity time; cursor `live_worker` | stream loop, flush, watchdog, cursor |
| Backfill thread | `project/worker/backfill.py` | connection, keyset cursor, phase, retry counters; cursor `backfill_worker` | connect, query, row loop, save frontier |
| Saving a post | `project/worker/classify.py`, `project/db/crud.py` | tables `posts`, `community_mappings` | `_classify_and_save`, `create_post`, `delete_posts_by_author` |
| Community mapping | `project/worker/community.py` | cache of communities, set of those persisted | resolve, evict, persist |
| Blacklist | `project/worker/blacklist.py` | cache author -> (verdict, time) | `is_blacklisted`, daily sweep |
| Database bridge | `project/worker/bridge.py` | event loop and the lock around it | `run`, `close` |
| TTL cache | `project/cache.py` | store, locks by key | `get`, `put`, `get_or_compute` |
| Queries | `project/db/crud.py` | none (category tree and counts go to the TTL cache) | browse, communities, authors, reports |
| Reports | `project/api/routes/reports.py`, `project/api/hive_auth.py` | rate limit by user; table `post_reports` | submit, list |
| HAFSQL and Hive clients | `project/hafsql.py` | connection pool | reads, failover over nodes, shutdown |
| Pages | `project/api/routes/ui.py`, `project/api/main.py` | cached lists and sitemap, the warm task | lists for crawlers, sitemap, start and shutdown |
| Categories | `crud.py`, `classify.py`, `main.py` | tables `categories`, `category_centroids`; the cached tree | seed the tree, load centroids, choose, browse |
| Seeding script | `scripts/seed_categories.py`, `deploy.sh` | `checkpoint.json`, a queue, three threads, `centroids.json` | fetch, label, save, resume, train |
| Feed | `static/discover.js`, `discover/{state,filters,rendering}.js` | posts, cursor, offset, flags, abort controller | `applyFilters`, `loadMore`, `pollNewPosts`, `fetchMeta` |
| Session and lists | `discover/{auth,social,voting,notifications,report}.js` | user, muted, followed, votes, unread | login, logout, mute, follow, fetch |

How they interact. The worker's main thread runs the live stream; the backfill thread and the sweep thread run beside
it. All three ask `is_blacklisted`, which shares one cache; two of them save posts, one deletes them, and all database
calls pass through the lock of `_DB.run`. A stop event ends all three; `run` then begins the next generation. In the
API, requests share an event loop and the TTL cache, which worker threads of `asyncio.to_thread` touch as well. In the
browser everything shares one `state` object, and whatever awaits a fetch finds it changed afterwards.

What is hard, and what makes each part correct:

* **Backfill.** Pages are cut by `LIMIT`, possibly inside a block second, while HAFSQL publishes and retracts rows; two
  kinds of errors are retried by different rules. Correct: no row between two pages is lost, the phases change only when
  the gap is closed, connection errors never kill the thread, the end is reported only at the end.
* **Live stream.** The batch lives in memory; flushes are driven by arrivals; a node may hang; the stop event may be set
  anywhere. Correct: the batch stays bounded and is worked off, a graceful exit loses nothing, a hung stream is torn
  down as far as the watchdog can.
* **Worker process.** The walk's starting time and the stream's first block are taken independently. Correct: what the two
  cover together leaves no post out; a shutdown request ends the stream.
* **Saving.** Two commits per call, a set that says what has been written before it has been. Correct: `post_count` is the
  number of posts but for calls done by half; what is marked as persisted is in the database.
* **Blacklist.** Answers without a lock, paging by offset over a changing table, posts under way while the sweep deletes.
  Correct: a verdict is wrong only within its TTL, a sweep misses nobody, a listed author's posts go away for good.
* **TTL cache.** Locks by key that evictions throw away, callers that wait, time that passes. Correct: bounded, one producer
  per key, nothing older is served, nobody waits for ever.
* **Pages.** HAFSQL comes and goes; a failed call may look like an empty answer; builds of the sitemap overlap. Correct: one
  pool of connections, a complete sitemap is not lost to a failure, an incident is not cached.
* **Reports.** Three awaits between reading a post and reporting it; COMMITs whose answer is lost. Correct: 201 means that the
  report is there, once, and every request ends.
* **Categories.** A tree that is cached for a day, categories that the worker creates before the API seeds them. Correct: what
  was given to a post finds it; pages that follow each other by cursor pass over nothing.
* **Seeding script.** Paid work in memory and in a file that two threads overwrite; a bounded queue with two writers. Correct:
  saved labels outlive interrupts, crashes and resumes, but for an end inside `write_text`; a run ends.
* **Feed.** Questions to the server are out while filters, lists and posts change; only `applyFilters` takes its question back.
  Correct: the feed is what its filters ask for, each post once and in order, nothing passed over.
* **Social lists.** Late answers, lists that replace newer ones. See the plan.

`PROJECT.json` lists the hazards of this kind, each at its line, with the properties that watch it.

## 2. The models

| Module | Models | Composition |
|---|---|---|
| `Walk` | what a backward walk promises: begin with a set of rows owed, settle them, complete only when none is owed | abstract |
| `Backfill` | `_backfill_thread` step by step | implements `Walk` (`KeepsPromise`) |
| `LiveStream` | `_stream_range`, `_process_batch`, the watchdog | extended by `Worker` |
| `Worker` | `_stream` and `run`, the generations | `LiveStream` and an instance of `Walk` as the backfill thread |
| `PostStore` | `_classify_and_save` from the community on, `community.py`, the writes of `crud.py` | |
| `Blacklist` | `blacklist.py`, with the threads that ask | |
| `TtlCache` | `cache.py` and its callers | |
| `Feed` | filters, scrolling, polling and muting in the browser, with the server's answers | |
| `Pages` | the crawler lists, the sitemap and its warm task over the HAFSQL pool | |
| `Reports` | `submit_report` and what it awaits, `create_post_report`, the worker's saves and deletions | |
| `Categories` | training, seeding, choosing, browsing | |
| `Seeder` | the three threads of the seeding script over one checkpoint | |
| `Orders` | posts newest first: the newest `n`, in order, without some | used by `Feed` and `Seeder` |
| `BackfillProofs`, `TtlCacheProofs`, `WorkerProofs`, `PostStoreProofs`, `BlacklistProofs`, `PagesProofs`, `ReportsProofs`, `CategoriesProofs` | theorems | extend their modules; `PagesProofs` also has those of `Feed`, `CategoriesProofs` those of `Seeder` |
| `MC*` | instances for TLC | extend their modules |

**Backfill.** A row is a HAFSQL row that passes the query's own conditions; rows are numbered in the query's order, so that
`r < cursor` *is* the tuple comparison, and `Created[r]` is the block second, which rows may share. `fate[r]` says
whether HAFSQL shows the row yet, or no longer; indexing may be late. `pc` follows the function: `connect`, `load`
(frontier, NOW, phase), `query`, `dedup`, `rows`, `persist`. One `Query` is the whole iteration up to the end-of-catch-up
test: rows fetched, counters reset, cursor moved, phase changed. `ConnectionError` and `QueryError` are the two except
clauses. `DatabaseError` is any call of the worker's own database, all of which stand outside the try blocks. What the
row loop does to a row is left open ("decided"): saved, filtered, known already, or failed with a logged exception.
`snapshot`, `decided` and `genErrors` are history variables.

**LiveStream and Worker.** Posts are numbered in chain order and `BlockOf` gives their block; the head block is the clock.
Replies are not counted, but they let the loop look at the stop event (`SeeStop`). `lpc` is where the loop is: `reading` (in
the stream), `checking` (after `batch.append`), `flushed` (before the cursor test), `draining` (after the loop),
`exitCursor`, `returned`, `failed`. The watchdog fires whenever the activity is old enough, which time alone decides; `hung`
says that the fetch does not come back by itself. The watchdog fires once: it closes the connection, or `close()` raises,
which it swallows (`watchdog = "failed"`), and the stream stays as it is, with nobody to look. `Worker` adds `mpc` (`boot`,
`hello` = threads started, stream not yet, `live`, `exiting`), the signal, and the walk: `BeginWalk` chooses `floor`, the
block below which HAFSQL showed everything at the walk's NOW (`IndexLag` behind the head at most), while `GoLive` chooses the
start block (`StartLag` behind the head at most), in either order. A boot without centroids returns at once and is repeated
for ever, a busy loop the model shows as `Boot` not happening.

**PostStore.** The embedder is loaded; otherwise nothing of this concerns a post. `TagsOf[p]` are the communities that the
versions of a post name, or none, and `posts[p]` is the one its row has. Calls of one process never overlap, since
`_DB.run` holds a lock for the whole call: `DbFree`. But `create_post` and `delete_posts_by_author` commit twice, and `pc =
"count"` and `sweep = "uncounting"` are the states between. What leaves a count behind: a second commit that is lost
(`CountFails`, `UncountFails`, a crash); a first one that was taken with its answer lost, after which the retry of
`retry_transient` finds the row there, or nothing to delete (`SaveUnanswered`, `DeleteUnanswered`); an update that gives
the row another community and moves no count (`Moves`); and posts saved before their mapping. The communities concerned are
`tainted`; a mapping that could not be written is `unsaved`. Both are history variables, and the properties say precisely
what holds without them. Other retries add no step, for they change nothing the first attempt did not.

**Blacklist.** `waited[x]` is how long a thread's call has taken; the answer is decided somewhere inside (`Answer`), and
stored later with the time noted *before* the call, so that `age` starts at `waited`. An answer that is no JSON is cached
as "not listed" (`Garble`); an exception is not cached (`ApiFails`). A saver asks for one author and then saves: the live
stream asks for a whole batch first, which only lengthens the time between.

**TtlCache.** The insertion order of the store is kept as `older[k]`, the set of keys that were there before `k`; the queue
at a lock as `ahead[c]`. `current` holds the callers whose lock is the one `_locks` has: after an eviction others may
have a lock nobody else will find. A producer reads its source at its start, the worst case for what is put later.
`_store_lock` makes `get` and `put` atomic, so that callers in other threads are simply callers. `invalidate` and `clear`
have no caller in the program and are left out.

**Feed.** The chips are one switch (`category`), and there is one community, one author and one user to mute; the lists of
followed users and of communities are empty or not (`known`). A request is a record: the question, put together from the
filters of that moment as `_gatherFilterParams` does, and the posts `browse_posts` found below the cursor, read when it is
asked. The answer step works on the state of *its* moment: `ApplyAnswer`, `MoreAnswer`, `PollAnswer`. Asking again for the
filters replaces the record in `apply` (the abort controller); `more` and `polls` cannot be taken back. Posts are numbered
by (creation time, id), so that `p < cursor` is the keyset condition. `loadMore` sends the number of posts shown as offset
beside the cursor; whenever `lastCursor` is null and more may come it is 0, so that the server never pages by it, but
it refuses one above 2000 (`TooFar`). A refusal has a JSON body without posts: `MoreRefused` reads it as an empty last page,
`ApplyRefused` as a feed without posts, and a poll as nothing new, while a request that fails leaves the feed alone
(`MoreFails`, `ApplyFails`). Other refusals, a gateway's for example, are not of the code's making; the model takes them at any
time and notes which kind ended the feed (`cut`). `base` is what the first page of the feed was asked and given, and
`patched` says that since then an answer came in that was not for this feed: a page asked for before the filters changed,
a poll over a filtered feed, one that is older than what is shown, or one that had the end of the feed cut off
(`FeedMax`). `patched`, `own`, `base` and `cut` are history. Polls are asked every 30 s and when the page is seen again
(`discover.js:412`), so that two can be out. The page load
(`FeedInit`) shows what was asked for before the filters were known, so that a page about one category with filters of the
session begins as `patched`. Its request may be refused, or fail inside the `applyFilters` that init waits for; without
that a failed request ends init, and the page with it. The effect on the chips may follow it (`timer`), in spite of the comment at
`discover.js:232-233`: effects run after the code that changed the store, and by then they have been enabled.

**Pages.** A job is a list (one producer at a time, which `OneProducer` of `TtlCache` establishes), a request for the sitemap, or
the warm task. `pc` follows the code: `pool` and `make` are the two looks of `_get_pool`, `conn` is `getconn`, `query` the
statement, `join` what the sitemap reads from PostgreSQL afterwards. A connection is alive or dead; an outage kills all of
them, idle ones are handed out dead, an operational error throws one away and any other error gives it back. A pool keeps
`MinConn` idle connections and refuses when `MaxConn` are out. `session` says what a swallowed error of an enumeration
did: nothing, no connection yet (`late`), or a transaction that stays aborted (`broken`). `degraded` is history. The clock
counts halves of a sitemap's lifetime; the pause of the warm task is one half. A `Tick` waits for the builds under way,
since these take minutes at most. `Evict` is the FIFO of the cache, which puts the sitemap first in line, for a `put` of an
existing key keeps its place. uvicorn finishes the requests before the lifespan ends, so that only a thread of the warm
task outlives `Shutdown`, and makes a second pool.

**Reports.** A request holds its database connection from `Lookup` to its end. A post that was deleted and saved again has
another id. `NodeFails` goes to the next node; the first answer counts for the keys, whatever it is, and a reputation
nobody knows is let through. The INSERT waits for an uncommitted one with the same key, the DELETE for an uncommitted report
on the row, as PostgreSQL does. `CommitFails` is a COMMIT without an answer, taken or not. `accepted` is history.

**Categories.** A centroid is the number of the training it came from, and a training is any outcome of votes (`Agreed`) over
the labelled posts; refinement and contrast change vectors, never which categories there are. `Boot` seeds the tree, or
fails to, and stores the centroids of the image, or fails to, if none can be read from the database; the worker seeds the tree
as well at the start of each generation (`WorkerBoot`). `Answers` is the choice by scores
with threshold, margin and boost; ties may fall any way. `Save` writes the categories of a post and creates the missing
ones. The queries are operators over the state: `Resolve`, `Matches`, `Page` with the lateral join, and `NextCursor`; the
reference they are checked against is the set of all matching posts in order (`After`).

**Seeder.** The queue is the code's, with an end marker; a put is blocked while there is no `Room`. `known` are the keys of
`all_posts`, `seen` those not to be queued again, `labels` the number of labels of a post. A save is two steps, since
`write_text` empties the file first: a torn file (`Torn`) holds no label at all and stops `--resume`. `best` is the most any
checkpoint has held of each label, and `cutShort` that the script ended while it wrote the file; both are history. `Kill` and
`Exit` forget all but the file. `Interrupt` is a Ctrl-C in one of the two join loops; elsewhere it is a `Kill`. The ways to
start are the options: fresh, `--resume`, `--incremental`.

## 3. The runs

All expected results below are those of `tlc -config X.cfg M`.

| Run | Properties | Expected |
|---|---|---|
| `backfill` | `TypeOK`, `NoRowSkipped`, `ExploreAfterCatchup`, `BlipsNeverKill`, `KeepsPromise`, `WalkEnds` | pass |
| `worker` | `TypeOK`, `GracefulReturnLosesNothing`, `OverlapMeansCovered`, `StopEndsStream`, `HungStreamTornDown`, `BatchIsWorkedOff` | pass |
| `worker_sigterm` | `NoRestartAfterSigterm` | violated |
| `posts` | `TypeOK`, `CountExact`, `MarkedIsMapped` | pass |
| `blacklist` | `TypeOK`, `VerdictNotStale`, `SweepIsComplete`, `ListedArePurged` | pass |
| `feed` | `FeedTypeOK`, `FeedAnswersFilter`, `EachPostOnce` | pass |
| `cache` | `TypeOK`, `StoreBounded`, `OneProducer`, `NeverOlder`, `ExpiredGoFirst`, `Served` | pass |
| `pages` | `TypeOK`, `OnePool`, `SitemapKept` | pass |
| `pages_incident` | `IncidentNotMasked` | violated |
| `reports` | `TypeOK`, `AcceptedIsStored`, `Answered` | pass |
| `categories` | `TypeOK`, `FoundByCategory`, `PagesAreComplete` | pass |
| `seeder` | `SeederTypeOK`, `SavedLabelsSurvive`, `EndsIfItFits` | pass |

Four configurations more show that what the properties of passing runs except does happen. Each checks one property that
states what the repository says without the exception, and TLC finds it violated; "What the violations show" goes through them.

| Configuration | Property, violated | The exception it is about |
|---|---|---|
| `MCWorkerHang.cfg` (module `MCWorker`) | `HungStreamReconnected` | a failed `close()`, in `HungStreamTornDown` |
| `MCPostStoreCount.cfg` (`MCPostStore`) | `ListedHavePosts` | `tainted`, in `CountExact` |
| `MCFeedScroll.cfg` (`MCFeed`) | `ScrollingIsEndless` | `cut`, in `EachPostOnce` |
| `MCSeederInterrupt.cfg` (`MCSeeder`) | `InterruptIsSafe` | `cutShort`, in `SavedLabelsSurvive` |

What the properties of the later modules say: `EachPostOnce`, that a feed without foreign answers is in order without
duplicates, that nothing the server had for the first page is passed over (`NoGap`), and that scrolling goes on until
all of it is shown (`Complete`), if no error has ended the feed. `CountExact`, that a count differs from the number of posts
only by the call between its two commits, in a community that is not `tainted`. `OnePool`, that the pools not closed are
the current one, and it keeps to its limit, over cold starts, outages and a shutdown with a thread under way.
`SitemapKept`, that a complete sitemap gives way only to an eviction, the end of the process, builds that fail, or one
built in a session that was `late`. `AcceptedIsStored`, that a report answered with 201 is in the table as long as its post
is, was accepted once, and goes with its post. `Answered`, that requests do not lock up over connections and INSERTs.
`FoundByCategory`, that a post is found by each of its categories and by their parents, with whatever tree is cached.
`PagesAreComplete`, that the pages by cursor make up the whole result, for each set of authors, either order and each
limit. `SavedLabelsSurvive`, that what a checkpoint has held is in the file, over saves, resumes and crashes, except while
the file is being written and after the script has ended in the middle of that. `EndsIfItFits`, that the three threads end
once the unlabelled posts of the checkpoint have got into the queue, unless the targeted pass fills it, which nobody
empties then.

### Bounds, and why they are enough

* `MCBackfill`: three rows, one in the first second and two in the second, so that a page of one ends inside a second; page
  sizes 2 (catch-up) and 1; three ticks, so that a walk can find a frontier of an earlier one and rows above and below
  it. `GenRetryLimit` is the code's own 3. The retry counters and the clock are the only counters.
* `MCWorker`: three posts in two blocks of three, batches of two, a cursor interval of two: a batch that is full, one that is
  old, one that is cut off by a stop. `StartLag = IndexLag = 1`.
* `MCPostStore`: three posts, one of a community, one whose versions name either community, one of none, by two authors; a
  cache of one entry, so that the second community evicts the first; one slip (`MaxSlips`), a commit that is lost or goes
  unanswered or an update that moves a post. The two savers are interchangeable (symmetry; the run checks invariants only).
* `MCBlacklist`: two authors on pages of one, so that the table changes between pages; a TTL of two ticks and calls of up to
  one; any authors may be listed at first; one change of the list; one fault among failed calls, garbled answers, cut-off
  sweeps and crashes.
* `MCTtlCache`: one guarded key and two others in a store of two, so that the guarded entry, and its lock, can be pushed out
  while callers wait; three callers; entries that live for one tick; two versions of the source.
* `MCFeed`: three posts on pages of one, so that a feed has three pages and a page can be full, last or empty; the third is
  saved while the page is open; a feed of at most two, so that a poll can cut it; polls ask for two, and two of them may
  be out (`MaxPolls`). The last two posts share a second, as `created > newestCreated` tells. The server accepts offsets up to
  one (`MaxOffset`), so that the page after the second is refused as that after the 2000th post is. Two changes in any
  order by the user, or of the lists: enough to switch a filter while the answer to the one before is out, and to mute
  somebody between. Any number of pages and polls.
* `MCPages`: two lists, one visitor and the warm task, four jobs over a pool of at most two connections that keeps one: it can
  be exhausted, and connections can be alive or dead. A process makes one pool and, after its shutdown, one more. Nothing
  else is bounded: outages, evictions and restarts come as often as they like. A second visitor would build the sitemap
  beside the first as the warm task does.
* `MCReports`: three requests of one user about one post for two connections, so that one has to wait and two can report at
  once; a rate limit of two; a post that may be saved twice (`MaxIds`).
* `MCCategories`: two categories of two parents, two labelled posts and three models for a majority; similarities 0 to 3 with a
  threshold of 2; three posts of two authors, two of them of one second, on pages of one or two, the lateral join from two
  authors on. One training: what a second does is said below.
* `MCSeeder`: four posts, the last of which is poor and comes later, on pages of three; a queue of two, so that three
  unlabelled posts do not fit; two query errors end the fetcher; a checkpoint every two posts; two starts in any of the three
  ways over one file, one start in `MCSeederInterrupt.cfg`. The targeted pass finds up to two posts: one fits with the end marker,
  two do not.

Deadlock is not checked where the model ends by itself: the backfill thread ends, the chain and the clock are bounded, a
saver without a post waits, a feed that is at its end has nothing to do.

### Fairness, and why the code justifies it

* `backfill`: weak fairness of the thread's own steps (the thread runs) and of a reconnect that succeeds; strong fairness of
  a query that succeeds: the retries are without limit, so that a HAFSQL that comes back now and then is asked often
  enough. `Tick`, `Publish`, errors, stops and crashes are not fair.
* `worker`: weak fairness of the stream's loop, the main thread and the watchdog (each is a thread), and of new blocks. No
  fairness of failures, signals, or a hung call that returns by itself.
* `cache`: weak fairness of each caller whose turn it is: the event loop runs every task that can run, and producers end,
  since each of their requests has a timeout. Waiters of an `asyncio.Lock` are served in order, which is the queue itself.
* `blacklist`: weak fairness of time, of the savers' steps after they have begun, and of the sweep, which comes round every
  day. New posts are not forced to come.

* `reports`: strong fairness of each request: nodes answer or time out, the database answers, and the pool and PostgreSQL's
  locks serve whoever waits, if others keep coming too. Posts and new requests are not forced to come.
* `seeder`: weak fairness of each of the three threads. A `put` that is blocked is not enabled, and no other fairness helps
  it. Ctrl-C, kills, restarts and new posts are not fair; HAFSQL and the model answer, if only with an error.

`Feed`, `Pages`, `Categories` and `PostStore` have no fairness: nothing they promise is about the end.

### What the violations show

* `NoRestartAfterSigterm`: after "graceful shutdown via SIGTERM" (`main.py:48`) `run` calls `_stream` again.
* `IncidentNotMasked`: the docstring of `get_recent_posts_for_seo` (`crud.py:893-900`) says that a HAFSQL failure propagates
  and is never masked as a cached empty page. `get_posts_titles_and_excerpts` turns every failure into no titles
  (`hafsql.py:329-331`), and the empty list is cached for five minutes. It takes no outage: a third job at a pool of two is
  enough, a sixth at the real one.
* `HungStreamReconnected`: the watchdog logs that it is "forcing reconnect" (`stream.py:121`). If `rpc.close()` raises, that is
  swallowed and the thread returns (123-127): the stream hangs on, unwatched, until the process is killed; a SIGTERM only
  sets the stop event, which a hung stream does not look at.
* `ListedHavePosts`: `get_available_communities` "Get communities that have posts" (`crud.py:995`) by `post_count > 0`. The
  first thread to meet a community marks it as persisted and then writes the mapping (`classify.py:346-350`); a second that
  finds the mark saves a post in between, and its UPDATE of the count meets no row. The mapping then says 0. No call
  has failed, hence `faults = 0` in the property. Edits that move a post do the same to two communities (`crud.py:177-178`).
* `ScrollingIsEndless`: "more posts load automatically as you scroll down" (`README.md:135` of the repository). The offset sent
  beside the cursor (`rendering.js:284`) is refused above 2000 (`ui.py:1270`, `1308`), and the error's body is read as an
  empty last page (285-293): with `PAGE_SIZE` 60 the feed ends, without a word, with 2040 posts shown.
* `InterruptIsSafe`: "Interrupt safely with Ctrl-C" (`seed_categories.py:14`). Main saves five seconds after a Ctrl-C at the
  latest, and exits; a classifier that gets its answer only then may begin a checkpoint of its own, and is cut off, being a
  daemon thread, inside `write_text`. The backups of `README.md:201` are made before the centroids are written, not before a
  checkpoint is. A kill at that place does the same, which nothing written denies (`cutShort`).

### Other places where the text and the code differ

No run is about these; each can be read off the model named.

* `backfill.py:35-36` says the frontier is advanced only while exploring; the code saves it after every batch (`Persist`), so that
  the first batch of a catch-up moves it up to almost NOW, and a restart in the middle of a catch-up takes the rest of the
  gap for explored history. (The README of the repository, line 225, describes the code as it is.)
* `main.py:73-75` says the catch-up covers what the stream skips; posts between the walk's NOW and the start block are covered
  by neither. `OverlapMeansCovered` says under which condition they are.
* README line 145 says the Following toggle shows only followed users' posts. `pollNewPosts` checks the filters before it asks
  (`rendering.js:411`) and adds the answer to the feed of whatever filters there are by then (430); `loadMore` does the
  same with its page. What is added stays until the filters are applied again (`patched` in `Feed`).
* `main.py:130-131` says the sitemap "never goes cold under live traffic". It does when the cache is full, being the oldest entry,
  and after twelve hours of failed builds (the exceptions of `SitemapKept`).
* `seed_categories.py:1574` sends the user to `./deploy.sh up` "to rebuild with new seeds baked in", and README line 37 says the
  centroids are uploaded. They are baked in, but `Boot` and `WorkerBoot` prefer the centroids in the database, where those
  of the first training stay.
* `seed_categories.py:1423` calls the drain of the overflow "now safe". If the fetcher's end marker gets into the
  queue before the rest, the classifier ends there and main is blocked in `put` for ever; `fetch_targeted` fills a
  queue nobody empties yet. Hence the condition and the exception of `EndsIfItFits`. And a post queued between a
  timeout of `get` and the look at `fetch_done` stays behind.
* `--incremental` ("Fetch only new posts (skip checkpointed)") starts from the newest post and labels checkpointed posts again,
  whose labels then count twice. Posts of the targeted pass are labelled but never join `all_posts`.
* `reports.py:117` answers "You have already reported this post" also when the post was deleted during the request.
* With an offset, pages of the lateral join come up short (`crud.py:570-578`); the feed pages by cursor.

## 4. The proofs

TLAPS proves these for all values of the constants that satisfy the assumptions named in the modules, which TLC evaluates in
the runs: `SizeAssumption` and `CreatedAssumption` (`Backfill`), `CacheAssumption`, `ChainAssumption` and `LagAssumption`
(`Worker`), `StoreAssumption`, `BlacklistAssumption`, `PagesAssumption`, `ReportsAssumption`, `CategoriesAssumption`,
`FeedAssumption`, `SeederAssumption`. They say that sizes are numbers, that sets that are counted are finite, that the
numbering of posts or rows agrees with their times, and that names for "none" are not members. Two carry more:
`BlacklistAssumption` has a call's timeout below the TTL (5 s and six hours in the code), and `ChainAssumption` a chain with
a first block.

Every module proves `Spec => []IInv` for an inductive invariant `IInv` that is defined, with its reasons, at its head
(`FeedIInv` and `SeederIInv` at the head of the second parts); the theorems follow from it. Below, what each `IInv` adds to
the properties and why they do not stand by themselves.

**`BackfillProofs`** proves `TypeCorrect`, `NoRowIsSkipped`, `CatchupCoversGap`, `BlipsDoNotKill` and `Refinement`.
`NoRowSkipped` ("an owed row is below the cursor or in the batch in hand") is not inductive. The next query replaces the
batch, so the batch before must have been worked off by then unless a stop cut it short, in which case the thread will not
query again (`Drained`); a row published late must not become owed (`SnapshotSeen`); `Persist` reads the creation time
of the row under the cursor (`CursorOnRow`). With these, `QueryEffect` is the heart of it: whatever is visible below the
old cursor and not in the batch is below the batch, hence below the new cursor, its least row. `ExploreAfterCatchup` then
follows from the monotony of `Created`: an owed row above the frontier would be below a cursor that is at or below it.
`BlipsNeverKill` rests on `CounterAgrees`, the agreement of the counter with the number of errors since the last success.
`Refinement` maps `pc` and `Owed` to the abstract walk, step by step; the end of the walk needs `NoRowSkipped`, since with
no visible row below the cursor and nothing in hand nothing is owed.

**`TtlCacheProofs`** proves `TypeCorrect`, `StoreIsBounded`, `CallersCoalesce`, `ServesNothingOlder`, `LiveOutlastsExpired`
and `RoomyStoreCoalesces`. `StoreBounded` needs that a full store has an oldest entry to evict: `older` is a strict order
(`InsertionOrder`), and a strict order on a finite, non-empty set has a least element (`OldestExists`, by
well-foundedness). `OneProducer` needs that any two callers at one lock are ordered (`InLine`), that callers without the
current lock belong to keys marked `orphaned` (`LostLock`), and that a producer has nobody in front (`Busy`). `NeverOlder`
follows from `Absent`: while a producer of a guarded key runs, the store has no entry of that key it could replace.
`RoomyStoreCoalesces` removes the exception: if all keys fit, nothing is evicted and no lock gets lost.

**`WorkerProofs`** proves `TypeCorrect`, `GracefulReturn` and `StreamMeetsWalk`. Both safety properties speak of moments; the
invariant accounts for every post at all of them. What the stream has read since its start is decided, in the batch or
dropped (`StreamAccounts`), and after draining the batch is empty (`Drained`), hence `GracefulReturn`. What is below the
walk's floor is decided or owed (`WalkAccounts`); a post is on one side of the floor or, if the stream starts no later than
that, on the other (`StreamMeetsWalk`). `FlushEffect` says of each of the three ways `_process_batch` ends that no post of
the batch gets lost. `CountIsOfRead` bounds the post count by what was read. The walk inside `Worker` is an instance of
`Walk` by definition; that the backfill thread is such a walk is `Refinement` above.

**`PostStoreProofs`** proves `TypeCorrect`, `CountIsExact`, `MarkedMeansMapped` and `CallsExclude`. `CountExact` has a correction
for the call between its two commits. It is inductive only if that call is alone (`OneCall`, the lock of `_DB.run`), if the
thread has a post and a community in its hands (`InHand`), and if a sweep that is through owes nothing (`NothingOwed`). The
steps of the counting call, of the deletion and of the second commits have a lemma each (`SaveCounted`, `CountCounted`,
`DeleteCounted`, `UncountCounted`), over cardinalities of the community's posts. `TypeOK` contains that the cache of
communities keeps its bound and has no duplicates, which `EvictionBoundsCache` shows for the slice the code evicts.

**`BlacklistProofs`** proves `TypeCorrect`, `NoStaleVerdict` and `PagesMissNobody`. `VerdictNotStale` follows from a stronger
statement without the TTL: a verdict that is wrong is at least as old as the change that made it wrong (`VerdictsWereTrue`),
since an answer on its way that is wrong has been so for no longer than the call takes (`AnswersWereTrue`), and the
code notes the time before the call. `SweepIsComplete` is about `LIMIT`/`OFFSET`: while the sweep reads, whoever was there
at its start and ranks within the offset has been collected (`Collects`). Newcomers only raise ranks (`RankGrows`), so the
next page takes up no later than where the last one ended, and an empty page is the end since ranks have no gap
(`EmptyPageIsTheEnd`, by the pigeonhole argument of `NoMoreThanRanks`).

**`PagesProofs`** proves `TypeCorrect`, `PoolIsOne`, `OnlyWarmIsLeft` and `CompleteSitemapIsKept`. That a second pool is never
made beside connections of a first depends on who can be on the way when there is none: before the shutdown, everybody
with a connection has one of the current pool (`OnCurrentPool`); after it, only the warm task's thread is left
(`OnlyWarmOutlives`). The limit needs that what is given back was out (`InHand`, `IdleBounded`) and counts the jobs at
a pool (`UsedMoves`). The action property `SitemapKept` needs that a build that swallowed an error is not whole
(`WholeIsFine`), and that the warm task comes round before the sitemap runs out (`WarmInTime`).

**`ReportsProofs`** proves `TypeCorrect`, `AcceptedReportsAreStored`, `UncommittedIsAlone` and `PoolIsRespected`. What is
accepted was inserted before, and what matters is the state between INSERT and COMMIT (`Uncommitted`): the row cannot be
deleted, nobody has the same key and nobody else is about to. Ids are used once (`IdsUsedOnce`), so that an old acceptance
is never taken for one of a row that came back.

**`CategoriesProofs`** proves `TypeCorrect`, `PostsAreFound` and `PagesPassOverNothing`. `FoundByCategory` needs what holds before
the tree is seeded: a leaf is absent, has no parent yet, or is in its place (`NeverMisplaced`). Seeding then mends the
second, and nothing the worker saves moves a category afterwards (`SeededIsPlanted`). `PagesAreComplete` holds in every
state of the right types; its proof is about orders. The newest `n` of a set are those with fewer than `n` before them
(`First`); their number is `n` unless the set is smaller (`FirstIsFull`, since places have no gap), and the first of a part are
among the first of the whole (`FirstOfPart`). With these the lateral join, the first rows of the first rows of each
author, is the first rows of all (`PageIsFirst`), and what follows the cursor of a full page is what is not on it
(`CursorOfFull`).

The proofs of `Feed` and `Seeder` are the second parts of `PagesProofs` and `CategoriesProofs`: the feed is what visitors load,
like the pages, and the labels are what categories are trained with. Both share `Orders`: by `InOrderFacts`, `InOrder(S)`
lists each member of a finite set once and newest first, since every rank below the size of the set is that of one member
(`RanksStrict`, `RanksTaken`); `NewestFacts` says that the newest `n` are `n` unless they are all, and newer than the rest.

**`Feed`** (in `PagesProofs`): `FeedInvariant`, `FeedKeepsTypes`, `FeedAnswers` and `FeedOnce`. Neither property is
inductive, since both speak of the feed between answers. `QuestionPart` says that a question knows what it asked: its posts
are of its selection, and the server still has them. `FilterPart` follows the last change of the filters from the timer to
the question of `applyFilters` and to the feed; this is where taking an earlier question back matters, and `FeedAnswers`
follows. `OwnPart` and `CursorPart` are about scrolling: a page that was asked for below the feed shown stays a page of this
feed only if no other is on its way, and then its posts are all below the cursor, those shown at or above it, and those the
first page had below the cursor are all in the answer. What is not shown is below what is (`NoGap`), and below a cursor that
still leads on (`Complete`), unless an error has ended the feed, and then `noMore` is set. So joining keeps the order
(`Joined`), and the new cursor, the least post of a full page (`PageFacts`), again has everything that is not shown below it.
A poll puts in front what is newer than everything the first page had, so that it is above the cursor too: this is why
`CursorPart` keeps that some post of the first page is at or above the cursor, even when all that were shown are muted by now
(`WithoutFacts`). `FeedTypeStep` needs `NextCursor` to be a post, hence that a full page is not empty: `PAGE_SIZE` is not 0.

**`Seeder`** (in `CategoriesProofs`): `SeederInvariant`, `SeederTypes` and `LabelsSurvive`. `SavedLabelsSurvive` follows from
`SavedPart`: memory has at least the labels any checkpoint has held, from the load on; a torn checkpoint, which has none, is
not read, is there only while it is written or after an end inside the write, and whoever saves writes memory. The bound on
the labels in `SeederTypeOK` is the hard part: a post may be in the overflow, in the queue, in the classifier's hand, or
still to come from HAFSQL, and `Due` counts these ways. `LabelPart` says that labels and ways are at most two per start of
the script, one from the checkpoint and one from HAFSQL. It needs that the fetcher passes each post at most once (its cursor
is never above the rows in hand), that the queue holds a prefilled post once (`CountOnce`, over `InOrderFacts`), and that the
targeted pass asks only for posts the broad pass has not noted, all of which still have two to spare. `CountPut` and the
lemmas around it count an element in a sequence that grows at one end and shrinks at the other. `StagePart` ties the stages
of main to the threads that are still on: without it a late fetcher could fill the queue of the targeted pass.

`FeedAssumption` and `SeederAssumption` ask for positive sizes and limits (as `PAGE_SIZE`, `ALL_POSTS_MAX` and the queue's
`maxsize` are), for selections that are sets of posts, and in `Feed` for a numbering that agrees with the posts' times.

Only model-checked: all liveness (`WalkEnds`, `StopEndsStream`, `HungStreamTornDown`, `BatchIsWorkedOff`, `ListedArePurged`,
`Served`, `Answered`, `EndsIfItFits`), since fairness and `ENABLED` are out of this prover's reach. Every invariant and every
action property that a passing run checks is a theorem, and so is the refinement of `Walk`, in its safety part.

## 5. Plan

The order follows the weight of what can go wrong: first what decides which posts the system knows (done), then what it
stores about them and what it shows.

1. Done: `Walk`, `Backfill`, `LiveStream`, `Worker`, `PostStore`, `Blacklist`, `TtlCache`, with the proofs of `Backfill` and
   `TtlCache`; `Feed`.
2. Done: `Seeder`, `Categories`, `Reports`, `Pages`, from the seeds a category comes from to the pages that show it.
3. Done: the proofs of `Worker`, `PostStore`, `Blacklist`, `Pages`, `Reports` and `Categories`: every safety property of theirs
   that a run expects to pass, and `SitemapKept`.
4. Done: the proofs of `Seeder` and `Feed`, with lemmas on ordering, joining and filtering of sequences that were pages.
5. Later: `Social` (`social.js`, `auth.js`, `voting.js`, `notifications.js`), the lists against late and failed answers and
   against logout; in `Feed` the rest of the state: `fetchMeta`, the back button, deep links, curation.

## 6. Not modelled

Texts, vectors, prompts and what a score is; language detection and sentiment; HTML and style; cryptography of signatures;
the image proxy and the prerender service, which keep no state of interest; schema migrations, which run before anything
else; the heartbeat file; the browser's editor, dialogs and requests for lists and votes; `deploy.sh` but for `up`; logging.
HAFSQL, the Hive nodes, the language model and the blacklist API appear as environment actions only, as the code uses them.
