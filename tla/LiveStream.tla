----------------------------- MODULE LiveStream -----------------------------
(***************************************************************************)
(* The live stream of the worker (src/project/worker/stream.py): one call  *)
(* of _stream_range in live mode reads the chain's operations from a start *)
(* block on, collects top-level posts in a batch, and processes a batch    *)
(* when it is full or old.  A watchdog thread tears down a stream that has *)
(* gone quiet.                                                             *)
(*                                                                         *)
(* Posts are numbered in chain order; BlockOf gives the block, which is    *)
(* also the tick of the clock at which it is produced.  Replies only pass  *)
(* through the loop: they never flush a batch, but they do let the loop    *)
(* look at stop_event.                                                     *)
(***************************************************************************)
EXTENDS Naturals, FiniteSets

CONSTANTS NPosts,     \* number of top-level posts the chain will ever hold
          BlockOf,    \* BlockOf[p]: the block of post p
          MaxBlock,   \* bound on the chain's head
          BatchSize,  \* _BATCH_SIZE
          Interval    \* _CURSOR_UPDATE_INTERVAL

Posts == 1 .. NPosts
Blocks == 1 .. MaxBlock

ASSUME ChainAssumption ==
  /\ NPosts \in Nat /\ MaxBlock \in Nat \ {0}
  /\ BatchSize \in Nat \ {0} /\ Interval \in Nat \ {0}
  /\ BlockOf \in [Posts -> Blocks]
  /\ \A p, q \in Posts : p < q => BlockOf[p] <= BlockOf[q]

VARIABLES
  head,        \* the chain's head block
  stop,        \* stop_event of the current worker generation
  lpc,         \* where the stream loop is
  hung,        \* the call that fetches blocks does not come back
  watchdog,    \* the watchdog thread: there or not, or gone after a failed close()
  start,       \* start block
  next,        \* the next post the stream will yield
  batch,       \* the batch: top-level posts read and not processed
  lastBlock,   \* last_block
  postCount,   \* post_count
  liveCursor,  \* stream_cursors[_CURSOR_KEY], 0 when absent
  decided,     \* history: posts some thread has reached a verdict on
  dropped      \* history: posts this stream read and threw away

loop == <<start, next, batch, lastBlock, postCount>>
verdicts == <<decided, dropped>>
liveVars == <<head, stop, lpc, hung, watchdog, start, next, batch, lastBlock,
              postCount, liveCursor, decided, dropped>>

Streaming == {"reading", "checking", "flushed"}
LiveControl == Streaming \cup {"off", "draining", "exitCursor", "returned", "failed"}
WatchdogStates == {"off", "watching", "failed"}

LiveTypeOK ==
  /\ head \in Blocks
  /\ stop \in BOOLEAN /\ hung \in BOOLEAN /\ watchdog \in WatchdogStates
  /\ lpc \in LiveControl
  /\ start \in 0 .. MaxBlock
  /\ next \in 1 .. NPosts + 1
  /\ batch \in SUBSET Posts
  /\ lastBlock \in 0 .. MaxBlock
  /\ postCount \in 0 .. NPosts
  /\ liveCursor \in 0 .. MaxBlock
  /\ decided \in SUBSET Posts
  /\ dropped \in SUBSET Posts

LiveInit ==
  /\ head = 1
  /\ stop = FALSE
  /\ lpc = "off" /\ hung = FALSE /\ watchdog = "off"
  /\ start = 0 /\ next = 1 /\ batch = {} /\ lastBlock = 0 /\ postCount = 0
  /\ liveCursor = 0
  /\ decided = {} /\ dropped = {}

ProduceBlock ==
  /\ head < MaxBlock
  /\ head' = head + 1
  /\ UNCHANGED <<stop, lpc, hung, watchdog, loop, liveCursor, verdicts>>

\* Mutant: the stream starts behind the start block.
FirstPost_afterBlock(p, block) == \A q \in Posts : q < p <=> BlockOf[q] <= block

FirstPost(p, block) == \A q \in Posts : q < p <=> BlockOf[q] < block

\* _stream_range(start = block, stop = None).
OpenStream(block) ==
  /\ lpc' = "reading" /\ hung' = FALSE /\ watchdog' = "watching"
  /\ start' = block /\ lastBlock' = block
  /\ next' \in 1 .. NPosts + 1
  /\ FirstPost(next', block)
  /\ batch' = {} /\ postCount' = 0 /\ dropped' = {}

\* _stream_range is left, or its process is gone: so are its frames.
CloseStream ==
  /\ lpc' = "off" /\ hung' = FALSE /\ watchdog' = "off"
  /\ start' = 0 /\ next' = 1 /\ batch' = {} /\ lastBlock' = 0
  /\ postCount' = 0 /\ dropped' = {}

-----------------------------------------------------------------------------
(* The loop over the operations *)

\* The stream yields a top-level post.
ReadPost ==
  /\ lpc = "reading" /\ ~hung /\ ~stop
  /\ next \in Posts /\ BlockOf[next] <= head
  /\ next' = next + 1 /\ lastBlock' = BlockOf[next]
  /\ batch' = batch \cup {next}
  /\ lpc' = "checking"
  /\ UNCHANGED <<head, stop, hung, watchdog, start, postCount, liveCursor,
                 verdicts>>

MustFlush == Cardinality(batch) >= BatchSize

\* _process_batch: every post of the batch gets a verdict -- saved, filtered,
\* or failed with a logged exception -- and the number of those that went
\* through the classifier is returned.
ProcessBatch ==
  /\ decided' = decided \cup batch
  /\ \E n \in 0 .. Cardinality(batch) : postCount' = postCount + n
  /\ UNCHANGED dropped

\* Neither HAFSQL nor the Hive API knows any reputation: the batch is skipped.
SkipBatch ==
  /\ dropped' = dropped \cup batch
  /\ UNCHANGED <<decided, postCount>>

\* Mutant: the batch is not emptied.
Flush_noReset == (ProcessBatch \/ SkipBatch) /\ UNCHANGED batch

Flush == (ProcessBatch \/ SkipBatch) /\ batch' = {}

\* The batch is full, or older than _BATCH_TIMEOUT.
FlushBatch ==
  /\ lpc = "checking"
  /\ Flush
  /\ lpc' = "flushed"
  /\ UNCHANGED <<head, stop, hung, watchdog, start, next, lastBlock, liveCursor>>

KeepBatch ==
  /\ lpc = "checking" /\ ~MustFlush
  /\ lpc' = "reading"
  /\ UNCHANGED <<head, stop, hung, watchdog, loop, liveCursor, verdicts>>

\* The cursor is saved when the count happens to be a multiple of Interval.
AfterFlush ==
  /\ lpc = "flushed"
  /\ liveCursor' = IF postCount % Interval = 0 /\ postCount > 0
                   THEN lastBlock ELSE liveCursor
  /\ lpc' = "reading"
  /\ UNCHANGED <<head, stop, hung, watchdog, loop, verdicts>>

\* Mutant: stop_event is looked at only for top-level posts.
SeeStop_onlyAtPosts ==
  /\ lpc = "reading" /\ ~hung /\ stop
  /\ next \in Posts /\ BlockOf[next] <= head
  /\ next' = next + 1 /\ dropped' = dropped \cup {next}
  /\ lpc' = "draining" /\ watchdog' = "off"
  /\ UNCHANGED <<head, stop, hung, start, batch, lastBlock, postCount,
                 liveCursor, decided>>

\* Some operation arrives after stop_event was set; it is not processed, even
\* when it is a top-level post.
SeeStop ==
  /\ lpc = "reading" /\ ~hung /\ stop
  /\ \/ UNCHANGED <<next, dropped>>
     \/ /\ next \in Posts /\ BlockOf[next] <= head
        /\ next' = next + 1 /\ dropped' = dropped \cup {next}
  /\ lpc' = "draining" /\ watchdog' = "off"
  /\ UNCHANGED <<head, stop, hung, start, batch, lastBlock, postCount,
                 liveCursor, decided>>

\* Mutant: the rest of the batch is forgotten on the way out.
Drain_forgets ==
  /\ lpc = "draining"
  /\ batch' = {} /\ UNCHANGED <<postCount, verdicts>>
  /\ lpc' = "exitCursor"
  /\ UNCHANGED <<head, stop, hung, watchdog, start, next, lastBlock, liveCursor>>

\* Flush remaining.
Drain ==
  /\ lpc = "draining"
  /\ IF batch # {} THEN Flush ELSE UNCHANGED <<batch, postCount, verdicts>>
  /\ lpc' = "exitCursor"
  /\ UNCHANGED <<head, stop, hung, watchdog, start, next, lastBlock, liveCursor>>

\* Save cursor on exit.
ExitCursor ==
  /\ lpc = "exitCursor"
  /\ liveCursor' = IF lastBlock > start THEN lastBlock ELSE liveCursor
  /\ lpc' = "returned"
  /\ UNCHANGED <<head, stop, hung, watchdog, loop, verdicts>>

\* An exception leaves the loop from wherever it is: the stream broke, or the
\* database failed under the flush or the cursor.  What was in the batch is
\* gone.
StreamFails ==
  /\ lpc \in Streaming \cup {"draining", "exitCursor"} /\ ~hung
  /\ lpc' = "failed" /\ watchdog' = "off" /\ batch' = {}
  /\ UNCHANGED <<head, stop, hung, start, next, lastBlock, postCount,
                 liveCursor, verdicts>>

-----------------------------------------------------------------------------
(* The watchdog *)

Hang ==
  /\ lpc = "reading" /\ ~hung
  /\ hung' = TRUE
  /\ UNCHANGED <<head, stop, lpc, watchdog, loop, liveCursor, verdicts>>

\* Mutant: the activity time is only compared while a batch is processed.
WatchdogWatches_flushOnly == Streaming \ {"reading"}

WatchdogWatches == Streaming

\* No operation for _STREAM_TIMEOUT: the watchdog closes the connection and
\* ends.  Either the blocked call comes back, with an exception or after a
\* reconnect, or close() raises, which is swallowed, and all stays as it is.  A
\* flush that takes that long looks the same to it.
WatchdogFires ==
  /\ watchdog = "watching" /\ lpc \in WatchdogWatches
  /\ \/ /\ watchdog' = "off" /\ hung' = FALSE
        /\ \/ UNCHANGED <<lpc, batch>>
           \/ lpc = "reading" /\ lpc' = "failed" /\ batch' = {}
     \/ watchdog' = "failed" /\ UNCHANGED <<hung, lpc, batch>>
  /\ UNCHANGED <<head, stop, start, next, lastBlock, postCount, liveCursor,
                 verdicts>>

\* On the shutdown signal the watchdog leaves, whether or not the stream is
\* hung.
WatchdogLeaves ==
  /\ watchdog = "watching" /\ stop
  /\ watchdog' = "off"
  /\ UNCHANGED <<head, stop, lpc, hung, loop, liveCursor, verdicts>>

LoopStep ==
  \/ ReadPost \/ FlushBatch \/ KeepBatch \/ AfterFlush
  \/ SeeStop \/ Drain \/ ExitCursor

LiveNext ==
  \/ ProduceBlock \/ LoopStep \/ StreamFails
  \/ Hang \/ WatchdogFires \/ WatchdogLeaves
=============================================================================
