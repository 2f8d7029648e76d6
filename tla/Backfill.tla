------------------------------ MODULE Backfill ------------------------------
(***************************************************************************)
(* The backfill thread of the worker (src/project/worker/backfill.py): it  *)
(* walks HAFSQL's top-level posts from NOW backwards in batches, paginated *)
(* by the keyset (created, author, permlink), and classifies every row the *)
(* database does not hold yet.                                             *)
(*                                                                         *)
(* A row stands for one HAFSQL row that passes the query's own filters     *)
(* (top-level, not deleted, long enough).  Rows are numbered in the        *)
(* query's ORDER BY, so that comparing two rows compares their keysets;    *)
(* Created gives the block second, which several rows may share.           *)
(***************************************************************************)
EXTENDS Naturals, FiniteSets

CONSTANTS NRows,         \* number of rows the chain will ever show
          Created,       \* Created[r]: the second row r's block was produced
          MaxTime,       \* bound on the clock
          CatchupBatch,  \* LIMIT while catching up (_CATCHUP_BATCH)
          BackfillBatch  \* LIMIT while exploring (_BACKFILL_BATCH)

Rows == 1 .. NRows
Time == 1 .. MaxTime

ASSUME SizeAssumption ==
  /\ NRows \in Nat
  /\ MaxTime \in Nat \ {0}
  /\ CatchupBatch \in Nat \ {0}
  /\ BackfillBatch \in Nat \ {0}

\* The numbering of the rows agrees with the keyset order.
ASSUME CreatedAssumption ==
  /\ Created \in [Rows -> Time]
  /\ \A r, s \in Rows : r < s => Created[r] <= Created[s]

\* The retry limit of non-connection errors: `if gen_retries > 3: raise`.
GenRetryLimit == 3

VARIABLES
  \* The outside world
  now,         \* wall clock
  fate,        \* fate[r]: "future", "visible" or "deleted" in HAFSQL
  saved,       \* stream_cursors[_BACKFILL_CURSOR_KEY], 0 when absent
  stop,        \* stop_event
  \* The thread
  pc,          \* where the thread is
  conn,        \* the HAFSQL connection: "up" or "down"
  frontier,    \* saved timestamp read at the start of the walk, 0 for None
  catchingUp,  \* the phase
  cursor,      \* keyset cursor: the next query asks for rows below it
  todo,        \* rows of the current batch the loop has not reached
  genRetries,  \* gen_retries
  \* History, read by no action
  snapshot,    \* rows the walk could see below NOW when it started
  decided,     \* rows the walk has reached a decision on
  genErrors    \* non-connection errors since the last query that succeeded

env == <<now, fate>>
walk == <<conn, frontier, catchingUp, cursor, todo, genRetries>>
history == <<snapshot, decided, genErrors>>
vars == <<now, fate, saved, stop, pc, conn, frontier, catchingUp,
          cursor, todo, genRetries, snapshot, decided, genErrors>>

Walking == {"query", "dedup", "rows", "persist"}
Control == {"idle", "connect", "load", "complete"} \cup Walking

TypeOK ==
  /\ now \in Time
  /\ fate \in [Rows -> {"future", "visible", "deleted"}]
  /\ saved \in Time \cup {0}
  /\ stop \in BOOLEAN
  /\ pc \in Control
  /\ conn \in {"up", "down"}
  /\ frontier \in Time \cup {0}
  /\ catchingUp \in BOOLEAN
  /\ cursor \in 1 .. NRows + 1
  /\ todo \in SUBSET Rows
  /\ genRetries \in 0 .. GenRetryLimit
  /\ snapshot \in SUBSET Rows
  /\ decided \in SUBSET Rows
  /\ genErrors \in 0 .. GenRetryLimit + 1

Visible == {r \in Rows : fate[r] = "visible"}

Init ==
  /\ now = 1
  /\ fate = [r \in Rows |-> "future"]
  /\ saved = 0
  /\ stop = FALSE
  /\ pc = "idle" /\ conn = "down"
  /\ frontier = 0 /\ catchingUp = FALSE /\ cursor = 1
  /\ todo = {} /\ genRetries = 0
  /\ snapshot = {} /\ decided = {} /\ genErrors = 0

-----------------------------------------------------------------------------
(* The outside world *)

Tick ==
  /\ now < MaxTime
  /\ now' = now + 1
  /\ UNCHANGED <<fate, saved, stop, pc, walk, history>>

\* HAFSQL indexes a block some time after it was produced.
Publish(r) ==
  /\ fate[r] = "future" /\ Created[r] <= now
  /\ fate' = [fate EXCEPT ![r] = "visible"]
  /\ UNCHANGED <<now, saved, stop, pc, walk, history>>

\* The author deletes the post on chain: the query no longer returns it.
Retract(r) ==
  /\ fate[r] = "visible"
  /\ fate' = [fate EXCEPT ![r] = "deleted"]
  /\ UNCHANGED <<now, saved, stop, pc, walk, history>>

\* The worker sets stop_event, on SIGTERM or on its way out.
RequestStop ==
  /\ pc \in Walking \cup {"connect", "load"}
  /\ ~stop /\ stop' = TRUE
  /\ UNCHANGED <<env, saved, pc, walk, history>>

-----------------------------------------------------------------------------
(* The thread *)

\* The worker starts the thread, with a fresh stop_event.
Start ==
  /\ pc \in {"idle", "complete"}
  /\ pc' = "connect" /\ conn' = "down" /\ stop' = FALSE
  /\ genRetries' = 0 /\ genErrors' = 0
  /\ todo' = {} /\ snapshot' = {} /\ decided' = {}
  /\ UNCHANGED <<env, saved, frontier, catchingUp, cursor>>

\* The thread leaves without having finished: its frames are gone.
Leave ==
  /\ pc' = "idle"
  /\ UNCHANGED <<env, saved, stop, walk, history>>

\* The first connection is retried for ever; only stop_event ends the loop.
Connect ==
  /\ pc = "connect" /\ ~stop
  /\ pc' = "load" /\ conn' = "up"
  /\ UNCHANGED <<env, saved, stop, frontier, catchingUp, cursor, todo,
                 genRetries, history>>

StopConnecting == pc = "connect" /\ stop /\ Leave

\* Mutant: the phase decided upside down.
HasFrontier_negated == saved = 0

HasFrontier == saved # 0

\* Read the saved frontier and start from NOW.  (NOW, "", "") sorts just
\* below every row of the current second.
Load ==
  /\ pc = "load"
  /\ pc' = "query"
  /\ frontier' = saved
  /\ catchingUp' = HasFrontier
  /\ cursor' \in 1 .. NRows + 1
  /\ \A r \in Rows : r < cursor' <=> Created[r] < now
  /\ snapshot' = {r \in Visible : Created[r] < now}
  /\ decided' = {}
  /\ UNCHANGED <<env, saved, stop, conn, todo, genRetries,
                 genErrors>>

Limit == IF catchingUp THEN CatchupBatch ELSE BackfillBatch

\* Mutant: pagination by the timestamp alone.
BelowCursor_bareTimestamp(r) ==
  r < cursor /\ (cursor \in Rows => Created[r] < Created[cursor])
\* Mutant: the tail row of one batch is the head row of the next.
BelowCursor_inclusive(r) == r <= cursor

\* (c.created, c.author, c.permlink) < (cursor)
BelowCursor(r) == r < cursor

\* ORDER BY ... DESC LIMIT n over the rows below the cursor.
IsBatch(batch) ==
  LET below == {r \in Visible : BelowCursor(r)}
  IN  /\ batch \subseteq below
      /\ batch # {}
      /\ \A r \in batch, s \in below \ batch : s < r
      /\ Cardinality(batch) <= Limit
      /\ batch = below \/ Cardinality(batch) = Limit

\* The query returns rows: the cursor moves to the tail row, and catch-up ends
\* when the tail is at or below the frontier.
Query ==
  /\ pc = "query" /\ ~stop /\ conn = "up"
  /\ \E batch \in SUBSET Visible :
       /\ IsBatch(batch)
       /\ todo' = batch
       /\ cursor' \in batch
       /\ \A r \in batch : cursor' <= r
  /\ catchingUp' = (catchingUp /\ Created[cursor'] > frontier)
  /\ genRetries' = 0 /\ genErrors' = 0
  /\ pc' = "dedup"
  /\ UNCHANGED <<env, saved, stop, conn, frontier, snapshot, decided>>

\* Mutant: a batch shorter than LIMIT is taken for the end.
NoRowsLeft_shortBatch == Cardinality({r \in Visible : BelowCursor(r)}) < Limit

NoRowsLeft == \A r \in Visible : ~BelowCursor(r)

\* An empty result: the walk has reached the end of history.
ReachEnd ==
  /\ pc = "query" /\ ~stop /\ conn = "up"
  /\ NoRowsLeft
  /\ pc' = "complete"
  /\ genRetries' = 0 /\ genErrors' = 0
  /\ UNCHANGED <<env, saved, stop, conn, frontier, catchingUp, cursor, todo,
                 snapshot, decided>>

\* The tail row has no usable timestamp: the thread gives up on the walk.
MalformedTail ==
  /\ pc = "query" /\ ~stop /\ conn = "up"
  /\ ~NoRowsLeft
  /\ Leave

\* Mutant: one retry counter for both kinds of error.
ConnectionError_sharedCounter ==
  /\ pc = "query" /\ ~stop
  /\ conn' \in {"up", "down"}
  /\ genRetries' \in {genRetries + 1} \cap 0 .. GenRetryLimit
  /\ UNCHANGED <<env, saved, stop, pc, frontier, catchingUp, cursor, todo,
                 history>>

\* OperationalError or InterfaceError: back off, reconnect, try again.  The
\* reconnect may fail too; the closed connection then fails the next query.
\* None of this counts towards the limit below.
ConnectionError ==
  /\ pc = "query" /\ ~stop
  /\ conn' \in {"up", "down"}
  /\ UNCHANGED <<env, saved, stop, pc, frontier, catchingUp, cursor, todo,
                 genRetries, history>>

\* Mutant: the limit compared before the increment.
TooManyErrors_offByOne == genRetries > GenRetryLimit

TooManyErrors == genRetries + 1 > GenRetryLimit

\* Any other error of the query.
QueryError ==
  /\ pc = "query" /\ ~stop /\ conn = "up"
  /\ genErrors' = genErrors + 1
  /\ IF TooManyErrors
     THEN pc' = "idle" /\ UNCHANGED genRetries
     ELSE genRetries' = genRetries + 1 /\ UNCHANGED pc
  /\ UNCHANGED <<env, saved, stop, conn, frontier, catchingUp, cursor, todo,
                 snapshot, decided>>

StopWalking == pc = "query" /\ stop /\ Leave

\* Ask the database once, for the whole batch, which posts it already has.
\* The answer only sorts the rows into those to skip and those to classify.
Dedup ==
  /\ pc = "dedup"
  /\ pc' = "rows"
  /\ UNCHANGED <<env, saved, stop, walk, history>>

\* One iteration of the row loop decides the next row: it is in the database
\* already, or the blacklist, the reputation or the content filters drop it,
\* or it is saved, or it fails with an exception the loop logs and swallows.
ProcessRow(r) ==
  /\ pc = "rows" /\ ~stop
  /\ r \in todo /\ \A s \in todo : s <= r
  /\ todo' = todo \ {r}
  /\ decided' = decided \cup {r}
  /\ UNCHANGED <<env, saved, stop, pc, conn, frontier, catchingUp, cursor,
                 genRetries, snapshot, genErrors>>

\* The loop is done, or breaks on stop_event.
EndRows ==
  /\ pc = "rows" /\ (todo = {} \/ stop)
  /\ pc' = "persist"
  /\ UNCHANGED <<env, saved, stop, walk, history>>

\* The cursor is saved after every batch, whatever became of the loop; then
\* the thread pauses and goes round again.
Persist ==
  /\ pc = "persist"
  /\ saved' = Created[cursor]
  /\ pc' = "query"
  /\ UNCHANGED <<env, stop, walk, history>>

\* Reading or writing the worker's own database raises outside any try block.
DatabaseError == pc \in {"load", "dedup", "persist"} /\ Leave

\* The worker process goes away.
Crash == pc # "idle" /\ Leave

Next ==
  \/ Tick
  \/ \E r \in Rows : Publish(r) \/ Retract(r)
  \/ RequestStop \/ Start
  \/ Connect \/ StopConnecting \/ Load
  \/ Query \/ ReachEnd \/ MalformedTail \/ ConnectionError \/ QueryError
  \/ StopWalking
  \/ Dedup \/ (\E r \in Rows : ProcessRow(r)) \/ EndRows \/ Persist
  \/ DatabaseError \/ Crash

Spec == Init /\ [][Next]_vars

\* The thread keeps running, HAFSQL does not stay unreachable for ever, and a
\* query that keeps being tried is eventually answered.
ThreadSteps ==
  \/ Connect \/ StopConnecting \/ Load \/ StopWalking
  \/ Dedup \/ (\E r \in Rows : ProcessRow(r)) \/ EndRows \/ Persist

Reconnect == ConnectionError /\ conn' = "up"

FairSpec ==
  /\ Spec
  /\ WF_vars(ThreadSteps) /\ WF_vars(Reconnect)
  /\ SF_vars(Query) /\ SF_vars(ReachEnd)

-----------------------------------------------------------------------------
(* Properties *)

\* Rows the running walk must still decide.
Owed == IF pc \in Walking
        THEN {r \in snapshot : fate[r] = "visible" /\ r \notin decided}
        ELSE {}

(* No row falls between two batches: a row the walk could see when it      *)
(* started, and that is still on chain, has been decided, is still ahead   *)
(* of the cursor, or belongs to the current batch.  Batches that split a   *)
(* block second, rows appearing late and retries must not break it         *)
(* (the keyset of backfill.py:84-97).  A stop_event may cut a batch short, *)
(* after which the walk ends.                                              *)
NoRowSkipped ==
  pc \in Walking =>
    \A r \in Owed : r < cursor \/ r \in todo

(* Connection errors must not use up the limit on query errors: the thread *)
(* dies at a query only after four query errors with no success in         *)
(* between (the split counters of backfill.py:105-111).                    *)
BlipsNeverKill ==
  [][ pc = "query" /\ pc' = "idle" /\ ~stop /\ genErrors' # genErrors
        => genErrors' > GenRetryLimit ]_vars

(* Catch-up covers the whole gap since the last frontier before the thread *)
(* slows down to explore: once the phase is over, no row above the saved   *)
(* frontier is owed outside the batch in hand (backfill.py:187-190).       *)
ExploreAfterCatchup ==
  pc \in Walking /\ ~catchingUp =>
    \A r \in Owed : Created[r] <= frontier \/ frontier = 0 \/ r \in todo

(* A walk does not go on for ever: it reaches the end of HAFSQL or its     *)
(* thread is gone.                                                         *)
WalkEnds == pc \in Walking ~> pc \in {"idle", "complete"}

(* The batches, cursors and retries of the thread implement the abstract   *)
(* walk; in particular the "reached end of HAFSQL posts -- done" exit       *)
(* (backfill.py:169-171) is taken only when every row owed was decided.     *)
WalkStatus == CASE pc \in Walking -> "running"
                [] pc = "complete" -> "complete"
                [] OTHER -> "idle"
Promise == INSTANCE Walk WITH status <- WalkStatus, owed <- Owed
KeepsPromise == Promise!Spec
=============================================================================
