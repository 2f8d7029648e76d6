------------------------------- MODULE Worker -------------------------------
(***************************************************************************)
(* The worker process (src/project/worker/main.py): run() calls _stream()  *)
(* for ever; each call is a generation with a stop_event, a backfill       *)
(* thread, a sweep thread and the live stream in the main thread.  The     *)
(* backfill thread is the abstract walk of module Walk, which Backfill     *)
(* implements; the live stream is module LiveStream.  The sweep thread     *)
(* deletes posts and decides nothing; it is the subject of Blacklist.      *)
(***************************************************************************)
EXTENDS Integers, LiveStream

CONSTANTS StartLag,  \* how far the block the node reports may trail the head
          IndexLag   \* how many blocks HAFSQL may trail the head

ASSUME LagAssumption == StartLag \in Nat /\ IndexLag \in Nat

VARIABLES
  mpc,         \* where the main thread is
  sigterm,     \* the process has been sent SIGTERM
  connecting,  \* the backfill thread is there and has not begun its walk
  status,      \* the walk of the backfill thread
  owed,
  floor        \* history: the walk owed every post in the blocks below this one

W == INSTANCE Walk WITH Rows <- Posts

main == <<mpc, sigterm>>
walkVars == <<connecting, status, owed, floor>>
vars == <<liveVars, mpc, sigterm, connecting, status, owed, floor>>

MainControl == {"boot", "hello", "live", "exiting"}

TypeOK ==
  /\ LiveTypeOK
  /\ mpc \in MainControl
  /\ sigterm \in BOOLEAN /\ connecting \in BOOLEAN
  /\ status \in {"idle", "running", "complete"}
  /\ owed \in SUBSET Posts
  /\ floor \in 0 .. MaxBlock

Init ==
  /\ LiveInit
  /\ mpc = "boot" /\ sigterm = FALSE
  /\ W!Init /\ connecting = FALSE /\ floor = 0

\* The backfill thread is gone.
EndWalk == W!Abort /\ connecting' = FALSE /\ floor' = 0

-----------------------------------------------------------------------------
(* The main thread *)

\* _stream up to the start of the threads, once there are centroids.  Without
\* them _stream returns and run calls it again, which changes nothing here.
Boot ==
  /\ mpc = "boot"
  /\ mpc' = "hello" /\ stop' = FALSE /\ connecting' = TRUE
  /\ UNCHANGED <<head, lpc, hung, watchdog, loop, liveCursor, verdicts,
                 sigterm, status, owed, floor>>

\* Ask a node for its current block and stream from there.
GoLive ==
  /\ mpc = "hello" /\ ~stop
  /\ \E block \in Blocks :
       /\ block <= head /\ head <= block + StartLag
       /\ OpenStream(block)
  /\ mpc' = "live"
  /\ UNCHANGED <<head, stop, liveCursor, decided, sigterm, walkVars>>

\* No node answers, or stop_event is already set.
SkipStream ==
  /\ mpc = "hello"
  /\ mpc' = "exiting" /\ stop' = TRUE
  /\ UNCHANGED <<head, lpc, hung, watchdog, loop, liveCursor, verdicts,
                 sigterm, walkVars>>

\* The stream returned or raised: the finally block stops the threads.
LeaveStream ==
  /\ mpc = "live" /\ lpc \in {"returned", "failed"}
  /\ mpc' = "exiting" /\ stop' = TRUE
  /\ CloseStream
  /\ UNCHANGED <<head, liveCursor, decided, sigterm, walkVars>>

\* join(timeout) on the threads, then db.close().  A backfill thread that has
\* outlived the join finds the database's event loop closed: it decides
\* nothing any more.  run() goes round, whether _stream returned or raised.
CloseDb ==
  /\ mpc = "exiting"
  /\ mpc' = "boot"
  /\ EndWalk
  /\ UNCHANGED <<liveVars, sigterm>>

\* The handler sets the stop_event of the generation that installed it.  While
\* _stream boots there is no handler yet, and the signal kills the process, or
\* an old one, whose stop_event nobody looks at any more.
Sigterm ==
  /\ mpc # "boot"
  /\ sigterm' = TRUE /\ stop' = TRUE
  /\ UNCHANGED <<head, lpc, hung, watchdog, loop, liveCursor, verdicts, mpc,
                 walkVars>>

\* The process is killed, and its container started again.
Crash ==
  /\ mpc' = "boot" /\ sigterm' = FALSE
  /\ stop' = FALSE
  /\ CloseStream /\ EndWalk
  /\ UNCHANGED <<head, liveCursor, decided>>

-----------------------------------------------------------------------------
(* The backfill thread *)

\* The walk takes NOW and will owe what HAFSQL shows below it.
BeginWalk ==
  /\ connecting /\ connecting' = FALSE
  /\ W!Begin
  /\ floor' \in {head - lag : lag \in 0 .. IndexLag} \cap (0 .. MaxBlock)
  /\ owed' = {p \in Posts : BlockOf[p] < floor'}
  /\ UNCHANGED <<liveVars, main>>

SettleWalk ==
  /\ W!Settle /\ owed' # owed
  /\ decided' = decided \cup (owed \ owed')
  /\ UNCHANGED <<head, stop, lpc, hung, watchdog, loop, liveCursor, dropped,
                 main, connecting, floor>>

CompleteWalk == W!Complete /\ UNCHANGED <<liveVars, main, connecting, floor>>

\* The thread sees stop_event, or dies of an error.
AbortWalk ==
  /\ connecting \/ status = "running"
  /\ EndWalk
  /\ UNCHANGED <<liveVars, main>>

Next ==
  \/ LiveNext /\ mpc = "live" /\ UNCHANGED <<main, walkVars>>
  \/ ProduceBlock /\ mpc # "live" /\ UNCHANGED <<main, walkVars>>
  \/ Boot \/ GoLive \/ SkipStream \/ LeaveStream \/ CloseDb
  \/ Sigterm \/ Crash
  \/ BeginWalk \/ SettleWalk \/ CompleteWalk \/ AbortWalk

Spec == Init /\ [][Next]_vars

\* Each thread takes the steps it can; the chain goes on, and replies reach
\* the loop; the watchdog's clock runs.  Nothing forces a failure, a signal or
\* a hang.
FairSpec ==
  /\ Spec
  /\ WF_vars(LoopStep /\ mpc = "live" /\ UNCHANGED <<main, walkVars>>)
  /\ WF_vars(ProduceBlock /\ UNCHANGED <<main, walkVars>>)
  /\ WF_vars(WatchdogFires /\ mpc = "live" /\ UNCHANGED <<main, walkVars>>)
  /\ WF_vars(Boot) /\ WF_vars(GoLive \/ SkipStream)
  /\ WF_vars(LeaveStream) /\ WF_vars(CloseDb)

-----------------------------------------------------------------------------
(* Properties *)

(* A stream that leaves on the shutdown signal leaves nothing behind: each *)
(* post it read has a verdict or was deliberately dropped, in an outage or *)
(* after the signal (the "Flush remaining" of stream.py:173-175).          *)
GracefulReturnLosesNothing ==
  lpc = "returned" =>
    \A p \in Posts : BlockOf[p] >= start /\ p < next => p \in decided \cup dropped

(* If the live stream starts no later than the floor of a walk that        *)
(* completes, the two meet: no post of the chain so far is missed by both. *)
(* This is what main.py:73-75 counts on when it skips to the head block.   *)
OverlapMeansCovered ==
  status = "complete" /\ lpc \in Streaming /\ start <= floor =>
    \A p \in Posts : p < next => p \in decided \cup batch \cup dropped

(* A shutdown request gets the stream to leave, unless its fetch hangs.    *)
StopEndsStream == stop /\ mpc = "live" ~> mpc # "live" \/ hung

(* A hung fetch is torn down while the watchdog is there, unless a         *)
(* shutdown was requested, on which the watchdog leaves, or its close()    *)
(* raises, which it swallows on its way out (stream.py:123-127).           *)
HungStreamTornDown ==
  hung /\ watchdog = "watching" ~> ~hung \/ stop \/ watchdog = "failed"

(* The log line's claim: "Stream appears hung [...] forcing reconnect"     *)
(* (stream.py:121).  A watchdog that sees a hung stream gets it going      *)
(* again, unless a shutdown was requested.                                 *)
HungStreamReconnected == hung /\ watchdog = "watching" ~> ~hung \/ stop

(* A post does not sit in the batch for ever as long as later posts come:  *)
(* the flush is driven by arrivals only (stream.py:162).                   *)
BatchIsWorkedOff ==
  \A p \in 1 .. NPosts - BatchSize : p \in batch ~> p \notin batch \/ hung

(* The comment's claim: "Graceful shutdown via SIGTERM" (main.py:48).  A   *)
(* worker that was told to shut down starts no new generation.             *)
NoRestartAfterSigterm ==
  [][ sigterm /\ sigterm' => ~(mpc = "boot" /\ mpc' = "hello") ]_vars
=============================================================================
