---------------------------- MODULE WorkerProofs ----------------------------
(***************************************************************************)
(* Proofs about the worker process: the live stream beside the backfill    *)
(* thread's walk, for a chain of any length, any batch size and any lag of *)
(* the nodes and of HAFSQL.                                                *)
(***************************************************************************)
EXTENDS Worker, FiniteSetTheorems, TLAPS

(* The inductive invariant.  A post the stream has read is decided, in the *)
(* batch or dropped (StreamAccounts), and the batch is empty once the      *)
(* stream has drained it.  A post below the walk's floor is decided or     *)
(* owed (WalkAccounts).  Where the floor is not below the stream's start   *)
(* the two leave no gap.                                                   *)
StreamAccounts ==
  lpc \notin {"off", "failed"} =>
    \A p \in Posts :
      BlockOf[p] >= start /\ p < next => p \in decided \cup batch \cup dropped
WalkAccounts ==
  /\ status = "running" => \A p \in Posts : BlockOf[p] < floor => p \in decided \cup owed
  /\ status = "complete" => \A p \in Posts : BlockOf[p] < floor => p \in decided
Drained == lpc \in {"exitCursor", "returned"} => batch = {}
(* Posts are counted at most once each. *)
CountIsOfRead == postCount + Cardinality(batch) < next

IInv == TypeOK /\ StreamAccounts /\ WalkAccounts /\ Drained /\ CountIsOfRead

LEMMA InitIInv == Init => IInv
<1> SUFFICES ASSUME Init PROVE IInv
  OBVIOUS
<1> USE ChainAssumption DEF Init, LiveInit, W!Init
<1>1. TypeOK
  <2>1. head \in Blocks /\ 0 \in 0 .. MaxBlock /\ 1 \in 1 .. NPosts + 1 /\ 0 \in 0 .. NPosts
    BY DEF Blocks
  <2> QED BY <2>1 DEF TypeOK, LiveTypeOK, LiveControl, WatchdogStates, MainControl
<1>2. StreamAccounts /\ WalkAccounts /\ Drained
  BY DEF StreamAccounts, WalkAccounts, Drained
<1>3. CountIsOfRead
  BY FS_EmptySet DEF CountIsOfRead
<1> QED BY <1>1, <1>2, <1>3 DEF IInv

-----------------------------------------------------------------------------
(* The batch *)

LEMMA BatchFinite ==
  ASSUME IInv
  PROVE  IsFiniteSet(batch) /\ Cardinality(batch) \in Nat
<1>1. IsFiniteSet(Posts) /\ batch \subseteq Posts
  BY ChainAssumption, FS_Interval DEF Posts, IInv, TypeOK, LiveTypeOK
<1> QED BY <1>1, FS_Subset, FS_CardinalityType

(* A flush empties the batch and accounts for every post of it. *)
LEMMA FlushEffect ==
  ASSUME IInv, Flush
  PROVE  /\ batch' = {} /\ decided' \in SUBSET Posts /\ dropped' \in SUBSET Posts
         /\ decided \subseteq decided'
         /\ decided \cup batch \cup dropped \subseteq decided' \cup dropped'
         /\ postCount' \in Nat /\ postCount' <= postCount + Cardinality(batch)
<1>1. /\ batch \in SUBSET Posts /\ decided \in SUBSET Posts /\ dropped \in SUBSET Posts
      /\ postCount \in Nat
  BY ChainAssumption DEF IInv, TypeOK, LiveTypeOK
<1>2. CASE ProcessBatch
  <2>1. PICK n \in 0 .. Cardinality(batch) : postCount' = postCount + n
    BY <1>2 DEF ProcessBatch
  <2>2. postCount' \in Nat /\ postCount' <= postCount + Cardinality(batch)
    BY <1>1, <2>1, BatchFinite
  <2> QED BY <1>1, <1>2, <2>2 DEF Flush, ProcessBatch
<1>3. CASE SkipBatch
  <2>1. postCount' \in Nat /\ postCount' <= postCount + Cardinality(batch)
    BY <1>1, <1>3, BatchFinite DEF SkipBatch
  <2> QED BY <1>1, <1>3, <2>1 DEF Flush, SkipBatch
<1> QED BY <1>2, <1>3 DEF Flush

-----------------------------------------------------------------------------
(* The steps of the live stream *)

Live == LiveNext /\ mpc = "live" /\ UNCHANGED <<main, walkVars>>

(* The stream's half of the invariant, by what a step does to the batch.   *)
Half == LiveTypeOK /\ StreamAccounts /\ Drained /\ CountIsOfRead

LEMMA SameRead ==
  ASSUME IInv, LiveTypeOK', next' = next, start' = start,
         decided \subseteq decided',
         \/ UNCHANGED <<batch, postCount, dropped>>
            /\ (lpc' \in {"off", "failed"} \/ lpc \notin {"off", "failed"})
            /\ (lpc' \in {"exitCursor", "returned"} => batch = {})
         \/ batch' = {} /\ UNCHANGED <<postCount, dropped>> /\ lpc' \in {"off", "failed"}
         \/ Flush /\ lpc \notin {"off", "failed"}
  PROVE  Half'
<1>1. next \in Nat /\ postCount \in Nat /\ next' \in Nat /\ postCount' \in Nat
  BY ChainAssumption DEF IInv, TypeOK, LiveTypeOK
<1>2. CASE UNCHANGED <<batch, postCount, dropped>>
           /\ (lpc' \in {"off", "failed"} \/ lpc \notin {"off", "failed"})
           /\ (lpc' \in {"exitCursor", "returned"} => batch = {})
  BY <1>2 DEF Half, StreamAccounts, Drained, CountIsOfRead, IInv
<1>3. CASE batch' = {} /\ UNCHANGED <<postCount, dropped>> /\ lpc' \in {"off", "failed"}
  <2>1. CountIsOfRead'
    BY <1>1, <1>3, BatchFinite, FS_EmptySet DEF CountIsOfRead, IInv
  <2> QED BY <1>3, <2>1 DEF Half, StreamAccounts, Drained
<1>4. CASE Flush /\ lpc \notin {"off", "failed"}
  <2>1. CountIsOfRead'
    <3>1. /\ batch' = {} /\ Cardinality(batch') = 0
          /\ postCount' <= postCount + Cardinality(batch)
      BY <1>4, FlushEffect, FS_EmptySet
    <3>2. postCount + Cardinality(batch) < next /\ Cardinality(batch) \in Nat
      BY BatchFinite DEF CountIsOfRead, IInv
    <3> QED BY <1>1, <3>1, <3>2 DEF CountIsOfRead
  <2>2. StreamAccounts'
    BY <1>4, FlushEffect DEF StreamAccounts, IInv
  <2> QED BY <1>4, <2>1, <2>2, FlushEffect DEF Half, Drained
<1> QED BY <1>2, <1>3, <1>4

LEMMA ReadPostHalf ==
  ASSUME IInv, ReadPost PROVE Half'
<1>1. /\ next \in Posts /\ next \in Nat /\ next' = next + 1 /\ postCount \in Nat
      /\ next' \in 1 .. NPosts + 1
  BY ChainAssumption DEF IInv, TypeOK, LiveTypeOK, ReadPost, Posts
<1>2. LiveTypeOK'
  <2>1. lastBlock' \in 0 .. MaxBlock
    BY <1>1, ChainAssumption DEF ReadPost, Blocks
  <2>2. batch' \in SUBSET Posts
    BY <1>1 DEF ReadPost, IInv, TypeOK, LiveTypeOK
  <2> QED BY <1>1, <2>1, <2>2
      DEF ReadPost, LiveTypeOK, IInv, TypeOK, LiveControl, Streaming, verdicts
<1>3. StreamAccounts'
  <2>1. ASSUME NEW p \in Posts, BlockOf[p] >= start, p < next + 1
        PROVE  p = next \/ p < next
    BY <1>1, <2>1 DEF Posts
  <2> QED BY <1>1, <2>1 DEF StreamAccounts, ReadPost, IInv, verdicts
<1>4. CountIsOfRead'
  <2>1. Cardinality(batch') \in Nat /\ Cardinality(batch') <= Cardinality(batch) + 1
    <3>1. batch' = batch \cup {next}
      BY DEF ReadPost
    <3>2. Cardinality(batch \cup {next})
            = IF next \in batch THEN Cardinality(batch) ELSE Cardinality(batch) + 1
      BY BatchFinite, FS_AddElement
    <3> QED BY <3>1, <3>2, BatchFinite
  <2>2. postCount' = postCount
    BY DEF ReadPost
  <2> QED BY <1>1, <2>1, <2>2, BatchFinite DEF CountIsOfRead, IInv
<1>5. Drained'
  BY DEF ReadPost, Drained
<1> QED BY <1>2, <1>3, <1>4, <1>5 DEF Half

LEMMA SeeStopHalf ==
  ASSUME IInv, SeeStop PROVE Half'
<1>1. /\ next \in Nat /\ postCount \in Nat /\ batch' = batch /\ postCount' = postCount
      /\ start' = start /\ decided' = decided /\ lpc = "reading"
  BY ChainAssumption DEF IInv, TypeOK, LiveTypeOK, SeeStop
<1>2. CASE UNCHANGED <<next, dropped>>
  <2>1. LiveTypeOK'
    BY <1>2 DEF SeeStop, LiveTypeOK, IInv, TypeOK, LiveControl, WatchdogStates
  <2> QED BY <1>1, <1>2, <2>1, SameRead DEF SeeStop
<1>3. CASE next \in Posts /\ next' = next + 1 /\ dropped' = dropped \cup {next}
  <2>1. next' \in 1 .. NPosts + 1 /\ dropped' \in SUBSET Posts
    BY <1>1, <1>3, ChainAssumption DEF Posts, IInv, TypeOK, LiveTypeOK
  <2>2. LiveTypeOK'
    BY <2>1 DEF SeeStop, LiveTypeOK, IInv, TypeOK, LiveControl, WatchdogStates
  <2>3. StreamAccounts'
    <3>1. ASSUME NEW p \in Posts, BlockOf[p] >= start, p < next + 1
          PROVE  p = next \/ p < next
      BY <1>1, <3>1 DEF Posts
    <3> QED BY <1>1, <1>3, <3>1 DEF StreamAccounts, IInv
  <2>4. CountIsOfRead'
    BY <1>1, <1>3, BatchFinite DEF CountIsOfRead, IInv
  <2> QED BY <2>2, <2>3, <2>4 DEF Half, Drained, SeeStop
<1> QED BY <1>2, <1>3 DEF SeeStop

LEMMA LiveHalf ==
  ASSUME IInv, Live PROVE Half'
<1> USE DEF LiveTypeOK, LiveControl, WatchdogStates, Streaming, loop, verdicts
<1>1. LiveTypeOK
  BY DEF IInv, TypeOK
<1>2. CASE ProduceBlock
  <2>1. head' \in Blocks
    BY <1>1, <1>2, ChainAssumption DEF ProduceBlock, Blocks
  <2>2. LiveTypeOK' /\ UNCHANGED <<lpc, next, start, decided, batch, postCount, dropped>>
    BY <1>1, <1>2, <2>1 DEF ProduceBlock
  <2> QED BY <2>2 DEF Half, StreamAccounts, Drained, CountIsOfRead, IInv
<1>3. CASE FlushBatch
  <2>1. /\ batch' = {} /\ decided' \in SUBSET Posts /\ dropped' \in SUBSET Posts
        /\ decided \subseteq decided' /\ postCount' \in 0 .. NPosts
    <3>1. postCount' \in Nat /\ postCount' <= postCount + Cardinality(batch)
      BY <1>3, FlushEffect DEF FlushBatch
    <3>2. postCount' <= NPosts
      BY <1>1, <3>1, BatchFinite, ChainAssumption DEF CountIsOfRead, IInv
    <3> QED BY <1>3, <3>1, <3>2, FlushEffect, ChainAssumption DEF FlushBatch
  <2>2. LiveTypeOK'
    BY <1>1, <1>3, <2>1 DEF FlushBatch
  <2> QED BY <1>3, <2>1, <2>2, SameRead DEF FlushBatch
<1>4. CASE KeepBatch
  <2>1. LiveTypeOK'
    BY <1>1, <1>4 DEF KeepBatch
  <2> QED BY <1>4, <2>1, SameRead DEF KeepBatch
<1>5. CASE AfterFlush
  <2>1. LiveTypeOK'
    BY <1>1, <1>5 DEF AfterFlush
  <2> QED BY <1>5, <2>1, SameRead DEF AfterFlush
<1>6. CASE Drain
  <2>1. CASE batch # {}
    <3>1. Flush /\ postCount' \in 0 .. NPosts
      <4>1. postCount' \in Nat /\ postCount' <= postCount + Cardinality(batch)
        BY <1>6, <2>1, FlushEffect DEF Drain
      <4>2. postCount' <= NPosts
        BY <1>1, <4>1, BatchFinite, ChainAssumption DEF CountIsOfRead, IInv
      <4> QED BY <1>6, <2>1, <4>1, <4>2, ChainAssumption DEF Drain
    <3>2. LiveTypeOK'
      BY <1>1, <1>6, <3>1, FlushEffect DEF Drain
    <3> QED BY <1>6, <3>1, <3>2, FlushEffect, SameRead DEF Drain
  <2>2. CASE batch = {}
    <3>1. LiveTypeOK'
      BY <1>1, <1>6, <2>2 DEF Drain
    <3> QED BY <1>6, <2>2, <3>1, SameRead DEF Drain
  <2> QED BY <2>1, <2>2
<1>7. CASE ExitCursor
  <2>1. LiveTypeOK'
    BY <1>1, <1>7 DEF ExitCursor
  <2>2. batch = {}
    BY <1>7 DEF ExitCursor, Drained, IInv
  <2> QED BY <1>7, <2>1, <2>2, SameRead DEF ExitCursor
<1>8. CASE StreamFails
  <2>1. LiveTypeOK'
    BY <1>1, <1>8 DEF StreamFails
  <2> QED BY <1>8, <2>1, SameRead DEF StreamFails
<1>9. CASE Hang \/ WatchdogLeaves
  <2>1. LiveTypeOK' /\ UNCHANGED <<lpc, next, start, decided, batch, postCount, dropped>>
    BY <1>1, <1>9 DEF Hang, WatchdogLeaves
  <2> QED BY <2>1 DEF Half, StreamAccounts, Drained, CountIsOfRead, IInv
<1>10. CASE WatchdogFires
  <2>1. LiveTypeOK'
    BY <1>1, <1>10 DEF WatchdogFires
  <2>2. CASE UNCHANGED <<lpc, batch>>
    BY <1>10, <2>1, <2>2 DEF WatchdogFires, Half, StreamAccounts, Drained, CountIsOfRead, IInv
  <2>3. CASE lpc' = "failed" /\ batch' = {}
    BY <1>10, <2>1, <2>3, SameRead DEF WatchdogFires
  <2> QED BY <1>10, <2>2, <2>3 DEF WatchdogFires
<1> QED
  BY <1>2, <1>3, <1>4, <1>5, <1>6, <1>7, <1>8, <1>9, <1>10, ReadPostHalf, SeeStopHalf
  DEF Live, LiveNext, LoopStep

(* What a step of the live stream never does. *)
LEMMA LiveLeaves ==
  ASSUME IInv, Live
  PROVE  decided \subseteq decided' /\ UNCHANGED <<main, walkVars>>
<1>1. ASSUME Flush PROVE decided \subseteq decided'
  BY <1>1, FlushEffect
<1> QED
  BY <1>1 DEF Live, LiveNext, LoopStep, ProduceBlock, ReadPost, FlushBatch, KeepBatch,
     AfterFlush, SeeStop, Drain, ExitCursor, StreamFails, Hang, WatchdogFires,
     WatchdogLeaves, verdicts

-----------------------------------------------------------------------------
(* The steps of the main thread and of the backfill thread *)

LEMMA WalkHalf ==
  ASSUME IInv, decided \subseteq decided',
         \/ UNCHANGED walkVars
         \/ EndWalk
         \/ SettleWalk
         \/ BeginWalk
         \/ CompleteWalk
  PROVE  WalkAccounts'
<1>1. CASE UNCHANGED walkVars
  BY <1>1 DEF walkVars, WalkAccounts, IInv
<1>2. CASE EndWalk
  BY <1>2 DEF EndWalk, W!Abort, WalkAccounts
<1>3. CASE SettleWalk
  BY <1>3 DEF SettleWalk, W!Settle, WalkAccounts, IInv
<1>4. CASE BeginWalk
  BY <1>4 DEF BeginWalk, W!Begin, WalkAccounts
<1>5. CASE CompleteWalk
  BY <1>5 DEF CompleteWalk, W!Complete, WalkAccounts, IInv
<1> QED BY <1>1, <1>2, <1>3, <1>4, <1>5

(* Main and the walk, as TypeOK wants them. *)
MainTypeOK ==
  /\ mpc \in MainControl /\ sigterm \in BOOLEAN /\ connecting \in BOOLEAN
  /\ status \in {"idle", "running", "complete"}
  /\ owed \in SUBSET Posts /\ floor \in 0 .. MaxBlock

LEMMA WalkEnds ==
  ASSUME EndWalk
  PROVE  /\ status' = "idle" /\ connecting' = FALSE
         /\ owed' \in SUBSET Posts /\ floor' \in 0 .. MaxBlock
<1>1. 0 \in 0 .. MaxBlock
  BY ChainAssumption
<1> QED BY <1>1 DEF EndWalk, W!Abort

LEMMA SameStream ==
  ASSUME IInv, stop' \in BOOLEAN, UNCHANGED <<head, lpc, hung, watchdog, loop, liveCursor>>,
         dropped' = dropped, decided' \in SUBSET Posts, decided \subseteq decided'
  PROVE  Half'
<1>1. LiveTypeOK'
  BY DEF IInv, TypeOK, LiveTypeOK, loop
<1> QED BY <1>1 DEF Half, StreamAccounts, Drained, CountIsOfRead, IInv, loop

LEMMA Reset ==
  ASSUME IInv, head' \in Blocks, stop' \in BOOLEAN, liveCursor' = liveCursor,
         decided' = decided, CloseStream
  PROVE  Half'
<1>1. 0 \in 0 .. MaxBlock /\ 1 \in 1 .. NPosts + 1 /\ 0 \in 0 .. NPosts
  BY ChainAssumption
<1>2. LiveTypeOK'
  BY <1>1 DEF IInv, TypeOK, LiveTypeOK, CloseStream, LiveControl, WatchdogStates
<1>3. CountIsOfRead'
  BY FS_EmptySet DEF CloseStream, CountIsOfRead
<1> QED BY <1>2, <1>3 DEF Half, StreamAccounts, Drained, CloseStream

LEMMA GoLiveHalf ==
  ASSUME IInv, GoLive
  PROVE  Half' /\ decided' = decided /\ UNCHANGED walkVars
<1>1. PICK block \in Blocks : OpenStream(block)
  BY DEF GoLive
<1>2. /\ block \in 0 .. MaxBlock /\ next' \in 1 .. NPosts + 1 /\ 0 \in 0 .. NPosts
      /\ block \in Nat
  BY <1>1, ChainAssumption DEF OpenStream, Blocks
<1>3. LiveTypeOK'
  BY <1>1, <1>2 DEF OpenStream, GoLive, IInv, TypeOK, LiveTypeOK, LiveControl, WatchdogStates,
     Streaming
<1>4. StreamAccounts'
  <2>1. ASSUME NEW p \in Posts, BlockOf[p] >= block, p < next' PROVE FALSE
    <3>1. BlockOf[p] < block
      BY <1>1, <2>1 DEF OpenStream, FirstPost
    <3> QED BY <1>2, <2>1, <3>1, ChainAssumption DEF Blocks
  <2> QED BY <1>1, <2>1 DEF StreamAccounts, OpenStream
<1>5. CountIsOfRead'
  BY <1>1, <1>2, FS_EmptySet DEF CountIsOfRead, OpenStream
<1> QED
  BY <1>1, <1>3, <1>4, <1>5 DEF Half, Drained, OpenStream, GoLive

LEMMA NextIInv == IInv /\ [Next]_vars => IInv'
<1> DEFINE Good == Half' /\ MainTypeOK' /\ WalkAccounts'
<1> SUFFICES ASSUME IInv, [Next]_vars PROVE Good
  BY DEF IInv, TypeOK, Half, MainTypeOK
<1>1. MainTypeOK /\ LiveTypeOK
  BY DEF IInv, TypeOK, MainTypeOK
<1>2. CASE Live
  BY <1>1, <1>2, LiveHalf, LiveLeaves, WalkHalf DEF MainTypeOK, main, walkVars
<1>3. CASE ProduceBlock /\ mpc # "live" /\ UNCHANGED <<main, walkVars>>
  <2>1. head' \in Blocks
    BY <1>1, <1>3, ChainAssumption DEF ProduceBlock, Blocks, LiveTypeOK
  <2>2. LiveTypeOK' /\ UNCHANGED <<lpc, next, start, decided, batch, postCount, dropped>>
    BY <1>1, <1>3, <2>1 DEF ProduceBlock, LiveTypeOK, loop, verdicts
  <2>3. Half'
    BY <2>2 DEF Half, StreamAccounts, Drained, CountIsOfRead, IInv
  <2> QED BY <1>1, <1>3, <2>2, <2>3, WalkHalf DEF MainTypeOK, main, walkVars
<1>4. CASE Boot
  <2>1. Half' /\ decided' = decided
    BY <1>1, <1>4, SameStream DEF Boot, verdicts, LiveTypeOK
  <2>2. WalkAccounts'
    BY <1>4, <2>1 DEF Boot, WalkAccounts, IInv
  <2> QED BY <1>1, <1>4, <2>1, <2>2 DEF Boot, MainTypeOK, MainControl
<1>5. CASE GoLive
  BY <1>1, <1>5, GoLiveHalf, WalkHalf DEF GoLive, MainTypeOK, MainControl, walkVars
<1>6. CASE SkipStream \/ Sigterm
  <2>1. Half' /\ decided' = decided /\ UNCHANGED walkVars
    BY <1>1, <1>6, SameStream DEF SkipStream, Sigterm, verdicts, LiveTypeOK
  <2> QED BY <1>1, <1>6, <2>1, WalkHalf
          DEF SkipStream, Sigterm, MainTypeOK, MainControl, walkVars
<1>7. CASE LeaveStream
  <2>1. Half' /\ decided' = decided /\ UNCHANGED walkVars
    BY <1>1, <1>7, Reset DEF LeaveStream, LiveTypeOK
  <2> QED BY <1>1, <1>7, <2>1, WalkHalf DEF LeaveStream, MainTypeOK, MainControl, walkVars
<1>8. CASE CloseDb \/ AbortWalk
  <2>1. Half' /\ decided' = decided /\ EndWalk
    BY <1>1, <1>8, SameStream DEF CloseDb, AbortWalk, liveVars, loop, LiveTypeOK
  <2>2. MainTypeOK'
    BY <1>1, <1>8, <2>1, WalkEnds
    DEF CloseDb, AbortWalk, MainTypeOK, MainControl, main
  <2> QED BY <2>1, <2>2, WalkHalf
<1>9. CASE Crash
  <2>1. Half' /\ decided' = decided /\ EndWalk
    BY <1>1, <1>9, Reset DEF Crash, LiveTypeOK
  <2>2. MainTypeOK'
    BY <1>9, <2>1, WalkEnds DEF Crash, MainTypeOK, MainControl
  <2> QED BY <2>1, <2>2, WalkHalf
<1>10. CASE BeginWalk
  <2>1. Half' /\ decided' = decided
    BY <1>1, <1>10, SameStream DEF BeginWalk, liveVars, loop, LiveTypeOK
  <2> QED BY <1>1, <1>10, <2>1, WalkHalf DEF BeginWalk, W!Begin, MainTypeOK, main
<1>11. CASE SettleWalk
  <2>1. decided \subseteq decided' /\ decided' \in SUBSET Posts
    BY <1>1, <1>11 DEF SettleWalk, LiveTypeOK, MainTypeOK
  <2>2. Half'
    BY <1>1, <1>11, <2>1, SameStream DEF SettleWalk, LiveTypeOK
  <2> QED BY <1>1, <1>11, <2>1, <2>2, WalkHalf DEF SettleWalk, W!Settle, MainTypeOK, main
<1>12. CASE CompleteWalk
  <2>1. Half' /\ decided' = decided
    BY <1>1, <1>12, SameStream DEF CompleteWalk, liveVars, loop, LiveTypeOK
  <2> QED BY <1>1, <1>12, <2>1, WalkHalf DEF CompleteWalk, W!Complete, MainTypeOK, main
<1>13. CASE UNCHANGED vars
  <2>1. Half' /\ decided' = decided /\ UNCHANGED walkVars
    BY <1>1, <1>13, SameStream DEF vars, liveVars, loop, LiveTypeOK, walkVars
  <2> QED BY <1>1, <1>13, <2>1, WalkHalf DEF vars, MainTypeOK
<1> HIDE DEF Good
<1> QED
  BY <1>2, <1>3, <1>4, <1>5, <1>6, <1>7, <1>8, <1>9, <1>10, <1>11, <1>12, <1>13
  DEF Next, Live

-----------------------------------------------------------------------------
(* The theorems *)

LEMMA Invariance == Spec => []IInv
BY InitIInv, NextIInv, PTL DEF Spec

(* Type correctness: among it that the stream never counts more posts than *)
(* the chain holds.                                                        *)
THEOREM TypeCorrect == Spec => []TypeOK
<1>1. IInv => TypeOK
  BY DEF IInv
<1> QED BY <1>1, Invariance, PTL

(* A stream that returns on the shutdown signal has decided or             *)
(* deliberately dropped all it read, whatever the batch size and wherever  *)
(* the signal caught it (stream.py:173-175).                               *)
THEOREM GracefulReturn == Spec => []GracefulReturnLosesNothing
<1>1. IInv => GracefulReturnLosesNothing
  BY DEF IInv, StreamAccounts, Drained, GracefulReturnLosesNothing
<1> QED BY <1>1, Invariance, PTL

(* A stream that starts no later than the floor of a completed walk leaves *)
(* no gap to it, for any lag of the nodes and of HAFSQL (main.py:73-75).   *)
THEOREM StreamMeetsWalk == Spec => []OverlapMeansCovered
<1>1. ASSUME IInv, status = "complete", lpc \in Streaming, start <= floor,
             NEW p \in Posts, p < next
      PROVE  p \in decided \cup batch \cup dropped
  <2>1. BlockOf[p] \in Nat /\ start \in Nat /\ floor \in Nat
    BY <1>1, ChainAssumption DEF Blocks, IInv, TypeOK, LiveTypeOK
  <2>2. CASE BlockOf[p] >= start
    BY <1>1, <2>2 DEF IInv, StreamAccounts, Streaming
  <2>3. CASE BlockOf[p] < start
    BY <1>1, <2>1, <2>3 DEF IInv, WalkAccounts
  <2> QED BY <2>1, <2>2, <2>3
<1>2. IInv => OverlapMeansCovered
  BY <1>1 DEF OverlapMeansCovered
<1> QED BY <1>2, Invariance, PTL
=============================================================================
