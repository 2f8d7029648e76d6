--------------------------- MODULE BackfillProofs ---------------------------
(***************************************************************************)
(* Proofs about the backfill walk, for every chain, clock and batch size.  *)
(***************************************************************************)
EXTENDS Backfill, TLAPS

(* The inductive invariant.  NoRowSkipped alone is not inductive: the next *)
(* batch overwrites todo, so a query must only run when the batch before   *)
(* it was worked off (Drained); Persist must find the cursor on a row;     *)
(* rows published later must not become owed (SnapshotSeen); and the retry *)
(* counter must agree with the number of errors it stands for              *)
(* (CounterAgrees).                                                        *)
Drained ==
  pc \in {"connect", "load", "query", "persist"} /\ ~stop => todo = {}
FreshTodo == pc \in {"connect", "load"} => todo = {}
SnapshotSeen == \A r \in snapshot : fate[r] # "future"
CursorOnRow == pc \in {"dedup", "rows", "persist"} => cursor \in Rows
CounterAgrees == pc \in Walking \cup {"connect", "load"} => genErrors = genRetries

IInv ==
  /\ TypeOK
  /\ Drained /\ FreshTodo /\ SnapshotSeen /\ CursorOnRow /\ CounterAgrees
  /\ NoRowSkipped
  /\ ExploreAfterCatchup

LEMMA InitIInv == Init => IInv
<1> SUFFICES ASSUME Init PROVE IInv
  OBVIOUS
<1> USE DEF Init
<1>1. TypeOK
  <2>1. now \in Time /\ cursor \in 1 .. NRows + 1
    BY SizeAssumption DEF Time
  <2>2. genRetries \in 0 .. GenRetryLimit /\ genErrors \in 0 .. GenRetryLimit + 1
    BY DEF GenRetryLimit
  <2> QED BY <2>1, <2>2 DEF TypeOK, Control
<1>2. Drained /\ FreshTodo /\ SnapshotSeen /\ CursorOnRow /\ CounterAgrees
  BY DEF Drained, FreshTodo, SnapshotSeen, CursorOnRow, CounterAgrees
<1>3. NoRowSkipped /\ ExploreAfterCatchup
  BY DEF NoRowSkipped, ExploreAfterCatchup, Walking
<1> QED BY <1>1, <1>2, <1>3 DEF IInv

(* What a batch is: rows the walk can see below the cursor, and every      *)
(* other such row sorts below all of it.                                   *)
LEMMA QueryEffect ==
  ASSUME IInv, Query
  PROVE  /\ todo' \subseteq Visible
         /\ cursor' \in todo'
         /\ \A r \in Visible : r < cursor => r \in todo' \/ r < cursor'
<1>1. PICK batch \in SUBSET Visible :
        /\ IsBatch(batch)
        /\ todo' = batch
        /\ cursor' \in batch
        /\ \A r \in batch : cursor' <= r
  BY DEF Query
<1>2. ASSUME NEW r \in Visible, r < cursor, r \notin batch
      PROVE  r < cursor'
  BY <1>1, <1>2 DEF IsBatch, BelowCursor
<1> QED BY <1>1, <1>2

LEMMA NextTypeOK == IInv /\ [Next]_vars => TypeOK'
<1> SUFFICES ASSUME IInv, [Next]_vars PROVE TypeOK'
  OBVIOUS
<1> USE DEF TypeOK, Control, Walking
<1>1. CASE Query
  <2>1. cursor' \in Rows /\ todo' \subseteq Rows
    BY <1>1, QueryEffect DEF Visible
  <2>2. genRetries' \in 0 .. GenRetryLimit /\ genErrors' \in 0 .. GenRetryLimit + 1
    BY <1>1 DEF Query, GenRetryLimit
  <2>3. cursor' \in 1 .. NRows + 1
    BY <2>1, SizeAssumption DEF Rows
  <2> QED BY <1>1, <2>1, <2>2, <2>3 DEF IInv, Query, env
<1>2. CASE QueryError
  BY <1>2 DEF IInv, QueryError, CounterAgrees, TooManyErrors, GenRetryLimit, env
<1>3. CASE Persist
  BY <1>3, CreatedAssumption DEF IInv, CursorOnRow, Persist, env, walk, history
<1>4. CASE Load
  BY <1>4 DEF IInv, Load, env, Visible, HasFrontier
<1>5. CASE Tick
  BY <1>5, SizeAssumption DEF IInv, Tick, walk, history, Time
<1>10. CASE RequestStop
  BY <1>10 DEF IInv, RequestStop, env, walk, history
<1>11. CASE Start
  <2>1. genRetries' \in 0 .. GenRetryLimit /\ genErrors' \in 0 .. GenRetryLimit + 1
    BY <1>11 DEF Start, GenRetryLimit
  <2> QED BY <1>11, <2>1 DEF IInv, Start, env
<1>6. ASSUME NEW r \in Rows, Publish(r) \/ Retract(r) \/ ProcessRow(r)
      PROVE  TypeOK'
  BY <1>6 DEF IInv, Publish, Retract, ProcessRow, env, walk, history
<1>7. CASE Connect \/ StopConnecting \/ ReachEnd \/ MalformedTail \/ StopWalking
  BY <1>7 DEF IInv, Connect, StopConnecting, ReachEnd, MalformedTail,
              StopWalking, Leave, env, walk, history, GenRetryLimit
<1>8. CASE ConnectionError \/ Dedup \/ EndRows \/ DatabaseError \/ Crash
  BY <1>8 DEF IInv, ConnectionError, Dedup, EndRows, DatabaseError, Crash,
              Leave, env, walk, history
<1>9. CASE UNCHANGED vars
  BY <1>9 DEF IInv, vars
<1> QED
  BY <1>1, <1>2, <1>3, <1>4, <1>5, <1>6, <1>7, <1>8, <1>9, <1>10, <1>11 DEF Next

(* The bookkeeping parts of the invariant. *)
LEMMA NextBookkeeping ==
  IInv /\ [Next]_vars => (Drained /\ FreshTodo /\ SnapshotSeen /\ CursorOnRow
                             /\ CounterAgrees)'
<1> SUFFICES ASSUME IInv, [Next]_vars
             PROVE  (Drained /\ FreshTodo /\ SnapshotSeen /\ CursorOnRow
                       /\ CounterAgrees)'
  OBVIOUS
<1> USE DEF IInv, Drained, FreshTodo, SnapshotSeen, CursorOnRow, CounterAgrees,
            Walking
<1>1. CASE Query
  <2>1. cursor' \in Rows
    BY <1>1, QueryEffect DEF Visible
  <2> QED BY <1>1, <2>1 DEF Query, env
<1>2. CASE QueryError
  BY <1>2 DEF QueryError, TooManyErrors, env
<1>3. CASE Load
  BY <1>3 DEF Load, env, Visible
<1>4. CASE Tick \/ RequestStop \/ Start \/ Persist
  BY <1>4 DEF Tick, RequestStop, Start, Persist, env, walk, history
<1>5. ASSUME NEW r \in Rows, Publish(r) \/ Retract(r) \/ ProcessRow(r)
      PROVE  (Drained /\ FreshTodo /\ SnapshotSeen /\ CursorOnRow
                /\ CounterAgrees)'
  BY <1>5 DEF Publish, Retract, ProcessRow, env, walk, history, TypeOK
<1>6. CASE Connect \/ StopConnecting \/ ReachEnd \/ MalformedTail \/ StopWalking
  BY <1>6 DEF Connect, StopConnecting, ReachEnd, MalformedTail, StopWalking,
              Leave, env, walk, history
<1>7. CASE ConnectionError \/ Dedup \/ EndRows \/ DatabaseError \/ Crash
  BY <1>7 DEF ConnectionError, Dedup, EndRows, DatabaseError, Crash, Leave,
              env, walk, history
<1>8. CASE UNCHANGED vars
  BY <1>8 DEF vars
<1> QED
  BY <1>1, <1>2, <1>3, <1>4, <1>5, <1>6, <1>7, <1>8 DEF Next

(* No step but Load makes a row owed, and only a decision, a retraction or *)
(* the end of the walk clears one.                                         *)
LEMMA OwedNeverGrows ==
  ASSUME IInv, [Next]_vars, ~Load
  PROVE  Owed' \subseteq Owed
<1> USE DEF Owed, Walking
<1>1. ASSUME NEW r \in Rows, Publish(r) \/ Retract(r) \/ ProcessRow(r)
      PROVE  Owed' \subseteq Owed
  BY <1>1 DEF Publish, Retract, ProcessRow, env, walk, history, IInv, TypeOK,
              SnapshotSeen
<1>2. CASE Tick \/ RequestStop \/ Start \/ Persist \/ Query \/ QueryError
  BY <1>2 DEF Tick, RequestStop, Start, Persist, Query, QueryError, env, walk,
              history
<1>3. CASE Connect \/ StopConnecting \/ ReachEnd \/ MalformedTail \/ StopWalking
  BY <1>3 DEF Connect, StopConnecting, ReachEnd, MalformedTail, StopWalking,
              Leave, env, walk, history
<1>4. CASE ConnectionError \/ Dedup \/ EndRows \/ DatabaseError \/ Crash
  BY <1>4 DEF ConnectionError, Dedup, EndRows, DatabaseError, Crash, Leave,
              env, walk, history
<1>5. CASE UNCHANGED vars
  BY <1>5 DEF vars
<1> QED BY <1>1, <1>2, <1>3, <1>4, <1>5 DEF Next

(* The step that matters: a batch and its tail leave no owed row behind,   *)
(* and catch-up ends only once everything above the frontier is in hand.   *)
LEMMA NextCoverage == IInv /\ [Next]_vars => (NoRowSkipped /\ ExploreAfterCatchup)'
<1> SUFFICES ASSUME IInv, [Next]_vars PROVE (NoRowSkipped /\ ExploreAfterCatchup)'
  OBVIOUS
<1> USE DEF NoRowSkipped, ExploreAfterCatchup
<1>1. CASE Load
  <2>1. \A r \in Owed' : r < cursor' /\ Created[r] < now
    BY <1>1 DEF Load, Owed, Walking, Visible, env
  <2>2. ~catchingUp' => frontier' = 0
    BY <1>1 DEF Load, HasFrontier
  <2> QED BY <2>1, <2>2
<1>2. CASE Query
  <2>1. Owed' \subseteq Owed
    BY <1>2, OwedNeverGrows DEF Query, Load
  <2>2. \A r \in Owed : r \in Visible /\ r < cursor
    BY <1>2 DEF Query, IInv, Drained, TypeOK, Owed, Walking, Visible
  <2>3. \A r \in Owed' : r \in todo' \/ r < cursor'
    BY <1>2, <2>1, <2>2, QueryEffect
  <2>4. ASSUME NEW r \in Owed', ~catchingUp', r \notin todo', frontier' # 0
        PROVE  Created[r] <= frontier'
    <3>1. CASE ~catchingUp
      BY <1>2, <2>1, <2>4, <3>1 DEF Query, IInv, Drained, Walking
    <3>2. CASE ~(Created[cursor'] > frontier)
      <4>1. r \in Rows /\ cursor' \in Rows /\ r < cursor'
        BY <1>2, <2>1, <2>2, <2>3, <2>4, QueryEffect DEF Visible
      <4>2. Created[r] <= Created[cursor']
        BY <4>1, CreatedAssumption
      <4>3. Created[r] \in Nat /\ Created[cursor'] \in Nat /\ frontier \in Nat
        BY <4>1, CreatedAssumption DEF Time, IInv, TypeOK
      <4> QED BY <1>2, <3>2, <4>2, <4>3 DEF Query
    <3> QED BY <1>2, <2>4, <3>1, <3>2 DEF Query
  <2> QED BY <2>3, <2>4
<1>3. ASSUME NEW r \in Rows, ProcessRow(r)
      PROVE  (NoRowSkipped /\ ExploreAfterCatchup)'
  BY <1>3 DEF ProcessRow, IInv, Owed, Walking, env
<1>4. ASSUME NEW r \in Rows, Publish(r) \/ Retract(r)
      PROVE  (NoRowSkipped /\ ExploreAfterCatchup)'
  BY <1>4 DEF Publish, Retract, IInv, Owed, Walking, TypeOK, SnapshotSeen, walk,
              history
<1>5. CASE Tick \/ RequestStop \/ Start \/ Persist \/ QueryError
  BY <1>5 DEF Tick, RequestStop, Start, Persist, QueryError, IInv, Owed, Walking,
              env, walk, history
<1>6. CASE Connect \/ StopConnecting \/ ReachEnd \/ MalformedTail \/ StopWalking
  BY <1>6 DEF Connect, StopConnecting, ReachEnd, MalformedTail, StopWalking,
              Leave, IInv, Owed, Walking, env, walk, history
<1>7. CASE ConnectionError \/ Dedup \/ EndRows \/ DatabaseError \/ Crash
  BY <1>7 DEF ConnectionError, Dedup, EndRows, DatabaseError, Crash, Leave, IInv,
              Owed, Walking, env, walk, history
<1>8. CASE UNCHANGED vars
  BY <1>8 DEF vars, IInv, Owed, Walking
<1> QED
  BY <1>1, <1>2, <1>3, <1>4, <1>5, <1>6, <1>7, <1>8 DEF Next

LEMMA Invariance == Spec => []IInv
<1>1. IInv /\ [Next]_vars => IInv'
  BY NextTypeOK, NextBookkeeping, NextCoverage DEF IInv
<1> QED BY InitIInv, <1>1, PTL DEF Spec

-----------------------------------------------------------------------------
(* The variables of the thread and of HAFSQL stay in their types. *)
THEOREM TypeCorrect == Spec => []TypeOK
<1>1. IInv => TypeOK
  BY DEF IInv
<1> QED BY <1>1, Invariance, PTL

(* However batches fall, whatever HAFSQL publishes or retracts meanwhile,  *)
(* the keyset pagination leaves no row of the walk behind.                 *)
THEOREM NoRowIsSkipped == Spec => []NoRowSkipped
<1>1. IInv => NoRowSkipped
  BY DEF IInv
<1> QED BY <1>1, Invariance, PTL

(* The thread switches to exploring only when the gap since the saved      *)
(* frontier is behind it.                                                  *)
THEOREM CatchupCoversGap == Spec => []ExploreAfterCatchup
<1>1. IInv => ExploreAfterCatchup
  BY DEF IInv
<1> QED BY <1>1, Invariance, PTL

(* Connection errors never use up the limit on query errors. *)
THEOREM BlipsDoNotKill == Spec => BlipsNeverKill
<1> DEFINE Kill == pc = "query" /\ pc' = "idle" /\ ~stop /\ genErrors' # genErrors
<1>1. ASSUME IInv, [Next]_vars, Kill
      PROVE  genErrors' > GenRetryLimit
  <2>1. QueryError
    <3>1. ~(\E r \in Rows : Publish(r) \/ Retract(r) \/ ProcessRow(r))
      BY <1>1 DEF Publish, Retract, ProcessRow, history
    <3>2. ~(Tick \/ RequestStop \/ Start \/ Load \/ Query \/ ReachEnd \/ Persist)
      BY <1>1 DEF Tick, RequestStop, Start, Load, Query, ReachEnd, Persist, history
    <3>3. ~(Connect \/ StopConnecting \/ MalformedTail \/ StopWalking)
      BY <1>1 DEF Connect, StopConnecting, MalformedTail, StopWalking, Leave,
                  history
    <3>4. ~(ConnectionError \/ Dedup \/ EndRows \/ DatabaseError \/ Crash)
      BY <1>1 DEF ConnectionError, Dedup, EndRows, DatabaseError, Crash, Leave,
                  history
    <3>5. ~UNCHANGED vars
      BY <1>1 DEF vars
    <3> QED BY <1>1, <3>1, <3>2, <3>3, <3>4, <3>5 DEF Next
  <2> QED
    BY <1>1, <2>1 DEF QueryError, TooManyErrors, IInv, CounterAgrees, Walking,
                      TypeOK, GenRetryLimit
<1>2. IInv /\ [Next]_vars => [Kill => genErrors' > GenRetryLimit]_vars
  BY <1>1
<1> QED BY <1>2, Invariance, PTL DEF Spec, BlipsNeverKill

-----------------------------------------------------------------------------
(* Refinement of the abstract walk. *)
LEMMA InitKeepsPromise == Init => Promise!Init
  BY DEF Init, Promise!Init, WalkStatus, Owed, Walking

LEMMA StepKeepsPromise ==
  IInv /\ [Next]_vars => [Promise!Next]_(Promise!vars)
<1> SUFFICES ASSUME IInv, [Next]_vars
             PROVE  Promise!Next \/ UNCHANGED <<WalkStatus, Owed>>
  BY DEF Promise!vars
<1> USE DEF WalkStatus, Walking
<1>1. CASE Load
  <2>1. Owed' \in SUBSET Rows
    BY <1>1 DEF Load, Owed, Visible
  <2>2. Promise!Begin
    BY <1>1, <2>1 DEF Load, Promise!Begin
  <2> QED BY <2>2 DEF Promise!Next
<1>2. CASE ReachEnd
  <2>1. Owed = {} /\ Owed' = {}
    BY <1>2 DEF ReachEnd, NoRowsLeft, BelowCursor, IInv, NoRowSkipped, Drained,
                Owed, Visible, TypeOK
  <2>2. Promise!Complete
    BY <1>2, <2>1 DEF ReachEnd, Promise!Complete
  <2> QED BY <2>2 DEF Promise!Next
<1>3. ASSUME ~Load, WalkStatus' = WalkStatus, WalkStatus = "running"
      PROVE  Promise!Next
  BY <1>3, OwedNeverGrows DEF Promise!Settle, Promise!Next
<1>4. ASSUME pc' \notin Walking, pc' # "complete"
      PROVE  Promise!Next
  BY <1>4 DEF Owed, Promise!Abort, Promise!Next
<1>5. ASSUME pc \notin Walking, pc' = pc
      PROVE  UNCHANGED <<WalkStatus, Owed>>
  BY <1>5 DEF Owed
<1>6. CASE Tick \/ RequestStop \/ Start \/ Persist \/ Query \/ QueryError
  <2>1. pc' = pc \/ pc' = "connect" \/ (pc \in Walking /\ pc' \in Walking \cup {"idle"})
    BY <1>6 DEF Tick, RequestStop, Start, Persist, Query, QueryError
  <2> QED BY <1>3, <1>4, <1>5, <1>6, <2>1 DEF Load
<1>7. ASSUME NEW r \in Rows, Publish(r) \/ Retract(r) \/ ProcessRow(r)
      PROVE  Promise!Next \/ UNCHANGED <<WalkStatus, Owed>>
  <2>1. pc' = pc
    BY <1>7 DEF Publish, Retract, ProcessRow
  <2> QED BY <1>3, <1>5, <2>1 DEF Load
<1>8. CASE Connect \/ StopConnecting \/ MalformedTail \/ StopWalking
  BY <1>4, <1>8 DEF Connect, StopConnecting, MalformedTail, StopWalking, Leave
<1>9. CASE ConnectionError \/ Dedup \/ EndRows
  <2>1. pc \in Walking /\ pc' \in Walking /\ ~Load
    BY <1>9 DEF ConnectionError, Dedup, EndRows, Load
  <2> QED BY <1>3, <2>1
<1>10. CASE DatabaseError \/ Crash
  BY <1>4, <1>10 DEF DatabaseError, Crash, Leave
<1>11. CASE UNCHANGED vars
  BY <1>11 DEF vars, Owed
<1> QED
  BY <1>1, <1>2, <1>6, <1>7, <1>8, <1>9, <1>10, <1>11 DEF Next

(* A walk that reports completion has decided every row it owed; nothing a *)
(* thread does in between is visible to the abstract walk.                 *)
THEOREM Refinement == Spec => KeepsPromise
  BY InitKeepsPromise, StepKeepsPromise, Invariance, PTL
     DEF Spec, KeepsPromise, Promise!Spec
=============================================================================
