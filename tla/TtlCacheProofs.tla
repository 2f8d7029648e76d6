--------------------------- MODULE TtlCacheProofs ---------------------------
(***************************************************************************)
(* Proofs about the TTL cache, for every set of keys and callers, every    *)
(* size of the store and every life of an entry.                           *)
(***************************************************************************)
EXTENDS TtlCache, FiniteSetTheorems, TLAPS

(* The inductive invariant: the queues at the locks, and the order of the  *)
(* entries.  OneProducer needs that two callers at one lock are ordered;   *)
(* StoreBounded needs that a store that is full has an oldest entry.       *)
AtRest ==
  \A c \in Callers : pc[c] = "idle" => key[c] = NoKey /\ c \notin current /\ ahead[c] = {}
Busy ==
  \A c \in Callers : /\ pc[c] # "idle" => key[c] \in Keys
                     /\ pc[c] = "waiting" => key[c] \in Guarded
                     /\ pc[c] = "producing" => ahead[c] = {}
CurrentLocked == \A c \in current : key[c] \in locks
LostLock ==
  \A c \in Callers :
    pc[c] # "idle" /\ key[c] \in Guarded /\ c \notin current => key[c] \in orphaned
InLine ==
  \A c, d \in current : c # d /\ key[c] = key[d] => c \in ahead[d] \/ d \in ahead[c]
Absent ==
  \A c \in Callers :
    pc[c] = "producing" /\ key[c] \in Guarded \ orphaned => key[c] \notin store
InsertionOrder ==
  /\ \A j \in Keys : older[j] \subseteq store \ {j}
  /\ \A i, j \in Keys : i \in older[j] => older[i] \subseteq older[j]
  /\ \A j \in Keys \ store : older[j] = {}

QueueInv == AtRest /\ Busy /\ CurrentLocked /\ LostLock /\ InLine

IInv == TypeOK /\ QueueInv /\ Absent /\ InsertionOrder /\ StoreBounded

LEMMA KeysFinite ==
  ASSUME NEW S \in SUBSET Keys
  PROVE  IsFiniteSet(S) /\ Cardinality(S) \in Nat /\ Cardinality(S) <= Cardinality(Keys)
BY CacheAssumption, FS_Subset, FS_CardinalityType

(* A store that is not empty has an oldest entry: older is a strict order  *)
(* on a finite set.                                                        *)
LEMMA OldestExists ==
  ASSUME TypeOK, InsertionOrder, store # {}
  PROVE  \E j \in store : older[j] = {}
<1> DEFINE T == {older[j] : j \in store}
<1>1. IsWellFoundedOn(StrictSubsetOrdering(Keys), FiniteSubsetsOf(Keys))
  BY FS_StrictSubsetOrderingWellFounded
<1>2. T \subseteq FiniteSubsetsOf(Keys) /\ T # {}
  BY KeysFinite DEF TypeOK, FiniteSubsetsOf
<1>3. \E x \in T : \A y \in T : ~(<<y, x>> \in StrictSubsetOrdering(Keys))
  <2> HIDE DEF T
  <2> QED BY <1>1, <1>2, WFMin
<1>4. PICK j \in store : \A i \in store : ~(<<older[i], older[j]>> \in StrictSubsetOrdering(Keys))
  BY <1>3
<1>5. ASSUME NEW i \in older[j] PROVE FALSE
  <2>1. i \in store /\ i \in Keys /\ j \in Keys
    BY <1>5 DEF InsertionOrder, TypeOK
  <2>2. older[i] \subseteq older[j] /\ i \notin older[i]
    BY <2>1, <1>5 DEF InsertionOrder
  <2>3. <<older[i], older[j]>> \in StrictSubsetOrdering(Keys)
    BY <2>1, <2>2, <1>5 DEF TypeOK, StrictSubsetOrdering
  <2> QED BY <2>1, <2>3, <1>4
<1> QED BY <1>5

LEMMA InitIInv == Init => IInv
<1> SUFFICES ASSUME Init PROVE IInv
  OBVIOUS
<1>1. TypeOK
  BY CacheAssumption DEF Init, TypeOK, Versions
<1>2. QueueInv /\ Absent /\ InsertionOrder
  BY DEF Init, QueueInv, AtRest, Busy, CurrentLocked, LostLock, InLine, Absent, InsertionOrder
<1>3. StoreBounded
  BY CacheAssumption, FS_EmptySet DEF Init, StoreBounded
<1> QED BY <1>1, <1>2, <1>3 DEF IInv

LEMMA NextTypeOK == IInv /\ [Next]_vars => TypeOK'
<1> SUFFICES ASSUME IInv, [Next]_vars PROVE TypeOK'
  OBVIOUS
<1> USE CacheAssumption DEF IInv, TypeOK, Versions
<1>1. ASSUME NEW c \in Callers, NEW k \in Keys, Ask(c, k) PROVE TypeOK'
  BY <1>1 DEF Ask, Forget, Without, Queue, Engaged
<1>2. ASSUME NEW c \in Callers, NEW k \in Keys, AskBare(c, k) PROVE TypeOK'
  BY <1>2 DEF AskBare, Forget, Without
<1>3. ASSUME NEW c \in Callers, FindFilled(c) PROVE TypeOK'
  BY <1>3 DEF FindFilled, Leave, entries
<1>4. ASSUME NEW c \in Callers, Produce(c) PROVE TypeOK'
  BY <1>4 DEF Produce, Forget, Without
<1>5. ASSUME NEW c \in Callers, Fill(c) PROVE TypeOK'
  <2>1. key[c] \in Keys
    BY <1>5 DEF Fill, QueueInv, Busy
  <2>2. Evicted(key[c]) \in SUBSET store
    BY DEF Evicted
  <2>3. store' \in SUBSET Keys /\ older' \in [Keys -> SUBSET Keys]
          /\ left' \in [Keys -> 0 .. Ttl] /\ val' \in [Keys -> 1 .. MaxVersion]
    BY <1>5, <2>1, <2>2 DEF Fill, PutEntry, Without
  <2>4. pc' \in [Callers -> {"idle", "waiting", "producing"}]
          /\ key' \in [Callers -> Keys \cup {NoKey}]
          /\ ahead' \in [Callers -> SUBSET Callers]
          /\ read' \in [Callers -> 1 .. MaxVersion]
    BY <1>5 DEF Fill, Leave
  <2>5. locks' \in SUBSET Guarded /\ current' \in SUBSET Callers /\ orphaned' \in SUBSET Guarded
    BY <1>5 DEF Fill, QueueInv, CurrentLocked
  <2> QED BY <1>5, <2>3, <2>4, <2>5 DEF Fill
<1>6. ASSUME NEW c \in Callers, FailToProduce(c) PROVE TypeOK'
  BY <1>6 DEF FailToProduce, Leave, entries
<1>7. CASE Change
  BY <1>7 DEF Change, entries, calls
<1>8. CASE Tick
  BY <1>8 DEF Tick, calls
<1>9. CASE UNCHANGED vars
  BY <1>9 DEF vars
<1> QED BY <1>1, <1>2, <1>3, <1>4, <1>5, <1>6, <1>7, <1>8, <1>9 DEF Next, Proceed

LEMMA NextQueueInv == IInv /\ [Next]_vars => QueueInv'
<1> SUFFICES ASSUME IInv, [Next]_vars PROVE QueueInv'
  OBVIOUS
<1> USE CacheAssumption DEF IInv, TypeOK
<1>1. ASSUME NEW c \in Callers, NEW k \in Keys, Ask(c, k) PROVE QueueInv'
  <2> USE <1>1 DEF Ask
  <2>1. AtRest' /\ Busy'
    BY DEF QueueInv, AtRest, Busy
  <2>2. CurrentLocked' /\ LostLock'
    BY DEF QueueInv, CurrentLocked, LostLock
  <2>3. InLine'
    <3>1. \A d \in current : key[d] = k /\ d # c => d \in ahead'[c]
      BY DEF QueueInv, AtRest, Busy, CurrentLocked, Queue, Engaged
    <3> QED BY <3>1 DEF QueueInv, AtRest, InLine
  <2> QED BY <2>1, <2>2, <2>3 DEF QueueInv
<1>2. ASSUME NEW c \in Callers, NEW k \in Keys, AskBare(c, k) PROVE QueueInv'
  BY <1>2 DEF AskBare, QueueInv, AtRest, Busy, CurrentLocked, LostLock, InLine
<1>3. ASSUME NEW c \in Callers, FindFilled(c) PROVE QueueInv'
  BY <1>3 DEF FindFilled, Leave, QueueInv, AtRest, Busy, CurrentLocked, LostLock, InLine
<1>4. ASSUME NEW c \in Callers, Produce(c) PROVE QueueInv'
  BY <1>4 DEF Produce, QueueInv, AtRest, Busy, CurrentLocked, LostLock, InLine
<1>5. ASSUME NEW c \in Callers, Fill(c) PROVE QueueInv'
  <2> DEFINE gone == Evicted(key[c])
             bereft == {d \in current \ {c} : key[d] \in gone}
  <2>1. /\ pc[c] = "producing" /\ Leave(c)
        /\ locks' = locks \ gone
        /\ current' = current \ ({c} \cup bereft)
        /\ orphaned' = orphaned \cup {key[d] : d \in bereft}
    BY <1>5 DEF Fill
  <2> HIDE DEF gone
  <2>2. AtRest' /\ Busy'
    BY <2>1 DEF Leave, QueueInv, AtRest, Busy
  <2>3. CurrentLocked'
    BY <2>1 DEF Leave, QueueInv, CurrentLocked
  <2>4. LostLock'
    BY <2>1 DEF Leave, QueueInv, AtRest, LostLock
  <2>5. InLine'
    BY <2>1 DEF Leave, QueueInv, InLine
  <2> QED BY <2>2, <2>3, <2>4, <2>5 DEF QueueInv
<1>6. ASSUME NEW c \in Callers, FailToProduce(c) PROVE QueueInv'
  BY <1>6 DEF FailToProduce, Leave, QueueInv, AtRest, Busy, CurrentLocked, LostLock, InLine
<1>7. CASE Change
  BY <1>7 DEF Change, calls, QueueInv, AtRest, Busy, CurrentLocked, LostLock, InLine
<1>8. CASE Tick
  BY <1>8 DEF Tick, calls, QueueInv, AtRest, Busy, CurrentLocked, LostLock, InLine
<1>9. CASE UNCHANGED vars
  BY <1>9 DEF vars, QueueInv, AtRest, Busy, CurrentLocked, LostLock, InLine
<1> QED BY <1>1, <1>2, <1>3, <1>4, <1>5, <1>6, <1>7, <1>8, <1>9 DEF Next, Proceed
LEMMA NextAbsent == IInv /\ [Next]_vars => Absent'
<1> SUFFICES ASSUME IInv, [Next]_vars PROVE Absent'
  OBVIOUS
<1> USE CacheAssumption DEF IInv, TypeOK, Absent
<1>1. ASSUME NEW c \in Callers, NEW k \in Keys, Ask(c, k) \/ AskBare(c, k) PROVE Absent'
  BY <1>1 DEF Ask, AskBare, Forget, Without
<1>2. ASSUME NEW c \in Callers, FindFilled(c) \/ Produce(c) PROVE Absent'
  BY <1>2 DEF FindFilled, Produce, Leave, Forget, Without, entries
<1>3. ASSUME NEW c \in Callers, Fill(c) PROVE Absent'
  <2> SUFFICES ASSUME NEW d \in Callers, pc'[d] = "producing",
                      key'[d] \in Guarded \ orphaned'
               PROVE  key'[d] \notin store'
    BY DEF Absent
  <2>1. d # c /\ pc[d] = "producing" /\ key'[d] = key[d] /\ key[d] \in Guarded \ orphaned
    BY <1>3 DEF Fill, Leave
  <2>2. key[d] # key[c]
    BY <2>1, <1>3 DEF Fill, QueueInv, Busy, LostLock, InLine
  <2>3. store' \subseteq store \cup {key[c]}
    BY <1>3 DEF Fill, PutEntry, Without
  <2> QED BY <2>1, <2>2, <2>3
<1>4. ASSUME NEW c \in Callers, FailToProduce(c) PROVE Absent'
  BY <1>4 DEF FailToProduce, Leave, entries
<1>5. CASE Change \/ Tick \/ UNCHANGED vars
  BY <1>5 DEF Change, Tick, vars, entries, calls
<1> QED BY <1>1, <1>2, <1>3, <1>4, <1>5 DEF Next, Proceed

LEMMA NextInsertionOrder == IInv /\ [Next]_vars => InsertionOrder'
<1> SUFFICES ASSUME IInv, [Next]_vars PROVE InsertionOrder'
  OBVIOUS
<1> USE CacheAssumption DEF IInv, TypeOK, InsertionOrder
<1>1. ASSUME NEW c \in Callers, NEW k \in Keys, Ask(c, k) \/ AskBare(c, k)
      PROVE  InsertionOrder'
  BY <1>1 DEF Ask, AskBare, Forget, Without
<1>2. ASSUME NEW c \in Callers, Produce(c) PROVE InsertionOrder'
  BY <1>2 DEF Produce, Forget, Without, QueueInv, Busy
<1>3. ASSUME NEW c \in Callers, Fill(c) PROVE InsertionOrder'
  <2> DEFINE k == key[c]
             gone == Evicted(k)
             rest == [j \in Keys |-> IF j \in gone THEN {} ELSE older[j] \ gone]
  <2>1. k \in Keys /\ (k \in store => gone = {})
    BY <1>3 DEF Fill, QueueInv, Busy, Evicted
  <2>2. /\ store' = (store \ gone) \cup {k}
        /\ older' = [rest EXCEPT ![k] = IF k \in store THEN @ ELSE store \ gone]
    BY <1>3 DEF Fill, PutEntry, Without
  <2> HIDE DEF gone, k
  <2>3. CASE k \in store
    BY <2>1, <2>2, <2>3
  <2>4. CASE k \notin store
    <3>1. \A j \in Keys : j # k => older'[j] = rest[j] /\ k \notin older'[j]
      BY <2>1, <2>2, <2>4
    <3>2. older'[k] = store \ gone
      BY <2>1, <2>2, <2>4
    <3>3. \A j \in Keys : older'[j] \subseteq store' \ {j}
      BY <2>1, <2>2, <2>4, <3>1, <3>2
    <3>4. \A i, j \in Keys : i \in older'[j] => older'[i] \subseteq older'[j]
      BY <2>1, <2>2, <2>4, <3>1, <3>2
    <3>5. \A j \in Keys \ store' : older'[j] = {}
      BY <2>1, <2>2, <2>4, <3>1
    <3> QED BY <3>3, <3>4, <3>5
  <2> QED BY <2>3, <2>4
<1>4. ASSUME NEW c \in Callers, FindFilled(c) \/ FailToProduce(c) PROVE InsertionOrder'
  BY <1>4 DEF FindFilled, FailToProduce, entries
<1>5. CASE Change \/ Tick \/ UNCHANGED vars
  BY <1>5 DEF Change, Tick, vars, entries
<1> QED BY <1>1, <1>2, <1>3, <1>4, <1>5 DEF Next, Proceed

LEMMA NextStoreBounded == IInv /\ [Next]_vars => StoreBounded'
<1> SUFFICES ASSUME IInv, [Next]_vars PROVE StoreBounded'
  OBVIOUS
<1> USE DEF StoreBounded
<1>1. MaxEntries \in Nat /\ Cardinality(store) <= MaxEntries
        /\ store \in SUBSET Keys /\ IsFiniteSet(store) /\ Cardinality(store) \in Nat
  BY CacheAssumption, KeysFinite DEF IInv, TypeOK
<1>2. ASSUME store' \subseteq store PROVE StoreBounded'
  BY <1>1, <1>2, FS_Subset, KeysFinite
<1>3. ASSUME NEW c \in Callers, Fill(c) PROVE StoreBounded'
  <2> DEFINE k == key[c]
             gone == Evicted(k)
  <2>1. store' = (store \ gone) \cup {k}
    BY <1>3 DEF Fill, PutEntry, Without
  <2>2. CASE k \in store
    BY <2>1, <2>2, <1>2 DEF Evicted
  <2>3. CASE k \notin store /\ Cardinality(store) < MaxEntries
    <3>1. gone = {}
      BY <2>3 DEF Evicted
    <3>2. Cardinality(store') = Cardinality(store) + 1
      BY <1>1, <2>1, <2>3, <3>1, FS_AddElement
    <3> QED BY <1>1, <2>3, <3>2
  <2>4. CASE k \notin store /\ ~(Cardinality(store) < MaxEntries)
    <3>1. store # {}
      BY <1>1, <2>4, FS_EmptySet, CacheAssumption
    <3>2. PICK j \in store : j \in gone
      BY <2>4, <3>1, OldestExists DEF IInv, Evicted
    <3> HIDE DEF gone
    <3>3. IsFiniteSet(store \ {j}) /\ Cardinality(store \ {j}) = Cardinality(store) - 1
      BY <1>1, FS_RemoveElement
    <3>4. IsFiniteSet(store \ gone) /\ Cardinality(store \ gone) <= Cardinality(store \ {j})
            /\ Cardinality(store \ gone) \in Nat
      <4>1. store \ gone \in SUBSET (store \ {j})
        BY <3>2
      <4> QED BY <4>1, <3>3, FS_Subset, FS_CardinalityType
    <3>5. Cardinality(store') = Cardinality(store \ gone) + 1
      <4>1. k \notin store \ gone
        BY <2>4
      <4> HIDE DEF k
      <4> QED BY <4>1, <2>1, <3>4, FS_AddElement
    <3> QED BY <1>1, <3>3, <3>4, <3>5
  <2> QED BY <2>2, <2>3, <2>4
<1>4. CASE ~(\E c \in Callers : Fill(c))
  <2>1. store' \subseteq store
    BY <1>4 DEF Next, Proceed, Ask, AskBare, Produce, FindFilled, FailToProduce, Forget,
                Without, Change, Tick, vars, entries
  <2> QED BY <2>1, <1>2
<1> QED BY <1>3, <1>4

LEMMA Invariance == Spec => []IInv
<1>1. IInv /\ [Next]_vars => IInv'
  BY NextTypeOK, NextQueueInv, NextAbsent, NextInsertionOrder, NextStoreBounded DEF IInv
<1> QED BY InitIInv, <1>1, PTL DEF Spec

(* Types: what each variable holds.                                        *)
THEOREM TypeCorrect == Spec => []TypeOK
<1>1. IInv => TypeOK
  BY DEF IInv
<1> QED BY Invariance, <1>1, PTL

(* The store never holds more than MaxEntries entries (cache.py:57-61).    *)
THEOREM StoreIsBounded == Spec => []StoreBounded
<1>1. IInv => StoreBounded
  BY DEF IInv
<1> QED BY Invariance, <1>1, PTL

LEMMA InvOneProducer == IInv => OneProducer
BY DEF IInv, QueueInv, Busy, LostLock, InLine, OneProducer, Producing

(* Callers of get_or_compute share one producer for each key whose lock    *)
(* was never evicted in use (cache.py:88-100).                             *)
THEOREM CallersCoalesce == Spec => []OneProducer
BY Invariance, InvOneProducer, PTL

(* What a guarded key serves does not go back in time while its entry      *)
(* lives (cache.py:93-100).                                                *)
THEOREM ServesNothingOlder == Spec => NeverOlder
<1>1. ASSUME IInv, [Next]_vars, NEW k \in Guarded \ orphaned, k \in store, k \in store'
      PROVE  val'[k] >= val[k]
  <2> USE CacheAssumption DEF IInv, TypeOK, Versions
  <2>0. k \in Keys /\ val[k] \in Nat
    BY <1>1
  <2>1. ASSUME NEW c \in Callers, Fill(c) PROVE val'[k] = val[k]
    <3>1. key[c] # k /\ key[c] \in Keys
      BY <1>1, <2>1 DEF Fill, Absent, QueueInv, Busy
    <3>2. k \notin Evicted(key[c])
      BY <1>1, <2>1, <3>1 DEF Fill, PutEntry, Without
    <3> QED BY <2>0, <2>1, <3>1, <3>2 DEF Fill, PutEntry, Without
  <2>2. CASE ~(\E c \in Callers : Fill(c))
    <3>1. val'[k] = val[k]
      BY <1>1, <2>0, <2>2 DEF Next, Proceed, Ask, AskBare, Produce, FindFilled, FailToProduce,
                  Forget, Without, Change, Tick, vars, entries
    <3> QED BY <2>0, <3>1
  <2> QED BY <2>0, <2>1, <2>2
<1>2. IInv /\ [Next]_vars =>
        [\A k \in Guarded \ orphaned : k \in store /\ k \in store' => val'[k] >= val[k]]_vars
  BY <1>1
<1> QED BY Invariance, <1>2, PTL DEF NeverOlder, Spec

(* _evict pushes no live entry out while it keeps an expired one           *)
(* (cache.py:47-54).                                                       *)
THEOREM LiveOutlastsExpired == Spec => ExpiredGoFirst
<1>1. ASSUME IInv, [Next]_vars, NEW k \in store \ store', left[k] > 0, NEW j \in store'
      PROVE  left'[j] > 0
  <2> USE CacheAssumption DEF IInv, TypeOK
  <2>1. ASSUME NEW c \in Callers, Fill(c) PROVE left'[j] > 0
    <3>1. key[c] \in Keys /\ j \in Keys /\ k \in Keys /\ left[j] \in Nat /\ left[k] \in Nat
      <4>1. key[c] \in Keys
        BY <1>1, <2>1 DEF Fill, QueueInv, Busy
      <4>2. j \in Keys
        BY <1>1, NextTypeOK
      <4> QED BY <1>1, <4>1, <4>2
    <3>2. k \in Evicted(key[c])
      BY <1>1, <2>1, <3>1 DEF Fill, PutEntry, Without
    <3>3. {i \in store : left[i] = 0} = {}
      BY <1>1, <3>1, <3>2 DEF Evicted
    <3>4. CASE j = key[c]
      BY <2>1, <3>1, <3>4 DEF Fill, PutEntry, Without
    <3>5. CASE j # key[c]
      <4>1. j \in store /\ j \notin Evicted(key[c])
        BY <1>1, <2>1, <3>5 DEF Fill, PutEntry, Without
      <4>2. left'[j] = left[j]
        BY <2>1, <3>1, <3>5, <4>1 DEF Fill, PutEntry, Without
      <4> QED BY <3>1, <3>3, <4>1, <4>2
    <3> QED BY <3>4, <3>5
  <2>2. ASSUME NEW i, store' = store \ {i}, ~Fresh(i) PROVE FALSE
    <3>1. k = i
      BY <2>2
    <3> QED BY <1>1, <2>2, <3>1 DEF Fresh
  <2>3. ASSUME NEW c \in Callers, NEW i \in Keys, Ask(c, i) \/ AskBare(c, i) PROVE FALSE
    BY <2>2, <2>3 DEF Ask, AskBare, Forget, Without
  <2>4. ASSUME NEW c \in Callers, Produce(c) PROVE FALSE
    BY <2>2, <2>4 DEF Produce, Forget, Without
  <2>5. CASE store' = store
    BY <1>1, <2>5
  <2> QED BY <1>1, <2>1, <2>3, <2>4, <2>5 DEF Next, Proceed, FindFilled, FailToProduce,
                                         Change, Tick, vars, entries
<1>2. IInv /\ [Next]_vars =>
        [(\E k \in store \ store' : left[k] > 0) => \A j \in store' : left'[j] > 0]_vars
  BY <1>1
<1> QED BY Invariance, <1>2, PTL DEF ExpiredGoFirst, Spec

(* While there is room for every key, no lock is ever evicted, and the     *)
(* docstring's "single producer() call" (cache.py:72-76) holds without     *)
(* exception.                                                              *)
SingleProducer == \A k \in Guarded : \A c, d \in Producing(k) : c = d

THEOREM RoomyStoreCoalesces ==
  ASSUME Cardinality(Keys) <= MaxEntries
  PROVE  Spec => []SingleProducer
<1> DEFINE Kept == orphaned = {}
<1>1. Init => Kept
  BY DEF Init
<1>2. ASSUME IInv, [Next]_vars, Kept PROVE Kept'
  <2>1. ASSUME NEW c \in Callers, Fill(c) PROVE orphaned' = {}
    <3>1. CASE key[c] \in store
      BY <1>2, <2>1, <3>1 DEF Fill, Evicted
    <3>2. CASE key[c] \notin store
      <4>1. key[c] \in Keys /\ store \in SUBSET Keys
        BY <1>2, <2>1 DEF Fill, IInv, TypeOK, QueueInv, Busy
      <4>2. Cardinality(store) < MaxEntries
        BY <3>2, <4>1, KeysFinite, FS_Subset, FS_CardinalityType, CacheAssumption
      <4>3. Evicted(key[c]) = {}
        BY <4>2 DEF Evicted
      <4> QED BY <1>2, <2>1, <4>3 DEF Fill
    <3> QED BY <3>1, <3>2
  <2> QED BY <1>2, <2>1 DEF Next, Proceed, Ask, AskBare, Produce, FindFilled, FailToProduce,
                            Change, Tick, vars
<1>3. IInv /\ Kept => SingleProducer
  BY InvOneProducer DEF OneProducer, SingleProducer
<1> QED BY <1>1, <1>2, <1>3, Invariance, PTL DEF Spec
=============================================================================
