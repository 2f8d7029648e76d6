------------------------------ MODULE TtlCache ------------------------------
(***************************************************************************)
(* The in-process TTL cache of the API (src/project/cache.py) and the two  *)
(* ways the program fills it: get_or_compute, under a lock per key, and    *)
(* the bare get / compute / put of the other callers, some of which run in *)
(* worker threads.                                                         *)
(*                                                                         *)
(* _store_lock makes each get and each put atomic.  A caller of            *)
(* get_or_compute gives up the event loop only where it awaits: for the    *)
(* lock, and in the producer.  asyncio.Lock serves its waiters in order.   *)
(***************************************************************************)
EXTENDS Naturals, FiniteSets

CONSTANTS Keys,        \* every key that may be asked for
          Guarded,     \* the keys filled by get_or_compute
          Callers,     \* the requests that may be in flight at a time
          MaxEntries,  \* _MAX_ENTRIES
          NoKey,       \* the key of a caller that is not there
          Ttl,         \* life of an entry, in ticks
          MaxVersion   \* bound on the versions of the cached source

ASSUME CacheAssumption ==
  /\ Guarded \subseteq Keys
  /\ IsFiniteSet(Keys) /\ NoKey \notin Keys
  /\ MaxEntries \in Nat \ {0} /\ Ttl \in Nat \ {0} /\ MaxVersion \in Nat \ {0}

Versions == 1 .. MaxVersion

VARIABLES
  version,  \* the state of what the producers read
  \* _store
  store,    \* the keys with an entry
  older,    \* older[k]: the keys that were in the store when k came in
  left,     \* left[k]: ticks until the entry expires
  val,      \* val[k]: the version the entry was computed from
  \* _locks
  locks,    \* the keys with a lock in _locks
  \* The callers
  pc, key,
  current,  \* callers whose lock is the one in _locks, not an evicted one
  ahead,    \* ahead[c]: callers before c in the queue of c's lock
  read,     \* read[c]: the version c's producer reads
  orphaned  \* history: keys whose lock was evicted while in use

entries == <<store, older, left, val>>
calls == <<pc, key, current, ahead, read>>
vars == <<version, store, older, left, val, locks, pc, key, current, ahead,
          read, orphaned>>

TypeOK ==
  /\ version \in Versions
  /\ store \in SUBSET Keys
  /\ older \in [Keys -> SUBSET Keys]
  /\ left \in [Keys -> 0 .. Ttl]
  /\ val \in [Keys -> Versions]
  /\ locks \in SUBSET Guarded
  /\ pc \in [Callers -> {"idle", "waiting", "producing"}]
  /\ key \in [Callers -> Keys \cup {NoKey}]
  /\ current \in SUBSET Callers
  /\ ahead \in [Callers -> SUBSET Callers]
  /\ read \in [Callers -> Versions]
  /\ orphaned \in SUBSET Guarded

Init ==
  /\ version = 1
  /\ store = {} /\ older = [k \in Keys |-> {}] /\ left = [k \in Keys |-> 0]
  /\ val = [k \in Keys |-> 1]
  /\ locks = {}
  /\ pc = [c \in Callers |-> "idle"] /\ key = [c \in Callers |-> NoKey]
  /\ current = {} /\ ahead = [c \in Callers |-> {}]
  /\ read = [c \in Callers |-> 1]
  /\ orphaned = {}

Fresh(k) == k \in store /\ left[k] > 0

\* Callers that hold or wait for a lock of key k.
Engaged(k) ==
  {c \in Callers : key[c] = k /\ k \in Guarded /\ pc[c] \in {"waiting", "producing"}}

-----------------------------------------------------------------------------
(* The store *)

\* The entries of the keys in "gone" go away.
Without(gone) ==
  [store |-> store \ gone,
   older |-> [k \in Keys |-> IF k \in gone THEN {} ELSE older[k] \ gone],
   left  |-> [k \in Keys |-> IF k \in gone THEN 0 ELSE left[k]],
   val   |-> [k \in Keys |-> IF k \in gone THEN 1 ELSE val[k]]]

\* A get that misses deletes the entry, if there is an expired one.
Forget(k) ==
  LET rest == Without({k})
  IN  /\ store' = rest.store /\ older' = rest.older
      /\ left' = rest.left /\ val' = rest.val

\* Mutant: plain FIFO, which lets an expired entry push out a live one.
Evicted_fifo(k) ==
  IF k \in store \/ Cardinality(store) < MaxEntries
  THEN {} ELSE {j \in store : older[j] = {}}

\* Mutant: the bound compared before the new entry is counted.
Evicted_late(k) ==
  IF k \in store \/ Cardinality(store) <= MaxEntries
  THEN {} ELSE {j \in store : left[j] = 0 \/ older[j] = {}}

\* What _evict removes when k is put: if the new entry is one too many, every
\* expired entry; if there is none, the oldest one.
Evicted(k) ==
  LET expired == {j \in store : left[j] = 0}
  IN  IF k \in store \/ Cardinality(store) < MaxEntries THEN {}
      ELSE IF expired # {} THEN expired
      ELSE {j \in store : older[j] = {}}

\* Mutant: the new life is added to what was left of the old one.
PutEntry_addsTtl(k, v) ==
  LET rest == Without(Evicted(k))
  IN  /\ store' = rest.store \cup {k}
      /\ older' = [rest.older EXCEPT ![k] = IF k \in store THEN @ ELSE rest.store]
      /\ left' = [rest.left EXCEPT ![k] = @ + Ttl]
      /\ val' = [rest.val EXCEPT ![k] = v]

\* put: an overwritten entry keeps its place in the insertion order.
PutEntry(k, v) ==
  LET rest == Without(Evicted(k))
  IN  /\ store' = rest.store \cup {k}
      /\ older' = [rest.older EXCEPT ![k] = IF k \in store THEN @ ELSE rest.store]
      /\ left' = [rest.left EXCEPT ![k] = Ttl]
      /\ val' = [rest.val EXCEPT ![k] = v]

-----------------------------------------------------------------------------
(* The callers *)

\* Mutant: every caller makes a lock of its own.
Queue_ownLock(k) == {}

\* The callers in front of a new one at the lock of k that _locks holds.
Queue(k) == IF k \in locks THEN Engaged(k) \cap current ELSE {}

\* get_or_compute: the first get misses, and the caller queues at the lock of
\* the key, which it makes if there is none.  There is no await in between,
\* and no worker thread puts a guarded key.
Ask(c, k) ==
  /\ pc[c] = "idle" /\ k \in Guarded /\ ~Fresh(k)
  /\ Forget(k)
  /\ pc' = [pc EXCEPT ![c] = "waiting"] /\ key' = [key EXCEPT ![c] = k]
  /\ ahead' = [ahead EXCEPT ![c] = Queue(k)]
  /\ locks' = locks \cup {k} /\ current' = current \cup {c}
  /\ UNCHANGED <<version, read, orphaned>>

\* The bare pattern: get misses, and the caller computes the value itself.
AskBare(c, k) ==
  /\ pc[c] = "idle" /\ k \notin Guarded /\ ~Fresh(k)
  /\ Forget(k)
  /\ pc' = [pc EXCEPT ![c] = "producing"] /\ key' = [key EXCEPT ![c] = k]
  /\ read' = [read EXCEPT ![c] = version]
  /\ UNCHANGED <<version, locks, current, ahead, orphaned>>

\* Mutant: the lock is not released.
Leave_holding(c) ==
  /\ pc' = [pc EXCEPT ![c] = "idle"] /\ key' = [key EXCEPT ![c] = NoKey]
  /\ read' = [read EXCEPT ![c] = 1]
  /\ ahead' = [ahead EXCEPT ![c] = {}]

\* The caller returns; leaving the "async with" releases the lock.
Leave(c) ==
  /\ pc' = [pc EXCEPT ![c] = "idle"] /\ key' = [key EXCEPT ![c] = NoKey]
  /\ read' = [read EXCEPT ![c] = 1]
  /\ ahead' = [d \in Callers |-> IF d = c THEN {} ELSE ahead[d] \ {c}]

\* The double check behind the lock.
FindFilled(c) ==
  /\ pc[c] = "waiting" /\ ahead[c] = {} /\ Fresh(key[c])
  /\ Leave(c)
  /\ current' = current \ {c}
  /\ UNCHANGED <<version, entries, locks, orphaned>>

\* The producer starts, and reads its source at some point.  The earliest is
\* the worst case for what is put later.
Produce(c) ==
  /\ pc[c] = "waiting" /\ ahead[c] = {} /\ ~Fresh(key[c])
  /\ Forget(key[c])
  /\ pc' = [pc EXCEPT ![c] = "producing"]
  /\ read' = [read EXCEPT ![c] = version]
  /\ UNCHANGED <<version, locks, key, current, ahead, orphaned>>

\* The producer's value is put in the store.  The locks of the evicted keys
\* go with them, even those that other callers wait for.
Fill(c) ==
  /\ pc[c] = "producing"
  /\ PutEntry(key[c], read[c])
  /\ Leave(c)
  /\ LET gone == Evicted(key[c])
         bereft == {d \in current \ {c} : key[d] \in gone}
     IN  /\ locks' = locks \ gone
         /\ current' = current \ ({c} \cup bereft)
         /\ orphaned' = orphaned \cup {key[d] : d \in bereft}
  /\ UNCHANGED version

\* The producer returns None or raises: nothing is put.
FailToProduce(c) ==
  /\ pc[c] = "producing"
  /\ Leave(c)
  /\ current' = current \ {c}
  /\ UNCHANGED <<version, entries, locks, orphaned>>

-----------------------------------------------------------------------------
\* What the producers read changes.
Change ==
  /\ version < MaxVersion
  /\ version' = version + 1
  /\ UNCHANGED <<entries, locks, calls, orphaned>>

Tick ==
  /\ left' = [k \in Keys |-> IF left[k] > 0 THEN left[k] - 1 ELSE 0]
  /\ UNCHANGED <<version, store, older, val, locks, calls, orphaned>>

Proceed(c) == FindFilled(c) \/ Produce(c) \/ Fill(c) \/ FailToProduce(c)

Next ==
  \/ \E c \in Callers : Proceed(c) \/ \E k \in Keys : Ask(c, k) \/ AskBare(c, k)
  \/ Change \/ Tick

Spec == Init /\ [][Next]_vars

\* What Proceed(c) does to pc, and nothing else does once c has asked.
Moves(c) ==
  /\ pc[c] # "idle" /\ ahead[c] = {}
  /\ pc' \in {[pc EXCEPT ![c] = s] : s \in {"idle", "producing"}}

\* The event loop runs every task that can run, and producers end.
FairSpec == Spec /\ \A c \in Callers : WF_pc(Moves(c))

-----------------------------------------------------------------------------
(* Properties *)

Producing(k) == {c \in Callers : pc[c] = "producing" /\ key[c] = k}

(* The store does not grow past its limit, whichever mix of overwrites,    *)
(* expired entries and concurrent puts it sees (cache.py:57-61).           *)
StoreBounded == Cardinality(store) <= MaxEntries

(* Callers of get_or_compute that miss together share one producer call,   *)
(* as long as no eviction has taken away a lock in use (cache.py:88-100).  *)
OneProducer ==
  \A k \in Guarded \ orphaned : \A c, d \in Producing(k) : c = d

(* A late producer never puts an older version over a newer one: what a    *)
(* guarded key serves does not go back in time while its entry lives.      *)
NeverOlder ==
  [][ \A k \in Guarded \ orphaned :
        k \in store /\ k \in store' => val'[k] >= val[k] ]_vars

(* _evict pushes no live entry out while it keeps an expired one           *)
(* (cache.py:47-54).                                                       *)
ExpiredGoFirst ==
  [][ (\E k \in store \ store' : left[k] > 0) => \A j \in store' : left'[j] > 0 ]_vars

(* Every caller gets its answer: the queue at a lock moves on also when a  *)
(* producer fails, and when the lock has been evicted from _locks.         *)
Served == \A c \in Callers : pc[c] = "waiting" ~> pc[c] = "idle"
=============================================================================
