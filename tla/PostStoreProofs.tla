-------------------------- MODULE PostStoreProofs ---------------------------
(***************************************************************************)
(* Proofs about saving posts, for every set of posts, communities and      *)
(* saver threads, and every size of the cache.                             *)
(***************************************************************************)
EXTENDS PostStore, FiniteSetTheorems, SequenceTheorems, TLAPS

(* The inductive invariant.  CountExact speaks of one call between two     *)
(* commits, so that call must be the only one (OneCall), a thread on the   *)
(* way must have a post in hand (InHand), and a sweep that is through must *)
(* have nothing left to subtract (NothingOwed).                            *)
Counting == {s \in Savers : pc[s] = "count"}

\* The steps that need a community.
Placed == {"resolve", "asking", "mark", "persist", "count"}

CacheIsSeq == cache \in Seq(Communities)
InHand ==
  \A s \in Savers :
    /\ pc[s] # "idle" => post[s] \in Posts
    /\ pc[s] \in Placed => at[s] \in Communities
OneCall ==
  /\ \A s, t \in Counting : s = t
  /\ sweep = "uncounting" => Counting = {}
NothingOwed == sweep = "idle" => tally = NoTally

IInv ==
  /\ TypeOK /\ CacheIsSeq
  /\ InHand /\ OneCall /\ NothingOwed
  /\ MarkedIsMapped /\ CountExact

LEMMA InitIInv == Init => IInv
<1> SUFFICES ASSUME Init PROVE IInv
  OBVIOUS
<1> USE DEF Init
<1>1. CacheIsSeq /\ Len(cache) = 0
  BY EmptySeq DEF CacheIsSeq
<1>2. TypeOK
  BY <1>1, StoreAssumption DEF TypeOK, Cached, NoTally, Tags
<1>3. InHand /\ OneCall /\ NothingOwed /\ MarkedIsMapped /\ CountExact
  BY DEF InHand, Placed, OneCall, Counting, NothingOwed, MarkedIsMapped, CountExact
<1> QED BY <1>1, <1>2, <1>3 DEF IInv

-----------------------------------------------------------------------------
(* Types *)

(* _resolve_community's cache after a new entry: still without duplicates, *)
(* and never above _MAX_COMMUNITY_CACHE.                                   *)
LEMMA EvictionBoundsCache ==
  ASSUME NEW known \in Seq(Communities), Len(known) <= MaxCache + 1,
         \A i, j \in 1 .. Len(known) : known[i] = known[j] => i = j
  PROVE  LET rest == SubSeq(known, Dropped(known) + 1, Len(known))
         IN  /\ rest \in Seq(Communities)
             /\ Len(rest) <= MaxCache
             /\ \A i, j \in DOMAIN rest : rest[i] = rest[j] => i = j
<1> DEFINE n == Dropped(known)
           rest == SubSeq(known, n + 1, Len(known))
<1>1. Len(known) \in Nat /\ MaxCache \in Nat /\ EvictBatch \in 1 .. MaxCache + 1
  BY LenProperties, StoreAssumption
<1>2. n \in 0 .. Len(known) /\ Len(known) - n <= MaxCache
  BY <1>1 DEF Dropped
<1> HIDE DEF n
<1>3. \A i \in n + 1 .. Len(known) : known[i] \in Communities
  BY <1>1, <1>2, ElementOfSeq
<1>4. /\ rest \in Seq(Communities)
      /\ Len(rest) = Len(known) - n
      /\ \A i \in 1 .. Len(known) - n : rest[i] = known[n + i]
  <2>1. n + 1 \in Int /\ Len(known) \in Int
    BY <1>1, <1>2
  <2>2. /\ rest \in Seq(Communities)
        /\ Len(rest) = IF n + 1 <= Len(known) THEN Len(known) - (n + 1) + 1 ELSE 0
        /\ \A i \in 1 .. Len(known) - (n + 1) + 1 : rest[i] = known[n + 1 + i - 1]
    BY <1>3, <2>1, SubSeqProperties
  <2> HIDE DEF rest
  <2>3. Len(rest) = Len(known) - n
    BY <1>1, <1>2, <2>2
  <2>4. ASSUME NEW i \in 1 .. Len(known) - n PROVE rest[i] = known[n + i]
    <3>1. i \in 1 .. Len(known) - (n + 1) + 1 /\ n + 1 + i - 1 = n + i
      BY <1>1, <1>2
    <3> QED BY <2>2, <3>1
  <2> QED BY <2>2, <2>3, <2>4
<1>5. DOMAIN rest = 1 .. Len(known) - n
  BY <1>4, LenProperties
<1> HIDE DEF rest
<1>6. ASSUME NEW i \in DOMAIN rest, NEW j \in DOMAIN rest, rest[i] = rest[j]
      PROVE  i = j
  <2>1. n + i \in 1 .. Len(known) /\ n + j \in 1 .. Len(known)
    BY <1>1, <1>2, <1>5
  <2>2. known[n + i] = known[n + j]
    BY <1>4, <1>5, <1>6
  <2>3. n + i = n + j
    BY <2>1, <2>2
  <2> QED BY <1>1, <1>2, <1>5, <2>3
<1> QED BY <1>2, <1>4, <1>6 DEF rest, n

(* Where a thread is, and with what. *)
LEMMA AtType ==
  ASSUME IInv, NEW s \in Savers
  PROVE  /\ at[s] \in Tags
         /\ pc[s] # "idle" => post[s] \in Posts
         /\ pc[s] \in Placed => at[s] \in Communities
BY DEF IInv, InHand, TypeOK

LEMMA ResolveCache ==
  ASSUME IInv, NEW s \in Savers, Resolve(s)
  PROVE  /\ cache' \in Seq(Communities)
         /\ Len(cache') <= MaxCache
         /\ \A i, j \in DOMAIN cache' : cache'[i] = cache'[j] => i = j
<1> DEFINE known == IF at[s] \in Cached THEN cache ELSE Append(cache, at[s])
<1>1. at[s] \in Communities
  BY AtType DEF Resolve, Placed
<1>2. /\ cache \in Seq(Communities) /\ Len(cache) \in Nat
      /\ DOMAIN cache = 1 .. Len(cache) /\ Len(cache) <= MaxCache
      /\ MaxCache \in Nat
  BY LenProperties, StoreAssumption DEF IInv, CacheIsSeq, TypeOK
<1>3. \A i, j \in 1 .. Len(cache) : cache[i] = cache[j] => i = j
  BY <1>2 DEF IInv, TypeOK
<1>4. /\ known \in Seq(Communities) /\ Len(known) <= MaxCache + 1
      /\ \A i, j \in 1 .. Len(known) : known[i] = known[j] => i = j
  <2>1. CASE at[s] \in Cached
    BY <1>2, <1>3, <2>1
  <2>2. CASE at[s] \notin Cached
    <3>1. \A i \in 1 .. Len(cache) : cache[i] # at[s]
      BY <1>2, <2>2 DEF Cached
    <3>2. /\ known \in Seq(Communities) /\ Len(known) = Len(cache) + 1
          /\ \A i \in 1 .. Len(cache) : known[i] = cache[i]
          /\ known[Len(cache) + 1] = at[s]
      BY <1>1, <1>2, <2>2, AppendProperties
    <3> HIDE DEF known
    <3>3. \A i \in 1 .. Len(known) : i \in 1 .. Len(cache) \/ i = Len(cache) + 1
      BY <1>2, <3>2
    <3> QED BY <1>2, <1>3, <3>1, <3>2, <3>3
  <2> QED BY <2>1, <2>2
<1>5. cache' = SubSeq(known, Dropped(known) + 1, Len(known))
  BY DEF Resolve
<1> HIDE DEF known
<1> QED BY <1>4, <1>5, EvictionBoundsCache

LEMMA NextCache == IInv /\ [Next]_vars =>
  /\ cache' \in Seq(Communities)
  /\ Len(cache') <= MaxCache
  /\ \A i, j \in DOMAIN cache' : cache'[i] = cache'[j] => i = j
<1> SUFFICES ASSUME IInv, [Next]_vars
             PROVE  /\ cache' \in Seq(Communities)
                    /\ Len(cache') <= MaxCache
                    /\ \A i, j \in DOMAIN cache' : cache'[i] = cache'[j] => i = j
  OBVIOUS
<1>1. CASE UNCHANGED cache
  BY <1>1 DEF IInv, TypeOK, CacheIsSeq
<1>2. CASE Crash
  BY <1>2, EmptySeq, StoreAssumption DEF Crash
<1>3. ASSUME NEW s \in Savers, Resolve(s)
      PROVE  /\ cache' \in Seq(Communities)
             /\ Len(cache') <= MaxCache
             /\ \A i, j \in DOMAIN cache' : cache'[i] = cache'[j] => i = j
  BY <1>3, ResolveCache
<1>4. ASSUME NEW s \in Savers, SaverStep(s), ~Resolve(s) PROVE UNCHANGED cache
  BY <1>4 DEF SaverStep, LookUp, ResolveFails, Mark, Persist, PersistFails, Save,
              SaveUnanswered, SaveFails, Count, CountFails, Take, memory
<1>5. ASSUME (\E a \in Authors : Delete(a) \/ DeleteUnanswered(a)) \/ Uncount \/ UncountFails
      PROVE  UNCHANGED cache
  BY <1>5 DEF Delete, DeleteUnanswered, Uncount, UncountFails, memory
<1> QED BY <1>1, <1>2, <1>3, <1>4, <1>5 DEF Next, vars

LEMMA NextTypeOK == IInv /\ [Next]_vars => TypeOK' /\ CacheIsSeq'
<1> SUFFICES ASSUME IInv, [Next]_vars PROVE TypeOK' /\ CacheIsSeq'
  OBVIOUS
<1>1. /\ CacheIsSeq'
      /\ Len(cache') <= MaxCache
      /\ \A i, j \in DOMAIN cache' : cache'[i] = cache'[j] => i = j
  BY NextCache DEF CacheIsSeq
<1>2. Cached' \subseteq Communities
  BY <1>1, LenProperties DEF Cached, CacheIsSeq
<1>3. ASSUME NEW s \in Savers, SaverStep(s) PROVE TypeOK'
  <2> USE DEF inHand
  <2>1. /\ at[s] \in Tags /\ NoCommunity \in Tags
        /\ pc[s] # "idle" => post[s] \in Posts
        /\ pc[s] \in Placed => at[s] \in Communities
    BY AtType DEF Tags
  <2>2. CASE LookUp(s) \/ Resolve(s) \/ ResolveFails(s) \/ Mark(s)
    BY <1>1, <1>2, <2>1, <2>2
    DEF LookUp, Resolve, ResolveFails, Mark, IInv, TypeOK, Goto, db, memory, sweeper, Placed
  <2>3. CASE Persist(s) \/ PersistFails(s)
    <3>1. count' \in [Communities -> Int]
      BY <2>1, <2>3 DEF Persist, PersistFails, Upserted, IInv, TypeOK, db, Placed
    <3> QED BY <1>1, <1>2, <2>1, <2>3, <3>1
            DEF Persist, PersistFails, IInv, TypeOK, Goto, db, memory, sweeper, Placed
  <2>4. CASE Save(s) \/ SaveUnanswered(s) \/ SaveFails(s)
    <3>1. posts' \in [Posts -> Tags \cup {NoRow}]
      BY <2>1, <2>4 DEF Save, SaveUnanswered, SaveFails, Write, IInv, TypeOK, db
    <3>2. faults' \in 0 .. MaxSlips /\ moves' \in 0 .. MaxSlips
      BY <2>4, StoreAssumption
      DEF Save, SaveUnanswered, SaveFails, CountMove, IInv, TypeOK
    <3>3. tainted' \in SUBSET Communities
      BY <2>4 DEF Save, SaveUnanswered, SaveFails, Taint, IInv, TypeOK
    <3>4. /\ pc' \in [Savers -> {"idle", "resolve", "asking", "mark", "persist", "save", "count"}]
          /\ post' \in [Savers -> Posts \cup {NoPost}] /\ at' \in [Savers -> Tags]
      BY <2>1, <2>4 DEF Save, SaveUnanswered, SaveFails, Done, Goto, IInv, TypeOK
    <3> QED BY <1>1, <1>2, <2>4, <3>1, <3>2, <3>3, <3>4
            DEF Save, SaveUnanswered, SaveFails, IInv, TypeOK, db, memory, sweeper
  <2>5. CASE Count(s) \/ CountFails(s)
    <3>1. count' \in [Communities -> Int]
      BY <2>1, <2>5 DEF Count, CountFails, IInv, TypeOK, db
    <3>2. faults' \in 0 .. MaxSlips /\ moves' \in 0 .. MaxSlips /\ tainted' \in SUBSET Communities
      BY <2>1, <2>5, StoreAssumption DEF Count, CountFails, Taint, IInv, TypeOK
    <3> QED BY <1>1, <1>2, <2>1, <2>5, <3>1, <3>2
            DEF Count, CountFails, Done, IInv, TypeOK, Goto, db, memory, sweeper
  <2>6. ASSUME NEW p \in Posts, NEW c \in TagsOf[p], Take(s, p, c) PROVE TypeOK'
    <3>1. c \in Tags
      BY StoreAssumption DEF Tags
    <3> QED BY <1>1, <1>2, <2>6, <3>1 DEF Take, IInv, TypeOK, Goto, db, memory, sweeper
  <2> QED BY <1>3, <2>2, <2>3, <2>4, <2>5, <2>6 DEF SaverStep
<1>4. ASSUME NEW a \in Authors, Delete(a) \/ DeleteUnanswered(a) PROVE TypeOK'
  <2>1. ASSUME NEW c \in Communities
        PROVE  Cardinality(ByAuthor(a) \cap PostsOf(c)) \in Nat
    <3>1. ByAuthor(a) \cap PostsOf(c) \in SUBSET Posts
      BY DEF PostsOf
    <3> QED BY <3>1, FS_Subset, FS_CardinalityType, StoreAssumption
  <2>2. tally' \in [Communities -> Nat]
    <3>1. CASE Delete(a)
      BY <2>1, <3>1 DEF Delete
    <3>2. CASE DeleteUnanswered(a)
      BY <3>2 DEF DeleteUnanswered, sweeper, IInv, TypeOK
    <3> QED BY <1>4, <3>1, <3>2
  <2>3. posts' \in [Posts -> Tags \cup {NoRow}]
    BY <1>4 DEF Delete, DeleteUnanswered, Without, IInv, TypeOK
  <2>4. faults' \in 0 .. MaxSlips /\ tainted' \in SUBSET Communities
    BY <1>4, StoreAssumption DEF Delete, DeleteUnanswered, Taint, IInv, TypeOK
  <2> QED BY <1>1, <1>2, <1>4, <2>2, <2>3, <2>4
          DEF Delete, DeleteUnanswered, IInv, TypeOK, memory, inHand, sweeper
<1>5. CASE Uncount \/ UncountFails
  <2>1. NoTally \in [Communities -> Nat]
    BY DEF NoTally
  <2>2. count' \in [Communities -> Int] /\ faults' \in 0 .. MaxSlips
    BY <1>5, StoreAssumption DEF Uncount, UncountFails, IInv, TypeOK, db
  <2>3. tainted' \in SUBSET Communities
    BY <1>5 DEF Uncount, UncountFails, Taint, IInv, TypeOK
  <2> QED BY <1>1, <1>2, <1>5, <2>1, <2>2, <2>3
          DEF Uncount, UncountFails, IInv, TypeOK, db, memory, inHand
<1>6. CASE Crash
  <2>1. NoTally \in [Communities -> Nat] /\ NoCommunity \in Tags
    BY DEF NoTally, Tags
  <2>2. tainted' \in SUBSET Communities
    BY <1>6 DEF Crash, Taint, IInv, TypeOK
  <2>3. faults' \in 0 .. MaxSlips
    BY <1>6, StoreAssumption DEF Crash, IInv, TypeOK
  <2> QED BY <1>1, <1>2, <1>6, <2>1, <2>2, <2>3 DEF Crash, IInv, TypeOK, db
<1>7. CASE UNCHANGED vars
  BY <1>1, <1>2, <1>7 DEF vars, IInv, TypeOK
<1> QED BY <1>1, <1>3, <1>4, <1>5, <1>6, <1>7 DEF Next

-----------------------------------------------------------------------------
(* One call at a time *)

(* A thread on the way has a post, only one call stands between its two    *)
(* commits, and a finished sweep owes nothing.                             *)
LEMMA NextOneCall == IInv /\ [Next]_vars => (InHand /\ OneCall /\ NothingOwed)'
<1> SUFFICES ASSUME IInv, [Next]_vars PROVE (InHand /\ OneCall /\ NothingOwed)'
  OBVIOUS
<1> USE DEF IInv, TypeOK, InHand, Placed, OneCall, NothingOwed, Counting, inHand
<1>1. ASSUME NEW s \in Savers, SaverStep(s) PROVE (InHand /\ OneCall /\ NothingOwed)'
  <2>1. CASE LookUp(s) \/ Resolve(s) \/ ResolveFails(s) \/ Mark(s)
    BY <2>1 DEF LookUp, Resolve, ResolveFails, Mark, Goto, sweeper
  <2>2. CASE Persist(s) \/ PersistFails(s)
    BY <2>2 DEF Persist, PersistFails, Goto, sweeper
  <2>3. CASE Save(s)
    <3>1. CASE posts[post[s]] = NoRow /\ at[s] # NoCommunity
      <4>1. at[s] \in Communities
        BY <3>1, AtType DEF Tags
      <4> QED BY <2>3, <3>1, <4>1 DEF Save, DbFree, Goto, sweeper
    <3>2. CASE ~(posts[post[s]] = NoRow /\ at[s] # NoCommunity)
      BY <2>3, <3>2 DEF Save, DbFree, Done, Goto, sweeper
    <3> QED BY <3>1, <3>2
  <2>6. CASE SaveUnanswered(s) \/ SaveFails(s)
    BY <2>6 DEF SaveUnanswered, SaveFails, DbFree, Done, Goto, sweeper
  <2>4. CASE Count(s) \/ CountFails(s)
    BY <2>4 DEF Count, CountFails, Done, Goto, sweeper
  <2>5. ASSUME NEW p \in Posts, NEW c \in TagsOf[p], Take(s, p, c)
        PROVE  (InHand /\ OneCall /\ NothingOwed)'
    <3>1. c # NoCommunity => c \in Communities
      BY StoreAssumption
    <3> QED BY <2>5, <3>1 DEF Take, Goto, sweeper
  <2> QED BY <1>1, <2>1, <2>2, <2>3, <2>4, <2>5, <2>6 DEF SaverStep
<1>2. ASSUME NEW a \in Authors, Delete(a) \/ DeleteUnanswered(a)
      PROVE  (InHand /\ OneCall /\ NothingOwed)'
  BY <1>2 DEF Delete, DeleteUnanswered, DbFree, sweeper
<1>3. CASE Uncount \/ UncountFails
  BY <1>3 DEF Uncount, UncountFails
<1>4. CASE Crash
  BY <1>4 DEF Crash
<1>5. CASE UNCHANGED vars
  BY <1>5 DEF vars
<1> QED BY <1>1, <1>2, <1>3, <1>4, <1>5 DEF Next

-----------------------------------------------------------------------------
(* The mark *)

LEMMA NextMarked == IInv /\ [Next]_vars => MarkedIsMapped'
<1> SUFFICES ASSUME IInv, [Next]_vars PROVE MarkedIsMapped'
  OBVIOUS
<1> USE DEF IInv, TypeOK, MarkedIsMapped, inHand
<1>1. ASSUME NEW s \in Savers, SaverStep(s) PROVE MarkedIsMapped'
  <2>1. CASE LookUp(s) \/ Resolve(s) \/ ResolveFails(s)
    BY <2>1 DEF LookUp, Resolve, ResolveFails, Goto, db, memory
  <2>2. CASE Mark(s)
    BY <2>2 DEF Mark, Goto, db
  <2>3. CASE Persist(s) \/ PersistFails(s)
    BY <2>3 DEF Persist, PersistFails, Goto, db, memory
  <2>4. CASE Save(s) \/ SaveUnanswered(s) \/ SaveFails(s)
    BY <2>4 DEF Save, SaveUnanswered, SaveFails, Done, Goto, db, memory
  <2>5. CASE Count(s) \/ CountFails(s)
    BY <2>5 DEF Count, CountFails, Done, Goto, db, memory
  <2>6. ASSUME NEW p \in Posts, NEW c \in TagsOf[p], Take(s, p, c) PROVE MarkedIsMapped'
    BY <2>6 DEF Take, Goto, db, memory
  <2> QED BY <1>1, <2>1, <2>2, <2>3, <2>4, <2>5, <2>6 DEF SaverStep
<1>2. ASSUME (\E a \in Authors : Delete(a) \/ DeleteUnanswered(a)) \/ Uncount \/ UncountFails
      PROVE  MarkedIsMapped'
  BY <1>2 DEF Delete, DeleteUnanswered, Uncount, UncountFails, db, memory
<1>3. CASE Crash
  BY <1>3 DEF Crash
<1>4. CASE UNCHANGED vars
  BY <1>4 DEF vars
<1> QED BY <1>1, <1>2, <1>3, <1>4 DEF Next

-----------------------------------------------------------------------------
(* The counts *)

CountingFor(c) == {s \in Savers : pc[s] = "count" /\ at[s] = c}

LEMMA PendingIs ==
  ASSUME NEW c
  PROVE  Pending(c) = Cardinality(CountingFor(c)) - tally[c]
BY DEF Pending, CountingFor

(* What one call stands for: at most one post still to be counted. *)
LEMMA AtMostOneCounts ==
  ASSUME IInv, NEW c
  PROVE  Cardinality(CountingFor(c)) = IF CountingFor(c) = {} THEN 0 ELSE 1
<1>1. CASE CountingFor(c) = {}
  BY <1>1, FS_EmptySet
<1>2. CASE CountingFor(c) # {}
  <2>1. PICK s : CountingFor(c) = {s}
    BY <1>2 DEF IInv, OneCall, Counting, CountingFor
  <2> QED BY <1>2, <2>1, FS_Singleton
<1> QED BY <1>1, <1>2

(* While the database is free, nothing is pending. *)
LEMMA FreeMeansCounted ==
  ASSUME IInv, DbFree, NEW c \in Communities
  PROVE  CountingFor(c) = {} /\ tally[c] = 0 /\ Pending(c) = 0
<1>1. CountingFor(c) = {} /\ tally[c] = 0
  BY DEF IInv, NothingOwed, NoTally, DbFree, CountingFor
<1> QED BY <1>1, PendingIs, FS_EmptySet

LEMMA PostsOfFinite ==
  ASSUME NEW c
  PROVE  IsFiniteSet(PostsOf(c)) /\ Cardinality(PostsOf(c)) \in Nat
<1>1. PostsOf(c) \in SUBSET Posts
  BY DEF PostsOf
<1> QED BY <1>1, FS_Subset, FS_CardinalityType, StoreAssumption

(* A step that touches neither the counts nor a call between its commits.  *)
LEMMA CountUntouched ==
  ASSUME IInv, UNCHANGED <<posts, mapped, count, tally>>, tainted \subseteq tainted',
         \A c \in Communities : CountingFor(c)' = CountingFor(c)
  PROVE  CountExact'
<1> SUFFICES ASSUME NEW c \in (mapped \ tainted)'
             PROVE  count'[c] + Pending(c)' = Cardinality(PostsOf(c)')
  BY DEF CountExact
<1>1. c \in mapped \ tainted /\ c \in Communities
  BY DEF IInv, TypeOK
<1>2. Pending(c)' = Pending(c)
  BY <1>1, PendingIs DEF Pending, CountingFor
<1>3. PostsOf(c)' = PostsOf(c)
  BY DEF PostsOf
<1> QED BY <1>1, <1>2, <1>3 DEF IInv, CountExact

(* Writing a row touches the communities it leaves and it enters, and no   *)
(* others.                                                                 *)
LEMMA WriteShifts ==
  ASSUME IInv, NEW s \in Savers, pc[s] = "save", Write(s), NEW c \in Communities
  PROVE  /\ c \notin Shifted(s) => PostsOf(c)' = PostsOf(c)
         /\ posts[post[s]] = NoRow /\ at[s] = c =>
              post[s] \notin PostsOf(c) /\ PostsOf(c)' = PostsOf(c) \cup {post[s]}
<1>1. /\ post[s] \in Posts /\ posts \in [Posts -> Tags \cup {NoRow}]
      /\ c # NoRow /\ c # NoCommunity
  BY AtType, StoreAssumption DEF IInv, TypeOK
<1>2. \A p \in Posts : posts'[p] = IF p = post[s] THEN at[s] ELSE posts[p]
  BY <1>1 DEF Write
<1>3. ASSUME c \notin Shifted(s) PROVE PostsOf(c)' = PostsOf(c)
  <2>1. posts[post[s]] = at[s] \/ (posts[post[s]] # c /\ at[s] # c)
    BY <1>1, <1>3 DEF Shifted
  <2> QED BY <1>1, <1>2, <2>1 DEF PostsOf
<1>4. ASSUME posts[post[s]] = NoRow, at[s] = c
      PROVE  post[s] \notin PostsOf(c) /\ PostsOf(c)' = PostsOf(c) \cup {post[s]}
  BY <1>1, <1>2, <1>4 DEF PostsOf
<1> QED BY <1>3, <1>4

(* create_post: the row first, its community's count after. *)
LEMMA SaveCounted ==
  ASSUME IInv, NEW s \in Savers, Save(s) \/ SaveUnanswered(s)
  PROVE  CountExact'
<1> SUFFICES ASSUME NEW c \in (mapped \ tainted)'
             PROVE  count'[c] + Pending(c)' = Cardinality(PostsOf(c)')
  BY DEF CountExact
<1>1. /\ c \in mapped \ tainted /\ c \in Communities
      /\ count' = count /\ tally' = tally /\ count[c] \in Int
      /\ pc[s] = "save" /\ DbFree /\ Write(s)
  BY DEF IInv, TypeOK, Save, SaveUnanswered, sweeper, Taint
<1>2. Pending(c) = 0 /\ CountingFor(c) = {} /\ tally[c] = 0
  BY <1>1, FreeMeansCounted
<1>3. count[c] = Cardinality(PostsOf(c))
  BY <1>1, <1>2 DEF IInv, CountExact
<1>4. Pending(c)' = Cardinality(CountingFor(c)')
  <2>1. Pending(c)' = Cardinality(CountingFor(c)') - tally'[c]
    BY DEF Pending, CountingFor
  <2>2. CountingFor(c)' \in SUBSET {s}
    BY <1>1 DEF Save, SaveUnanswered, DbFree, Done, Goto, CountingFor, inHand, IInv, TypeOK
  <2>3. Cardinality(CountingFor(c)') \in Nat
    BY <2>2, FS_Singleton, FS_Subset, FS_CardinalityType
  <2> QED BY <1>1, <1>2, <2>1, <2>3
<1> DEFINE ToCount == Save(s) /\ posts[post[s]] = NoRow /\ at[s] # NoCommunity
<1>5. CASE ~ToCount \/ at[s] # c
  <2>1. CountingFor(c)' = {}
    BY <1>1, <1>5
    DEF Save, SaveUnanswered, DbFree, Done, Goto, CountingFor, inHand, IInv, TypeOK
  <2>2. Pending(c)' = 0
    BY <1>4, <2>1, FS_EmptySet
  <2>3. c \notin Shifted(s)
    <3>1. CASE ToCount
      BY <1>1, <1>5, <3>1, StoreAssumption DEF Shifted
    <3>2. CASE ~ToCount
      <4>1. Taint(Shifted(s))
        BY <3>2 DEF Save, SaveUnanswered
      <4> QED BY <1>1, <4>1 DEF Taint
    <3> QED BY <3>1, <3>2
  <2>4. PostsOf(c)' = PostsOf(c)
    BY <1>1, <2>3, WriteShifts
  <2> QED BY <1>1, <1>3, <2>2, <2>4
<1>6. CASE ToCount /\ at[s] = c
  <2>1. post[s] \notin PostsOf(c) /\ PostsOf(c)' = PostsOf(c) \cup {post[s]}
    BY <1>1, <1>6, WriteShifts
  <2>2. Cardinality(PostsOf(c)') = Cardinality(PostsOf(c)) + 1
    BY <2>1, FS_AddElement, PostsOfFinite
  <2>3. CountingFor(c)' = {s}
    BY <1>1, <1>6 DEF Save, DbFree, Goto, CountingFor, inHand, IInv, TypeOK
  <2>4. Pending(c)' = 1
    BY <1>4, <2>3, FS_Singleton
  <2> QED BY <1>1, <1>3, <2>2, <2>4
<1> QED BY <1>5, <1>6

(* The second commit, made or lost. *)
LEMMA CountCounted ==
  ASSUME IInv, NEW s \in Savers, Count(s) \/ CountFails(s)
  PROVE  CountExact'
<1> SUFFICES ASSUME NEW c \in (mapped \ tainted)'
             PROVE  count'[c] + Pending(c)' = Cardinality(PostsOf(c)')
  BY DEF CountExact
<1>1. /\ c \in mapped \ tainted /\ c \in Communities
      /\ PostsOf(c)' = PostsOf(c) /\ tally' = tally /\ count[c] \in Int
      /\ CountFails(s) => c # at[s]
  BY DEF IInv, TypeOK, Count, CountFails, Taint, db, sweeper, PostsOf
<1>2. s \in Counting /\ pc[s] = "count" /\ sweep = "idle" /\ tally[c] = 0
  BY <1>1 DEF Count, CountFails, Counting, IInv, OneCall, NothingOwed, NoTally, TypeOK
<1>3. count[c] + Pending(c) = Cardinality(PostsOf(c))
  BY <1>1 DEF IInv, CountExact
<1>4. CountingFor(c) = IF at[s] = c THEN {s} ELSE {}
  BY <1>2 DEF IInv, OneCall, Counting, CountingFor
<1>5. Pending(c) = IF at[s] = c THEN 1 ELSE 0
  <2>1. Cardinality(CountingFor(c)) = IF at[s] = c THEN 1 ELSE 0
    BY <1>4, FS_Singleton, FS_EmptySet
  <2> QED BY <1>2, <2>1, PendingIs
<1>6. Pending(c)' = 0
  <2>1. CountingFor(c)' = {}
    BY <1>2 DEF Count, CountFails, Done, Goto, CountingFor, IInv, TypeOK, OneCall, Counting
  <2>2. Pending(c)' = Cardinality(CountingFor(c)') - tally'[c]
    BY DEF Pending, CountingFor
  <2> QED BY <1>1, <1>2, <2>1, <2>2, FS_EmptySet
<1>7. count'[c] = IF at[s] = c THEN count[c] + 1 ELSE count[c]
  <2>1. CASE CountFails(s)
    BY <1>1, <2>1 DEF CountFails, db
  <2>2. CASE Count(s)
    BY <1>1, <2>2 DEF Count, IInv, TypeOK
  <2> QED BY <2>1, <2>2
<1> QED BY <1>1, <1>3, <1>5, <1>6, <1>7

(* Persist gives a community its row: counted from nothing, which is right *)
(* unless posts came before.                                               *)
LEMMA PersistCounted ==
  ASSUME IInv, NEW s \in Savers, Persist(s)
  PROVE  CountExact'
<1> SUFFICES ASSUME NEW c \in (mapped \ tainted)'
             PROVE  count'[c] + Pending(c)' = Cardinality(PostsOf(c)')
  BY DEF CountExact
<1>1. /\ c \in Communities /\ at[s] \in Communities
      /\ PostsOf(c)' = PostsOf(c) /\ tally' = tally /\ tainted \subseteq tainted'
  BY AtType DEF IInv, TypeOK, Persist, sweeper, Placed, PostsOf
<1>2. DbFree /\ Pending(c) = 0 /\ CountingFor(c) = {} /\ tally[c] = 0
  BY <1>1, FreeMeansCounted DEF Persist
<1>3. Pending(c)' = 0
  <2>1. CountingFor(c)' = {}
    BY <1>2 DEF Persist, DbFree, Goto, CountingFor, inHand, IInv, TypeOK
  <2>2. Pending(c)' = Cardinality(CountingFor(c)') - tally'[c]
    BY DEF Pending, CountingFor
  <2> QED BY <1>1, <1>2, <2>1, <2>2, FS_EmptySet
<1>4. CASE c \in mapped
  <2>1. count'[c] = count[c]
    BY <1>1, <1>4 DEF Persist, Upserted, IInv, TypeOK
  <2>2. count[c] + Pending(c) = Cardinality(PostsOf(c))
    BY <1>1, <1>4 DEF IInv, CountExact
  <2> QED BY <1>1, <1>2, <1>3, <2>1, <2>2
<1>5. CASE c \notin mapped
  <2>1. c = at[s]
    BY <1>5 DEF Persist
  <2>2. PostsOf(c) = {}
    BY <1>1, <1>5, <2>1 DEF Persist
  <2>3. count'[c] = 0
    BY <1>1, <1>5, <2>1 DEF Persist, Upserted, IInv, TypeOK
  <2> QED BY <1>1, <1>3, <2>2, <2>3, FS_EmptySet
<1> QED BY <1>4, <1>5

(* delete_posts_by_author: the rows first, their counts after. *)
LEMMA DeleteCounted ==
  ASSUME IInv, NEW a \in Authors, Delete(a) \/ DeleteUnanswered(a)
  PROVE  CountExact'
<1> SUFFICES ASSUME NEW c \in (mapped \ tainted)'
             PROVE  count'[c] + Pending(c)' = Cardinality(PostsOf(c)')
  BY DEF CountExact
<1> DEFINE gone == ByAuthor(a) \cap PostsOf(c)
<1>1. /\ c \in mapped \ tainted /\ c \in Communities /\ DbFree
      /\ count' = count /\ count[c] \in Int
  BY DEF IInv, TypeOK, Delete, DeleteUnanswered, Taint
<1>2. Pending(c) = 0 /\ CountingFor(c) = {} /\ tally[c] = 0
  BY <1>1, FreeMeansCounted
<1>3. count[c] = Cardinality(PostsOf(c))
  BY <1>1, <1>2 DEF IInv, CountExact
<1>4. PostsOf(c)' = PostsOf(c) \ gone
  <2>1. posts' = Without(ByAuthor(a)) /\ c # NoRow
    BY <1>1, StoreAssumption DEF Delete, DeleteUnanswered
  <2>2. \A p \in Posts : posts'[p] = IF p \in ByAuthor(a) THEN NoRow ELSE posts[p]
    BY <2>1 DEF Without
  <2> QED BY <2>1, <2>2 DEF PostsOf
<1>5. CountingFor(c)' = {}
  BY <1>2 DEF Delete, DeleteUnanswered, inHand, CountingFor
<1>6. Pending(c)' = 0 - tally'[c]
  <2>1. Pending(c)' = Cardinality(CountingFor(c)') - tally'[c]
    BY DEF Pending, CountingFor
  <2>2. tally'[c] \in Int
    <3>1. tally' \in [Communities -> Nat]
      BY NextTypeOK DEF Next, TypeOK
    <3> QED BY <1>1, <3>1
  <2> QED BY <1>5, <2>1, <2>2, FS_EmptySet
<1>7. CASE Delete(a)
  <2>1. tally'[c] = Cardinality(gone)
    BY <1>1, <1>7 DEF Delete
  <2>2. Cardinality(PostsOf(c)') = Cardinality(PostsOf(c)) - Cardinality(gone)
    <3>1. PostsOf(c) \cap gone = gone /\ IsFiniteSet(PostsOf(c))
      BY PostsOfFinite
    <3> HIDE DEF gone
    <3> QED BY <1>4, <3>1, FS_Difference
  <2>3. Cardinality(PostsOf(c)) \in Nat /\ Cardinality(gone) \in Nat
    <3>1. gone \in SUBSET PostsOf(c)
      OBVIOUS
    <3> QED BY <3>1, PostsOfFinite, FS_Subset, FS_CardinalityType
  <2> QED BY <1>1, <1>3, <1>6, <2>1, <2>2, <2>3
<1>8. CASE DeleteUnanswered(a)
  <2>1. gone = {}
    BY <1>1, <1>8 DEF DeleteUnanswered, Taint, PostsOf
  <2>2. tally'[c] = 0
    BY <1>2, <1>8 DEF DeleteUnanswered, sweeper
  <2>3. PostsOf(c)' = PostsOf(c)
    BY <1>4, <2>1
  <2> QED BY <1>1, <1>3, <1>6, <2>2, <2>3
<1> QED BY <1>7, <1>8

(* Its second commit, made or lost. *)
LEMMA UncountCounted ==
  ASSUME IInv, Uncount \/ UncountFails
  PROVE  CountExact'
<1> SUFFICES ASSUME NEW c \in (mapped \ tainted)'
             PROVE  count'[c] + Pending(c)' = Cardinality(PostsOf(c)')
  BY DEF CountExact
<1>1. /\ c \in mapped \ tainted /\ c \in Communities /\ PostsOf(c)' = PostsOf(c)
      /\ count[c] \in Int /\ tally[c] \in Nat /\ tally'[c] = 0
  BY DEF IInv, TypeOK, Uncount, UncountFails, Taint, db, NoTally, PostsOf
<1>2. count[c] + Pending(c) = Cardinality(PostsOf(c))
  BY <1>1 DEF IInv, CountExact
<1>3. CountingFor(c) = {} /\ CountingFor(c)' = {}
  BY DEF Uncount, UncountFails, IInv, OneCall, Counting, CountingFor, inHand
<1>4. Pending(c) = 0 - tally[c]
  BY <1>1, <1>3, PendingIs, FS_EmptySet
<1>5. Pending(c)' = 0
  <2>1. Pending(c)' = Cardinality(CountingFor(c)') - tally'[c]
    BY DEF Pending, CountingFor
  <2> QED BY <1>1, <1>3, <2>1, FS_EmptySet
<1>6. count'[c] = count[c] - tally[c]
  <2>1. CASE Uncount
    BY <1>1, <2>1 DEF Uncount
  <2>2. CASE UncountFails
    <3>1. tally[c] = 0
      BY <1>1, <2>2 DEF UncountFails, Tallied, Taint
    <3> QED BY <1>1, <2>2, <3>1 DEF UncountFails, db
  <2> QED BY <2>1, <2>2
<1> QED BY <1>1, <1>2, <1>4, <1>5, <1>6

(* A crash: whatever stood between two commits is tainted. *)
LEMMA CrashCounted ==
  ASSUME IInv, Crash
  PROVE  CountExact'
<1> SUFFICES ASSUME NEW c \in (mapped \ tainted)'
             PROVE  count'[c] + Pending(c)' = Cardinality(PostsOf(c)')
  BY DEF CountExact
<1>1. /\ c \in mapped \ tainted /\ c \in Communities
      /\ PostsOf(c)' = PostsOf(c) /\ count' = count /\ count[c] \in Int
      /\ tally[c] \in Nat /\ tally'[c] = 0
  BY DEF IInv, TypeOK, Crash, Taint, db, NoTally, PostsOf
<1>2. tally[c] = 0
  BY <1>1 DEF Crash, Tallied, Taint
<1>3. CountingFor(c) = {} /\ CountingFor(c)' = {}
  <2>1. ASSUME NEW s \in Savers, pc[s] = "count", at[s] = c PROVE FALSE
    BY <1>1, <2>1 DEF Crash, Taint
  <2> QED BY <2>1 DEF Crash, CountingFor
<1>4. Pending(c) = 0
  BY <1>2, <1>3, PendingIs, FS_EmptySet
<1>5. Pending(c)' = 0
  <2>1. Pending(c)' = Cardinality(CountingFor(c)') - tally'[c]
    BY DEF Pending, CountingFor
  <2> QED BY <1>1, <1>3, <2>1, FS_EmptySet
<1> QED BY <1>1, <1>4, <1>5 DEF IInv, CountExact

LEMMA NextCountExact == IInv /\ [Next]_vars => CountExact'
<1> SUFFICES ASSUME IInv, [Next]_vars PROVE CountExact'
  OBVIOUS
<1>1. ASSUME NEW s \in Savers, SaverStep(s) PROVE CountExact'
  <2>1. CASE Save(s) \/ SaveUnanswered(s)
    BY <2>1, SaveCounted
  <2>2. CASE Count(s) \/ CountFails(s)
    BY <2>2, CountCounted
  <2>3. CASE Persist(s)
    BY <2>3, PersistCounted
  <2>4. ASSUME LookUp(s) \/ Resolve(s) \/ ResolveFails(s) \/ Mark(s) \/ PersistFails(s)
                 \/ SaveFails(s) \/ \E p \in Posts : \E c \in TagsOf[p] : Take(s, p, c)
        PROVE  CountExact'
    <3>1. UNCHANGED <<posts, mapped, count, tally, tainted>>
      BY <2>4 DEF LookUp, Resolve, ResolveFails, Mark, PersistFails, SaveFails, Take,
                  db, sweeper
    <3>2. /\ pc[s] # "count" /\ pc'[s] # "count"
          /\ \A t \in Savers : t # s => pc'[t] = pc[t] /\ at'[t] = at[t]
      BY <2>4 DEF LookUp, Resolve, ResolveFails, Mark, PersistFails, SaveFails, Take,
                  Goto, Done, inHand, IInv, TypeOK
    <3>3. \A c \in Communities : CountingFor(c)' = CountingFor(c)
      BY <3>2 DEF CountingFor
    <3> QED BY <3>1, <3>3, CountUntouched
  <2> QED BY <1>1, <2>1, <2>2, <2>3, <2>4 DEF SaverStep
<1>2. ASSUME NEW a \in Authors, Delete(a) \/ DeleteUnanswered(a) PROVE CountExact'
  BY <1>2, DeleteCounted
<1>3. CASE Uncount \/ UncountFails
  BY <1>3, UncountCounted
<1>4. CASE Crash
  BY <1>4, CrashCounted
<1>5. CASE UNCHANGED vars
  BY <1>5, CountUntouched DEF vars, CountingFor
<1> QED BY <1>1, <1>2, <1>3, <1>4, <1>5 DEF Next

-----------------------------------------------------------------------------
(* The theorems *)

LEMMA Invariance == Spec => []IInv
<1>1. Init => IInv
  BY InitIInv
<1>2. IInv /\ [Next]_vars => IInv'
  BY NextTypeOK, NextOneCall, NextMarked, NextCountExact DEF IInv
<1> QED BY <1>1, <1>2, PTL DEF Spec

(* Type correctness, with the bound on _community_cache and its entries    *)
(* all different, whichever threads resolve communities at the same time   *)
(* (community.py).                                                         *)
THEOREM TypeCorrect == Spec => []TypeOK
<1>1. IInv => TypeOK
  BY DEF IInv
<1> QED BY <1>1, Invariance, PTL

(* post_count is the number of the community's posts, corrected by what    *)
(* the one call between its commits has still to add: for any number of    *)
(* threads, posts and authors, except where a post came before the         *)
(* mapping, an update moved a post between communities, or one of a call's *)
(* commits was lost or went unanswered (crud.py:172-211, 955-987).         *)
THEOREM CountIsExact == Spec => []CountExact
<1>1. IInv => CountExact
  BY DEF IInv
<1> QED BY <1>1, Invariance, PTL

(* A community marked as persisted has its row, or a thread is writing it, *)
(* or the write failed in this process (classify.py:346-350).              *)
THEOREM MarkedMeansMapped == Spec => []MarkedIsMapped
<1>1. IInv => MarkedIsMapped
  BY DEF IInv
<1> QED BY <1>1, Invariance, PTL

(* The two calls of two commits never stand open together: no save counts  *)
(* while a sweep subtracts, and no two saves count at once (the one lock   *)
(* of _DB.run, bridge.py).                                                 *)
THEOREM CallsExclude == Spec => []OneCall
<1>1. IInv => OneCall
  BY DEF IInv
<1> QED BY <1>1, Invariance, PTL
=============================================================================
