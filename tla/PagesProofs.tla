----------------------------- MODULE PagesProofs ----------------------------
(***************************************************************************)
(* Proofs about what visitors load.                                        *)
(*                                                                         *)
(* The first part is about the pool of HAFSQL connections and the sitemap  *)
(* (Pages), for any number of lists, visitors and connections.  The second *)
(* is about the feed in the browser (Feed), for any number of posts, any   *)
(* filters and lists, any sizes of pages and polls, and any number of      *)
(* changes the user makes.                                                 *)
(***************************************************************************)
EXTENDS Pages, Feed, FiniteSetTheorems, TLAPS

(* The inductive invariant.  That a new pool is made only when no          *)
(* connection of another is in use follows from who may be on the way when *)
(* there is no pool: nobody before the shutdown (OnCurrentPool), only the  *)
(* warm task's thread after it (OnlyWarmOutlives).                         *)
Kinds == {"alive", "dead"}
AtPool(j) == job[j].pc \in {"conn", "query"}

CurrentIsOpen == open = {current} \ {None}
OnCurrentPool == ~stopping => \A j \in Jobs : AtPool(j) => job[j].pool = current
OnlyWarmOutlives == stopping => \A j \in Jobs \ {Warm} : At(j, "idle")
InHand == \A j \in Jobs :
  /\ AtPool(j) => job[j].pool \in Pools
  /\ At(j, "query") => job[j].conn \in Kinds
IdleBounded == \A p \in Pools : idle[p].alive + idle[p].dead <= MinConn
(* A build that has swallowed an error is not whole, and the warm task     *)
(* comes round before the sitemap it made runs out.                        *)
WholeIsFine == \A b \in Builders :
  job[b].pc \in {"pool", "make", "conn", "query", "join"} =>
    (job[b].whole <=> job[b].session = "fine")
WarmInTime == sitemap.age + nap <= Interval

IInv ==
  /\ TypeOK
  /\ CurrentIsOpen /\ OnCurrentPool /\ OnlyWarmOutlives /\ InHand /\ IdleBounded
  /\ WholeIsFine /\ WarmInTime
  /\ OnePool

JobType ==
  [pc : {"idle", "retry", "lists", "pool", "make", "conn", "query", "join"},
   pool : Pools \cup {None}, conn : {"none", "alive", "dead"},
   session : {"fine", "late", "broken"}, whole : BOOLEAN]

LEMMA AtRest == Resting \in JobType /\ Retrying \in JobType
                /\ Resting.pc = "idle" /\ Retrying.pc = "retry"
BY DEF JobType, Resting, Retrying, None, Pools

LEMMA InitIInv == Init => IInv
<1> SUFFICES ASSUME Init PROVE IInv
  OBVIOUS
<1> USE DEF Init
<1>1. TypeOK
  <2>1. job \in [Jobs -> JobType] /\ NoIdle \in [alive : 0 .. MinConn, dead : 0 .. MinConn]
    BY AtRest, PagesAssumption DEF NoIdle
  <2>2. sitemap \in [kind : {"none", "partial", "whole"}, age : 0 .. Ttl - 1]
    BY DEF NoSitemap, Ttl
  <2>3. idle \in [Pools -> [alive : 0 .. MinConn, dead : 0 .. MinConn]] /\ nap \in 0 .. Interval
    BY <2>1 DEF Interval
  <2>4. recent \in [Lists -> {"none", "empty", "posts"}] /\ degraded \in [Lists -> BOOLEAN]
    OBVIOUS
  <2>5. /\ up \in BOOLEAN /\ matching \subseteq Lists /\ stopping \in BOOLEAN
        /\ current \in Pools \cup {None} /\ open \subseteq Pools
    OBVIOUS
  <2> QED BY <2>1, <2>2, <2>3, <2>4, <2>5, Zenon DEF TypeOK, JobType
<1>2. \A j \in Jobs : job[j].pc = "idle"
  BY DEF Resting
<1>3. CurrentIsOpen /\ OnCurrentPool /\ OnlyWarmOutlives /\ InHand /\ WholeIsFine
  BY <1>2 DEF CurrentIsOpen, OnCurrentPool, OnlyWarmOutlives, InHand, WholeIsFine,
              AtPool, At, Jobs
<1>4. IdleBounded /\ WarmInTime
  BY PagesAssumption DEF IdleBounded, NoIdle, WarmInTime, NoSitemap, Interval
<1>5. OnePool
  BY DEF OnePool
<1> QED BY <1>1, <1>3, <1>4, <1>5 DEF IInv

-----------------------------------------------------------------------------
(* What one job's step does to it *)

Moved(j) == job' = [job EXCEPT ![j] = job'[j]] /\ job'[j] \in JobType

LEMMA MovedTo ==
  ASSUME IInv, NEW j \in Jobs, NEW q \in JobType, job' = [job EXCEPT ![j] = q]
  PROVE  Moved(j) /\ job'[j] = q
BY DEF Moved, IInv, TypeOK

LEMMA MovedTypes ==
  ASSUME IInv, NEW j \in Jobs, Moved(j)
  PROVE  /\ job' \in [Jobs -> JobType]
         /\ \A i \in Jobs \ {j} : job'[i] = job[i]
<1>1. job \in [Jobs -> JobType]
  BY DEF IInv, TypeOK, JobType
<1> QED BY <1>1 DEF Moved

(* A call that failed leaves its job at rest; only the warm task tries     *)
(* again, and not after the shutdown.                                      *)
LEMMA FailedEffect ==
  ASSUME IInv, NEW j \in Jobs, Failed(j)
  PROVE  /\ Moved(j) /\ job'[j].pc \in {"idle", "retry"}
         /\ job'[j].pc = "retry" => j = Warm /\ ~stopping
<1> DEFINE q == IF j = Warm /\ ~stopping THEN Retrying ELSE Resting
<1>1. q \in JobType /\ job' = [job EXCEPT ![j] = q]
  BY AtRest DEF Failed
<1>2. Moved(j) /\ job'[j] = q
  BY <1>1, MovedTo
<1> QED BY <1>2, AtRest

LEMMA AnsweredEffect ==
  ASSUME IInv, NEW j \in Jobs, Answered(j)
  PROVE  /\ Moved(j) /\ job'[j].pc \in {"idle", "join"}
         /\ job'[j].pc = "join" => /\ ~stopping
                                   /\ job'[j].session = job[j].session
                                   /\ job'[j].whole = job[j].whole
<1>1. CASE j \in Lists \/ stopping
  <2>1. job' = [job EXCEPT ![j] = Resting]
    BY <1>1 DEF Answered, IInv, TypeOK
  <2> QED BY <2>1, MovedTo, AtRest
<1>2. CASE j \notin Lists /\ ~stopping
  <2> DEFINE q == [job[j] EXCEPT !.pc = "join", !.pool = None, !.conn = "none"]
  <2>1. job[j] \in JobType
    BY DEF IInv, TypeOK, JobType
  <2>2. q \in JobType /\ q.pc = "join" /\ q.session = job[j].session /\ q.whole = job[j].whole
    BY <2>1 DEF JobType, None, Pools
  <2>3. job' = [job EXCEPT ![j] = q]
    BY <1>2 DEF Answered, IInv, TypeOK
  <2> HIDE DEF q
  <2>4. Moved(j) /\ job'[j] = q
    BY <2>2, <2>3, MovedTo
  <2> QED BY <1>2, <2>2, <2>4
<1> QED BY <1>1, <1>2

LEMMA GetPoolEffect ==
  ASSUME IInv, NEW j \in Jobs, GetPool(j)
  PROVE  /\ Moved(j) /\ job'[j].session = job[j].session /\ job'[j].whole = job[j].whole
         /\ \/ job'[j].pc = "make"
            \/ job'[j].pc = "conn" /\ job'[j].pool = current /\ current # None
<1>1. job[j] \in JobType /\ current \in Pools \cup {None}
  BY DEF IInv, TypeOK, JobType
<1>2. CASE current # None
  <2> DEFINE q == [job[j] EXCEPT !.pc = "conn", !.pool = current]
  <2>1. q \in JobType /\ q.pc = "conn" /\ q.pool = current
        /\ q.session = job[j].session /\ q.whole = job[j].whole
    BY <1>1 DEF JobType
  <2>2. job' = [job EXCEPT ![j] = q]
    BY <1>2 DEF GetPool, IInv, TypeOK
  <2> HIDE DEF q
  <2> QED BY <1>2, <2>1, <2>2, MovedTo
<1>3. CASE current = None
  <2> DEFINE q == [job[j] EXCEPT !.pc = "make"]
  <2>1. q \in JobType /\ q.pc = "make"
        /\ q.session = job[j].session /\ q.whole = job[j].whole
    BY <1>1 DEF JobType
  <2>2. job' = [job EXCEPT ![j] = q]
    BY <1>3 DEF GetPool, IInv, TypeOK
  <2> HIDE DEF q
  <2> QED BY <2>1, <2>2, MovedTo
<1> QED BY <1>2, <1>3

LEMMA MakePoolEffect ==
  ASSUME IInv, NEW j \in Jobs, MakePool(j)
  PROVE  \/ /\ Moved(j) /\ job'[j].session = job[j].session /\ job'[j].whole = job[j].whole
            /\ job'[j].pc = "conn" /\ job'[j].pool = current' /\ current' \in Pools
            /\ UNCHANGED caches
            /\ \/ UNCHANGED pool
               \/ /\ current = None /\ current' = IF stopping THEN 2 ELSE 1
                  /\ open' = open \cup {current'}
                  /\ idle' = [idle EXCEPT ![current'] = [alive |-> MinConn, dead |-> 0]]
         \/ UNCHANGED pool /\ Failed(j)
<1>1. job[j] \in JobType /\ current \in Pools \cup {None}
  BY DEF IInv, TypeOK, JobType
<1>2. ASSUME NEW p \in Pools, job' = [job EXCEPT ![j].pc = "conn", ![j].pool = p]
      PROVE  /\ Moved(j) /\ job'[j].session = job[j].session /\ job'[j].whole = job[j].whole
             /\ job'[j].pc = "conn" /\ job'[j].pool = p
  <2> DEFINE q == [job[j] EXCEPT !.pc = "conn", !.pool = p]
  <2>1. q \in JobType /\ q.pc = "conn" /\ q.pool = p
        /\ q.session = job[j].session /\ q.whole = job[j].whole
    BY <1>1 DEF JobType
  <2>2. job' = [job EXCEPT ![j] = q]
    BY <1>2 DEF IInv, TypeOK
  <2> HIDE DEF q
  <2> QED BY <2>1, <2>2, MovedTo
<1>3. CASE current # None
  <2>1. current \in Pools
    BY <1>1, <1>3
  <2> QED BY <1>2, <1>3, <2>1 DEF MakePool, pool
<1>4. CASE current = None
  <2> DEFINE p == IF stopping THEN 2 ELSE 1
  <2>1. p \in Pools
    BY DEF Pools
  <2> QED BY <1>2, <1>4, <2>1 DEF MakePool
<1> QED BY <1>3, <1>4

LEMMA GetConnEffect ==
  ASSUME IInv, NEW j \in Jobs, GetConn(j)
  PROVE  \/ /\ Moved(j) /\ job'[j].session = job[j].session /\ job'[j].whole = job[j].whole
            /\ job'[j].pc = "query" /\ job'[j].pool = job[j].pool
            /\ job'[j].conn \in Kinds /\ job[j].pool \in open
            /\ UNCHANGED <<current, open, caches>>
            /\ \/ \E kind \in Kinds : /\ idle[job[j].pool][kind] > 0
                                      /\ idle' = [idle EXCEPT ![job[j].pool][kind] = @ - 1]
               \/ /\ UNCHANGED idle /\ idle[job[j].pool] = NoIdle
                  /\ Cardinality(Used(job[j].pool)) < MaxConn
         \/ UNCHANGED pool /\ Failed(j)
<1>1. job[j] \in JobType
  BY DEF IInv, TypeOK, JobType
<1>2. ASSUME NEW kind \in Kinds, job' = [job EXCEPT ![j].pc = "query", ![j].conn = kind]
      PROVE  /\ Moved(j) /\ job'[j].session = job[j].session /\ job'[j].whole = job[j].whole
             /\ job'[j].pc = "query" /\ job'[j].pool = job[j].pool /\ job'[j].conn = kind
  <2> DEFINE q == [job[j] EXCEPT !.pc = "query", !.conn = kind]
  <2>1. q \in JobType /\ q.pc = "query" /\ q.pool = job[j].pool /\ q.conn = kind
        /\ q.session = job[j].session /\ q.whole = job[j].whole
    BY <1>1 DEF JobType, Kinds
  <2>2. job' = [job EXCEPT ![j] = q]
    BY <1>2 DEF IInv, TypeOK
  <2> HIDE DEF q
  <2> QED BY <2>1, <2>2, MovedTo
<1> QED BY <1>2 DEF GetConn, Kinds, pool

LEMMA QueryEffect ==
  ASSUME IInv, NEW j \in Jobs, QueryAnswered(j) \/ QueryFails(j)
  PROVE  /\ Moved(j) /\ job'[j].pc \in {"idle", "retry", "join"}
         /\ job'[j].pc # "idle" => ~stopping
         /\ job'[j].pc = "join" => /\ job'[j].session = job[j].session
                                   /\ job'[j].whole = job[j].whole
         /\ At(j, "query") /\ (UNCHANGED pool \/ PutConn(j))
<1>1. CASE QueryAnswered(j)
  BY <1>1, AnsweredEffect DEF QueryAnswered
<1>2. CASE QueryFails(j)
  BY <1>2, FailedEffect DEF QueryFails
<1> QED BY <1>1, <1>2

LEMMA BuilderEffect ==
  ASSUME IInv, NEW b \in Builders, Begin(b) \/ Enumerate(b) \/ Join(b)
  PROVE  /\ Moved(b) /\ job'[b].pc \in {"lists", "pool", "idle", "retry"}
         /\ job'[b].pc = "pool" => (job'[b].whole <=> job'[b].session = "fine")
         /\ job'[b].pc = "lists" => ~stopping
         /\ job'[b].pc = "pool" => At(b, "lists")
         /\ job'[b].pc = "retry" => b = Warm
         /\ UNCHANGED <<hafsql, pool>>
<1>1. b \in Jobs /\ job[b] \in JobType
  BY DEF IInv, TypeOK, JobType, Jobs
<1>2. CASE Begin(b)
  <2> DEFINE q == [Resting EXCEPT !.pc = "lists"]
  <2>1. q \in JobType /\ q.pc = "lists"
    BY AtRest DEF JobType, Resting, None, Pools
  <2> HIDE DEF q
  <2>2. Moved(b) /\ job'[b] = q
    <3>1. job' = [job EXCEPT ![b] = q]
      BY <1>2 DEF Begin, q
    <3> QED BY <1>1, <2>1, <3>1, MovedTo
  <2> QED BY <1>2, <2>1, <2>2 DEF Begin
<1>3. CASE Enumerate(b)
  <2>1. PICK s \in {"fine", "late", "broken"} :
          job' = [job EXCEPT ![b].pc = "pool", ![b].session = s, ![b].whole = s = "fine"]
    BY <1>3 DEF Enumerate
  <2> DEFINE q == [job[b] EXCEPT !.pc = "pool", !.session = s, !.whole = s = "fine"]
  <2>2. q.pc = "pool" /\ q.session = s /\ (q.whole <=> s = "fine")
    BY <1>1 DEF JobType
  <2>3. q \in JobType
    BY <1>1 DEF JobType
  <2>4. job' = [job EXCEPT ![b] = q]
    BY <1>1, <2>1 DEF IInv, TypeOK
  <2> HIDE DEF q
  <2>5. Moved(b) /\ job'[b] = q
    BY <1>1, <2>3, <2>4, MovedTo
  <2> QED BY <1>3, <2>2, <2>5 DEF Enumerate
<1>4. CASE Join(b)
  <2>1. CASE Failed(b)
    BY <1>1, <1>4, <2>1, FailedEffect DEF Join
  <2>2. CASE job' = [job EXCEPT ![b] = Resting]
    BY <1>1, <1>4, <2>2, MovedTo, AtRest DEF Join
  <2> QED BY <1>4, <2>1, <2>2 DEF Join
<1> QED BY <1>2, <1>3, <1>4

LEMMA AskEffect ==
  ASSUME IInv, NEW l \in Lists, Ask(l)
  PROVE  /\ Moved(l) /\ job'[l].pc \in {"idle", "pool"} /\ ~stopping
         /\ UNCHANGED <<hafsql, pool>>
<1>1. l \in Jobs /\ job[l] \in JobType
  BY DEF IInv, TypeOK, JobType, Jobs
<1>2. CASE l \notin matching
  <2>1. job' = [job EXCEPT ![l] = job[l]]
    BY <1>2 DEF Ask, IInv, TypeOK
  <2> QED BY <1>1, <2>1, MovedTo DEF Ask, At
<1>3. CASE l \in matching
  <2> DEFINE q == [job[l] EXCEPT !.pc = "pool"]
  <2>1. q \in JobType /\ q.pc = "pool"
    BY <1>1 DEF JobType
  <2>2. job' = [job EXCEPT ![l] = q]
    BY <1>3 DEF Ask, IInv, TypeOK
  <2> HIDE DEF q
  <2> QED BY <1>1, <2>1, <2>2, MovedTo DEF Ask
<1> QED BY <1>2, <1>3

(* The steps of Next that are one job's, and the others. *)
JobStep(j) ==
  GetPool(j) \/ MakePool(j) \/ GetConn(j) \/ QueryAnswered(j) \/ QueryFails(j)
PageStep ==
  \/ \E l \in Lists : Ask(l)
  \/ \E b \in Builders : Begin(b) \/ Enumerate(b) \/ Join(b)
Apart == (\E l \in Lists : Expire(l) \/ Match(l)) \/ Evict \/ Tick \/ UNCHANGED vars

LEMMA NextSplit ==
  [Next]_vars =>
    (\E j \in Jobs : JobStep(j)) \/ PageStep \/ Apart \/ UpOrDown \/ Shutdown \/ Restart
BY DEF Next, JobStep, PageStep, Apart

LEMMA ApartEffect == Apart => UNCHANGED <<stopping, up, current, open, idle, job>>
BY DEF Apart, Expire, Match, Evict, Tick, vars, hafsql, pool

-----------------------------------------------------------------------------
(* Who is on the way *)

LEMMA NextWays ==
  IInv /\ [Next]_vars =>
    /\ job' \in [Jobs -> JobType]
    /\ (CurrentIsOpen /\ OnCurrentPool /\ OnlyWarmOutlives /\ InHand /\ WholeIsFine)'
<1> DEFINE Good == /\ job' \in [Jobs -> JobType]
                   /\ (CurrentIsOpen /\ OnCurrentPool /\ OnlyWarmOutlives /\ InHand
                          /\ WholeIsFine)'
<1> SUFFICES ASSUME IInv, [Next]_vars PROVE Good
  OBVIOUS
<1> USE DEF CurrentIsOpen, OnCurrentPool, OnlyWarmOutlives, WholeIsFine, AtPool, At, InHand
<1>1. /\ job \in [Jobs -> JobType] /\ Builders \subseteq Jobs
      /\ CurrentIsOpen /\ OnCurrentPool /\ OnlyWarmOutlives /\ WholeIsFine /\ InHand
      /\ current \in Pools \cup {None}
  BY DEF IInv, TypeOK, JobType, Jobs
(* A step that leaves the pool and the lifespan alone. *)
<1>2. ASSUME NEW j \in Jobs, Moved(j), UNCHANGED <<stopping, current, open>>,
             stopping => job'[j].pc = "idle" \/ j = Warm,
             job'[j].pc \in {"conn", "query"} => job'[j].pool \in Pools
                                /\ (~stopping => job'[j].pool = current),
             job'[j].pc = "query" => job'[j].conn \in Kinds,
             j \in Builders => (job'[j].pc \in {"pool", "make", "conn", "query", "join"} =>
                                  (job'[j].whole <=> job'[j].session = "fine"))
      PROVE  Good
  <2>1. /\ job' \in [Jobs -> JobType]
        /\ \A i \in Jobs : i = j \/ job'[i] = job[i]
    BY <1>2, MovedTypes
  <2>2. CurrentIsOpen' /\ OnlyWarmOutlives'
    BY <1>1, <1>2, <2>1
  <2>3. OnCurrentPool' /\ InHand'
    BY <1>1, <1>2, <2>1
  <2>4. WholeIsFine'
    BY <1>1, <1>2, <2>1
  <2> QED BY <2>1, <2>2, <2>3, <2>4
<1>3. ASSUME NEW j \in Jobs, Failed(j), UNCHANGED <<hafsql, pool>>
      PROVE  Good
  <2>1. /\ Moved(j) /\ job'[j].pc \in {"idle", "retry"}
        /\ job'[j].pc = "retry" => j = Warm /\ ~stopping
    BY <1>3, FailedEffect
  <2> QED BY <1>2, <1>3, <2>1 DEF hafsql, pool
<1>4. ASSUME NEW j \in Jobs, JobStep(j), ~MakePool(j) PROVE Good
  <2>1. stopping => j = Warm
    BY <1>1, <1>4 DEF JobStep, GetPool, GetConn, QueryAnswered, QueryFails
  <2>2. CASE GetPool(j)
    <3>1. At(j, "pool") /\ UNCHANGED <<stopping, current, open>>
      BY <2>2 DEF GetPool, hafsql, pool
    <3> QED BY <1>1, <1>2, <2>1, <2>2, <3>1, GetPoolEffect
  <2>3. CASE GetConn(j)
    <3>1. At(j, "conn") /\ UNCHANGED hafsql
      BY <2>3 DEF GetConn
    <3>2. CASE UNCHANGED pool /\ Failed(j)
      BY <1>3, <3>1, <3>2
    <3>3. CASE ~(UNCHANGED pool /\ Failed(j))
      BY <1>1, <1>2, <2>1, <2>3, <3>1, <3>3, GetConnEffect DEF hafsql
    <3> QED BY <3>2, <3>3
  <2>4. CASE QueryAnswered(j) \/ QueryFails(j)
    <3>1. UNCHANGED <<stopping, current, open>> /\ At(j, "query")
      BY <2>4 DEF QueryAnswered, QueryFails, PutConn, hafsql, pool
    <3> QED BY <1>1, <1>2, <2>1, <2>4, <3>1, QueryEffect
  <2> QED BY <1>4, <2>2, <2>3, <2>4 DEF JobStep
<1>5. ASSUME NEW j \in Jobs, MakePool(j) PROVE Good
  <2>1. At(j, "make") /\ UNCHANGED hafsql /\ (stopping => j = Warm)
    BY <1>1, <1>5 DEF MakePool
  <2>2. CASE UNCHANGED pool /\ Failed(j)
    BY <1>3, <2>1, <2>2
  <2>3. CASE ~(UNCHANGED pool /\ Failed(j))
    <3>1. /\ Moved(j) /\ job'[j].session = job[j].session /\ job'[j].whole = job[j].whole
          /\ job'[j].pc = "conn" /\ job'[j].pool = current' /\ current' \in Pools
          /\ \/ UNCHANGED <<current, open>>
             \/ current = None /\ open' = open \cup {current'}
      BY <1>5, <2>3, MakePoolEffect DEF pool
    <3>2. CASE UNCHANGED <<current, open>>
      BY <1>1, <1>2, <2>1, <3>1, <3>2 DEF hafsql
    <3>3. CASE current = None /\ open' = open \cup {current'}
      <4>1. /\ job' \in [Jobs -> JobType]
            /\ \A i \in Jobs : i = j \/ job'[i] = job[i]
        BY <3>1, MovedTypes
      <4>2. \A i \in Jobs : ~stopping => ~AtPool(i)
        BY <1>1, <3>3 DEF None, Pools
      <4>3. CurrentIsOpen' /\ OnlyWarmOutlives'
        BY <1>1, <2>1, <3>1, <3>3, <4>1 DEF None, Pools, hafsql
      <4>4. OnCurrentPool' /\ InHand'
        BY <1>1, <2>1, <3>1, <4>1, <4>2 DEF hafsql
      <4>5. WholeIsFine'
        BY <1>1, <2>1, <3>1, <4>1
      <4> QED BY <4>1, <4>3, <4>4, <4>5
    <3> QED BY <3>1, <3>2, <3>3
  <2> QED BY <2>2, <2>3
<1>6. ASSUME NEW l \in Lists, Ask(l) PROVE Good
  <2>1. l \in Jobs /\ l \notin Builders
    BY PagesAssumption DEF Jobs
  <2> QED BY <1>2, <1>6, <2>1, AskEffect DEF hafsql, pool
<1>7. ASSUME NEW b \in Builders, Begin(b) \/ Enumerate(b) \/ Join(b) PROVE Good
  <2>1. Enumerate(b) \/ Join(b) => (stopping => b = Warm)
    BY <1>1 DEF Enumerate, Join
  <2>2. Begin(b) => ~stopping
    BY DEF Begin
  <2> QED BY <1>1, <1>2, <1>7, <2>1, <2>2, BuilderEffect DEF hafsql, pool
<1>8. CASE Apart
  BY <1>1, <1>8, ApartEffect
<1>9. CASE UpOrDown
  <2>1. /\ job' \in [Jobs -> JobType]
        /\ \A i \in Jobs : /\ job'[i].pc = job[i].pc /\ job'[i].pool = job[i].pool
                           /\ job'[i].session = job[i].session
                           /\ job'[i].whole = job[i].whole
                           /\ job'[i].pc = "query" => job'[i].conn \in Kinds
    <3>1. CASE up
      <4>1. \A i \in Jobs : job'[i] = IF At(i, "query") THEN [job[i] EXCEPT !.conn = "dead"]
                                                        ELSE job[i]
        BY <1>9, <3>1 DEF UpOrDown
      <4>2. ASSUME NEW i \in Jobs
            PROVE  /\ job'[i] \in JobType
                   /\ job'[i].pc = job[i].pc /\ job'[i].pool = job[i].pool
                   /\ job'[i].session = job[i].session /\ job'[i].whole = job[i].whole
                   /\ job'[i].pc = "query" => job'[i].conn \in Kinds
        <5>1. job[i] \in JobType
          BY <1>1
        <5>2. CASE At(i, "query")
          <6>1. job'[i] = [job[i] EXCEPT !.conn = "dead"]
            BY <4>1, <5>2
          <6> QED BY <5>1, <6>1 DEF JobType, Kinds
        <5>3. CASE ~At(i, "query")
          <6>1. job'[i] = job[i]
            BY <4>1, <5>3
          <6> QED BY <5>1, <5>3, <6>1
        <5> QED BY <5>2, <5>3
      <4>3. job' = [i \in Jobs |-> job'[i]]
        BY <1>9, <3>1 DEF UpOrDown
      <4> QED BY <4>2, <4>3
    <3>2. CASE ~up
      BY <1>1, <1>9, <3>2 DEF UpOrDown
    <3> QED BY <3>1, <3>2
  <2>2. UNCHANGED <<stopping, current, open>>
    BY <1>9 DEF UpOrDown
  <2> QED BY <1>1, <2>1, <2>2
<1>10. CASE Shutdown
  <2>1. Warm \in Jobs
    BY DEF Jobs, Builders
  <2>2. /\ job' \in [Jobs -> JobType]
        /\ \A i \in Jobs \ {Warm} : job'[i] = job[i] /\ At(i, "idle")
        /\ job'[Warm] = Resting \/ job'[Warm] = job[Warm]
    BY <1>1, <1>10, <2>1, AtRest DEF Shutdown
  <2>3. stopping' = TRUE /\ current' = None /\ open' = {}
    BY <1>1, <1>10 DEF Shutdown
  <2>4. CurrentIsOpen' /\ OnCurrentPool' /\ OnlyWarmOutlives'
    BY <2>2, <2>3
  <2>5. WholeIsFine' /\ InHand'
    BY <1>1, <2>1, <2>2, AtRest
  <2> QED BY <2>2, <2>4, <2>5
<1>11. CASE Restart
  <2>1. job' \in [Jobs -> JobType] /\ \A j \in Jobs : job'[j].pc = "idle"
    BY <1>11, AtRest DEF Restart
  <2> QED BY <1>1, <1>11, <2>1 DEF Restart
<1> QED
  BY <1>4, <1>5, <1>6, <1>7, <1>8, <1>9, <1>10, <1>11, NextSplit DEF PageStep

-----------------------------------------------------------------------------
(* How many connections a pool has *)

IdleType == [alive : 0 .. MinConn, dead : 0 .. MinConn]
AllIdle(p) == idle[p].alive + idle[p].dead

LEMMA IdleIsNat ==
  ASSUME IInv, NEW p \in Pools
  PROVE  /\ idle[p] \in IdleType /\ idle[p].alive \in Nat /\ idle[p].dead \in Nat
         /\ AllIdle(p) \in Nat /\ AllIdle(p) <= MinConn
         /\ idle[p] = NoIdle => AllIdle(p) = 0
BY PagesAssumption DEF IInv, TypeOK, IdleType, AllIdle, IdleBounded, NoIdle

(* getconn takes an idle connection. *)
LEMMA TakeIdle ==
  ASSUME IInv, NEW p \in Pools, NEW kind \in Kinds, idle[p][kind] > 0,
         idle' = [idle EXCEPT ![p][kind] = @ - 1]
  PROVE  /\ idle' \in [Pools -> IdleType]
         /\ \A q \in Pools : AllIdle(q)' = IF q = p THEN AllIdle(q) - 1 ELSE AllIdle(q)
<1>1. idle \in [Pools -> IdleType] /\ MinConn \in Nat
  BY PagesAssumption DEF IInv, TypeOK, IdleType
<1>2. \A q \in Pools : q # p => idle'[q] = idle[q]
  BY <1>1
<1>3. CASE kind = "alive"
  <2>1. idle'[p] = [alive |-> idle[p].alive - 1, dead |-> idle[p].dead] /\ idle[p].alive > 0
    BY <1>1, <1>3 DEF IdleType
  <2>2. idle'[p] \in IdleType /\ AllIdle(p)' = AllIdle(p) - 1
    BY <1>1, <2>1 DEF IdleType, AllIdle
  <2> QED BY <1>1, <1>2, <2>2 DEF AllIdle
<1>4. CASE kind = "dead"
  <2>1. idle'[p] = [alive |-> idle[p].alive, dead |-> idle[p].dead - 1] /\ idle[p].dead > 0
    BY <1>1, <1>4 DEF IdleType
  <2>2. idle'[p] \in IdleType /\ AllIdle(p)' = AllIdle(p) - 1
    BY <1>1, <2>1 DEF IdleType, AllIdle
  <2> QED BY <1>1, <1>2, <2>2 DEF AllIdle
<1> QED BY <1>3, <1>4 DEF Kinds

(* putconn keeps the connection or closes it. *)
LEMMA GiveBack ==
  ASSUME IInv, NEW j \in Jobs, At(j, "query"), UNCHANGED pool \/ PutConn(j)
  PROVE  /\ idle' \in [Pools -> IdleType]
         /\ \A q \in Pools : /\ AllIdle(q)' \in Nat /\ AllIdle(q)' <= MinConn
                             /\ \/ AllIdle(q)' = AllIdle(q)
                                \/ q = job[j].pool /\ AllIdle(q)' = AllIdle(q) + 1
<1>1. idle \in [Pools -> IdleType] /\ MinConn \in Nat
  BY PagesAssumption DEF IInv, TypeOK, IdleType
<1>2. PICK p \in Pools, kind \in Kinds : p = job[j].pool /\ kind = job[j].conn
  BY DEF IInv, InHand, AtPool, At
<1>3. CASE idle' = idle
  BY <1>1, <1>3, IdleIsNat DEF AllIdle
<1>4. CASE AllIdle(p) < MinConn /\ idle' = [idle EXCEPT ![p][kind] = @ + 1]
  <2>1. \A q \in Pools : q # p => idle'[q] = idle[q]
    BY <1>1, <1>4
  <2>2. idle[p] \in IdleType /\ idle[p].alive \in Nat /\ idle[p].dead \in Nat
    BY <1>2, IdleIsNat
  <2>3. idle'[p] \in IdleType /\ AllIdle(p)' = AllIdle(p) + 1
    <3>1. CASE kind = "alive"
      <4>1. idle'[p] = [alive |-> idle[p].alive + 1, dead |-> idle[p].dead]
        BY <1>1, <1>2, <1>4, <3>1 DEF IdleType
      <4>2. idle[p].alive + idle[p].dead < MinConn
        BY <1>4 DEF AllIdle
      <4>3. idle[p].alive + 1 \in 0 .. MinConn /\ idle[p].dead \in 0 .. MinConn
        BY <1>1, <2>2, <4>2
      <4>4. idle'[p] \in IdleType
        BY <4>1, <4>3 DEF IdleType
      <4>5. idle'[p].alive = idle[p].alive + 1 /\ idle'[p].dead = idle[p].dead
        BY <4>1
      <4> QED BY <2>2, <4>4, <4>5 DEF AllIdle
    <3>2. CASE kind = "dead"
      <4>1. idle'[p] = [alive |-> idle[p].alive, dead |-> idle[p].dead + 1]
        BY <1>1, <1>2, <1>4, <3>2 DEF IdleType
      <4>2. idle[p].alive + idle[p].dead < MinConn
        BY <1>4 DEF AllIdle
      <4>3. idle[p].alive \in 0 .. MinConn /\ idle[p].dead + 1 \in 0 .. MinConn
        BY <1>1, <2>2, <4>2
      <4>4. idle'[p] \in IdleType
        BY <4>1, <4>3 DEF IdleType
      <4>5. idle'[p].alive = idle[p].alive /\ idle'[p].dead = idle[p].dead + 1
        BY <4>1
      <4> QED BY <2>2, <4>4, <4>5 DEF AllIdle
    <3> QED BY <1>2, <3>1, <3>2 DEF Kinds
  <2>4. idle' \in [Pools -> IdleType]
    BY <1>1, <1>4, <2>1, <2>3
  <2>5. ASSUME NEW q \in Pools
        PROVE  /\ AllIdle(q)' \in Nat /\ AllIdle(q)' <= MinConn
               /\ AllIdle(q)' = AllIdle(q) \/ (q = p /\ AllIdle(q)' = AllIdle(q) + 1)
    <3>1. CASE q = p
      BY <1>1, <1>2, <1>4, <2>3, <3>1, IdleIsNat DEF AllIdle
    <3>2. CASE q # p
      <4>1. AllIdle(q)' = AllIdle(q)
        BY <2>1, <3>2 DEF AllIdle
      <4> QED BY <4>1, IdleIsNat
    <3> QED BY <3>1, <3>2
  <2> QED BY <1>2, <2>4, <2>5
<1> QED BY <1>2, <1>3, <1>4 DEF PutConn, pool, AllIdle

LEMMA NextPool ==
  IInv /\ [Next]_vars =>
    /\ current' \in Pools \cup {None} /\ open' \subseteq Pools
    /\ idle' \in [Pools -> IdleType] /\ IdleBounded'
<1> DEFINE Good == /\ current' \in Pools \cup {None} /\ open' \subseteq Pools
                   /\ idle' \in [Pools -> IdleType] /\ IdleBounded'
<1> SUFFICES ASSUME IInv, [Next]_vars PROVE Good
  OBVIOUS
<1>1. /\ current \in Pools \cup {None} /\ open \subseteq Pools
      /\ idle \in [Pools -> IdleType] /\ MinConn \in Nat
      /\ \A p \in Pools : AllIdle(p) \in Nat /\ AllIdle(p) <= MinConn
  BY IdleIsNat, PagesAssumption DEF IInv, TypeOK, IdleType
<1>2. CASE UNCHANGED pool
  BY <1>1, <1>2 DEF pool, IdleBounded, AllIdle
<1>3. ASSUME NEW j \in Jobs, MakePool(j), ~UNCHANGED pool PROVE Good
  <2>1. PICK p \in Pools :
          /\ current' = p /\ open' = open \cup {p}
          /\ idle' = [idle EXCEPT ![p] = [alive |-> MinConn, dead |-> 0]]
    BY <1>3, MakePoolEffect
  <2>2. [alive |-> MinConn, dead |-> 0] \in IdleType
    BY <1>1 DEF IdleType
  <2>3. idle' \in [Pools -> IdleType]
    BY <1>1, <2>1, <2>2
  <2>4. IdleBounded'
    BY <1>1, <2>1 DEF IdleBounded, AllIdle
  <2> QED BY <1>1, <2>1, <2>3, <2>4
<1>4. ASSUME NEW j \in Jobs, GetConn(j), ~UNCHANGED pool PROVE Good
  <2>1. UNCHANGED <<current, open>> /\ job[j].pool \in Pools
        /\ \E kind \in Kinds : /\ idle[job[j].pool][kind] > 0
                               /\ idle' = [idle EXCEPT ![job[j].pool][kind] = @ - 1]
    BY <1>1, <1>4, GetConnEffect DEF pool
  <2>2. /\ idle' \in [Pools -> IdleType]
        /\ \A q \in Pools : AllIdle(q)' = AllIdle(q) - 1 \/ AllIdle(q)' = AllIdle(q)
    BY <2>1, TakeIdle
  <2>3. IdleBounded'
    BY <1>1, <2>2 DEF IdleBounded, AllIdle
  <2> QED BY <1>1, <2>1, <2>2, <2>3
<1>5. ASSUME NEW j \in Jobs, QueryAnswered(j) \/ QueryFails(j) PROVE Good
  <2>1. At(j, "query") /\ (UNCHANGED pool \/ PutConn(j))
    BY <1>5, QueryEffect
  <2>2. UNCHANGED <<current, open>>
    BY <2>1 DEF PutConn, pool
  <2>3. IdleBounded'
    BY <2>1, GiveBack DEF IdleBounded, AllIdle
  <2> QED BY <1>1, <2>1, <2>2, <2>3, GiveBack
<1>6. ASSUME NEW j \in Jobs, GetPool(j) PROVE Good
  BY <1>2, <1>6 DEF GetPool
<1>7. CASE PageStep
  BY <1>2, <1>7, BuilderEffect, AskEffect DEF PageStep
<1>8. CASE Apart
  BY <1>2, <1>8, ApartEffect DEF pool
<1>9. NoIdle \in IdleType /\ NoIdle.alive + NoIdle.dead = 0
  BY <1>1 DEF NoIdle, IdleType
<1>10. CASE UpOrDown
  <2>1. CASE up
    <3>1. \A p \in Pools : idle'[p] = [alive |-> 0, dead |-> AllIdle(p)]
      BY <1>10, <2>1 DEF UpOrDown, AllIdle
    <3>2. \A p \in Pools : [alive |-> 0, dead |-> AllIdle(p)] \in IdleType
      BY <1>1 DEF IdleType
    <3>3. idle' = [p \in Pools |-> [alive |-> 0, dead |-> AllIdle(p)]]
      BY <1>10, <2>1 DEF UpOrDown, AllIdle
    <3>4. IdleBounded'
      <4>1. ASSUME NEW p \in Pools PROVE idle'[p].alive = 0 /\ idle'[p].dead = AllIdle(p)
        <5>1. idle'[p] = [alive |-> 0, dead |-> AllIdle(p)]
          BY <3>1
        <5> QED BY <5>1
      <4> QED BY <1>1, <4>1 DEF IdleBounded
    <3> QED BY <1>1, <1>10, <3>2, <3>3, <3>4 DEF UpOrDown
  <2>2. CASE ~up
    BY <1>2, <1>10, <2>2 DEF UpOrDown, pool
  <2> QED BY <2>1, <2>2
<1>11. CASE Shutdown
  <2>1. /\ current' = None /\ open' \subseteq open
        /\ idle' = [p \in Pools |-> IF p = current THEN NoIdle ELSE idle[p]]
    BY <1>11 DEF Shutdown
  <2>2. IdleBounded'
    BY <1>1, <1>9, <2>1 DEF IdleBounded, AllIdle
  <2> QED BY <1>1, <1>9, <2>1, <2>2
<1>12. CASE Restart
  <2>1. current' = None /\ open' = {} /\ idle' = [p \in Pools |-> NoIdle]
    BY <1>12 DEF Restart
  <2>2. IdleBounded'
    BY <1>1, <1>9, <2>1 DEF IdleBounded
  <2> QED BY <1>1, <1>9, <2>1, <2>2
<1> QED
  BY <1>2, <1>3, <1>4, <1>5, <1>6, <1>7, <1>8, <1>10, <1>11, <1>12, NextSplit DEF JobStep

LEMMA UsedIsFinite ==
  ASSUME NEW p
  PROVE  IsFiniteSet(Used(p)) /\ Cardinality(Used(p)) \in Nat
BY FS_Subset, FS_CardinalityType, PagesAssumption DEF Used

LEMMA UsedMoves ==
  ASSUME IInv, NEW j \in Jobs, Moved(j), NEW p
  PROVE  Used(p)' = IF job'[j].pc = "query" /\ job'[j].pool = p
                    THEN Used(p) \cup {j} ELSE Used(p) \ {j}
<1>1. \A i \in Jobs : i = j \/ job'[i] = job[i]
  BY MovedTypes
<1> QED BY <1>1 DEF Used, At

(* A pool that gains neither idle connections nor users. *)
LEMMA NoMoreThan ==
  ASSUME IInv, NEW p \in open, AllIdle(p)' \in Nat, AllIdle(p)' <= AllIdle(p),
         Used(p)' \subseteq Used(p)
  PROVE  AllIdle(p)' + Cardinality(Used(p)') <= MaxConn
<1>1. p \in Pools /\ AllIdle(p) \in Nat
  BY IdleIsNat DEF IInv, TypeOK
<1>2. AllIdle(p) + Cardinality(Used(p)) <= MaxConn
  BY DEF IInv, OnePool, AllIdle
<1>3. /\ Cardinality(Used(p)') <= Cardinality(Used(p))
      /\ Cardinality(Used(p)) \in Nat /\ Cardinality(Used(p)') \in Nat
  BY UsedIsFinite, FS_Subset, FS_CardinalityType
<1> QED BY <1>1, <1>2, <1>3, PagesAssumption

LEMMA NextOnePool == IInv /\ CurrentIsOpen' /\ [Next]_vars => OnePool'
<1> SUFFICES ASSUME IInv, CurrentIsOpen', [Next]_vars, NEW p \in open'
             PROVE  AllIdle(p)' + Cardinality(Used(p)') <= MaxConn
  BY DEF OnePool, AllIdle, CurrentIsOpen
<1>1. p = current'
  BY DEF CurrentIsOpen
<1>2. /\ open \subseteq Pools
      /\ \A q \in Pools : AllIdle(q) \in Nat /\ AllIdle(q) <= MinConn
      /\ MinConn \in Nat /\ MaxConn \in Nat /\ MinConn <= MaxConn
  BY IdleIsNat, PagesAssumption DEF IInv, TypeOK
<1> DEFINE Good == AllIdle(p)' + Cardinality(Used(p)') <= MaxConn
<1>3. ASSUME UNCHANGED pool, Used(p)' \subseteq Used(p) PROVE Good
  <2>1. p \in open /\ AllIdle(p)' = AllIdle(p)
    BY <1>3 DEF pool, AllIdle
  <2> QED BY <1>2, <1>3, <2>1, NoMoreThan
<1>4. ASSUME NEW j \in Jobs, Moved(j), job'[j].pc # "query" PROVE Used(p)' \subseteq Used(p)
  BY <1>4, UsedMoves
<1>5. ASSUME NEW j \in Jobs, GetPool(j) PROVE Good
  <2>1. UNCHANGED pool /\ Moved(j) /\ job'[j].pc # "query"
    BY <1>5, GetPoolEffect DEF GetPool
  <2> QED BY <1>3, <1>4, <2>1
<1>6. ASSUME NEW j \in Jobs, Failed(j), UNCHANGED pool PROVE Good
  BY <1>3, <1>4, <1>6, FailedEffect
<1>7. ASSUME NEW j \in Jobs, MakePool(j), ~(UNCHANGED pool /\ Failed(j)) PROVE Good
  <2>1. /\ Moved(j) /\ job'[j].pc = "conn" /\ At(j, "make")
        /\ \/ UNCHANGED pool
           \/ /\ current = None /\ current' \in Pools
              /\ idle' = [idle EXCEPT ![current'] = [alive |-> MinConn, dead |-> 0]]
    BY <1>7, MakePoolEffect DEF MakePool
  <2>2. CASE UNCHANGED pool
    BY <1>3, <1>4, <2>1, <2>2
  <2>3. CASE current = None /\ ~UNCHANGED pool
    (* Nobody uses a connection while there is no pool but for the one     *)
    (* thread that is about to make it.                                    *)
    <3>1. \A i \in Jobs : i # j => ~At(i, "query")
      BY <2>1, <2>3
      DEF IInv, OnCurrentPool, OnlyWarmOutlives, InHand, AtPool, At, None, Pools
    <3>2. Used(p)' = {}
      <4>1. Used(p) \ {j} = {}
        BY <3>1 DEF Used
      <4> QED BY <2>1, <4>1, UsedMoves
    <3>3. idle'[p] = [alive |-> MinConn, dead |-> 0]
      BY <1>1, <2>1, <2>3 DEF IInv, TypeOK
    <3>4. AllIdle(p)' = MinConn
      BY <1>2, <3>3 DEF AllIdle
    <3>5. Cardinality(Used(p)') = 0
      BY <3>2, FS_EmptySet
    <3> QED BY <1>2, <3>4, <3>5
  <2> QED BY <2>1, <2>2, <2>3
<1>8. ASSUME NEW j \in Jobs, GetConn(j), ~(UNCHANGED pool /\ Failed(j)) PROVE Good
  <2>1. PICK r \in open :
          /\ r = job[j].pool /\ Moved(j) /\ job'[j].pc = "query" /\ job'[j].pool = r
          /\ UNCHANGED <<current, open>>
          /\ \/ \E kind \in Kinds : /\ idle[r][kind] > 0
                                    /\ idle' = [idle EXCEPT ![r][kind] = @ - 1]
             \/ /\ UNCHANGED idle /\ idle[r] = NoIdle /\ Cardinality(Used(r)) < MaxConn
    BY <1>8, GetConnEffect
  <2>2. p \in open /\ p \in Pools /\ r \in Pools /\ p = r
    BY <1>1, <1>2, <2>1 DEF IInv, OnePool
  <2>3. /\ IsFiniteSet(Used(p)) /\ Cardinality(Used(p)) \in Nat
        /\ Cardinality(Used(p)') = Cardinality(Used(p)) + 1
    <3>1. j \notin Used(p) /\ Used(p)' = Used(p) \cup {j}
      <4>1. j \notin Used(p)
        BY <1>8 DEF GetConn, Used, At
      <4> QED BY <2>1, <2>2, <4>1, UsedMoves
    <3> QED BY <3>1, UsedIsFinite, FS_AddElement
  <2>4. AllIdle(p) + Cardinality(Used(p)) <= MaxConn
    BY <2>2 DEF IInv, OnePool, AllIdle
  <2>5. CASE \E kind \in Kinds : /\ idle[r][kind] > 0
                                 /\ idle' = [idle EXCEPT ![r][kind] = @ - 1]
    <3>1. AllIdle(p)' = AllIdle(p) - 1
      BY <2>2, <2>5, TakeIdle
    <3> QED BY <1>2, <2>2, <2>3, <2>4, <3>1
  <2>6. CASE UNCHANGED idle /\ idle[r] = NoIdle /\ Cardinality(Used(r)) < MaxConn
    <3>1. AllIdle(p)' = AllIdle(p) /\ AllIdle(p) = 0
      BY <2>2, <2>6, IdleIsNat DEF AllIdle
    <3>2. Cardinality(Used(p)) < MaxConn
      BY <2>2, <2>6
    <3> QED BY <1>2, <2>3, <3>1, <3>2
  <2> QED BY <2>1, <2>5, <2>6
<1>9. ASSUME NEW j \in Jobs, QueryAnswered(j) \/ QueryFails(j) PROVE Good
  <2>1. /\ At(j, "query") /\ (UNCHANGED pool \/ PutConn(j))
        /\ Moved(j) /\ job'[j].pc # "query"
    BY <1>9, QueryEffect
  <2>2. p \in open /\ p \in Pools
    BY <1>2, <2>1 DEF PutConn, pool
  <2>3. AllIdle(p) + Cardinality(Used(p)) <= MaxConn
    BY <2>2 DEF IInv, OnePool, AllIdle
  <2>4. /\ AllIdle(p)' \in Nat
        /\ AllIdle(p)' = AllIdle(p) \/ (p = job[j].pool /\ AllIdle(p)' = AllIdle(p) + 1)
    BY <2>1, <2>2, GiveBack
  <2>5. Used(p)' = Used(p) \ {j}
    BY <2>1, UsedMoves
  <2>6. CASE AllIdle(p)' = AllIdle(p)
    BY <1>2, <2>2, <2>4, <2>5, <2>6, NoMoreThan
  <2>7. CASE p = job[j].pool /\ AllIdle(p)' = AllIdle(p) + 1
    <3>1. j \in Used(p)
      BY <2>1, <2>7 DEF Used
    <3>2. Cardinality(Used(p)') = Cardinality(Used(p)) - 1 /\ Cardinality(Used(p)) \in Nat
      BY <2>5, <3>1, UsedIsFinite, FS_RemoveElement
    <3> QED BY <1>2, <2>2, <2>3, <2>7, <3>2
  <2> QED BY <2>4, <2>6, <2>7
<1>10. CASE PageStep
  <2>1. ASSUME NEW l \in Lists, Ask(l) PROVE Good
    <3>1. l \in Jobs /\ UNCHANGED pool /\ Moved(l) /\ job'[l].pc # "query"
      BY <2>1, AskEffect DEF Jobs
    <3> QED BY <1>3, <1>4, <3>1
  <2>2. ASSUME NEW b \in Builders, Begin(b) \/ Enumerate(b) \/ Join(b) PROVE Good
    <3>1. b \in Jobs /\ UNCHANGED pool /\ Moved(b) /\ job'[b].pc # "query"
      BY <2>2, BuilderEffect DEF Jobs
    <3> QED BY <1>3, <1>4, <3>1
  <2> QED BY <1>10, <2>1, <2>2 DEF PageStep
<1>11. CASE Apart
  <2>1. UNCHANGED pool /\ job' = job
    BY <1>11, ApartEffect DEF pool
  <2>2. Used(p)' = Used(p)
    BY <2>1 DEF Used, At
  <2> QED BY <1>3, <2>1, <2>2
<1>12. CASE UpOrDown
  <2>1. p \in open /\ p \in Pools
    BY <1>2, <1>12 DEF UpOrDown
  <2>2. Used(p)' = Used(p)
    <3>1. ASSUME NEW i \in Jobs PROVE job'[i].pc = job[i].pc /\ job'[i].pool = job[i].pool
      <4>1. job[i] \in JobType
        BY DEF IInv, TypeOK, JobType
      <4>2. job'[i] = job[i] \/ job'[i] = [job[i] EXCEPT !.conn = "dead"]
        BY <1>12 DEF UpOrDown, IInv, TypeOK
      <4> QED BY <4>1, <4>2 DEF JobType
    <3> QED BY <3>1 DEF Used, At
  <2>3. AllIdle(p)' = AllIdle(p)
    <3>1. CASE up
      <4>1. idle'[p] = [alive |-> 0, dead |-> AllIdle(p)]
        BY <1>12, <2>1, <3>1 DEF UpOrDown, AllIdle
      <4>2. idle'[p].alive = 0 /\ idle'[p].dead = AllIdle(p)
        BY <4>1
      <4>3. idle'[p].alive + idle'[p].dead = AllIdle(p)
        BY <1>2, <2>1, <4>2
      <4> QED BY <4>3 DEF AllIdle
    <3>2. CASE ~up
      BY <1>12, <3>2 DEF UpOrDown, AllIdle
    <3> QED BY <3>1, <3>2
  <2>4. AllIdle(p)' \in Nat /\ AllIdle(p)' <= AllIdle(p)
    BY <1>2, <2>1, <2>3
  <2> QED BY <2>1, <2>2, <2>4, NoMoreThan
<1>13. CASE Shutdown \/ Restart
  <2>1. open' = {}
    BY <1>13 DEF Shutdown, Restart, IInv, CurrentIsOpen
  <2> QED BY <2>1
<1> QED
  BY <1>5, <1>6, <1>7, <1>8, <1>9, <1>10, <1>11, <1>12, <1>13, NextSplit
  DEF JobStep

-----------------------------------------------------------------------------
(* The cached pages *)

PagesTyped ==
  /\ recent \in [Lists -> {"none", "empty", "posts"}] /\ degraded \in [Lists -> BOOLEAN]
  /\ sitemap \in [kind : {"none", "partial", "whole"}, age : 0 .. Ttl - 1]
  /\ nap \in 0 .. Interval

(* How a job's step may change them. *)
LEMMA FailedPages ==
  ASSUME IInv, NEW j \in Jobs, Failed(j)
  PROVE  PagesTyped' /\ WarmInTime' /\ UNCHANGED <<sitemap, nap>>
BY DEF Failed, IInv, TypeOK, PagesTyped, WarmInTime

LEMMA NoLonger == \A a \in 0 .. 0, n \in 0 .. 1 : a + n <= 1
OBVIOUS

LEMMA JoinPages ==
  ASSUME IInv, NEW b \in Builders, Join(b)
  PROVE  /\ PagesTyped' /\ WarmInTime'
         /\ \/ UNCHANGED sitemap
            \/ sitemap'.kind = "whole"
            \/ sitemap'.kind = "partial" /\ job[b].session = "late"
<1>1. b \in Jobs
  BY DEF Jobs
<1>2. CASE Failed(b)
  BY <1>1, <1>2, FailedPages
<1>3. CASE ~Failed(b)
  <2>1. /\ sitemap' = [kind |-> IF job[b].whole THEN "whole" ELSE "partial", age |-> 0]
        /\ nap' = (IF b = Warm THEN Interval ELSE nap) /\ nap \in 0 .. Interval
        /\ UNCHANGED <<recent, degraded>> /\ job[b].session # "broken"
    BY <1>3 DEF Join, IInv, TypeOK
  <2>2. sitemap' \in [kind : {"none", "partial", "whole"}, age : 0 .. Ttl - 1]
    BY <2>1 DEF Ttl
  <2>3. sitemap'.age = 0 /\ nap' \in 0 .. Interval
    BY <2>1 DEF Interval
  <2>4. ~job[b].whole => job[b].session = "late"
    <3>1. job[b] \in JobType /\ At(b, "join")
      BY <1>1, <1>3 DEF Join, IInv, TypeOK, JobType
    <3> QED BY <2>1, <3>1 DEF JobType, IInv, WholeIsFine, At
  <2>5. sitemap'.kind = IF job[b].whole THEN "whole" ELSE "partial"
    BY <2>1
  <2>6. PagesTyped'
    BY <2>1, <2>2, <2>3 DEF PagesTyped, IInv, TypeOK
  <2>7. WarmInTime'
    <3>1. nap' \in 0 .. 1 /\ sitemap'.age \in 0 .. 0
      BY <2>3 DEF Interval
    <3> QED BY <3>1, NoLonger DEF WarmInTime, Interval
  <2> QED BY <2>4, <2>5, <2>6, <2>7
<1> QED BY <1>2, <1>3

(* Half a lifetime: a pause that is not over yet began with the sitemap.   *)
LEMMA TickPages ==
  ASSUME IInv, Tick
  PROVE  /\ PagesTyped' /\ WarmInTime'
         /\ sitemap' = NoSitemap \/ sitemap'.kind = sitemap.kind
         /\ sitemap.kind # "none" /\ sitemap' = NoSitemap => At(Warm, "retry")
<1>1. /\ sitemap \in [kind : {"none", "partial", "whole"}, age : 0 .. Ttl - 1]
      /\ nap \in 0 .. Interval /\ sitemap.age + nap <= Interval
      /\ sitemap.age \in 0 .. 1 /\ nap \in 0 .. 1
  BY DEF IInv, TypeOK, WarmInTime, Ttl, Interval
<1>2. nap' \in 0 .. Interval /\ nap' = IF nap > 0 THEN nap - 1 ELSE 0
  BY <1>1 DEF Tick, Interval
<1>3. UNCHANGED <<recent, degraded>>
  BY DEF Tick
<1>4. CASE sitemap.kind = "none" \/ sitemap.age + 1 = Ttl
  <2>1. sitemap' = NoSitemap
    BY <1>4 DEF Tick
  <2>2. NoSitemap \in [kind : {"none", "partial", "whole"}, age : 0 .. Ttl - 1]
        /\ NoSitemap.age = 0
    BY DEF NoSitemap, Ttl
  <2>3. sitemap.kind # "none" => At(Warm, "retry")
    <3>1. sitemap.kind # "none" => nap = 0
      BY <1>1, <1>4 DEF Ttl, Interval
    <3> QED BY <1>1, <3>1 DEF Tick
  <2>4. WarmInTime'
    BY <1>2, <2>1, <2>2 DEF WarmInTime, Interval
  <2>5. PagesTyped'
    BY <1>2, <1>3, <2>1, <2>2 DEF PagesTyped, IInv, TypeOK
  <2> QED BY <2>1, <2>3, <2>4, <2>5
<1>5. CASE sitemap.kind # "none" /\ sitemap.age + 1 # Ttl
  <2>1. sitemap' = [sitemap EXCEPT !.age = @ + 1] /\ sitemap.age = 0
    BY <1>1, <1>5 DEF Tick, Ttl
  <2>2. /\ sitemap' \in [kind : {"none", "partial", "whole"}, age : 0 .. Ttl - 1]
        /\ sitemap'.kind = sitemap.kind /\ sitemap'.age = 1
    BY <1>1, <2>1 DEF Ttl
  <2>3. nap' = 0
    BY <1>1, <1>2 DEF Interval
  <2>4. WarmInTime'
    BY <2>2, <2>3 DEF WarmInTime, Interval
  <2>5. PagesTyped'
    BY <1>2, <1>3, <2>2 DEF PagesTyped, IInv, TypeOK
  <2>6. sitemap' # NoSitemap
    BY <1>5, <2>2 DEF NoSitemap
  <2> QED BY <2>2, <2>4, <2>5, <2>6
<1> QED BY <1>4, <1>5

LEMMA NextPages ==
  IInv /\ [Next]_vars =>
    /\ PagesTyped' /\ WarmInTime'
    /\ up' \in BOOLEAN /\ matching' \subseteq Lists /\ stopping' \in BOOLEAN
<1> DEFINE Good == PagesTyped' /\ WarmInTime'
<1> SUFFICES ASSUME IInv, [Next]_vars
             PROVE  /\ Good
                    /\ up' \in BOOLEAN /\ matching' \subseteq Lists /\ stopping' \in BOOLEAN
  OBVIOUS
<1>1. /\ PagesTyped /\ WarmInTime
      /\ up \in BOOLEAN /\ matching \subseteq Lists /\ stopping \in BOOLEAN
  BY DEF IInv, TypeOK, PagesTyped
<1>2. ASSUME UNCHANGED caches PROVE Good
  BY <1>1, <1>2 DEF caches, PagesTyped, WarmInTime
<1>3. ASSUME NEW j \in Jobs, JobStep(j) PROVE Good /\ UNCHANGED hafsql
  <2>1. UNCHANGED hafsql
    BY <1>3 DEF JobStep, GetPool, MakePool, GetConn, QueryAnswered, QueryFails
  <2>2. CASE Failed(j)
    BY <2>1, <2>2, FailedPages
  <2>3. CASE ~Failed(j) /\ ~QueryAnswered(j)
    <3>1. UNCHANGED caches
      BY <1>3, <2>3 DEF JobStep, GetPool, MakePool, GetConn, QueryFails, caches
    <3> QED BY <1>2, <2>1, <3>1
  <2>4. CASE QueryAnswered(j)
    <3>1. PagesTyped'
      BY <1>1, <2>4 DEF QueryAnswered, Answered, PagesTyped
    <3>2. WarmInTime'
      BY <1>1, <2>4 DEF QueryAnswered, Answered, WarmInTime
    <3> QED BY <2>1, <3>1, <3>2
  <2> QED BY <2>2, <2>3, <2>4
<1>4. ASSUME NEW l \in Lists, Ask(l) \/ Expire(l) PROVE Good /\ UNCHANGED hafsql
  BY <1>1, <1>4 DEF Ask, Expire, PagesTyped, WarmInTime
<1>5. ASSUME NEW l \in Lists, Match(l)
      PROVE  Good /\ UNCHANGED <<up, stopping>> /\ matching' \subseteq Lists
  BY <1>1, <1>2, <1>5 DEF Match
<1>6. ASSUME NEW b \in Builders, Begin(b) \/ Enumerate(b) \/ Join(b)
      PROVE  Good /\ UNCHANGED hafsql
  <2>1. UNCHANGED hafsql
    BY <1>6, BuilderEffect
  <2>2. CASE Join(b)
    BY <2>1, <2>2, JoinPages
  <2>3. CASE Begin(b) \/ Enumerate(b)
    BY <1>2, <2>1, <2>3 DEF Begin, Enumerate
  <2> QED BY <1>6, <2>2, <2>3
<1>7. NoSitemap \in [kind : {"none", "partial", "whole"}, age : 0 .. Ttl - 1]
      /\ NoSitemap.age = 0
  BY DEF NoSitemap, Ttl
<1>8. CASE Evict
  <2>1. PagesTyped'
    BY <1>1, <1>7, <1>8 DEF Evict, PagesTyped
  <2>2. WarmInTime'
    BY <1>1, <1>7, <1>8 DEF Evict, PagesTyped, WarmInTime, Interval
  <2> QED BY <1>1, <1>8, <2>1, <2>2 DEF Evict, hafsql
<1>9. CASE Tick
  BY <1>1, <1>9, TickPages DEF Tick, hafsql
<1>10. CASE UpOrDown \/ Shutdown
  BY <1>1, <1>2, <1>10 DEF UpOrDown, Shutdown
<1>11. CASE Restart
  <2>1. PagesTyped'
    BY <1>7, <1>11 DEF Restart, PagesTyped, Interval
  <2>2. WarmInTime'
    BY <1>7, <1>11 DEF Restart, WarmInTime, Interval
  <2> QED BY <1>1, <1>11, <2>1, <2>2 DEF Restart
<1>12. CASE UNCHANGED vars
  BY <1>1, <1>2, <1>12 DEF vars, caches
<1>13. Good /\ UNCHANGED hafsql =>
         up' \in BOOLEAN /\ matching' \subseteq Lists /\ stopping' \in BOOLEAN
  BY <1>1 DEF hafsql
<1> HIDE DEF Good
<1> QED
  BY <1>1, <1>3, <1>4, <1>5, <1>6, <1>8, <1>9, <1>10, <1>11, <1>12, <1>13, NextSplit
  DEF PageStep, Apart

-----------------------------------------------------------------------------
(* The theorems *)

LEMMA Invariance == Spec => []IInv
<1>1. Init => IInv
  BY InitIInv
<1>2. IInv /\ [Next]_vars => IInv'
  <2> SUFFICES ASSUME IInv, [Next]_vars PROVE IInv'
    OBVIOUS
  <2>1. /\ job' \in [Jobs -> JobType]
        /\ (CurrentIsOpen /\ OnCurrentPool /\ OnlyWarmOutlives /\ InHand /\ WholeIsFine)'
    BY NextWays
  <2>2. /\ current' \in Pools \cup {None} /\ open' \subseteq Pools
        /\ idle' \in [Pools -> IdleType] /\ IdleBounded'
    BY NextPool
  <2>3. /\ PagesTyped' /\ WarmInTime'
        /\ up' \in BOOLEAN /\ matching' \subseteq Lists /\ stopping' \in BOOLEAN
    BY NextPages
  <2>4. OnePool'
    BY <2>1, NextOnePool
  <2>5. TypeOK'
    BY <2>1, <2>2, <2>3, Zenon DEF TypeOK, JobType, IdleType, PagesTyped
  <2> QED BY <2>1, <2>2, <2>3, <2>4, <2>5 DEF IInv
<1> QED BY <1>1, <1>2, PTL DEF Spec

(* Type correctness: among it that no more than MinConn idle connections   *)
(* of a kind are kept (putconn, hafsql.py).                                *)
THEOREM TypeCorrect == Spec => []TypeOK
<1>1. IInv => TypeOK
  BY DEF IInv
<1> QED BY <1>1, Invariance, PTL

(* At most one pool of connections is open, the one in _pool, and it never *)
(* has more than MaxConn connections, whichever threads come first and     *)
(* whichever outlives the shutdown (_get_pool, hafsql.py).                 *)
THEOREM PoolIsOne == Spec => []OnePool
<1>1. IInv => OnePool
  BY DEF IInv
<1> QED BY <1>1, Invariance, PTL

(* A shutdown leaves at most the warm task's thread on its way             *)
(* (OnlyWarmOutlives), the one that could make a pool nobody closes.       *)
THEOREM OnlyWarmIsLeft == Spec => []OnlyWarmOutlives
<1>1. IInv => OnlyWarmOutlives
  BY DEF IInv
<1> QED BY <1>1, Invariance, PTL

(* A complete sitemap is lost only to an eviction, the end of the process  *)
(* or failing builds, and a shorter one takes its place only if the        *)
(* enumerations had no connection (sitemap in ui.py).                      *)
THEOREM CompleteSitemapIsKept == Spec => SitemapKept
<1> DEFINE Kept ==
      sitemap.kind = "whole" =>
        \/ sitemap'.kind = "whole" \/ Evict \/ Restart
        \/ sitemap'.kind = "none" /\ At(Warm, "retry")
        \/ sitemap'.kind = "partial" /\ \E b \in Builders : job[b].session = "late"
<1>1. IInv /\ [Next]_vars => [Kept]_vars
  <2> SUFFICES ASSUME IInv, Next, ~UNCHANGED vars, sitemap.kind = "whole",
                      sitemap' # sitemap, ~Evict, ~Restart
               PROVE  \/ sitemap'.kind = "whole"
                      \/ sitemap'.kind = "none" /\ At(Warm, "retry")
                      \/ sitemap'.kind = "partial" /\ \E b \in Builders : job[b].session = "late"
    OBVIOUS
  <2>1. ASSUME NEW j \in Jobs, JobStep(j) PROVE FALSE
    BY <2>1 DEF JobStep, GetPool, MakePool, GetConn, QueryAnswered, QueryFails, Failed,
                Answered, caches
  <2>2. ASSUME NEW l \in Lists, Ask(l) \/ Expire(l) \/ Match(l) PROVE FALSE
    BY <2>2 DEF Ask, Expire, Match, caches
  <2>3. ASSUME NEW b \in Builders, Begin(b) \/ Enumerate(b) PROVE FALSE
    BY <2>3 DEF Begin, Enumerate, caches
  <2>4. CASE UpOrDown \/ Shutdown
    BY <2>4 DEF UpOrDown, Shutdown, caches
  <2>5. CASE Tick
    <3>1. NoSitemap.kind = "none"
      BY DEF NoSitemap
    <3> QED BY <2>5, <3>1, TickPages
  <2>6. ASSUME NEW b \in Builders, Join(b)
        PROVE  sitemap'.kind = "whole" \/ (sitemap'.kind = "partial" /\ job[b].session = "late")
    BY <2>6, JoinPages
  <2> QED BY <2>1, <2>2, <2>3, <2>4, <2>5, <2>6 DEF Next, JobStep
<1> QED BY <1>1, Invariance, PTL DEF Spec, SitemapKept

-----------------------------------------------------------------------------
(* The feed: the inductive invariant.  The properties speak of the feed    *)
(* between answers; these parts, of the questions that are out as well.    *)

(* A question knows what it asked, and for which filters. *)
QuestionPart ==
  /\ apply.had \subseteq table \cap Selection(apply.q)
  /\ more.had \subseteq table \cap Selection(more.q)
  /\ base.had \subseteq table \cap Selection(base.q)
  /\ apply.limit = PageSize /\ more.limit = PageSize
  /\ apply.filter = {} => Selection(apply.q) = Posts
  /\ base.filter = {} => Selection(base.q) = Posts

(* The last filters are those of the timer, of the question or of the feed. *)
FilterPart ==
  ~timer => /\ apply.out => apply.filter = filter
            /\ ~apply.out /\ base.answered => base.filter = filter

(* loadMore asks about the feed shown only if no other feed is on its way. *)
OwnPart ==
  more.out /\ more.own => ~apply.out /\ base.answered /\ more.q = base.q

Descending(s) == \A i, j \in 1 .. Len(s) : i < j => s[i] > s[j]

(* Where the feed shown ends, and what comes after it. *)
CursorPart ==
  /\ ~apply.out /\ base.answered /\ ~noMore => cursor # Nothing
  /\ cursor = Nothing /\ ~noMore => offset = 0
  /\ ~patched =>
       /\ Descending(shown) /\ ToSet(shown) \subseteq Selection(base.q)
       /\ apply.out => cursor = Nothing
       /\ cursor # Nothing => /\ \A r \in ToSet(shown) : r >= cursor
                              /\ \E r \in base.had : r >= cursor
       /\ more.out /\ more.own =>
            /\ cursor # Nothing /\ ~noMore
            /\ \A p \in more.had : p < cursor
            /\ \A p \in base.had : p < cursor => p \in more.had
       /\ ~apply.out /\ base.answered =>
            NoGap /\ (cut = "no" => Complete) /\ (cut = "no" \/ noMore)

FeedIInv == FeedTypeOK /\ QuestionPart /\ FilterPart /\ OwnPart /\ CursorPart

-----------------------------------------------------------------------------
(* Sets in order *)

LEMMA RanksStrict ==
  ASSUME NEW S \in SUBSET Nat, IsFiniteSet(S)
  PROVE  /\ \A p \in S : /\ IsFiniteSet(Above(S, p))
                         /\ Cardinality(Above(S, p)) \in 0 .. Cardinality(S) - 1
         /\ \A p, q \in S :
              p > q => Cardinality(Above(S, p)) < Cardinality(Above(S, q))
<1>1. Cardinality(S) \in Nat
  BY FS_CardinalityType
<1>2. ASSUME NEW p \in S
      PROVE  /\ IsFiniteSet(Above(S, p))
             /\ Cardinality(Above(S, p)) \in 0 .. Cardinality(S) - 1
  <2>1. Above(S, p) \in SUBSET (S \ {p})
    BY DEF Above
  <2>2. IsFiniteSet(S \ {p}) /\ Cardinality(S \ {p}) = Cardinality(S) - 1
    BY FS_RemoveElement
  <2>3. /\ IsFiniteSet(Above(S, p)) /\ Cardinality(Above(S, p)) \in Nat
        /\ Cardinality(Above(S, p)) <= Cardinality(S) - 1
    BY <2>1, <2>2, FS_Subset, FS_CardinalityType
  <2> QED BY <1>1, <2>3
<1>3. ASSUME NEW p \in S, NEW q \in S, p > q
      PROVE  Cardinality(Above(S, p)) < Cardinality(Above(S, q))
  <2>1. /\ Above(S, p) \in SUBSET Above(S, q)
        /\ p \in Above(S, q) /\ p \notin Above(S, p)
    <3>1. \A r \in S : r \in Nat
      OBVIOUS
    <3>2. ~(p > p) /\ \A r \in S : r > p => r > q
      BY <1>3, <3>1
    <3> QED BY <1>3, <3>1, <3>2 DEF Above
  <2>2. /\ IsFiniteSet(Above(S, q))
        /\ Cardinality(Above(S, p)) \in Nat /\ Cardinality(Above(S, q)) \in Nat
    BY <1>2
  <2>3. /\ Cardinality(Above(S, p)) <= Cardinality(Above(S, q))
        /\ Cardinality(Above(S, p)) # Cardinality(Above(S, q))
    BY <2>1, <2>2, FS_Subset
  <2> QED BY <2>2, <2>3
<1> QED BY <1>2, <1>3

(* Every rank is that of a member. *)
LEMMA RanksTaken ==
  ASSUME NEW S \in SUBSET Nat, IsFiniteSet(S), NEW k \in 0 .. Cardinality(S) - 1
  PROVE  \E p \in S : Cardinality(Above(S, p)) = k
<1> DEFINE N == 0 .. Cardinality(S) - 1
           f == [p \in S |-> Cardinality(Above(S, p))]
<1>1. IsFiniteSet(N) /\ Cardinality(N) = Cardinality(S)
  <2>1. Cardinality(S) \in Nat
    BY FS_CardinalityType
  <2> QED BY <2>1, FS_Interval
<1>2. f \in [S -> N] /\ \A p \in S : f[p] = Cardinality(Above(S, p))
  BY RanksStrict
<1>3. ASSUME NEW p \in S, NEW q \in S, f[p] = f[q] PROVE p = q
  <2>1. p \in Nat /\ q \in Nat /\ f[p] \in Nat /\ f[q] \in Nat
    BY <1>2, FS_CardinalityType
  <2>2. ~(p > q) /\ ~(q > p)
    BY <1>2, <1>3, <2>1, RanksStrict
  <2> QED BY <2>1, <2>2
<1> HIDE DEF f, N
<1>4. f \in Injection(S, N)
  BY <1>2, <1>3 DEF Injection, IsInjective
<1>5. f \in Surjection(S, N)
  BY <1>1, <1>4, FS_Injection
<1>6. \E p \in S : f[p] = k
  BY <1>5 DEF N, Surjection
<1> QED BY <1>2, <1>6

LEMMA InOrderFacts ==
  ASSUME NEW S \in SUBSET Nat, IsFiniteSet(S)
  PROVE  /\ InOrder(S) \in Seq(S)
         /\ Len(InOrder(S)) = Cardinality(S)
         /\ \A i, j \in 1 .. Len(InOrder(S)) : i < j => InOrder(S)[i] > InOrder(S)[j]
         /\ \A p \in S : \E i \in 1 .. Len(InOrder(S)) : InOrder(S)[i] = p
<1> DEFINE n == Cardinality(S)
           rank(p) == Cardinality(Above(S, p))
           s == InOrder(S)
<1>1. n \in Nat
  BY FS_CardinalityType
<1>2. /\ \A p \in S : rank(p) \in 0 .. n - 1
      /\ \A p, q \in S : p > q => rank(p) < rank(q)
      /\ \A k \in 0 .. n - 1 : \E p \in S : rank(p) = k
  BY RanksStrict, RanksTaken
<1>3. s = [i \in 1 .. n |-> CHOOSE p \in S : rank(p) = i - 1]
  BY DEF InOrder
<1> HIDE DEF n, rank, s
<1>4. \A i \in 1 .. n : s[i] \in S /\ rank(s[i]) = i - 1
  <2> SUFFICES ASSUME NEW i \in 1 .. n PROVE s[i] \in S /\ rank(s[i]) = i - 1
    OBVIOUS
  <2>1. \E p \in S : rank(p) = i - 1
    BY <1>1, <1>2
  <2> QED BY <1>3, <2>1
<1>5. s \in Seq(S) /\ Len(s) = n
  BY <1>1, <1>3, <1>4
<1>6. ASSUME NEW i \in 1 .. n, NEW j \in 1 .. n, i < j PROVE s[i] > s[j]
  <2>1. /\ s[i] \in S /\ s[j] \in S /\ rank(s[i]) = i - 1 /\ rank(s[j]) = j - 1
        /\ s[i] \in Nat /\ s[j] \in Nat
    BY <1>4
  <2>2. s[i] # s[j] /\ ~(s[j] > s[i])
    BY <1>2, <1>6, <2>1
  <2> QED BY <2>1, <2>2
<1>7. ASSUME NEW p \in S PROVE \E i \in 1 .. n : s[i] = p
  <2>1. PICK k \in 0 .. n - 1 : rank(p) = k
    BY <1>2
  <2>2. k + 1 \in 1 .. n /\ (k + 1) - 1 = k /\ p \in Nat
    BY <1>1
  <2>3. s[k + 1] \in S /\ s[k + 1] \in Nat /\ rank(s[k + 1]) = k
    BY <1>4, <2>2
  <2>4. ~(s[k + 1] > p) /\ ~(p > s[k + 1])
    BY <1>2, <2>1, <2>3
  <2> QED BY <2>2, <2>3, <2>4
<1> QED BY <1>5, <1>6, <1>7 DEF n, s

(* The n newest are n if they are not all, and newer than the others. *)
LEMMA NewestFacts ==
  ASSUME NEW S \in SUBSET Nat, IsFiniteSet(S), NEW n \in Nat \ {0}
  PROVE  /\ IsFiniteSet(Newest(S, n)) /\ Cardinality(Newest(S, n)) \in Nat
         /\ Cardinality(Newest(S, n)) <= n
         /\ \A p \in S \ Newest(S, n) :
              Cardinality(Newest(S, n)) = n /\ \A r \in Newest(S, n) : r > p
<1> DEFINE F == Newest(S, n)
           rank(p) == Cardinality(Above(S, p))
           N == 0 .. n - 1
<1>1. /\ F \in SUBSET S /\ \A p \in S : p \in F <=> rank(p) < n
      /\ \A p \in S : rank(p) \in 0 .. Cardinality(S) - 1
      /\ \A p, q \in S : p > q => rank(p) < rank(q)
      /\ \A k \in 0 .. Cardinality(S) - 1 : \E p \in S : rank(p) = k
  BY RanksStrict, RanksTaken DEF Newest
<1>2. IsFiniteSet(F) /\ Cardinality(F) \in Nat /\ Cardinality(S) \in Nat
  BY <1>1, FS_Subset, FS_CardinalityType
<1>3. IsFiniteSet(N) /\ Cardinality(N) = n
  BY FS_Interval
<1> HIDE DEF F, rank, N
<1>4. \A p \in F : rank(p) \in N
  BY <1>1 DEF N
<1>5. \A p, q \in F : rank(p) = rank(q) => p = q
  <2> SUFFICES ASSUME NEW p \in F, NEW q \in F, rank(p) = rank(q) PROVE p = q
    OBVIOUS
  <2>1. p \in S /\ q \in S /\ p \in Nat /\ q \in Nat /\ rank(p) \in Nat
    BY <1>1
  <2>2. ~(p > q) /\ ~(q > p)
    BY <1>1, <2>1
  <2> QED BY <2>1, <2>2
<1>6. Cardinality(F) <= n
  <2> DEFINE f == [p \in F |-> rank(p)]
  <2>1. f \in [F -> N] /\ \A p, q \in F : f[p] = f[q] => p = q
    BY <1>4, <1>5
  <2> HIDE DEF f
  <2>2. f \in Injection(F, N)
    BY <2>1 DEF Injection, IsInjective
  <2> QED BY <1>3, <2>2, FS_Injection
<1>7. ASSUME NEW p \in S \ F PROVE Cardinality(F) = n /\ \A r \in F : r > p
  <2>1. p \in S /\ p \in Nat /\ rank(p) \in Nat /\ rank(p) >= n /\ rank(p) < Cardinality(S)
    BY <1>1, <1>2
  <2>2. \A k \in N : \E q \in F : rank(q) = k
    <3> SUFFICES ASSUME NEW k \in N PROVE \E q \in F : rank(q) = k
      OBVIOUS
    <3>1. k \in 0 .. Cardinality(S) - 1 /\ k < n
      BY <1>2, <2>1 DEF N
    <3>2. PICK q \in S : rank(q) = k
      BY <1>1, <3>1
    <3> QED BY <1>1, <3>1, <3>2
  <2>3. n <= Cardinality(F)
    <3> DEFINE g == [k \in N |-> CHOOSE q \in F : rank(q) = k]
    <3>1. \A k \in N : g[k] \in F /\ rank(g[k]) = k
      BY <2>2
    <3>2. g \in [N -> F] /\ \A k, l \in N : g[k] = g[l] => k = l
      <4>1. \A k, l \in N : g[k] = g[l] => k = l
        <5> HIDE DEF g
        <5> QED BY <3>1
      <4> QED BY <3>1, <4>1
    <3> HIDE DEF g
    <3>3. g \in Injection(N, F)
      BY <3>2 DEF Injection, IsInjective
    <3> QED BY <1>2, <1>3, <3>3, FS_Injection
  <2>4. ASSUME NEW r \in F PROVE r > p
    <3>1. r \in S /\ r \in Nat /\ rank(r) \in Nat /\ rank(r) < n
      BY <1>1
    <3>2. r # p /\ ~(p > r)
      BY <1>1, <2>1, <3>1
    <3> QED BY <2>1, <3>1, <3>2
  <2> QED BY <1>2, <1>6, <2>3, <2>4
<1> QED BY <1>2, <1>6, <1>7 DEF F

LEMMA InOrderSet ==
  ASSUME NEW S \in SUBSET Nat, IsFiniteSet(S)
  PROVE  /\ InOrder(S) \in Seq(S) /\ ToSet(InOrder(S)) = S /\ Descending(InOrder(S))
         /\ S # {} => Len(InOrder(S)) > 0
<1>1. /\ InOrder(S) \in Seq(S)
      /\ \A i, j \in 1 .. Len(InOrder(S)) : i < j => InOrder(S)[i] > InOrder(S)[j]
      /\ \A p \in S : \E i \in 1 .. Len(InOrder(S)) : InOrder(S)[i] = p
  BY InOrderFacts
<1> DEFINE s == InOrder(S)
<1> HIDE DEF s
<1>2. /\ DOMAIN s = 1 .. Len(s) /\ Len(s) \in Nat
      /\ \A i \in 1 .. Len(s) : s[i] \in S
  BY <1>1 DEF s
<1>3. ToSet(s) = S
  BY <1>1, <1>2 DEF ToSet, s
<1>4. Descending(s)
  BY <1>1 DEF Descending, s
<1>5. ASSUME NEW p \in S PROVE Len(s) > 0
  <2>1. PICK i \in 1 .. Len(s) : s[i] = p
    BY <1>1 DEF s
  <2> QED BY <1>2, <2>1
<1> QED BY <1>1, <1>3, <1>4, <1>5 DEF s

LEMMA InSequence ==
  ASSUME NEW S, NEW s \in Seq(S)
  PROVE  /\ ToSet(s) \in SUBSET S
         /\ \A x : x \in ToSet(s) <=> \E i \in 1 .. Len(s) : s[i] = x
<1>1. DOMAIN s = 1 .. Len(s) /\ \A i \in 1 .. Len(s) : s[i] \in S
  OBVIOUS
<1> QED BY <1>1 DEF ToSet

LEMMA Joined ==
  ASSUME NEW S, NEW s \in Seq(S), NEW t \in Seq(S)
  PROVE  /\ s \o t \in Seq(S) /\ ToSet(s \o t) = ToSet(s) \cup ToSet(t)
         /\ Len(s \o t) = Len(s) + Len(t)
         /\ /\ Descending(s) /\ Descending(t)
            /\ \A x \in ToSet(s), y \in ToSet(t) : x > y
            => Descending(s \o t)
<1> DEFINE u == s \o t
<1>1. /\ Len(s) \in Nat /\ Len(t) \in Nat /\ u \in Seq(S) /\ Len(u) = Len(s) + Len(t)
      /\ \A i \in 1 .. Len(s) : u[i] = s[i]
      /\ \A i \in Len(s) + 1 .. Len(s) + Len(t) : u[i] = t[i - Len(s)]
  OBVIOUS
<1> HIDE DEF u
<1>2. \A i \in 1 .. Len(u) :
        \/ i \in 1 .. Len(s) /\ u[i] = s[i]
        \/ i \notin 1 .. Len(s) /\ i - Len(s) \in 1 .. Len(t) /\ u[i] = t[i - Len(s)]
  BY <1>1
<1>3. ToSet(u) = ToSet(s) \cup ToSet(t)
  <2>1. ASSUME NEW x \in ToSet(u) PROVE x \in ToSet(s) \cup ToSet(t)
    <3>1. PICK i \in 1 .. Len(u) : u[i] = x
      BY <1>1, InSequence
    <3> QED BY <1>2, <3>1, InSequence
  <2>2. ASSUME NEW x \in ToSet(s) PROVE x \in ToSet(u)
    <3>1. PICK i \in 1 .. Len(s) : s[i] = x
      BY InSequence
    <3>2. i \in 1 .. Len(u) /\ u[i] = x
      BY <1>1, <3>1
    <3> QED BY <1>1, <3>2, InSequence
  <2>3. ASSUME NEW x \in ToSet(t) PROVE x \in ToSet(u)
    <3>1. PICK i \in 1 .. Len(t) : t[i] = x
      BY InSequence
    <3>2. /\ i + Len(s) \in Len(s) + 1 .. Len(s) + Len(t)
          /\ i + Len(s) \in 1 .. Len(u) /\ (i + Len(s)) - Len(s) = i
      BY <1>1
    <3>3. u[i + Len(s)] = x
      BY <1>1, <3>1, <3>2
    <3> QED BY <1>1, <3>2, <3>3, InSequence
  <2> QED BY <2>1, <2>2, <2>3
<1>4. ASSUME Descending(s), Descending(t), \A x \in ToSet(s), y \in ToSet(t) : x > y,
             NEW i \in 1 .. Len(u), NEW j \in 1 .. Len(u), i < j
      PROVE  u[i] > u[j]
  <2>1. CASE i \in 1 .. Len(s) /\ j \in 1 .. Len(s)
    BY <1>1, <1>4, <2>1 DEF Descending
  <2>2. CASE i \in 1 .. Len(s) /\ j \notin 1 .. Len(s)
    <3>1. s[i] \in ToSet(s) /\ j - Len(s) \in 1 .. Len(t) /\ t[j - Len(s)] \in ToSet(t)
      BY <1>2, <2>2, InSequence
    <3> QED BY <1>2, <1>4, <2>2, <3>1
  <2>3. CASE i \notin 1 .. Len(s)
    <3>1. j \notin 1 .. Len(s) /\ i - Len(s) < j - Len(s)
      BY <1>1, <1>4, <2>3
    <3> QED BY <1>2, <1>4, <2>3, <3>1 DEF Descending
  <2> QED BY <2>1, <2>2, <2>3
<1> QED BY <1>1, <1>3, <1>4 DEF u, Descending

LEMMA WithoutFacts ==
  ASSUME NEW S, NEW s \in Seq(S), NEW M
  PROVE  /\ Without(s, M) \in Seq(S) /\ ToSet(Without(s, M)) = ToSet(s) \ M
         /\ Descending(s) => Descending(Without(s, M))
<1> DEFINE K == {i \in DOMAIN s : s[i] \notin M}
           kept == InOrder(K)
           n == Len(kept)
           t == Without(s, M)
<1>1. K \in SUBSET Nat /\ IsFiniteSet(K) /\ K = {i \in 1 .. Len(s) : s[i] \notin M}
  <2>1. DOMAIN s = 1 .. Len(s) /\ Len(s) \in Nat
    OBVIOUS
  <2>2. IsFiniteSet(1 .. Len(s))
    BY <2>1, FS_Interval
  <2>3. K \in SUBSET (1 .. Len(s))
    BY <2>1
  <2> QED BY <2>1, <2>2, <2>3, FS_Subset
<1>2. /\ kept \in Seq(K) /\ ToSet(kept) = K /\ Descending(kept) /\ n \in Nat
      /\ \A i \in 1 .. n : kept[i] \in K
  <2>1. kept \in Seq(K) /\ ToSet(kept) = K /\ Descending(kept)
    BY <1>1, InOrderSet
  <2> HIDE DEF kept
  <2> QED BY <2>1
<1>3. t = [j \in 1 .. n |-> s[kept[n + 1 - j]]]
  BY DEF Without
<1> HIDE DEF K, kept, n, t
<1>4. \A j \in 1 .. n : n + 1 - j \in 1 .. n
  BY <1>2
<1>5. \A j \in 1 .. n : t[j] = s[kept[n + 1 - j]] /\ kept[n + 1 - j] \in K
  BY <1>2, <1>3, <1>4
<1>6. /\ \A i \in K : i \in 1 .. Len(s) /\ i \in Nat /\ s[i] \in S /\ s[i] \notin M
      /\ \A i \in 1 .. Len(s) : s[i] \notin M => i \in K
  BY <1>1 DEF K
<1>7. t \in Seq(S) /\ Len(t) = n
  BY <1>2, <1>3, <1>5, <1>6
<1>8. ToSet(t) = ToSet(s) \ M
  <2>1. ASSUME NEW x \in ToSet(t) PROVE x \in ToSet(s) \ M
    <3>1. PICK j \in 1 .. n : t[j] = x
      BY <1>7, InSequence
    <3> QED BY <1>5, <1>6, <3>1, InSequence
  <2>2. ASSUME NEW x \in ToSet(s) \ M PROVE x \in ToSet(t)
    <3>1. PICK i \in 1 .. Len(s) : s[i] = x
      BY InSequence
    <3>2. i \in ToSet(kept)
      BY <1>2, <1>6, <3>1
    <3>3. PICK k \in 1 .. n : kept[k] = i
      BY <1>2, <3>2, InSequence DEF n
    <3>4. n + 1 - k \in 1 .. n /\ n + 1 - (n + 1 - k) = k
      BY <1>2
    <3>5. t[n + 1 - k] = x
      BY <1>5, <3>1, <3>3, <3>4
    <3> QED BY <1>7, <3>4, <3>5, InSequence
  <2> QED BY <2>1, <2>2
<1>9. ASSUME Descending(s), NEW i \in 1 .. n, NEW j \in 1 .. n, i < j PROVE t[i] > t[j]
  <2>1. n + 1 - i \in 1 .. n /\ n + 1 - j \in 1 .. n /\ n + 1 - j < n + 1 - i
    BY <1>2, <1>9
  <2>2. kept[n + 1 - j] > kept[n + 1 - i]
    BY <1>2, <2>1 DEF Descending, n
  <2>3. kept[n + 1 - j] \in K /\ kept[n + 1 - i] \in K
    BY <1>2, <2>1
  <2>4. kept[n + 1 - i] < kept[n + 1 - j]
    BY <1>6, <2>2, <2>3
  <2>5. s[kept[n + 1 - i]] > s[kept[n + 1 - j]]
    BY <1>6, <1>9, <2>3, <2>4 DEF Descending
  <2> QED BY <1>5, <2>5
<1> QED BY <1>7, <1>8, <1>9 DEF t, Descending

-----------------------------------------------------------------------------
(* Questions and answers *)

Asking == [out : BOOLEAN, filter : SUBSET Switches, q : Questions,
           limit : PollLimits \cup {PageSize}, offset : Nat,
           had : SUBSET Posts, own : BOOLEAN]

LEMMA FeedConstants ==
  /\ NPosts \in Nat /\ PageSize \in Nat \ {0} /\ FeedMax \in Nat \ {0} /\ MaxChanges \in Nat
  /\ \A p \in Posts : p \in Nat /\ p # 0 /\ p \in 0 .. NPosts /\ Created[p] \in Nat \ {0}
  /\ \A n \in PollLimits \cup {PageSize} : n \in Nat \ {0}
  /\ InCategory \in SUBSET Posts /\ ByFollowed \in SUBSET Posts /\ InMine \in SUBSET Posts
  /\ InCommunity \in SUBSET Posts /\ ByAuthor \in SUBSET Posts /\ ByMuted \in SUBSET Posts
<1>1. NPosts \in Nat /\ PageSize \in Nat \ {0} /\ FeedMax \in Nat \ {0} /\ MaxChanges \in Nat
  BY FeedAssumption
<1>2. \A p \in Posts : p \in Nat /\ p # 0 /\ p \in 0 .. NPosts
  BY <1>1 DEF Posts
<1>3. \A p \in Posts : Created[p] \in Nat \ {0}
  BY FeedAssumption
<1>4. \A n \in PollLimits \cup {PageSize} : n \in Nat \ {0}
  BY FeedAssumption
<1>5. /\ InCategory \in SUBSET Posts /\ ByFollowed \in SUBSET Posts /\ InMine \in SUBSET Posts
      /\ InCommunity \in SUBSET Posts /\ ByAuthor \in SUBSET Posts /\ ByMuted \in SUBSET Posts
  BY FeedAssumption
<1> QED BY <1>1, <1>2, <1>3, <1>4, <1>5

LEMMA SomePosts ==
  ASSUME NEW S \in SUBSET Posts
  PROVE  S \in SUBSET Nat /\ IsFiniteSet(S)
<1>1. IsFiniteSet(Posts)
  <2>1. 1 \in Int /\ NPosts \in Int
    BY FeedConstants
  <2> QED BY <2>1, FS_Interval DEF Posts
<1>2. S \in SUBSET Nat
  BY FeedConstants
<1> QED BY <1>1, <1>2, FS_Subset

LEMMA QuestionType ==
  ASSUME NEW f \in SUBSET Switches
  PROVE  Question(f) \in Questions /\ (f = {} => Selection(Question(f)) = Posts)
<1>1. Question(f).source \in (Switches \ {"category"}) \cup {"any"}
  BY DEF Question, Switches
<1>2. Question(f) = [source |-> Question(f).source, chips |-> Question(f).chips]
      /\ Question(f).chips \in BOOLEAN
  BY DEF Question
<1>3. Question(f) \in Questions
  BY <1>1, <1>2 DEF Questions
<1>4. f = {} => Question(f).source = "any" /\ ~Question(f).chips
  BY DEF Question
<1> QED BY <1>3, <1>4 DEF Selection

LEMMA EverythingIsAll ==
  Everything \in Questions /\ Selection(Everything) = Posts
BY DEF Everything, Questions, Selection, Switches

LEMMA AskType ==
  ASSUME NEW f \in SUBSET Switches, NEW q \in Questions, NEW below \in Nat, NEW from \in Nat,
         NEW limit \in PollLimits \cup {PageSize}, NEW own \in BOOLEAN, table \in SUBSET Posts
  PROVE  LET x == AskServer(f, q, below, from, limit, own)
         IN  /\ x \in Asking
             /\ x.out /\ x.filter = f /\ x.q = q /\ x.limit = limit /\ x.own = own
             /\ x.had = {p \in table \cap Selection(q) : below = Nothing \/ p < below}
<1>1. {p \in table \cap Selection(q) : below = Nothing \/ p < below} \in SUBSET Posts
  OBVIOUS
<1> QED BY <1>1 DEF AskServer, Asking

LEMMA NoQuestionType ==
  /\ NoQuestion \in Asking /\ ~NoQuestion.out /\ NoQuestion.limit = PageSize
  /\ NoQuestion.had = {} /\ NoQuestion.q = Everything /\ ~NoQuestion.own
BY EverythingIsAll DEF NoQuestion, Asking

(* A page, the cursor it leaves and whether it is taken for the last. *)
LEMMA PageFacts ==
  ASSUME NEW S \in SUBSET Posts
  PROVE  LET rows == Newest(S, PageSize)
             c == NextCursor(rows)
         IN  /\ rows \in SUBSET S /\ IsFiniteSet(rows)
             /\ c \in 0 .. NPosts /\ IsLast(rows) \in BOOLEAN
             /\ IsLast(rows) <=> c = Nothing
             /\ c # Nothing => c \in rows /\ \A r \in rows : r >= c
             /\ \A p \in S \ rows : c # Nothing /\ p < c
<1> DEFINE rows == Newest(S, PageSize)
           c == NextCursor(rows)
<1>1. S \in SUBSET Nat /\ IsFiniteSet(S) /\ PageSize \in Nat \ {0}
  BY SomePosts, FeedConstants
<1>2. rows \in SUBSET S
  BY DEF Newest
<1>3. /\ IsFiniteSet(rows) /\ Cardinality(rows) \in Nat /\ Cardinality(rows) <= PageSize
      /\ \A p \in S \ rows : Cardinality(rows) = PageSize /\ \A r \in rows : r > p
  BY <1>1, NewestFacts
<1> HIDE DEF rows
<1>4. ASSUME Cardinality(rows) = PageSize
      PROVE  c \in rows /\ \A r \in rows : c <= r
  <2>1. rows # {}
    BY <1>1, <1>4, FS_EmptySet
  <2>2. rows \in SUBSET Posts
    BY <1>2
  <2>3. \E p \in rows : \A r \in rows : p <= r
    <3> DEFINE s == InOrder(rows)
    <3>1. rows \in SUBSET Nat
      BY <2>2, SomePosts
    <3>2. s \in Seq(rows) /\ ToSet(s) = rows /\ Descending(s) /\ Len(s) > 0
      BY <1>3, <2>1, <3>1, InOrderSet
    <3> HIDE DEF s
    <3>3. s[Len(s)] \in rows
      BY <3>2
    <3>4. \A r \in rows : s[Len(s)] <= r
      <4> SUFFICES ASSUME NEW r \in rows PROVE s[Len(s)] <= r
        OBVIOUS
      <4>1. PICK i \in 1 .. Len(s) : s[i] = r
        BY <3>2, InSequence
      <4>2. Len(s) \in Nat /\ Len(s) \in 1 .. Len(s) /\ (i = Len(s) \/ i < Len(s))
        BY <3>2
      <4>3. i < Len(s) => s[i] > s[Len(s)]
        BY <3>2, <4>2 DEF Descending
      <4>4. r \in Nat /\ s[Len(s)] \in Nat
        BY <3>1, <3>3
      <4> QED BY <4>1, <4>2, <4>3, <4>4
    <3> QED BY <3>3, <3>4
  <2>4. c = CHOOSE p \in rows : \A r \in rows : p <= r
    BY <1>4 DEF NextCursor
  <2> HIDE DEF c
  <2> QED BY <2>3, <2>4
<1>5. Cardinality(rows) # PageSize => c = Nothing
  BY DEF NextCursor
<1>6. IsLast(rows) <=> Cardinality(rows) # PageSize
  BY <1>1, <1>3 DEF IsLast
<1> HIDE DEF c
<1>7. Cardinality(rows) = PageSize => c # Nothing
  BY <1>2, <1>4, FeedConstants DEF Nothing
<1>8. c \in 0 .. NPosts
  BY <1>2, <1>4, <1>5, FeedConstants DEF Nothing
<1>9. c # Nothing => c \in rows /\ \A r \in rows : r >= c
  <2> SUFFICES ASSUME c # Nothing PROVE c \in rows /\ \A r \in rows : r >= c
    OBVIOUS
  <2>1. c \in rows /\ \A r \in rows : c <= r
    BY <1>4, <1>5
  <2>2. \A r \in rows : r \in Nat
    BY <1>1, <1>2
  <2> QED BY <2>1, <2>2
<1>10. \A p \in S \ rows : c # Nothing /\ p < c
  <2> SUFFICES ASSUME NEW p \in S \ rows PROVE c # Nothing /\ p < c
    OBVIOUS
  <2>1. c # Nothing /\ c \in rows /\ c > p
    BY <1>3, <1>4, <1>7
  <2>2. c \in Nat /\ p \in Nat
    BY <1>1, <1>2, <2>1
  <2> QED BY <2>1, <2>2
<1>11. IsLast(rows) \in BOOLEAN
  BY DEF IsLast
<1> QED BY <1>2, <1>3, <1>6, <1>5, <1>7, <1>8, <1>9, <1>10, <1>11 DEF rows, c

-----------------------------------------------------------------------------
(* Types *)

LEMMA OrderedPosts ==
  ASSUME NEW S \in SUBSET Posts
  PROVE  /\ InOrder(S) \in Seq(Posts) /\ ToSet(InOrder(S)) = S /\ Descending(InOrder(S))
         /\ S # {} => Len(InOrder(S)) > 0
<1>1. /\ InOrder(S) \in Seq(S) /\ ToSet(InOrder(S)) = S /\ Descending(InOrder(S))
      /\ S # {} => Len(InOrder(S)) > 0
  BY SomePosts, InOrderSet
<1>2. Seq(S) \subseteq Seq(Posts)
  OBVIOUS
<1> QED BY <1>1, <1>2

LEMMA AnswerRows ==
  ASSUME NEW x \in Asking
  PROVE  /\ Rows(x) \in SUBSET x.had /\ x.had \in SUBSET Posts /\ Rows(x) \in SUBSET Posts
         /\ FilterMuted(Rows(x)) \in SUBSET Rows(x) /\ FilterMuted(Rows(x)) \in SUBSET Posts
         /\ Rows(x) \ ByMuted \subseteq FilterMuted(Rows(x))
<1>1. Rows(x) \in SUBSET x.had
  BY DEF Rows, Newest
<1>2. x.had \in SUBSET Posts
  BY DEF Asking
<1>3. FilterMuted(Rows(x)) \in SUBSET Rows(x) /\ Rows(x) \ ByMuted \subseteq FilterMuted(Rows(x))
  BY DEF FilterMuted
<1> QED BY <1>1, <1>2, <1>3

Bases == [filter : SUBSET Switches, q : Questions, had : SUBSET Posts, answered : BOOLEAN]

LEMMA FeedTypes ==
  FeedTypeOK <=>
    /\ table \in SUBSET Posts /\ filter \in SUBSET Switches
    /\ known \in SUBSET {"following", "mine"} /\ muted \in BOOLEAN /\ timer \in BOOLEAN
    /\ shown \in Seq(Posts) /\ cursor \in 0 .. NPosts /\ offset \in Nat
    /\ noMore \in BOOLEAN
    /\ newest \in {Nothing} \cup {Created[p] : p \in Posts}
    /\ apply \in Asking /\ more \in Asking /\ polls \in SUBSET Asking
    /\ changes \in 0 .. MaxChanges
    /\ base \in Bases
    /\ patched \in BOOLEAN /\ cut \in {"no", "error", "offset"}
BY DEF FeedTypeOK, Asking, Bases

LEMMA TypeApplyFilters ==
  ASSUME FeedTypeOK, NEW f \in SUBSET Switches, ApplyFilters(f)
  PROVE  /\ shown' \in Seq(Posts) /\ cursor' \in 0 .. NPosts /\ noMore' \in BOOLEAN
         /\ offset' \in Nat /\ cut' \in {"no", "error", "offset"}
         /\ apply' \in Asking /\ more' \in Asking
         /\ base' \in Bases /\ patched' \in BOOLEAN
         /\ newest' = newest /\ polls' = polls
<1> USE FeedTypes
<1>1. 0 \in 0 .. NPosts /\ Nothing \in Nat /\ PageSize \in PollLimits \cup {PageSize}
  BY FeedConstants DEF Nothing
<1>2. cursor' \in 0 .. NPosts /\ offset' \in Nat /\ newest' = newest /\ polls' = polls
  BY <1>1 DEF ApplyFilters, Nothing
<1>3. more' \in Asking
  <2>1. more' = [more EXCEPT !.own = FALSE] /\ more \in Asking
    BY DEF ApplyFilters
  <2> QED BY <2>1 DEF Asking
<1>4. CASE EmptyList(f)
  <2>1. /\ shown' = <<>> /\ noMore' = TRUE /\ apply' = NoQuestion
        /\ base' = FirstPage(f, Question(f), {}) /\ patched' = FALSE /\ cut' = "no"
    BY <1>4 DEF ApplyFilters
  <2>2. <<>> \in Seq(Posts) /\ FirstPage(f, Question(f), {}) \in Bases
    BY QuestionType DEF FirstPage, Bases
  <2> QED BY <1>2, <1>3, <2>1, <2>2, NoQuestionType
<1>5. CASE ~EmptyList(f)
  <2>1. /\ noMore' = FALSE /\ apply' = AskServer(f, Question(f), Nothing, 0, PageSize, TRUE)
        /\ UNCHANGED <<shown, history>>
    BY <1>5 DEF ApplyFilters
  <2>2. AskServer(f, Question(f), Nothing, 0, PageSize, TRUE) \in Asking
    BY <1>1, QuestionType, AskType
  <2> QED BY <1>2, <1>3, <2>1, <2>2 DEF history
<1> QED BY <1>4, <1>5

LEMMA TypeChoices ==
  ASSUME FeedTypeOK, NEW s \in Switches
  PROVE  Toggled(s) \in SUBSET Switches
BY DEF FeedTypeOK, Toggled, SymDiff

User == \/ ToggleCategory \/ ToggleFollowing \/ ToggleMyCommunities \/ FilterByCommunity
        \/ FilterByAuthor

LEMMA UserChooses ==
  ASSUME FeedTypeOK, User
  PROVE  /\ Change /\ filter' \in SUBSET Switches /\ timer' = TRUE
         /\ UNCHANGED <<lists, feed, asked, history>>
<1> USE DEF Choose
<1>1. filter \in SUBSET Switches
  BY DEF FeedTypeOK
<1>2. Toggled("category") \in SUBSET Switches /\ Toggled("community") \in SUBSET Switches
  BY TypeChoices DEF Switches
<1>3. CASE ToggleCategory \/ FilterByCommunity
  BY <1>2, <1>3 DEF ToggleCategory, FilterByCommunity
<1>4. CASE ToggleFollowing
  BY <1>1, <1>4 DEF ToggleFollowing, Switches
<1>5. CASE ToggleMyCommunities
  BY <1>1, <1>5 DEF ToggleMyCommunities, Switches
<1>6. CASE FilterByAuthor
  BY <1>1, <1>6 DEF FilterByAuthor, Switches
<1> QED BY <1>3, <1>4, <1>5, <1>6 DEF User

LEMMA ChangeType ==
  ASSUME FeedTypeOK, Change
  PROVE  changes' \in 0 .. MaxChanges /\ table' = table
BY FeedConstants DEF FeedTypeOK, Change

(* What a poll does to the feed. *)
LEMMA PollFeed ==
  ASSUME FeedTypeOK, PollAnswer
  PROVE  /\ shown' \in Seq(Posts) /\ newest' \in {Nothing} \cup {Created[p] : p \in Posts}
         /\ patched' \in BOOLEAN /\ (patched => patched')
         /\ polls' \in SUBSET Asking
         /\ UNCHANGED <<table, filter, lists, timer, cursor, offset, noMore, apply, more,
                        changes, base, cut>>
         /\ \/ shown' = shown
            \/ patched'
            \/ \E fresh \in SUBSET Posts :
                 /\ shown' = InOrder(fresh) \o shown
                 /\ base.filter = {}
                 /\ \A p \in fresh, r \in base.had \cup ToSet(shown) : p > r
<1> USE FeedTypes
<1>0. PICK poll \in polls :
        /\ polls' = polls \ {poll}
        /\ LET fresh == {p \in FilterMuted(Rows(poll)) :
                          Created[p] > newest /\ p \notin ToSet(shown)}
               all == InOrder(fresh) \o shown
               fits == base.filter = {} /\ Len(all) <= FeedMax
                         /\ \A p \in fresh, r \in base.had \cup ToSet(shown) : p > r
           IN  IF fresh = {} THEN UNCHANGED <<shown, newest, patched>>
               ELSE /\ shown' = SubSeq(all, 1, IF Len(all) > FeedMax THEN FeedMax ELSE Len(all))
                    /\ newest' = Created[all[1]]
                    /\ patched' = (patched \/ ~fits)
  BY DEF PollAnswer
<1> DEFINE fresh == {p \in FilterMuted(Rows(poll)) : Created[p] > newest /\ p \notin ToSet(shown)}
           all == InOrder(fresh) \o shown
           fits == base.filter = {} /\ Len(all) <= FeedMax
                     /\ \A p \in fresh, r \in base.had \cup ToSet(shown) : p > r
           n == IF Len(all) > FeedMax THEN FeedMax ELSE Len(all)
<1>1. /\ polls' \in SUBSET Asking
      /\ UNCHANGED <<table, filter, lists, timer, cursor, offset, noMore, apply, more,
                     changes, base, cut>>
  BY <1>0 DEF PollAnswer
<1>2. fresh \in SUBSET Posts
  <2>1. poll \in Asking
    OBVIOUS
  <2> QED BY <2>1, AnswerRows
<1>3. /\ all \in Seq(Posts) /\ Len(all) = Len(InOrder(fresh)) + Len(shown)
      /\ fresh # {} => Len(InOrder(fresh)) > 0
      /\ InOrder(fresh) \in Seq(Posts)
  <2> HIDE DEF fresh
  <2>1. InOrder(fresh) \in Seq(Posts) /\ (fresh # {} => Len(InOrder(fresh)) > 0)
    BY <1>2, OrderedPosts
  <2> QED BY <2>1, Joined
<1>4. CASE fresh = {}
  <2>1. UNCHANGED <<shown, newest, patched>>
    BY <1>0, <1>4
  <2> QED BY <1>1, <2>1
<1>5. CASE fresh # {}
  <2>1. /\ shown' = SubSeq(all, 1, n) /\ newest' = Created[all[1]]
        /\ patched' = (patched \/ ~fits)
    BY <1>0, <1>5
  <2> HIDE DEF fresh
  <2>2. Len(all) \in Nat /\ Len(all) > 0 /\ n \in 0 .. Len(all)
    <3>1. Len(InOrder(fresh)) \in Nat /\ Len(shown) \in Nat
      BY <1>3
    <3>2. Len(all) \in Nat /\ Len(all) > 0
      BY <1>3, <1>5, <3>1
    <3> HIDE DEF all
    <3> QED BY <3>2, FeedConstants
  <2>3. shown' \in Seq(Posts) /\ (Len(all) <= FeedMax => shown' = all)
    <3> HIDE DEF all
    <3>1. Len(all) <= FeedMax => n = Len(all)
      BY <2>2, FeedConstants
    <3>2. SubSeq(all, 1, Len(all)) = all
      BY <1>3
    <3> HIDE DEF n
    <3> QED BY <1>3, <2>1, <2>2, <3>1, <3>2
  <2>4. newest' \in {Created[p] : p \in Posts}
    <3> HIDE DEF all
    <3>1. all[1] \in Posts
      BY <1>3, <2>2
    <3> QED BY <2>1, <3>1
  <2>5. patched' \in BOOLEAN /\ (patched => patched') /\ (~patched' => fits)
    <3> HIDE DEF fits
    <3> QED BY <2>1
  <2>6. fits => shown' = all
    BY <2>3
  <2> QED BY <1>1, <1>2, <2>3, <2>4, <2>5, <2>6
<1> QED BY <1>4, <1>5

LEMMA PageOf ==
  ASSUME NEW x \in Asking, x.limit = PageSize
  PROVE  LET rows == Rows(x)
             c == NextCursor(rows)
         IN  /\ rows \in SUBSET x.had
             /\ c \in 0 .. NPosts /\ IsLast(rows) \in BOOLEAN
             /\ IsLast(rows) <=> c = Nothing
             /\ c # Nothing => c \in rows /\ \A r \in rows : r >= c
             /\ \A p \in x.had \ rows : c # Nothing /\ p < c
<1>1. Rows(x) = Newest(x.had, PageSize) /\ x.had \in SUBSET Posts
  BY DEF Rows, Asking
<1>2. Rows(x) \in SUBSET x.had
  BY AnswerRows
<1> QED BY <1>1, <1>2, PageFacts

LEMMA FeedTypeStep ==
  ASSUME FeedTypeOK, QuestionPart, [FeedNext]_feedVars
  PROVE  FeedTypeOK'
<1>0. SUFFICES
        /\ table' \in SUBSET Posts /\ filter' \in SUBSET Switches
        /\ known' \in SUBSET {"following", "mine"} /\ muted' \in BOOLEAN /\ timer' \in BOOLEAN
        /\ shown' \in Seq(Posts) /\ cursor' \in 0 .. NPosts /\ offset' \in Nat
        /\ noMore' \in BOOLEAN
        /\ newest' \in {Nothing} \cup {Created[p] : p \in Posts}
        /\ apply' \in Asking /\ more' \in Asking /\ polls' \in SUBSET Asking
        /\ changes' \in 0 .. MaxChanges /\ base' \in Bases /\ patched' \in BOOLEAN
        /\ cut' \in {"no", "error", "offset"}
  BY DEF FeedTypeOK, Asking, Bases
<1>16. apply.limit = PageSize /\ more.limit = PageSize
  BY DEF QuestionPart
<1> USE FeedTypes DEF lists, feed, asked, history
<1>1. CASE TimerFires
  <2>1. ApplyFilters(filter) /\ timer' = FALSE /\ UNCHANGED <<table, filter, lists, changes>>
    BY <1>1 DEF TimerFires
  <2> QED BY <2>1, TypeApplyFilters
<1>2. CASE ApplyAnswer
  <2>1. /\ shown' = InOrder(FilterMuted(Rows(apply)))
        /\ cursor' = NextCursor(Rows(apply)) /\ noMore' = IsLast(Rows(apply))
        /\ base' = FirstPage(apply.filter, apply.q, apply.had) /\ patched' = FALSE
        /\ offset' = Len(shown') /\ cut' = "no" /\ apply' = NoQuestion
        /\ UNCHANGED <<table, filter, lists, timer, newest, more, polls, changes>>
    BY <1>2 DEF ApplyAnswer
  <2>2. shown' \in Seq(Posts) /\ offset' \in Nat
    <3>1. shown' \in Seq(Posts)
      BY <2>1, AnswerRows, OrderedPosts
    <3> QED BY <2>1, <3>1
  <2>3. base' \in Bases
    BY <2>1 DEF FirstPage, Asking, Bases
  <2>4. cursor' \in 0 .. NPosts /\ noMore' \in BOOLEAN
    BY <1>16, <2>1, PageOf
  <2> QED BY <2>1, <2>2, <2>3, <2>4, NoQuestionType
<1>3. CASE ApplyFails \/ ApplyRefused
  <2>1. Lost \in Bases
    BY EverythingIsAll DEF Lost, Bases
  <2>2. CASE ApplyFails
    BY <2>1, <2>2, NoQuestionType DEF ApplyFails
  <2>3. CASE ApplyRefused
    <3>1. <<>> \in Seq(Posts) /\ 0 \in Nat /\ Nothing \in 0 .. NPosts
      BY FeedConstants DEF Nothing
    <3> QED BY <2>1, <2>3, <3>1, NoQuestionType DEF ApplyRefused
  <2> QED BY <1>3, <2>2, <2>3
<1>4. CASE LoadMore
  <2>1. more' \in Asking
    <3>1. more' = AskServer({}, Question(filter), cursor, offset, PageSize,
                            /\ ~apply.out /\ base.answered /\ ~patched
                            /\ base.q = Question(filter))
      BY <1>4 DEF LoadMore
    <3>2. cursor \in Nat /\ PageSize \in PollLimits \cup {PageSize} /\ {} \in SUBSET Switches
      BY FeedConstants
    <3> QED BY <3>1, <3>2, QuestionType, AskType
  <2> QED BY <1>4, <2>1 DEF LoadMore
<1>5. CASE MoreAnswer
  <2>1. /\ shown' = shown \o InOrder(FilterMuted(Rows(more)))
        /\ cursor' = NextCursor(Rows(more)) /\ noMore' = (noMore \/ IsLast(Rows(more)))
        /\ patched' = (patched \/ ~more.own) /\ more' = NoQuestion
        /\ offset' = offset \/ offset' = Len(shown')
        /\ UNCHANGED <<table, filter, lists, timer, newest, apply, polls, changes, base, cut>>
    BY <1>5 DEF MoreAnswer
  <2>2. shown' \in Seq(Posts) /\ offset' \in Nat
    <3>1. shown' \in Seq(Posts)
      BY <2>1, AnswerRows, OrderedPosts, Joined
    <3> QED BY <2>1, <3>1
  <2>3. cursor' \in 0 .. NPosts /\ noMore' \in BOOLEAN /\ patched' \in BOOLEAN
    BY <1>16, <2>1, PageOf
  <2> QED BY <2>1, <2>2, <2>3, NoQuestionType
<1>6. CASE MoreRefused \/ MoreFails \/ PollFails
  <2>1. CASE MoreRefused
    <3>1. more' = NoQuestion /\ cursor' = Nothing /\ noMore' = TRUE
          /\ patched' = (patched \/ ~more.own)
          /\ cut' \in {"no", "error", "offset"}
          /\ UNCHANGED <<table, filter, lists, timer, shown, offset, newest, apply, polls,
                         changes, base>>
      BY <2>1 DEF MoreRefused
    <3>2. patched' \in BOOLEAN /\ Nothing \in 0 .. NPosts
      BY <3>1, FeedConstants DEF Nothing
    <3> QED BY <3>1, <3>2, NoQuestionType
  <2>2. CASE MoreFails \/ PollFails
    BY <2>2, NoQuestionType DEF MoreFails, PollFails
  <2> QED BY <1>6, <2>1, <2>2
<1>7. CASE Poll
  <2>1. polls' \in SUBSET Asking
    <3>1. PICK n \in PollLimits :
            polls' = polls \cup {AskServer({}, Everything, Nothing, 0, n, TRUE)}
      BY <1>7 DEF Poll
    <3>2. AskServer({}, Everything, Nothing, 0, n, TRUE) \in Asking
      BY EverythingIsAll, AskType DEF Nothing
    <3> QED BY <3>1, <3>2
  <2> QED BY <1>7, <2>1 DEF Poll
<1>8. CASE PollAnswer
  BY <1>8, PollFeed
<1>9. CASE User
  BY <1>9, UserChooses, ChangeType
<1>10. CASE ClearFilters
  <2>1. Change /\ filter' = {} /\ timer' = TRUE /\ ApplyFilters({}) /\ UNCHANGED lists
    BY <1>10 DEF ClearFilters
  <2> QED BY <2>1, TypeApplyFilters, ChangeType
<1>11. CASE MuteUser
  <2>1. Without(shown, ByMuted) \in Seq(Posts)
    BY WithoutFacts
  <2> QED BY <1>11, <2>1, ChangeType DEF MuteUser
<1>12. CASE UnmuteUser
  BY <1>12, ChangeType DEF UnmuteUser
<1>13. CASE ListArrives
  <2>1. known' \in SUBSET {"following", "mine"} /\ muted' \in BOOLEAN
    BY <1>13 DEF ListArrives, SymDiff
  <2> QED BY <1>13, <2>1, ChangeType DEF ListArrives
<1>14. CASE PostSaved
  BY <1>14 DEF PostSaved
<1>15. CASE UNCHANGED feedVars
  BY <1>15 DEF feedVars
<1> QED BY <1>1, <1>2, <1>3, <1>4, <1>5, <1>6, <1>7, <1>8, <1>9, <1>10, <1>11, <1>12, <1>13,
           <1>14, <1>15 DEF FeedNext, User

-----------------------------------------------------------------------------
(* What the questions and the feed become *)

LEMMA Moves ==
  ASSUME FeedTypeOK, [FeedNext]_feedVars
  PROVE  /\ table \subseteq table'
         /\ \/ apply' = apply
            \/ apply' = NoQuestion
            \/ \E f \in SUBSET Switches :
                 apply' = AskServer(f, Question(f), Nothing, 0, PageSize, TRUE)
         /\ \/ more' = more
            \/ more' = [more EXCEPT !.own = FALSE]
            \/ more' = NoQuestion
            \/ \E below \in Nat, from \in Nat, own \in BOOLEAN :
                 more' = AskServer({}, Question(filter), below, from, PageSize, own)
         /\ \/ base' = base
            \/ base' = Lost
            \/ \E f \in SUBSET Switches : base' = FirstPage(f, Question(f), {})
            \/ base' = FirstPage(apply.filter, apply.q, apply.had)
<1> USE DEF lists, feed, asked, history
<1>1. filter \in SUBSET Switches /\ {} \in SUBSET Switches /\ cursor \in Nat
      /\ offset \in Nat
  <2>1. filter \in SUBSET Switches /\ cursor \in 0 .. NPosts /\ offset \in Nat
    BY FeedTypes
  <2> QED BY <2>1, FeedConstants
<1>2. ASSUME NEW f \in SUBSET Switches, ApplyFilters(f), table' = table
      PROVE  /\ apply' = NoQuestion
                \/ apply' = AskServer(f, Question(f), Nothing, 0, PageSize, TRUE)
             /\ more' = [more EXCEPT !.own = FALSE]
             /\ base' = base \/ base' = FirstPage(f, Question(f), {})
  BY <1>2 DEF ApplyFilters
<1>3. CASE TimerFires
  <2>1. ApplyFilters(filter) /\ table' = table
    BY <1>3 DEF TimerFires
  <2> QED BY <1>1, <1>2, <2>1
<1>4. CASE ClearFilters
  <2>1. ApplyFilters({}) /\ table' = table
    BY <1>4 DEF ClearFilters, Change
  <2> QED BY <1>1, <1>2, <2>1
<1>5. CASE ApplyAnswer
  BY <1>5 DEF ApplyAnswer
<1>6. CASE ApplyFails \/ ApplyRefused
  BY <1>6 DEF ApplyFails, ApplyRefused
<1>7. CASE LoadMore
  <2> DEFINE own == /\ ~apply.out /\ base.answered /\ ~patched
                    /\ base.q = Question(filter)
  <2>1. /\ more' = AskServer({}, Question(filter), cursor, offset, PageSize, own)
        /\ UNCHANGED <<table, apply, base>>
    BY <1>7 DEF LoadMore
  <2>2. own \in BOOLEAN
    OBVIOUS
  <2> HIDE DEF own
  <2> QED BY <1>1, <2>1, <2>2
<1>8. CASE MoreAnswer \/ MoreRefused \/ MoreFails
  BY <1>8 DEF MoreAnswer, MoreRefused, MoreFails
<1>9. CASE Poll \/ PollAnswer \/ PollFails
  BY <1>9 DEF Poll, PollAnswer, PollFails
<1>10. CASE User
  BY <1>10, UserChooses DEF Change
<1>11. CASE MuteUser \/ UnmuteUser \/ ListArrives
  BY <1>11 DEF MuteUser, UnmuteUser, ListArrives, Change
<1>12. CASE PostSaved
  BY <1>12 DEF PostSaved
<1>13. CASE UNCHANGED feedVars
  BY <1>13 DEF feedVars
<1> QED BY <1>3, <1>4, <1>5, <1>6, <1>7, <1>8, <1>9, <1>10, <1>11, <1>12, <1>13
        DEF FeedNext, User

LEMMA QuestionStep ==
  ASSUME FeedTypeOK, QuestionPart, [FeedNext]_feedVars
  PROVE  QuestionPart'
<1> USE FeedTypes DEF QuestionPart
<1>1. table \subseteq table' /\ table \in SUBSET Posts /\ filter \in SUBSET Switches
  BY Moves
<1>2. 0 \in Nat /\ PageSize \in PollLimits \cup {PageSize} /\ {} \in SUBSET Switches
  BY FeedConstants
<1>3. /\ apply'.had \subseteq table' \cap Selection(apply'.q)
      /\ apply'.limit = PageSize /\ (apply'.filter = {} => Selection(apply'.q) = Posts)
  <2>1. CASE apply' = apply
    BY <1>1, <2>1
  <2>2. CASE apply' = NoQuestion
    BY <2>2, EverythingIsAll DEF NoQuestion
  <2>3. CASE \E f \in SUBSET Switches :
               apply' = AskServer(f, Question(f), Nothing, 0, PageSize, TRUE)
    <3>1. PICK f \in SUBSET Switches :
                 apply' = AskServer(f, Question(f), Nothing, 0, PageSize, TRUE)
      BY <2>3
    <3>2. apply'.filter = f /\ apply'.q = Question(f) /\ apply'.limit = PageSize
          /\ apply'.had \subseteq table \cap Selection(Question(f))
      BY <3>1 DEF AskServer
    <3> QED BY <1>1, <3>2, QuestionType
  <2> QED BY <2>1, <2>2, <2>3, Moves
<1>4. more'.had \subseteq table' \cap Selection(more'.q) /\ more'.limit = PageSize
  <2>1. CASE more' = more
    BY <1>1, <2>1
  <2>2. CASE more' = [more EXCEPT !.own = FALSE]
    <3>1. more'.had = more.had /\ more'.q = more.q /\ more'.limit = more.limit
      BY <2>2 DEF Asking
    <3> QED BY <1>1, <3>1
  <2>3. CASE more' = NoQuestion
    BY <2>3 DEF NoQuestion
  <2>4. CASE \E below \in Nat, from \in Nat, own \in BOOLEAN :
               more' = AskServer({}, Question(filter), below, from, PageSize, own)
    <3>1. PICK below \in Nat, from \in Nat, own \in BOOLEAN :
                 more' = AskServer({}, Question(filter), below, from, PageSize, own)
      BY <2>4
    <3>2. more'.q = Question(filter) /\ more'.limit = PageSize
          /\ more'.had \subseteq table \cap Selection(Question(filter))
      BY <3>1 DEF AskServer
    <3> QED BY <1>1, <3>2
  <2> QED BY <2>1, <2>2, <2>3, <2>4, Moves
<1>5. /\ base'.had \subseteq table' \cap Selection(base'.q)
      /\ base'.filter = {} => Selection(base'.q) = Posts
  <2>1. CASE base' = base
    BY <1>1, <2>1
  <2>2. CASE base' = Lost
    BY <2>2, EverythingIsAll DEF Lost
  <2>3. CASE \E f \in SUBSET Switches : base' = FirstPage(f, Question(f), {})
    BY <2>3, QuestionType DEF FirstPage
  <2>4. CASE base' = FirstPage(apply.filter, apply.q, apply.had)
    BY <1>1, <2>4 DEF FirstPage
  <2> QED BY <2>1, <2>2, <2>3, <2>4, Moves
<1> QED BY <1>3, <1>4, <1>5

(* What leaves the feed, its questions and their filters as they are. *)
Quiet == UNCHANGED <<shown, cursor, offset, noMore, apply, more, base, patched, cut>>

LEMMA QuietSteps ==
  ASSUME FeedTypeOK,
         Poll \/ PollFails \/ User \/ UnmuteUser \/ ListArrives \/ PostSaved
           \/ UNCHANGED feedVars
  PROVE  /\ Quiet
         /\ timer' \/ (timer' = timer /\ filter' = filter)
<1> USE DEF lists, feed, asked, history
<1>1. CASE Poll \/ PollFails
  BY <1>1 DEF Poll, PollFails, Quiet
<1>2. CASE User
  BY <1>2, UserChooses DEF Quiet
<1>3. CASE UnmuteUser \/ ListArrives
  BY <1>3 DEF UnmuteUser, ListArrives, Quiet
<1>4. CASE PostSaved
  BY <1>4 DEF PostSaved, Quiet
<1>5. CASE UNCHANGED feedVars
  BY <1>5 DEF feedVars, Quiet
<1> QED BY <1>1, <1>2, <1>3, <1>4, <1>5

LEMMA FilterStep ==
  ASSUME FeedTypeOK, FilterPart, [FeedNext]_feedVars
  PROVE  FilterPart'
<1> USE DEF FilterPart, lists, feed, asked, history
<1>1. CASE TimerFires
  <2>1. ApplyFilters(filter) /\ filter' = filter
    BY <1>1 DEF TimerFires
  <2>2. CASE EmptyList(filter)
    BY <2>1, <2>2, NoQuestionType DEF ApplyFilters, FirstPage
  <2>3. CASE ~EmptyList(filter)
    BY <2>1, <2>3 DEF ApplyFilters, AskServer
  <2> QED BY <2>2, <2>3
<1>2. CASE ApplyAnswer
  BY <1>2, NoQuestionType DEF ApplyAnswer, FirstPage
<1>3. CASE ApplyFails \/ ApplyRefused
  BY <1>3, NoQuestionType DEF ApplyFails, ApplyRefused, Lost
<1>4. CASE LoadMore \/ MoreAnswer \/ MoreRefused \/ MoreFails \/ PollAnswer
  BY <1>4 DEF LoadMore, MoreAnswer, MoreRefused, MoreFails, PollAnswer
<1>5. CASE Poll \/ PollFails \/ User \/ UnmuteUser \/ ListArrives \/ PostSaved
             \/ UNCHANGED feedVars
  BY <1>5, QuietSteps DEF Quiet
<1>6. CASE ClearFilters
  BY <1>6 DEF ClearFilters
<1>7. CASE MuteUser
  BY <1>7 DEF MuteUser
<1> QED BY <1>1, <1>2, <1>3, <1>4, <1>5, <1>6, <1>7 DEF FeedNext, User

LEMMA OwnStep ==
  ASSUME FeedTypeOK, OwnPart, [FeedNext]_feedVars
  PROVE  OwnPart'
<1> USE FeedTypes DEF OwnPart, lists, feed, asked, history
<1>1. CASE TimerFires \/ ClearFilters
  <2>1. more' = [more EXCEPT !.own = FALSE]
    BY <1>1 DEF TimerFires, ClearFilters, ApplyFilters
  <2>2. ~more'.own
    BY <2>1 DEF Asking
  <2> QED BY <2>2
<1>2. CASE ApplyAnswer \/ ApplyFails \/ ApplyRefused
  BY <1>2 DEF ApplyAnswer, ApplyFails, ApplyRefused
<1>3. CASE LoadMore
  <2>1. /\ more' = AskServer({}, Question(filter), cursor, offset, PageSize,
                             /\ ~apply.out /\ base.answered /\ ~patched
                             /\ base.q = Question(filter))
        /\ UNCHANGED <<apply, base>>
    BY <1>3 DEF LoadMore
  <2>2. /\ more'.q = Question(filter)
        /\ more'.own => ~apply.out /\ base.answered /\ base.q = Question(filter)
    BY <2>1 DEF AskServer
  <2> QED BY <2>1, <2>2
<1>4. CASE MoreAnswer \/ MoreRefused \/ MoreFails
  BY <1>4, NoQuestionType DEF MoreAnswer, MoreRefused, MoreFails
<1>5. CASE PollAnswer \/ MuteUser
  BY <1>5 DEF PollAnswer, MuteUser
<1>6. CASE Poll \/ PollFails \/ User \/ UnmuteUser \/ ListArrives \/ PostSaved
             \/ UNCHANGED feedVars
  BY <1>6, QuietSteps DEF Quiet
<1> QED BY <1>1, <1>2, <1>3, <1>4, <1>5, <1>6 DEF FeedNext, User

-----------------------------------------------------------------------------
(* The end of the feed *)

(* The filters are applied: the feed is gone, or it stays without a cursor until *)
(* the answer is there.                                                          *)
LEMMA CursorApply ==
  ASSUME FeedTypeOK, CursorPart, NEW f \in SUBSET Switches, ApplyFilters(f)
  PROVE  CursorPart'
<1> USE FeedTypes DEF history
<1>1. cursor' = Nothing /\ offset' = 0 /\ ~more'.own
  <2>1. cursor' = Nothing /\ offset' = 0 /\ more' = [more EXCEPT !.own = FALSE] /\ more \in Asking
    BY DEF ApplyFilters
  <2> QED BY <2>1 DEF Asking
<1>2. CASE EmptyList(f)
  <2>1. /\ shown' = <<>> /\ noMore' /\ ~apply'.out /\ base'.had = {} /\ cut' = "no"
    BY <1>2, NoQuestionType DEF ApplyFilters, FirstPage
  <2>2. ToSet(shown') = {} /\ Descending(shown')
    BY <2>1 DEF ToSet, Descending
  <2>3. NoGap' /\ Complete'
    BY <2>1 DEF NoGap, Complete
  <2> QED BY <1>1, <2>1, <2>2, <2>3 DEF CursorPart
<1>3. CASE ~EmptyList(f)
  <2>1. apply'.out /\ UNCHANGED <<shown, base, patched>>
    BY <1>3 DEF ApplyFilters, AskServer
  <2> QED BY <1>1, <2>1 DEF CursorPart
<1> QED BY <1>2, <1>3

LEMMA CursorFirstPage ==
  ASSUME FeedTypeOK, QuestionPart, OwnPart, ApplyAnswer
  PROVE  CursorPart'
<1> DEFINE rows == Rows(apply)
           c == NextCursor(rows)
           left == FilterMuted(rows)
<1>1. /\ apply.out /\ apply' = NoQuestion /\ shown' = InOrder(left)
      /\ cursor' = c /\ noMore' = IsLast(rows) /\ base'.had = apply.had
      /\ base'.q = apply.q /\ cut' = "no" /\ UNCHANGED more
  BY DEF ApplyAnswer, FirstPage
<1>2. apply \in Asking /\ apply.limit = PageSize /\ apply.had \subseteq Selection(apply.q)
  BY FeedTypes DEF QuestionPart
<1>3. /\ rows \in SUBSET apply.had
      /\ c \in 0 .. NPosts
      /\ IsLast(rows) \in BOOLEAN /\ (IsLast(rows) <=> c = Nothing)
      /\ c # Nothing => c \in rows /\ \A r \in rows : r >= c
      /\ \A p \in apply.had \ rows : c # Nothing /\ p < c
  BY <1>2, PageOf
<1>4. left \in SUBSET Posts /\ left \in SUBSET rows /\ rows \ ByMuted \subseteq left
  BY <1>2, AnswerRows
<1> HIDE DEF rows, c, left
<1>5. ToSet(shown') = left /\ Descending(shown')
  BY <1>1, <1>4, OrderedPosts
<1>6. ~apply'.out /\ ~(more'.out /\ more'.own)
  BY <1>1, NoQuestionType DEF OwnPart
<1>7. ToSet(shown') \subseteq Selection(base'.q)
  BY <1>1, <1>2, <1>3, <1>4, <1>5
<1>8. c # Nothing => \A r \in ToSet(shown') : r >= c
  BY <1>3, <1>4, <1>5
<1>9. c # Nothing => \E r \in base'.had : r >= c
  BY <1>1, <1>3
<1>10. ASSUME NEW p \in base'.had \ ByMuted
       PROVE  p \in ToSet(shown') \/ (~noMore' /\ c # Nothing /\ p < c)
  <2>1. CASE p \in rows
    BY <1>4, <1>5, <1>10, <2>1
  <2>2. CASE p \notin rows
    BY <1>1, <1>3, <1>10, <2>2
  <2> QED BY <2>1, <2>2
<1>11. NoGap' /\ Complete'
  <2>1. Complete'
    BY <1>1, <1>10 DEF Complete
  <2>2. ASSUME NEW p \in base'.had \ ByMuted, p \notin ToSet(shown'),
               NEW r \in ToSet(shown')
        PROVE  p < r
    <3>1. c # Nothing /\ p < c /\ r >= c
      BY <1>8, <1>10, <2>2
    <3>2. p \in Nat /\ r \in Nat /\ c \in Nat
      <4>1. p \in Posts /\ r \in Posts /\ c \in 0 .. NPosts
        BY <1>1, <1>2, <1>3, <1>4, <1>5, <2>2 DEF Asking
      <4> QED BY <4>1, FeedConstants
    <3> QED BY <3>1, <3>2
  <2> QED BY <2>1, <2>2 DEF NoGap
<1> QED BY <1>1, <1>3, <1>5, <1>6, <1>7, <1>8, <1>9, <1>11 DEF CursorPart

LEMMA CursorLoadMore ==
  ASSUME FeedTypeOK, QuestionPart, CursorPart, LoadMore
  PROVE  CursorPart'
<1> DEFINE own == /\ ~apply.out /\ base.answered /\ ~patched
                  /\ base.q = Question(filter)
<1>1. /\ ~noMore
      /\ more' = AskServer({}, Question(filter), cursor, offset, PageSize, own)
      /\ UNCHANGED <<shown, cursor, offset, noMore, apply, base, patched, cut>>
  BY DEF LoadMore, feed, history
<1>2. own => ~apply.out /\ base.answered /\ base.q = Question(filter)
  OBVIOUS
<1> HIDE DEF own
<1>3. /\ more'.own = own
      /\ more'.had = {p \in table \cap Selection(Question(filter)) :
                        cursor = Nothing \/ p < cursor}
  BY <1>1 DEF AskServer
<1>4. ASSUME own
      PROVE  /\ cursor # Nothing
             /\ \A p \in more'.had : p < cursor
             /\ \A p \in base.had : p < cursor => p \in more'.had
  <2>1. cursor # Nothing
    BY <1>1, <1>2, <1>4 DEF CursorPart
  <2>2. base.had \subseteq table \cap Selection(Question(filter))
    BY <1>2, <1>4 DEF QuestionPart
  <2> QED BY <1>3, <2>1, <2>2
<1>5. (NoGap <=> NoGap') /\ (Complete <=> Complete')
  BY <1>1 DEF NoGap, Complete
<1> QED BY <1>1, <1>3, <1>4, <1>5 DEF CursorPart

(* A page that was asked for below the feed shown goes on where that ends. *)
LEMMA CursorNextPage ==
  ASSUME FeedTypeOK, QuestionPart, OwnPart, CursorPart, MoreAnswer
  PROVE  CursorPart'
<1> DEFINE rows == Rows(more)
           c == NextCursor(rows)
           left == FilterMuted(rows)
<1>1. /\ more.out /\ more' = NoQuestion /\ shown' = shown \o InOrder(left)
      /\ cursor' = c /\ noMore' = (noMore \/ IsLast(rows))
      /\ patched' = (patched \/ ~more.own) /\ UNCHANGED <<apply, base, cut>>
  BY DEF MoreAnswer
<1>2. /\ more \in Asking /\ more.limit = PageSize /\ more.had \subseteq Selection(more.q)
      /\ more.had \in SUBSET Posts
  BY FeedTypes DEF QuestionPart, Asking
<1>3. /\ rows \in SUBSET more.had /\ c \in 0 .. NPosts
      /\ IsLast(rows) \in BOOLEAN /\ (IsLast(rows) <=> c = Nothing)
      /\ c # Nothing => c \in rows /\ \A r \in rows : r >= c
      /\ \A p \in more.had \ rows : c # Nothing /\ p < c
  BY <1>2, PageOf
<1>4. left \in SUBSET Posts /\ left \in SUBSET rows /\ rows \ ByMuted \subseteq left
  BY <1>2, AnswerRows
<1> HIDE DEF rows, c, left
<1>5. /\ shown \in Seq(Posts) /\ cursor \in Nat /\ c \in Nat
      /\ \A p \in Posts : p \in Nat
  BY <1>3, FeedTypes, FeedConstants
<1>6. /\ InOrder(left) \in Seq(Posts) /\ ToSet(InOrder(left)) = left
      /\ Descending(InOrder(left))
  BY <1>4, OrderedPosts
<1>7. /\ ToSet(shown) \in SUBSET Posts /\ ToSet(shown') = ToSet(shown) \cup left
      /\ Descending(shown) /\ (\A x \in ToSet(shown), y \in left : x > y)
           => Descending(shown')
  BY <1>1, <1>5, <1>6, Joined, InSequence
<1>8. ~more'.out
  BY <1>1, NoQuestionType
<1>9. ~noMore' => ~noMore /\ c # Nothing
  BY <1>1, <1>3
<1>10. ASSUME ~patched'
       PROVE  /\ Descending(shown') /\ ToSet(shown') \subseteq Selection(base'.q)
              /\ ~apply'.out
              /\ c # Nothing => /\ \A r \in ToSet(shown') : r >= c
                                /\ \E r \in base'.had : r >= c
              /\ NoGap' /\ Complete' /\ cut' = "no"
  <2>1. ~patched /\ more.own
    BY <1>1, <1>10
  <2>2. ~apply.out /\ base.answered /\ more.q = base.q
    BY <1>1, <2>1 DEF OwnPart
  <2>3. /\ Descending(shown) /\ ToSet(shown) \subseteq Selection(base.q)
        /\ cursor # Nothing /\ ~noMore
        /\ \A r \in ToSet(shown) : r >= cursor
        /\ \E r \in base.had : r >= cursor
        /\ \A p \in more.had : p < cursor
        /\ \A p \in base.had : p < cursor => p \in more.had
        /\ \A p \in base.had \ ByMuted : p \in ToSet(shown) \/ p < cursor
        /\ cut = "no"
    BY <1>1, <2>1, <2>2 DEF CursorPart, Complete
  <2>4. \A x \in ToSet(shown), y \in left : x > y
    <3> SUFFICES ASSUME NEW x \in ToSet(shown), NEW y \in left PROVE x > y
      OBVIOUS
    <3>1. x \in Nat /\ y \in Nat /\ x >= cursor /\ y < cursor
      BY <1>3, <1>4, <1>5, <1>7, <2>3
    <3> QED BY <1>5, <3>1
  <2>5. ToSet(shown') \subseteq Selection(base'.q)
    BY <1>1, <1>2, <1>3, <1>4, <1>7, <2>2, <2>3
  <2>6. ASSUME c # Nothing
        PROVE  /\ \A r \in ToSet(shown') : r >= c
               /\ \E r \in base'.had : r >= c
    <3>1. c \in rows /\ c < cursor
      BY <1>3, <2>3, <2>6
    <3>2. ASSUME NEW r \in ToSet(shown') PROVE r >= c
      <4>1. CASE r \in ToSet(shown)
        <5>1. r \in Nat /\ r >= cursor
          BY <1>5, <1>7, <2>3, <4>1
        <5> QED BY <1>5, <3>1, <5>1
      <4>2. CASE r \in left
        BY <1>3, <1>4, <2>6, <4>2
      <4> QED BY <1>7, <4>1, <4>2
    <3>3. PICK r \in base.had : r >= cursor
      BY <2>3
    <3>4. r \in Nat
      <4>1. base.had \in SUBSET Posts
        BY FeedTypes DEF Bases
      <4> QED BY <1>5, <4>1
    <3>5. r >= c
      BY <1>5, <3>1, <3>3, <3>4
    <3> QED BY <1>1, <3>2, <3>5
  <2>7. ASSUME NEW p \in base'.had \ ByMuted
        PROVE  p \in ToSet(shown') \/ (~noMore' /\ c # Nothing /\ p < c)
    <3>1. p \in ToSet(shown) \/ p \in more.had
      BY <1>1, <2>3, <2>7
    <3>2. CASE p \in rows
      BY <1>4, <1>7, <2>7, <3>2
    <3>3. CASE p \in more.had \ rows
      BY <1>1, <1>3, <2>3, <3>3
    <3> QED BY <1>7, <3>1, <3>2, <3>3
  <2>8. NoGap'
    <3> SUFFICES ASSUME NEW p \in base'.had \ ByMuted, p \notin ToSet(shown'),
                        NEW r \in ToSet(shown')
                 PROVE  p < r
      BY DEF NoGap
    <3>1. c # Nothing /\ p < c /\ r >= c
      BY <2>6, <2>7
    <3>2. p \in Nat /\ r \in Nat
      <4>1. base.had \in SUBSET Posts
        BY FeedTypes DEF Bases
      <4>2. p \in Posts /\ r \in Posts
        BY <1>1, <1>4, <1>7, <4>1
      <4> QED BY <1>5, <4>2
    <3> QED BY <1>5, <3>1, <3>2
  <2>9. Complete'
    BY <1>1, <2>7 DEF Complete
  <2> QED BY <1>1, <1>7, <2>2, <2>3, <2>4, <2>5, <2>6, <2>8, <2>9
<1> QED BY <1>1, <1>8, <1>9, <1>10 DEF CursorPart

LEMMA CursorPoll ==
  ASSUME FeedTypeOK, QuestionPart, CursorPart, PollAnswer
  PROVE  CursorPart'
<1>1. /\ patched => patched'
      /\ UNCHANGED <<cursor, offset, noMore, apply, more, base, cut>>
      /\ \/ shown' = shown
         \/ patched'
         \/ \E fresh \in SUBSET Posts :
              /\ shown' = InOrder(fresh) \o shown
              /\ base.filter = {}
              /\ \A p \in fresh, r \in base.had \cup ToSet(shown) : p > r
  BY PollFeed
<1>2. CASE patched' \/ shown' = shown
  <2>1. shown' = shown => (NoGap <=> NoGap') /\ (Complete <=> Complete')
    BY <1>1 DEF NoGap, Complete
  <2> QED BY <1>1, <1>2, <2>1 DEF CursorPart
<1>3. CASE ~patched' /\ shown' # shown
  <2>1. PICK fresh \in SUBSET Posts :
              /\ shown' = InOrder(fresh) \o shown
              /\ base.filter = {}
              /\ \A p \in fresh, r \in base.had \cup ToSet(shown) : p > r
    BY <1>1, <1>3
  <2>2. /\ shown \in Seq(Posts) /\ InOrder(fresh) \in Seq(Posts)
        /\ ToSet(InOrder(fresh)) = fresh /\ Descending(InOrder(fresh))
    BY FeedTypes, OrderedPosts
  <2>3. Descending(shown) /\ ~patched
    BY <1>1, <1>3 DEF CursorPart
  <2>4. /\ ToSet(shown') = fresh \cup ToSet(shown) /\ ToSet(shown) \in SUBSET Posts
        /\ Descending(shown')
    BY <2>1, <2>2, <2>3, Joined, InSequence
  <2>5. ToSet(shown') \subseteq Selection(base'.q)
    BY <1>1, <2>1, <2>4 DEF QuestionPart
  <2>6. ASSUME cursor # Nothing PROVE \A r \in ToSet(shown') : r >= cursor
    <3>1. PICK b \in base.had : b >= cursor
      BY <2>3, <2>6 DEF CursorPart
    <3>2. b \in Nat /\ cursor \in Nat /\ \A p \in Posts : p \in Nat
      <4>1. base.had \in SUBSET Posts /\ cursor \in 0 .. NPosts
        BY FeedTypes DEF Bases
      <4> QED BY <4>1, FeedConstants
    <3>3. ASSUME NEW r \in fresh PROVE r >= cursor
      <4>1. r \in Nat /\ r > b
        BY <2>1, <3>2
      <4> QED BY <3>1, <3>2, <4>1
    <3>4. \A r \in ToSet(shown) : r >= cursor
      BY <2>3, <2>6 DEF CursorPart
    <3> QED BY <2>4, <3>3, <3>4
  <2>7. (NoGap => NoGap') /\ (Complete => Complete')
    <3>1. Complete => Complete'
      BY <1>1, <2>4 DEF Complete
    <3>2. ASSUME NoGap, NEW p \in base'.had \ ByMuted, p \notin ToSet(shown'),
                 NEW r \in ToSet(shown')
          PROVE  p < r
      <4>1. CASE r \in ToSet(shown)
        BY <1>1, <2>4, <3>2, <4>1 DEF NoGap
      <4>2. CASE r \in fresh
        <5>1. r > p
          BY <1>1, <2>1, <3>2, <4>2
        <5>2. p \in Nat /\ r \in Nat
          <6>1. p \in Posts /\ r \in Posts
            <7>1. base.had \in SUBSET Posts
              BY FeedTypes DEF Bases
            <7> QED BY <1>1, <2>1, <3>2, <4>2, <7>1
          <6> QED BY <6>1, FeedConstants
        <5> QED BY <5>1, <5>2
      <4> QED BY <2>4, <3>2, <4>1, <4>2
    <3>3. NoGap => NoGap'
      BY <3>2 DEF NoGap
    <3> QED BY <3>1, <3>3
  <2> QED BY <1>1, <2>3, <2>4, <2>5, <2>6, <2>7 DEF CursorPart
<1> QED BY <1>2, <1>3

LEMMA CursorStep ==
  ASSUME FeedIInv, [FeedNext]_feedVars
  PROVE  CursorPart'
<1> USE DEF FeedIInv
<1>1. CASE TimerFires
  <2>1. ApplyFilters(filter) /\ filter \in SUBSET Switches
    BY <1>1, FeedTypes DEF TimerFires
  <2> QED BY <2>1, CursorApply
<1>2. CASE ClearFilters
  <2>1. ApplyFilters({}) /\ {} \in SUBSET Switches
    BY <1>2 DEF ClearFilters
  <2> QED BY <2>1, CursorApply
<1>3. CASE ApplyAnswer
  BY <1>3, CursorFirstPage
<1>4. CASE ApplyFails
  <2>1. /\ apply.out /\ apply' = NoQuestion /\ base' = Lost
        /\ UNCHANGED <<shown, cursor, offset, noMore, more, patched>>
    BY <1>4 DEF ApplyFails, feed
  <2>2. ~apply'.out /\ ~base'.answered /\ Selection(base'.q) = Posts
        /\ ~(more.out /\ more.own)
    BY <2>1, NoQuestionType, EverythingIsAll DEF Lost, OwnPart
  <2>3. ToSet(shown) \in SUBSET Posts
    BY FeedTypes, InSequence
  <2>4. ~patched => cursor = Nothing /\ Descending(shown)
    BY <2>1 DEF CursorPart
  <2> QED BY <2>1, <2>2, <2>3, <2>4 DEF CursorPart
<1>5. CASE LoadMore
  BY <1>5, CursorLoadMore
<1>6. CASE MoreAnswer
  BY <1>6, CursorNextPage
<1>7. CASE MoreFails
  <2>1. more' = NoQuestion
        /\ UNCHANGED <<shown, cursor, offset, noMore, apply, base, patched, cut>>
    BY <1>7 DEF MoreFails, feed, history
  <2>2. (NoGap <=> NoGap') /\ (Complete <=> Complete')
    BY <2>1 DEF NoGap, Complete
  <2> QED BY <2>1, <2>2, NoQuestionType DEF CursorPart
<1>8. CASE PollAnswer
  BY <1>8, CursorPoll
<1>9. CASE MuteUser
  <2>1. /\ shown' = Without(shown, ByMuted)
        /\ UNCHANGED <<cursor, offset, noMore, apply, more, base, patched, cut>>
    BY <1>9 DEF MuteUser, asked, history
  <2>2. shown \in Seq(Posts)
    BY FeedTypes
  <2>3. /\ ToSet(shown') = ToSet(shown) \ ByMuted
        /\ Descending(shown) => Descending(shown')
    BY <2>1, <2>2, WithoutFacts
  <2>4. (NoGap => NoGap') /\ (Complete => Complete')
    BY <2>1, <2>3 DEF NoGap, Complete
  <2> QED BY <2>1, <2>3, <2>4 DEF CursorPart
<1>10. CASE Poll \/ PollFails \/ User \/ UnmuteUser \/ ListArrives \/ PostSaved
              \/ UNCHANGED feedVars
  <2>1. Quiet
    BY <1>10, QuietSteps
  <2>2. (NoGap <=> NoGap') /\ (Complete <=> Complete')
    BY <2>1 DEF Quiet, NoGap, Complete
  <2> QED BY <2>1, <2>2 DEF Quiet, CursorPart
<1>11. CASE ApplyRefused
  <2>1. /\ shown' = <<>> /\ cursor' = Nothing /\ noMore' /\ apply.out
        /\ apply' = NoQuestion /\ base' = Lost /\ more' = more
    BY <1>11 DEF ApplyRefused
  <2>2. ToSet(shown') = {} /\ Descending(shown')
    BY <2>1 DEF ToSet, Descending
  <2>3. ~apply'.out /\ ~base'.answered /\ ~(more'.out /\ more'.own)
    BY <2>1, NoQuestionType DEF Lost, OwnPart
  <2> QED BY <2>1, <2>2, <2>3 DEF CursorPart
<1>12. CASE MoreRefused
  <2>1. /\ cursor' = Nothing /\ noMore' /\ more' = NoQuestion /\ more.out
        /\ patched' = (patched \/ ~more.own) /\ cut' # "no"
        /\ UNCHANGED <<shown, apply, base>>
    BY <1>12 DEF MoreRefused
  <2>2. NoGap <=> NoGap'
    BY <2>1 DEF NoGap
  <2> QED BY <2>1, <2>2, NoQuestionType DEF CursorPart
<1> QED BY <1>1, <1>2, <1>3, <1>4, <1>5, <1>6, <1>7, <1>8, <1>9, <1>10, <1>11, <1>12
        DEF FeedNext, User

-----------------------------------------------------------------------------
(* The page is loaded *)

(* The page shows what was asked for under the filters g. *)
Loads(g) ==
  LET had == table \cap Selection(Question(g))
      rows == Newest(had, PageSize)
      empty == EmptyList(filter)
  IN  /\ shown = IF empty THEN <<>> ELSE InOrder(FilterMuted(rows))
      /\ cursor = IF empty THEN Nothing ELSE NextCursor(rows)
      /\ noMore = (empty \/ IsLast(rows))
      /\ newest = IF shown = <<>> \/ "following" \in filter THEN Nothing
                  ELSE Created[shown[1]]
      /\ base = FirstPage(filter, Question(g), IF empty THEN {} ELSE had)
      /\ patched = (g # filter)

Chosen == {filter} \cup {{s} : s \in filter \cap {"category", "community"}}

LEMMA FeedLoaded == ASSUME FeedInit, NEW g \in Chosen, Loads(g) PROVE FeedIInv
<1>1. /\ table = 1 .. NInitial /\ known \in {{}, {"following", "mine"}}
      /\ muted \in BOOLEAN
      /\ filter \in {{}, {"following"}, {"category", "community"}}
      /\ timer \in {FALSE, "category" \in filter}
      /\ apply = NoQuestion /\ more = NoQuestion /\ polls = {} /\ changes = 0
      /\ offset = Len(shown) /\ cut = "no"
  BY DEF FeedInit
<1>2. g \in {filter} \cup {{s} : s \in filter \cap {"category", "community"}}
  BY DEF Chosen
<1>3. /\ filter \in SUBSET Switches /\ g \in SUBSET Switches /\ (filter = {} => g = {})
      /\ known \in SUBSET {"following", "mine"} /\ timer \in BOOLEAN
      /\ changes \in 0 .. MaxChanges /\ table \in SUBSET Posts
  <2>1. changes \in 0 .. MaxChanges
    BY <1>1, FeedConstants
  <2>2. table \in SUBSET Posts
    BY <1>1, FeedAssumption DEF Posts
  <2>3. filter \in SUBSET Switches /\ g \in SUBSET Switches /\ (filter = {} => g = {})
    <3>1. filter \in SUBSET Switches
      BY <1>1 DEF Switches
    <3>2. g = filter \/ \E s \in filter : g = {s}
      BY <1>2
    <3> QED BY <3>1, <3>2
  <2>4. known \in SUBSET {"following", "mine"}
    BY <1>1
  <2>5. timer \in BOOLEAN
    <3>1. ("category" \in filter) \in BOOLEAN
      OBVIOUS
    <3>2. {FALSE, "category" \in filter} \subseteq BOOLEAN
      BY <3>1
    <3> QED BY <1>1, <3>2
  <2> QED BY <2>1, <2>2, <2>3, <2>4, <2>5
<1> DEFINE had == table \cap Selection(Question(g))
           rows == Newest(had, PageSize)
           left == FilterMuted(rows)
           c == NextCursor(rows)
<1>4. /\ had \in SUBSET Posts /\ had \subseteq table \cap Selection(Question(g))
      /\ Question(g) \in Questions /\ (g = {} => Selection(Question(g)) = Posts)
  BY <1>3, QuestionType
<1>5. /\ EmptyList(filter) => /\ shown = <<>> /\ cursor = Nothing /\ noMore
                              /\ base.had = {}
      /\ ~EmptyList(filter) => /\ shown = InOrder(left) /\ cursor = c
                               /\ noMore = IsLast(rows) /\ base.had = had
      /\ base.filter = filter /\ base.q = Question(g) /\ base.answered
      /\ noMore \in BOOLEAN /\ patched \in BOOLEAN
      /\ newest = IF shown = <<>> \/ "following" \in filter THEN Nothing
                  ELSE Created[shown[1]]
      /\ base = [filter |-> base.filter, q |-> base.q, had |-> base.had,
                 answered |-> TRUE]
  <2> HIDE DEF had, left, c
  <2>1. /\ shown = IF EmptyList(filter) THEN <<>> ELSE InOrder(left)
        /\ cursor = IF EmptyList(filter) THEN Nothing ELSE c
        /\ noMore = (EmptyList(filter) \/ IsLast(rows))
        /\ newest = IF shown = <<>> \/ "following" \in filter THEN Nothing
                    ELSE Created[shown[1]]
        /\ base = FirstPage(filter, Question(g), IF EmptyList(filter) THEN {} ELSE had)
        /\ patched = (g # filter)
    BY DEF Loads, had, left, c
  <2> HIDE DEF rows
  <2>2. IsLast(rows) \in BOOLEAN /\ EmptyList(filter) \in BOOLEAN
    BY DEF IsLast, EmptyList
  <2>3. noMore \in BOOLEAN /\ patched \in BOOLEAN
    BY <2>1
  <2>4. EmptyList(filter) => /\ shown = <<>> /\ cursor = Nothing /\ noMore
                             /\ base.had = {}
    BY <2>1 DEF FirstPage
  <2>5. ~EmptyList(filter) => /\ shown = InOrder(left) /\ cursor = c
                              /\ noMore = IsLast(rows) /\ base.had = had
    BY <2>1, <2>2 DEF FirstPage
  <2>6. /\ base.filter = filter /\ base.q = Question(g) /\ base.answered
        /\ base = [filter |-> base.filter, q |-> base.q, had |-> base.had,
                   answered |-> TRUE]
    BY <2>1 DEF FirstPage
  <2> QED BY <2>1, <2>3, <2>4, <2>5, <2>6
<1> HIDE DEF had
<1>6. /\ rows \in SUBSET had
      /\ c \in 0 .. NPosts
      /\ IsLast(rows) <=> c = Nothing
      /\ c # Nothing => c \in rows /\ \A r \in rows : r >= c
      /\ \A p \in had \ rows : c # Nothing /\ p < c
  BY <1>4, PageFacts
<1>7. /\ left \in SUBSET Posts /\ left \in SUBSET rows /\ rows \ ByMuted \subseteq left
  BY <1>4, <1>6 DEF FilterMuted
<1> HIDE DEF rows, left, c
<1>8. /\ InOrder(left) \in Seq(Posts) /\ ToSet(InOrder(left)) = left
      /\ Descending(InOrder(left))
  BY <1>7, OrderedPosts
<1>9. /\ <<>> \in Seq(Posts) /\ ToSet(<<>>) = {} /\ Descending(<<>>)
  BY DEF ToSet, Descending
<1>10. /\ shown \in Seq(Posts) /\ Descending(shown)
       /\ ToSet(shown) = IF EmptyList(filter) THEN {} ELSE left
  BY <1>5, <1>8, <1>9
<1>11. FeedTypeOK
  <2>1. newest \in {Nothing} \cup {Created[p] : p \in Posts}
    <3>1. shown # <<>> => shown[1] \in Posts
      BY <1>10
    <3> QED BY <1>5, <3>1
  <2>2. cursor \in 0 .. NPosts
    BY <1>5, <1>6, FeedConstants DEF Nothing
  <2>3. base \in Bases
    <3>1. base.had \in SUBSET Posts
      BY <1>4, <1>5
    <3> QED BY <1>3, <1>4, <1>5, <3>1 DEF Bases
  <2>4. offset \in Nat
    BY <1>1, <1>10
  <2> QED BY <1>1, <1>3, <1>5, <1>10, <2>1, <2>2, <2>3, <2>4, NoQuestionType, FeedTypes
<1>12. QuestionPart
  <2>1. NoQuestion.filter = {} /\ Selection(NoQuestion.q) = Posts
    BY EverythingIsAll DEF NoQuestion
  <2>2. base.had \subseteq table \cap Selection(base.q)
    BY <1>4, <1>5
  <2>3. base.filter = {} => Selection(base.q) = Posts
    BY <1>3, <1>4, <1>5
  <2> QED BY <1>1, <2>1, <2>2, <2>3, NoQuestionType DEF QuestionPart
<1>13. FilterPart /\ OwnPart
  BY <1>1, <1>5, NoQuestionType DEF FilterPart, OwnPart
<1>14. CursorPart
  <2>1. ~apply.out /\ ~more.out
    BY <1>1, NoQuestionType
  <2>2. CASE EmptyList(filter)
    <3>1. NoGap /\ Complete
      BY <1>5, <2>2 DEF NoGap, Complete
    <3> QED BY <1>1, <1>5, <1>10, <2>1, <2>2, <3>1 DEF CursorPart
  <2>3. CASE ~EmptyList(filter)
    <3>1. ToSet(shown) = left /\ cursor = c /\ noMore = IsLast(rows) /\ base.had = had
      BY <1>5, <1>10, <2>3
    <3>2. ToSet(shown) \subseteq Selection(base.q)
      BY <1>4, <1>5, <1>6, <1>7, <3>1
    <3>3. c # Nothing => /\ \A r \in ToSet(shown) : r >= c
                         /\ \E r \in had : r >= c
      BY <1>6, <1>7, <3>1
    <3>4. ASSUME NEW p \in had \ ByMuted
          PROVE  p \in ToSet(shown) \/ (c # Nothing /\ p < c)
      BY <1>6, <1>7, <3>1
    <3>5. c # Nothing => ~noMore
      BY <1>6, <3>1
    <3>6. ~noMore => c # Nothing
      BY <1>6, <3>1
    <3>7. Complete
      BY <3>1, <3>4, <3>5 DEF Complete
    <3>8. NoGap
      <4> SUFFICES ASSUME NEW p \in had \ ByMuted, p \notin ToSet(shown),
                          NEW r \in ToSet(shown)
                   PROVE  p < r
        BY <3>1 DEF NoGap
      <4>1. c # Nothing /\ p < c /\ r >= c
        BY <3>3, <3>4
      <4>2. p \in Nat /\ r \in Nat /\ c \in Nat
        <5>1. p \in Posts /\ r \in Posts /\ c \in 0 .. NPosts
          BY <1>4, <1>6, <1>7, <3>1
        <5> QED BY <5>1, FeedConstants
      <4> QED BY <4>1, <4>2
    <3> QED BY <1>1, <1>10, <2>1, <3>1, <3>2, <3>3, <3>5, <3>6, <3>7, <3>8 DEF CursorPart
  <2> QED BY <2>2, <2>3
<1> QED BY <1>11, <1>12, <1>13, <1>14 DEF FeedIInv

(* The page could not ask, or the answer was an error. *)
LEMMA FeedLost ==
  ASSUME FeedInit,
         ~EmptyList(filter),
         shown = <<>>, cursor = Nothing, newest = Nothing,
         noMore \in BOOLEAN,
         base = Lost, patched = FALSE
  PROVE  FeedIInv
<1>1. /\ table = 1 .. NInitial /\ known \in {{}, {"following", "mine"}}
      /\ muted \in BOOLEAN
      /\ filter \in {{}, {"following"}, {"category", "community"}}
      /\ timer \in {FALSE, "category" \in filter}
      /\ apply = NoQuestion /\ more = NoQuestion /\ polls = {} /\ changes = 0
      /\ offset = Len(shown) /\ cut = "no"
  BY DEF FeedInit
<1>2. ~apply.out /\ ~more.out /\ ~base.answered /\ base.had = {} /\ base.q = Everything
  BY <1>1, NoQuestionType DEF Lost
<1>3. <<>> \in Seq(Posts) /\ ToSet(<<>>) = {} /\ Descending(<<>>) /\ Len(<<>>) = 0
  BY DEF ToSet, Descending
<1>4. FeedTypeOK
  <2>1. table \in SUBSET Posts /\ changes \in 0 .. MaxChanges /\ cursor \in 0 .. NPosts
    BY <1>1, FeedAssumption DEF Posts, Nothing
  <2>2. filter \in SUBSET Switches /\ known \in SUBSET {"following", "mine"}
    BY <1>1 DEF Switches
  <2>3. timer \in BOOLEAN
    <3>1. ("category" \in filter) \in BOOLEAN
      OBVIOUS
    <3> QED BY <1>1, <3>1
  <2>4. base \in Bases
    BY EverythingIsAll DEF Lost, Bases
  <2>5. shown \in Seq(Posts) /\ offset \in Nat
    BY <1>1, <1>3
  <2> QED BY <1>1, <2>1, <2>2, <2>3, <2>4, <2>5, NoQuestionType, FeedTypes
<1>5. QuestionPart /\ FilterPart /\ OwnPart
  <2>1. Selection(NoQuestion.q) = Posts /\ Selection(base.q) = Posts
    BY <1>2, NoQuestionType, EverythingIsAll
  <2> QED BY <1>1, <1>2, <2>1, NoQuestionType DEF QuestionPart, FilterPart, OwnPart
<1>6. CursorPart
  BY <1>1, <1>2, <1>3 DEF CursorPart
<1> QED BY <1>4, <1>5, <1>6 DEF FeedIInv

LEMMA FeedInitially == FeedInit => FeedIInv
<1> SUFFICES ASSUME FeedInit PROVE FeedIInv
  OBVIOUS
<1>1. \/ \E g \in Chosen : Loads(g)
      \/ /\ ~EmptyList(filter)
         /\ shown = <<>> /\ cursor = Nothing /\ newest = Nothing
         /\ noMore \in BOOLEAN
         /\ base = Lost /\ patched = FALSE
  BY DEF FeedInit, Chosen, Loads
<1> QED BY <1>1, FeedLoaded, FeedLost

-----------------------------------------------------------------------------
(* Theorems *)

(* Whatever the order of questions, answers, polls and switched filters: the    *)
(* feed, its cursor and the questions that are out fit together as described    *)
(* above (applyFilters, loadMore and pollNewPosts of rendering.js).             *)
THEOREM FeedInvariant == FeedSpec => []FeedIInv
<1>1. FeedIInv /\ [FeedNext]_feedVars => FeedIInv'
  BY FeedTypeStep, QuestionStep, FilterStep, OwnStep, CursorStep DEF FeedIInv
<1> QED BY FeedInitially, <1>1, PTL DEF FeedSpec

(* The state of the feed keeps its types.                                       *)
THEOREM FeedKeepsTypes == FeedSpec => []FeedTypeOK
<1>1. FeedIInv => FeedTypeOK
  BY DEF FeedIInv
<1> QED BY FeedInvariant, <1>1, PTL

(* Once no question and no timer is left, the feed answers the filters in force, *)
(* in whatever order the answers of earlier filters came: applyFilters takes its *)
(* question back, and neither the timer nor clearFilters leaves a change out.    *)
THEOREM FeedAnswers == FeedSpec => []FeedAnswersFilter
<1>1. FeedIInv => FeedAnswersFilter
  <2> SUFFICES ASSUME FeedIInv, Settled, ~patched
               PROVE  base.filter = filter /\ ToSet(shown) \subseteq Selection(base.q)
    BY DEF FeedAnswersFilter
  <2>1. base.filter = filter
    BY DEF FeedIInv, FilterPart, Settled
  <2>2. ToSet(shown) \subseteq Selection(base.q)
    BY DEF FeedIInv, CursorPart
  <2> QED BY <2>1, <2>2
<1> QED BY FeedInvariant, <1>1, PTL

(* A feed without foreign answers shows each post once and in order; endless     *)
(* scrolling, with polls and mutes in between, passes over no post that the       *)
(* server had when it answered the first page, and unless an error ended it (the  *)
(* one for a large offset, too) it goes on until all of them are shown.           *)
THEOREM FeedOnce == FeedSpec => []EachPostOnce
<1>1. FeedIInv => EachPostOnce
  <2> SUFFICES ASSUME FeedIInv, ~patched
               PROVE  /\ \A i, j \in 1 .. Len(shown) : i < j => shown[i] > shown[j]
                      /\ Settled => NoGap
                      /\ Settled /\ cut = "no" => Complete
    BY DEF EachPostOnce
  <2>1. \A i, j \in 1 .. Len(shown) : i < j => shown[i] > shown[j]
    BY DEF FeedIInv, CursorPart, Descending
  <2>2. Settled => NoGap /\ (cut = "no" => Complete)
    BY DEF FeedIInv, CursorPart, Settled
  <2> QED BY <2>1, <2>2
<1> QED BY FeedInvariant, <1>1, PTL
=============================================================================
