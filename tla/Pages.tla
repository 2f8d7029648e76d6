-------------------------------- MODULE Pages -------------------------------
(***************************************************************************)
(* What the API renders for crawlers: the lists of recent posts            *)
(* (get_recent_posts_for_seo in src/project/db/crud.py) and the sitemap    *)
(* (src/project/api/routes/ui.py), both cached, both read from PostgreSQL  *)
(* and from HAFSQL over the one pool of connections of                     *)
(* src/project/hafsql.py, while HAFSQL comes and goes and the process is   *)
(* shut down and started again.                                            *)
(*                                                                         *)
(* A list has one producer at a time (OneProducer of TtlCache); a sitemap  *)
(* is built by whoever misses it and by the warm task.  HAFSQL is called   *)
(* in threads, which a shutdown does not stop.                             *)
(***************************************************************************)
EXTENDS Naturals, FiniteSets

CONSTANTS Lists,     \* the keys recent_seo:...
          Visits,    \* requests for the sitemap that may be in flight at a time
          Warm,      \* periodic_sitemap_warm
          MinConn, MaxConn   \* of the pool: 2 and 5

Builders == Visits \cup {Warm}
Jobs == Lists \cup Builders
Pools == 1 .. 2      \* a process makes one, and a thread that outlives its shutdown another
None == 0

\* In halves of _SITEMAP_TTL: the lifetime of a sitemap, and the pause after a build.
Ttl == 2
\* Mutant: the warm task comes round once in a lifetime.
Interval_full == 2
Interval == 1

ASSUME PagesAssumption ==
  /\ Lists \cap Builders = {} /\ Warm \notin Visits /\ IsFiniteSet(Jobs)
  /\ MinConn \in Nat /\ MaxConn \in Nat \ {0} /\ MinConn <= MaxConn

VARIABLES
  up,        \* HAFSQL answers
  matching,  \* the lists that posts of ours match
  stopping,  \* the lifespan has ended
  current,   \* _pool
  open,      \* the pools not closed
  idle,      \* idle[p]: its idle connections, alive or dead
  job,       \* pc, the pool and connection at hand, and for a sitemap the
             \* session, and whether an enumeration has failed
  recent,    \* recent[l]: the cached list, if any: "posts", "empty"
  degraded,  \* history: HAFSQL failed when the cached list was made
  sitemap,   \* the cached sitemap, if any: "whole", "partial"; its age
  nap        \* what is left of the warm task's pause

hafsql == <<up, matching, stopping>>
pool == <<current, open, idle>>
caches == <<recent, degraded, sitemap, nap>>
vars == <<up, matching, stopping, current, open, idle, job, recent, degraded, sitemap, nap>>

Resting == [pc |-> "idle", pool |-> None, conn |-> "none", session |-> "fine", whole |-> TRUE]
Retrying == [Resting EXCEPT !.pc = "retry"]
NoSitemap == [kind |-> "none", age |-> 0]
NoIdle == [alive |-> 0, dead |-> 0]

TypeOK ==
  /\ up \in BOOLEAN /\ matching \subseteq Lists /\ stopping \in BOOLEAN
  /\ current \in Pools \cup {None} /\ open \subseteq Pools
  /\ idle \in [Pools -> [alive : 0 .. MinConn, dead : 0 .. MinConn]]
  /\ job \in [Jobs -> [pc : {"idle", "retry", "lists", "pool", "make", "conn", "query", "join"},
                       pool : Pools \cup {None}, conn : {"none", "alive", "dead"},
                       session : {"fine", "late", "broken"}, whole : BOOLEAN]]
  /\ recent \in [Lists -> {"none", "empty", "posts"}] /\ degraded \in [Lists -> BOOLEAN]
  /\ sitemap \in [kind : {"none", "partial", "whole"}, age : 0 .. Ttl - 1]
  /\ nap \in 0 .. Interval

Init ==
  /\ up \in BOOLEAN /\ matching = {} /\ stopping = FALSE
  /\ current = None /\ open = {} /\ idle = [p \in Pools |-> NoIdle]
  /\ job = [j \in Jobs |-> Resting]
  /\ recent = [l \in Lists |-> "none"] /\ degraded = [l \in Lists |-> FALSE]
  /\ sitemap = NoSitemap /\ nap = 0

At(j, where) == job[j].pc = where
Used(p) == {j \in Jobs : At(j, "query") /\ job[j].pool = p}

-----------------------------------------------------------------------------
(* How a call of HAFSQL ends *)

\* A list: get_posts_titles_and_excerpts turns any failure into no rows.
\* A sitemap: get_hivecomb_posts raises, and the build with it.  A warm task
\* that was cancelled takes no answer.
Failed(j) ==
  /\ job' = [job EXCEPT ![j] = IF j = Warm /\ ~stopping THEN Retrying ELSE Resting]
  /\ IF j \in Lists
     THEN recent' = [recent EXCEPT ![j] = "empty"] /\ degraded' = [degraded EXCEPT ![j] = TRUE]
     ELSE UNCHANGED <<recent, degraded>>
  /\ UNCHANGED <<sitemap, nap>>

Answered(j) ==
  /\ IF j \in Lists
     THEN /\ job' = [job EXCEPT ![j] = Resting]
          /\ \E found \in {"posts", "empty"} : recent' = [recent EXCEPT ![j] = found]
          /\ degraded' = [degraded EXCEPT ![j] = FALSE]
     ELSE /\ job' = [job EXCEPT ![j] = IF stopping THEN Resting
                                      ELSE [@ EXCEPT !.pc = "join", !.pool = None, !.conn = "none"]]
          /\ UNCHANGED <<recent, degraded>>
  /\ UNCHANGED <<sitemap, nap>>

-----------------------------------------------------------------------------
(* hafsql.py: _get_pool, _cursor, shutdown *)

GetPool(j) ==
  /\ At(j, "pool")
  /\ job' = IF current # None
            THEN [job EXCEPT ![j].pc = "conn", ![j].pool = current]
            ELSE [job EXCEPT ![j].pc = "make"]
  /\ UNCHANGED <<hafsql, pool, caches>>

\* Mutant: the pool is not looked at again under the lock.
MakePool_unchecked(j) ==
  /\ At(j, "make")
  /\ \/ /\ up
        /\ LET p == IF 1 \in open \/ idle[1] # NoIdle THEN 2 ELSE 1
           IN  /\ current' = p /\ open' = open \cup {p}
               /\ idle' = [idle EXCEPT ![p] = [alive |-> MinConn, dead |-> 0]]
               /\ job' = [job EXCEPT ![j].pc = "conn", ![j].pool = p]
        /\ UNCHANGED caches
     \/ UNCHANGED pool /\ Failed(j)
  /\ UNCHANGED hafsql

\* Under _pool_lock: the pool somebody else has made meanwhile, or a new one,
\* with its first connections.
MakePool(j) ==
  /\ At(j, "make")
  /\ \/ /\ current # None
        /\ job' = [job EXCEPT ![j].pc = "conn", ![j].pool = current]
        /\ UNCHANGED <<pool, caches>>
     \/ /\ current = None /\ up
        /\ LET p == IF stopping THEN 2 ELSE 1
           IN  /\ current' = p /\ open' = open \cup {p}
               /\ idle' = [idle EXCEPT ![p] = [alive |-> MinConn, dead |-> 0]]
               /\ job' = [job EXCEPT ![j].pc = "conn", ![j].pool = p]
        /\ UNCHANGED caches
     \/ current = None /\ UNCHANGED pool /\ Failed(j)
  /\ UNCHANGED hafsql

\* getconn: an idle connection, which may be dead, or a new one; an error if
\* the pool is closed, has given away all it may, or cannot connect.
GetConn(j) ==
  LET p == job[j].pool
      take(conn) == job' = [job EXCEPT ![j].pc = "query", ![j].conn = conn]
  IN  /\ At(j, "conn")
      /\ \/ /\ p \in open
            /\ \E kind \in {"alive", "dead"} :
                 idle[p][kind] > 0 /\ idle' = [idle EXCEPT ![p][kind] = @ - 1] /\ take(kind)
            /\ UNCHANGED <<current, open, caches>>
         \/ /\ p \in open /\ idle[p] = NoIdle /\ Cardinality(Used(p)) < MaxConn
            /\ up /\ take("alive")
            /\ UNCHANGED <<pool, caches>>
         \/ /\ p \notin open \/ idle[p] = NoIdle
            /\ UNCHANGED pool /\ Failed(j)
      /\ UNCHANGED hafsql

\* Mutant: every connection is kept.
PutConn_keep(j) ==
  LET p == job[j].pool  kind == job[j].conn
  IN  /\ idle' = IF p \in open THEN [idle EXCEPT ![p][kind] = @ + 1] ELSE idle
      /\ UNCHANGED <<current, open>>

\* putconn: MinConn connections stay, what is more is closed.
PutConn(j) ==
  LET p == job[j].pool  kind == job[j].conn
  IN  /\ idle' = IF p \in open /\ idle[p].alive + idle[p].dead < MinConn
                 THEN [idle EXCEPT ![p][kind] = @ + 1] ELSE idle
      /\ UNCHANGED <<current, open>>

QueryAnswered(j) ==
  /\ At(j, "query") /\ up /\ job[j].conn = "alive" /\ job[j].pool \in open
  /\ PutConn(j) /\ Answered(j)
  /\ UNCHANGED hafsql

\* The connection is closed after an operational error, a timeout among them,
\* and given back after any other.
QueryFails(j) ==
  /\ At(j, "query")
  /\ UNCHANGED pool \/ PutConn(j)
  /\ Failed(j)
  /\ UNCHANGED hafsql

\* The end of the lifespan, once the requests have been answered: the warm task
\* is cancelled, and the pool is closed with all its connections, in use or not.
\* A thread at HAFSQL goes on.
Shutdown ==
  /\ ~stopping /\ stopping' = TRUE
  /\ \A j \in Jobs \ {Warm} : At(j, "idle")
  /\ job' = IF job[Warm].pc \in {"retry", "lists", "join"}
            THEN [job EXCEPT ![Warm] = Resting] ELSE job
  /\ current' = None /\ open' = open \ {current}
  /\ idle' = [p \in Pools |-> IF p = current THEN NoIdle ELSE idle[p]]
  /\ UNCHANGED <<up, matching, caches>>

-----------------------------------------------------------------------------
(* The lists of recent posts *)

\* A miss: without matching posts the empty list is cached at once; an error of
\* PostgreSQL reaches _safe_recent_posts, and nothing is cached.
Ask(l) ==
  /\ At(l, "idle") /\ recent[l] = "none" /\ ~stopping
  /\ \/ /\ l \notin matching
        /\ recent' = [recent EXCEPT ![l] = "empty"] /\ degraded' = [degraded EXCEPT ![l] = FALSE]
        /\ UNCHANGED job
     \/ /\ l \in matching
        /\ job' = [job EXCEPT ![l].pc = "pool"]
        /\ UNCHANGED <<recent, degraded>>
  /\ UNCHANGED <<hafsql, pool, sitemap, nap>>

\* Five minutes later, or by an eviction.
Expire(l) ==
  /\ recent[l] # "none" /\ recent' = [recent EXCEPT ![l] = "none"]
  /\ UNCHANGED <<hafsql, pool, job, degraded, sitemap, nap>>

-----------------------------------------------------------------------------
(* The sitemap *)

\* A request that misses the sitemap; the warm task when its pause is over,
\* five minutes after a failure.
Begin(b) ==
  /\ ~stopping
  /\ IF b = Warm THEN At(b, "retry") \/ (At(b, "idle") /\ nap = 0)
     ELSE At(b, "idle") /\ sitemap.kind = "none"
  /\ job' = [job EXCEPT ![b] = [Resting EXCEPT !.pc = "lists"]]
  /\ UNCHANGED <<hafsql, pool, caches>>

\* Languages and communities: an error of either is swallowed.  If a statement
\* fails, its transaction stays aborted; if there was no connection yet, the
\* session is as good as new, and comes to one later.
Enumerate(b) ==
  /\ At(b, "lists")
  /\ \E s \in {"fine", "late", "broken"} :
       job' = [job EXCEPT ![b].pc = "pool", ![b].session = s, ![b].whole = s = "fine"]
  /\ UNCHANGED <<hafsql, pool, caches>>

\* Mutant: a broken session goes unnoticed.
Join_lenient(b) ==
  /\ At(b, "join")
  /\ \/ Failed(b)
     \/ /\ sitemap' = [kind |-> IF job[b].whole THEN "whole" ELSE "partial", age |-> 0]
        /\ job' = [job EXCEPT ![b] = Resting]
        /\ nap' = IF b = Warm THEN Interval ELSE nap
        /\ UNCHANGED <<recent, degraded>>
  /\ UNCHANGED <<hafsql, pool>>

\* The posts we have, the NSFW ones, the active authors: PostgreSQL again, which
\* raises in a broken session.  Then the sitemap is cached.
Join(b) ==
  /\ At(b, "join")
  /\ \/ Failed(b)
     \/ /\ job[b].session # "broken"
        /\ sitemap' = [kind |-> IF job[b].whole THEN "whole" ELSE "partial", age |-> 0]
        /\ job' = [job EXCEPT ![b] = Resting]
        /\ nap' = IF b = Warm THEN Interval ELSE nap
        /\ UNCHANGED <<recent, degraded>>
  /\ UNCHANGED <<hafsql, pool>>

\* The cache throws the oldest entry out.
Evict ==
  /\ sitemap.kind # "none" /\ sitemap' = NoSitemap
  /\ UNCHANGED <<hafsql, pool, job, recent, degraded, nap>>

\* Half a lifetime, in which no build begins that does not end.
Tick ==
  /\ \A v \in Visits : At(v, "idle")
  /\ At(Warm, "retry") \/ (At(Warm, "idle") /\ nap > 0)
  /\ nap' = IF nap > 0 THEN nap - 1 ELSE 0
  /\ sitemap' = IF sitemap.kind = "none" \/ sitemap.age + 1 = Ttl THEN NoSitemap
                ELSE [sitemap EXCEPT !.age = @ + 1]
  /\ UNCHANGED <<hafsql, pool, job, recent, degraded>>

-----------------------------------------------------------------------------
\* HAFSQL goes away, and every connection with it, or comes back.
UpOrDown ==
  /\ up' = ~up
  /\ IF up
     THEN /\ idle' = [p \in Pools |-> [alive |-> 0, dead |-> idle[p].alive + idle[p].dead]]
          /\ job' = [j \in Jobs |-> IF At(j, "query") THEN [job[j] EXCEPT !.conn = "dead"] ELSE job[j]]
     ELSE UNCHANGED <<idle, job>>
  /\ UNCHANGED <<matching, stopping, current, open, caches>>

\* The worker saves a post.
Match(l) ==
  /\ l \notin matching /\ matching' = matching \cup {l}
  /\ UNCHANGED <<up, stopping, pool, job, caches>>

\* The process ends, after its shutdown or without one, and is started again.
Restart ==
  /\ stopping' = FALSE
  /\ current' = None /\ open' = {} /\ idle' = [p \in Pools |-> NoIdle]
  /\ job' = [j \in Jobs |-> Resting]
  /\ recent' = [l \in Lists |-> "none"] /\ degraded' = [l \in Lists |-> FALSE]
  /\ sitemap' = NoSitemap /\ nap' = 0
  /\ UNCHANGED <<up, matching>>

Next ==
  \/ \E j \in Jobs : GetPool(j) \/ MakePool(j) \/ GetConn(j) \/ QueryAnswered(j) \/ QueryFails(j)
  \/ \E l \in Lists : Ask(l) \/ Expire(l) \/ Match(l)
  \/ \E b \in Builders : Begin(b) \/ Enumerate(b) \/ Join(b)
  \/ Evict \/ Tick \/ UpOrDown \/ Shutdown \/ Restart

Spec == Init /\ [][Next]_vars

-----------------------------------------------------------------------------
\* There is one pool, whoever comes first, also when threads outlive the
\* shutdown and make it anew: none is left open with nobody to close it, and
\* it never has more connections than it may.
OnePool ==
  \A p \in open :
    p = current /\ idle[p].alive + idle[p].dead + Cardinality(Used(p)) <= MaxConn

\* A complete sitemap stays until it is evicted or the process ends: it does
\* not run out unless builds fail, and the swallowed error of an enumeration
\* cannot put a shorter one in its place, except that there was no connection.
SitemapKept ==
  [][sitemap.kind = "whole" =>
       \/ sitemap'.kind = "whole" \/ Evict \/ Restart
       \/ sitemap'.kind = "none" /\ At(Warm, "retry")
       \/ sitemap'.kind = "partial" /\ \E b \in Builders : job[b].session = "late"]_vars

\* The docstring of get_recent_posts_for_seo: an incident of HAFSQL is never
\* masked as a cached empty page.
IncidentNotMasked == \A l \in Lists : recent[l] = "empty" => ~degraded[l]
=============================================================================
