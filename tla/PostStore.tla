----------------------------- MODULE PostStore ------------------------------
(***************************************************************************)
(* How the worker's threads write posts and communities: the last part of  *)
(* _classify_and_save (src/project/worker/classify.py), the community      *)
(* cache (src/project/worker/community.py), and the statements of          *)
(* create_post, upsert_community_mapping and delete_posts_by_author        *)
(* (src/project/db/crud.py).                                               *)
(*                                                                         *)
(* Every database call goes through one lock (_DB.run in bridge.py), so    *)
(* that two calls of one process never interleave; but create_post and     *)
(* delete_posts_by_author commit twice, and a crash or an error can come   *)
(* between the two.  retry_transient runs such a call again, which then    *)
(* finds the row it inserted, or none of those it deleted; that changes    *)
(* nothing more, so a retry is not a step here.                            *)
(***************************************************************************)
EXTENDS Integers, FiniteSets, Sequences

CONSTANTS Posts, Communities, Authors,
          TagsOf,       \* TagsOf[p]: the communities the versions of p name
          AuthorOf,     \* AuthorOf[p]
          Savers,       \* the threads that save: live stream and backfill
          NoPost,       \* what a saver without a post has in hand
          NoCommunity,  \* a community_id that is NULL
          NoRow,        \* "community" of a post that is not in the table
          MaxCache,     \* _MAX_COMMUNITY_CACHE
          EvictBatch,   \* _EVICT_BATCH
          MaxSlips      \* bound on what leaves a count behind: commits that fail
                        \* half-way or go unanswered, and posts that are moved

ASSUME StoreAssumption ==
  /\ IsFiniteSet(Posts) /\ NoPost \notin Posts
  /\ NoCommunity \notin Communities /\ NoRow \notin Communities \cup {NoCommunity}
  /\ TagsOf \in [Posts -> SUBSET (Communities \cup {NoCommunity})]
  /\ AuthorOf \in [Posts -> Authors]
  /\ MaxCache \in Nat /\ EvictBatch \in 1 .. MaxCache + 1 /\ MaxSlips \in Nat

VARIABLES
  \* The database
  posts,      \* posts[p]: community_id of the row of p, or NoRow
  mapped,     \* communities with a row in community_mappings
  count,      \* post_count of that row
  \* The worker's memory
  cache,      \* _community_cache, in insertion order
  persisted,  \* _persisted_communities
  \* The threads
  pc,         \* where each saver is
  post,       \* the post it has in hand
  at,         \* and the community that names
  sweep,      \* the sweep thread: "idle", or "uncounting" between its commits
  tally,      \* comm_counts, while the sweep thread is at it
  \* History
  faults,     \* commits that failed half-way or went unanswered so far
  moves,      \* updates that moved a post so far
  unsaved,    \* communities without a row, whose mapping failed to be written
  tainted     \* communities whose count was left behind, see below

db == <<posts, mapped, count>>
memory == <<cache, persisted>>
sweeper == <<sweep, tally>>
inHand == <<post, at>>
vars == <<posts, mapped, count, cache, persisted, pc, post, at, sweep, tally,
          faults, moves, unsaved, tainted>>

PostsOf(c) == {p \in Posts : posts[p] = c}
NoTally == [c \in Communities |-> 0]
Cached == {cache[i] : i \in DOMAIN cache}
Tags == Communities \cup {NoCommunity}

TypeOK ==
  /\ posts \in [Posts -> Tags \cup {NoRow}]
  /\ mapped \in SUBSET Communities
  /\ count \in [Communities -> Int]
  /\ Len(cache) <= MaxCache
  /\ \A i, j \in DOMAIN cache : cache[i] = cache[j] => i = j
  /\ Cached \subseteq Communities
  /\ persisted \in SUBSET Communities
  /\ pc \in [Savers -> {"idle", "resolve", "asking", "mark", "persist", "save", "count"}]
  /\ post \in [Savers -> Posts \cup {NoPost}] /\ at \in [Savers -> Tags]
  /\ sweep \in {"idle", "uncounting"}
  /\ tally \in [Communities -> Nat]
  /\ faults \in 0 .. MaxSlips /\ moves \in 0 .. MaxSlips
  /\ unsaved \in SUBSET Communities /\ tainted \in SUBSET Communities

Init ==
  /\ posts = [p \in Posts |-> NoRow] /\ mapped = {} /\ count = [c \in Communities |-> 0]
  /\ cache = <<>> /\ persisted = {}
  /\ pc = [s \in Savers |-> "idle"] /\ post = [s \in Savers |-> NoPost]
  /\ at = [s \in Savers |-> NoCommunity]
  /\ sweep = "idle" /\ tally = NoTally
  /\ faults = 0 /\ moves = 0 /\ unsaved = {} /\ tainted = {}

\* _DB.run is free: no call stands between its two commits.
DbFree == sweep = "idle" /\ \A s \in Savers : pc[s] # "count"

Goto(s, where) == pc' = [pc EXCEPT ![s] = where]

\* A community without a row has no count to be left behind.
Taint(left) == tainted' = tainted \cup (left \cap mapped)

\* The thread is through with its post, with or without an exception.
Done(s) ==
  /\ Goto(s, "idle")
  /\ post' = [post EXCEPT ![s] = NoPost] /\ at' = [at EXCEPT ![s] = NoCommunity]

-----------------------------------------------------------------------------
(* A saver *)

\* A post that passed the filters: from the chain or from HAFSQL, new, edited,
\* or deleted and written anew, and then perhaps in another community.
Take(s, p, c) ==
  /\ pc[s] = "idle"
  /\ Goto(s, IF c = NoCommunity THEN "save" ELSE "resolve")
  /\ post' = [post EXCEPT ![s] = p] /\ at' = [at EXCEPT ![s] = c]
  /\ UNCHANGED <<db, memory, sweeper, faults, moves, unsaved, tainted>>

\* Mutant: the cache is looked after one entry too late.
Dropped_late(known) == IF Len(known) > MaxCache + 1 THEN EvictBatch ELSE 0

\* How many of the oldest communities are forgotten.
Dropped(known) == IF Len(known) > MaxCache THEN EvictBatch ELSE 0

\* _resolve_community looks into the cache, and asks HAFSQL for a community it
\* does not know, outside the lock.
LookUp(s) ==
  /\ pc[s] = "resolve"
  /\ Goto(s, IF at[s] \in Cached THEN "mark" ELSE "asking")
  /\ UNCHANGED <<db, memory, inHand, sweeper, faults, moves, unsaved, tainted>>

\* get_community answers, and the community is cached; another thread may have
\* been there first, and then its entry keeps its place.
Resolve(s) ==
  LET known == IF at[s] \in Cached THEN cache ELSE Append(cache, at[s])
      n == Dropped(known)
  IN  /\ pc[s] = "asking"
      /\ cache' = SubSeq(known, n + 1, Len(known))
      /\ persisted' = persisted \ {known[i] : i \in 1 .. n}
      /\ Goto(s, "mark")
      /\ UNCHANGED <<db, inHand, sweeper, faults, moves, unsaved, tainted>>

\* Mutant: a community that could not be looked up is marked all the same.
ResolveFails_marks(s) ==
  /\ pc[s] = "asking"
  /\ Goto(s, "save")
  /\ persisted' = persisted \cup {at[s]}
  /\ UNCHANGED <<db, cache, inHand, sweeper, faults, moves, unsaved, tainted>>

\* get_community fails: neither cached nor persisted.
ResolveFails(s) ==
  /\ pc[s] = "asking"
  /\ Goto(s, "save")
  /\ UNCHANGED <<db, memory, inHand, sweeper, faults, moves, unsaved, tainted>>

\* Only the first thread to come by writes the mapping.
Mark(s) ==
  /\ pc[s] = "mark"
  /\ Goto(s, IF at[s] \in persisted THEN "save" ELSE "persist")
  /\ persisted' = persisted \cup {at[s]}
  /\ UNCHANGED <<db, cache, inHand, sweeper, faults, moves, unsaved, tainted>>

\* Mutant: the upsert writes the whole row.
Upserted_wholeRow(c) == [count EXCEPT ![c] = 0]

\* upsert_community_mapping leaves the post_count of an existing row alone; a
\* new row has the column's default.
Upserted(c) == IF c \in mapped THEN count ELSE [count EXCEPT ![c] = 0]

Persist(s) ==
  /\ pc[s] = "persist" /\ DbFree
  /\ mapped' = mapped \cup {at[s]} /\ count' = Upserted(at[s])
  /\ tainted' = IF at[s] \notin mapped /\ PostsOf(at[s]) # {}
                THEN tainted \cup {at[s]} ELSE tainted
  /\ unsaved' = unsaved \ {at[s]}
  /\ Goto(s, "save")
  /\ UNCHANGED <<posts, memory, inHand, sweeper, faults, moves>>

\* The write fails; _persist_community_mapping logs that and goes on.
PersistFails(s) ==
  /\ pc[s] = "persist" /\ DbFree
  /\ unsaved' = unsaved \cup ({at[s]} \ mapped)
  /\ Goto(s, "save")
  /\ UNCHANGED <<db, memory, inHand, sweeper, faults, moves, tainted>>

\* The row of the saver's post takes the community the saver has: inserted or
\* overwritten.
Write(s) == posts' = [posts EXCEPT ![post[s]] = at[s]]

\* The communities that thereby gain or lose a post.
Shifted(s) ==
  IF posts[post[s]] = at[s] THEN {} ELSE {posts[post[s]], at[s]} \ {NoRow, NoCommunity}

\* An update that leaves both counts behind.
Moves(s) == posts[post[s]] # NoRow /\ Shifted(s) # {}
CountMove(s) ==
  IF Moves(s) THEN faults + moves < MaxSlips /\ moves' = moves + 1 ELSE UNCHANGED moves

\* create_post up to its first commit.  A new row of a community is still to be
\* counted; an update that moves a row counts nothing, on either side.
Save(s) ==
  /\ pc[s] = "save" /\ DbFree
  /\ Write(s)
  /\ IF posts[post[s]] = NoRow /\ at[s] # NoCommunity
     THEN Goto(s, "count") /\ UNCHANGED <<inHand, tainted>>
     ELSE Done(s) /\ Taint(Shifted(s))
  /\ CountMove(s)
  /\ UNCHANGED <<mapped, count, memory, sweeper, faults, unsaved>>

\* The first commit is taken and its answer lost: the retry finds the row, and
\* nobody counts it.
SaveUnanswered(s) ==
  /\ pc[s] = "save" /\ DbFree /\ faults + moves < MaxSlips
  /\ Write(s)
  /\ faults' = faults + 1 /\ Taint(Shifted(s))
  /\ Done(s) /\ CountMove(s)
  /\ UNCHANGED <<mapped, count, memory, sweeper, unsaved>>

SaveFails(s) ==
  /\ pc[s] = "save" /\ DbFree
  /\ Done(s)
  /\ UNCHANGED <<db, memory, sweeper, faults, moves, unsaved, tainted>>

\* The second commit: an UPDATE, which touches nothing if there is no row.
Count(s) ==
  /\ pc[s] = "count"
  /\ count' = IF at[s] \in mapped THEN [count EXCEPT ![at[s]] = @ + 1] ELSE count
  /\ Done(s)
  /\ UNCHANGED <<posts, mapped, memory, sweeper, faults, moves, unsaved, tainted>>

\* The UPDATE or its commit raises: the post stays, uncounted.
CountFails(s) ==
  /\ pc[s] = "count" /\ faults + moves < MaxSlips
  /\ faults' = faults + 1
  /\ Taint({at[s]})
  /\ Done(s)
  /\ UNCHANGED <<db, memory, sweeper, moves, unsaved>>

-----------------------------------------------------------------------------
(* The sweep *)

ByAuthor(a) == {p \in Posts : posts[p] # NoRow /\ AuthorOf[p] = a}
Without(S) == [p \in Posts |-> IF p \in S THEN NoRow ELSE posts[p]]

\* delete_posts_by_author up to its first commit.
Delete(a) ==
  /\ sweep = "idle" /\ DbFree /\ ByAuthor(a) # {}
  /\ sweep' = "uncounting"
  /\ tally' = [c \in Communities |-> Cardinality(ByAuthor(a) \cap PostsOf(c))]
  /\ posts' = Without(ByAuthor(a))
  /\ UNCHANGED <<mapped, count, memory, pc, inHand, faults, moves, unsaved, tainted>>

\* The first commit is taken and its answer lost: the retry finds no rows, and
\* so nothing to subtract.
DeleteUnanswered(a) ==
  /\ sweep = "idle" /\ DbFree /\ ByAuthor(a) # {} /\ faults + moves < MaxSlips
  /\ posts' = Without(ByAuthor(a))
  /\ faults' = faults + 1
  /\ Taint({posts[p] : p \in ByAuthor(a)})
  /\ UNCHANGED <<mapped, count, memory, pc, inHand, sweeper, moves, unsaved>>

Uncount ==
  /\ sweep = "uncounting"
  /\ count' = [c \in Communities |-> IF c \in mapped THEN count[c] - tally[c] ELSE count[c]]
  /\ sweep' = "idle" /\ tally' = NoTally
  /\ UNCHANGED <<posts, mapped, memory, pc, inHand, faults, moves, unsaved, tainted>>

Tallied == {c \in Communities : tally[c] > 0}

UncountFails ==
  /\ sweep = "uncounting" /\ faults + moves < MaxSlips
  /\ faults' = faults + 1
  /\ Taint(Tallied)
  /\ sweep' = "idle" /\ tally' = NoTally
  /\ UNCHANGED <<db, memory, pc, inHand, moves, unsaved>>

\* The worker process goes away, and with it what it remembers.
Crash ==
  /\ DbFree \/ faults + moves < MaxSlips
  /\ faults' = IF DbFree THEN faults ELSE faults + 1
  /\ Taint(Tallied \cup {at[s] : s \in {t \in Savers : pc[t] = "count"}})
  /\ cache' = <<>> /\ persisted' = {} /\ unsaved' = {}
  /\ pc' = [s \in Savers |-> "idle"] /\ post' = [s \in Savers |-> NoPost]
  /\ at' = [s \in Savers |-> NoCommunity]
  /\ sweep' = "idle" /\ tally' = NoTally
  /\ UNCHANGED <<db, moves>>

SaverStep(s) ==
  \/ LookUp(s) \/ Resolve(s) \/ ResolveFails(s)
  \/ Mark(s) \/ Persist(s) \/ PersistFails(s)
  \/ Save(s) \/ SaveUnanswered(s) \/ SaveFails(s) \/ Count(s) \/ CountFails(s)
  \/ \E p \in Posts : \E c \in TagsOf[p] : Take(s, p, c)

Next ==
  \/ \E s \in Savers : SaverStep(s)
  \/ \E a \in Authors : Delete(a) \/ DeleteUnanswered(a)
  \/ Uncount \/ UncountFails
  \/ Crash

Spec == Init /\ [][Next]_vars

-----------------------------------------------------------------------------
(* Properties *)

\* What the call between its two commits has still to add to the count of c.
Pending(c) == Cardinality({s \in Savers : pc[s] = "count" /\ at[s] = c}) - tally[c]

(* post_count is the number of posts of the community, whichever thread    *)
(* saves, updates or deletes them and in whichever order -- except where a *)
(* post came before the mapping, an update moved a post between            *)
(* communities, the second commit of a call was lost, or the answer to its *)
(* first (crud.py:172-211, 955-987).                                       *)
CountExact ==
  \A c \in mapped \ tainted : count[c] + Pending(c) = Cardinality(PostsOf(c))

(* The docstring's claim: the communities with a positive post_count are   *)
(* those "that have posts" (get_available_communities, crud.py:995), at    *)
(* least between two calls and when no commit ever failed.                 *)
ListedHavePosts ==
  DbFree /\ faults = 0 => \A c \in mapped : count[c] > 0 <=> PostsOf(c) # {}

(* A community the worker has marked as persisted is in the database, or a *)
(* thread is just writing it, or the write failed (classify.py:346-350).   *)
MarkedIsMapped ==
  \A c \in persisted :
    c \in mapped \cup unsaved \/ \E s \in Savers : pc[s] = "persist" /\ at[s] = c
=============================================================================
