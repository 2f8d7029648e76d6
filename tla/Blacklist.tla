----------------------------- MODULE Blacklist ------------------------------
(***************************************************************************)
(* The author blacklist of the worker (src/project/worker/blacklist.py):   *)
(* is_blacklisted with its TTL cache in front of the Global Blacklist API, *)
(* the two threads that ask it before they save a post, and the daily      *)
(* sweep, which pages through the authors in the database, asks for each   *)
(* one, and deletes the posts of the listed ones.                          *)
(*                                                                         *)
(* The cache is shared by all threads.  A thread notes the time, asks the  *)
(* API without a lock, and stores the answer under the time it noted.  The *)
(* cache's own limit, 100 000 authors, is not reached here.                *)
(***************************************************************************)
EXTENDS Naturals, FiniteSets

CONSTANTS NAuthors,    \* authors are numbered in the order of their names
          Savers,      \* the threads that save posts
          Sweeper,     \* the sweep thread
          Ttl,         \* _CACHE_TTL, in ticks
          MaxWait,     \* how long a call of the API may take (_TIMEOUT)
          PageSize,    \* limit of _get_distinct_authors
          MaxChanges,  \* bound on the changes of the blacklist
          MaxFaults    \* bound on failed calls, cut-off sweeps and crashes

Authors == 1 .. NAuthors
NoAuthor == 0
Askers == Savers \cup {Sweeper}

ASSUME BlacklistAssumption ==
  /\ NAuthors \in Nat /\ Sweeper \notin Savers
  /\ Ttl \in Nat \ {0} /\ MaxWait \in 0 .. Ttl - 1 /\ PageSize \in Nat \ {0}
  /\ MaxChanges \in Nat /\ MaxFaults \in Nat

VARIABLES
  \* The outside world
  listed,    \* the authors the API lists
  since,     \* since[a]: ticks since that changed for a, up to Ttl
  changes, faults,
  \* The database
  authors,   \* authors with posts
  \* The cache
  verdict,   \* verdict[a]: "none", "clean", "listed", or "garbled" for the
             \* "clean" that was made of an answer nobody could read
  age,       \* age[a]: ticks since the time noted with it, up to Ttl
  \* The threads
  pc,        \* where each thread is
  who,       \* the author it asks about
  heard,     \* the API's answer
  waited,    \* ticks since it noted the time
  \* The sweep
  offset, todo,
  atStart,   \* history: the authors with posts when the sweep began
  collected  \* history: every author it has paged in

world == <<listed, since, changes>>
memory == <<verdict, age>>
threads == <<pc, who, heard, waited>>
sweep == <<offset, todo, atStart, collected>>
vars == <<listed, since, changes, faults, authors, verdict, age, pc, who, heard,
          waited, offset, todo, atStart, collected>>

TypeOK ==
  /\ listed \in SUBSET Authors /\ since \in [Authors -> 0 .. Ttl]
  /\ changes \in 0 .. MaxChanges /\ faults \in 0 .. MaxFaults
  /\ authors \in SUBSET Authors
  /\ verdict \in [Authors -> {"none", "clean", "listed", "garbled"}]
  /\ age \in [Authors -> 0 .. Ttl]
  /\ pc \in [Askers -> {"idle", "paging", "checking", "asking", "answered", "acting"}]
  /\ who \in [Askers -> Authors \cup {NoAuthor}]
  /\ heard \in [Askers -> {"clean", "listed", "garbled"}]
  /\ waited \in [Askers -> 0 .. MaxWait]
  /\ offset \in 0 .. NAuthors
  /\ todo \in SUBSET Authors
  /\ atStart \in SUBSET Authors /\ collected \in SUBSET Authors

Init ==
  /\ listed \in SUBSET Authors /\ since = [a \in Authors |-> Ttl] /\ changes = 0 /\ faults = 0
  /\ authors = {}
  /\ verdict = [a \in Authors |-> "none"] /\ age = [a \in Authors |-> Ttl]
  /\ pc = [x \in Askers |-> "idle"] /\ who = [x \in Askers |-> NoAuthor]
  /\ heard = [x \in Askers |-> "clean"] /\ waited = [x \in Askers |-> 0]
  /\ offset = 0 /\ todo = {} /\ atStart = {} /\ collected = {}

Truth(a) == IF a \in listed THEN "listed" ELSE "clean"

-----------------------------------------------------------------------------
(* is_blacklisted *)

Fresh(a) == verdict[a] # "none" /\ age[a] < Ttl

\* What a thread does next when it has been told of author a: a saver saves
\* the post or drops it, the sweep deletes the author's posts or goes on.
Told(x, a, answer) ==
  LET act == (answer = "listed") = (x = Sweeper)
      rest == IF x = Sweeper THEN "checking" ELSE "idle"
  IN  /\ pc' = [pc EXCEPT ![x] = IF act THEN "acting" ELSE rest]
      /\ who' = [who EXCEPT ![x] = IF act THEN a ELSE NoAuthor]
      /\ heard' = [heard EXCEPT ![x] = "clean"]
      /\ waited' = [waited EXCEPT ![x] = 0]

\* The cache answers, or the API is asked.
IsBlacklisted(x, a) ==
  IF Fresh(a)
  THEN Told(x, a, verdict[a])
  ELSE /\ pc' = [pc EXCEPT ![x] = "asking"] /\ who' = [who EXCEPT ![x] = a]
       /\ waited' = [waited EXCEPT ![x] = 0]
       /\ UNCHANGED heard

\* The API decides on its answer.
Answer(x) ==
  /\ pc[x] = "asking"
  /\ heard' = [heard EXCEPT ![x] = Truth(who[x])]
  /\ pc' = [pc EXCEPT ![x] = "answered"]
  /\ UNCHANGED <<world, faults, authors, memory, who, waited, sweep>>

\* The answer is not JSON: the author passes, and the cache remembers that as
\* it would remember a proper answer.
Garble(x) ==
  /\ pc[x] = "asking" /\ faults < MaxFaults
  /\ faults' = faults + 1
  /\ heard' = [heard EXCEPT ![x] = "garbled"]
  /\ pc' = [pc EXCEPT ![x] = "answered"]
  /\ UNCHANGED <<world, authors, memory, who, waited, sweep>>

\* Mutant: the answer is stored under the time at which it came.
NotedAge_onArrival(x) == 0

NotedAge(x) == waited[x]

\* The answer is stored, whatever was stored in the meantime.
Store(x) ==
  /\ pc[x] = "answered"
  /\ verdict' = [verdict EXCEPT ![who[x]] = heard[x]]
  /\ age' = [age EXCEPT ![who[x]] = NotedAge(x)]
  /\ Told(x, who[x], heard[x])
  /\ UNCHANGED <<world, faults, authors, sweep>>

\* An error or a timeout: fail open, and store nothing.
ApiFails(x) ==
  /\ pc[x] = "asking" /\ faults < MaxFaults
  /\ faults' = faults + 1
  /\ Told(x, who[x], "clean")
  /\ UNCHANGED <<world, authors, memory, sweep>>

-----------------------------------------------------------------------------
(* The savers *)

\* Mutant: a hit renews the entry.
Take_renews(s, a) ==
  /\ pc[s] = "idle"
  /\ IsBlacklisted(s, a)
  /\ age' = [age EXCEPT ![a] = IF Fresh(a) THEN 0 ELSE @]
  /\ UNCHANGED <<world, faults, authors, verdict, sweep>>

Take(s, a) ==
  /\ pc[s] = "idle"
  /\ IsBlacklisted(s, a)
  /\ UNCHANGED <<world, faults, authors, memory, sweep>>

\* The post is saved, or the other filters drop it.
Save(s) ==
  /\ pc[s] = "acting"
  /\ authors' \in {authors, authors \cup {who[s]}}
  /\ pc' = [pc EXCEPT ![s] = "idle"] /\ who' = [who EXCEPT ![s] = NoAuthor]
  /\ UNCHANGED <<world, faults, memory, heard, waited, sweep>>

-----------------------------------------------------------------------------
(* The sweep *)

\* It begins with dropping the expired entries.
BeginSweep ==
  /\ pc[Sweeper] = "idle"
  /\ pc' = [pc EXCEPT ![Sweeper] = "paging"]
  /\ verdict' = [a \in Authors |-> IF age[a] < Ttl THEN verdict[a] ELSE "none"]
  /\ offset' = 0 /\ todo' = {} /\ collected' = {}
  /\ atStart' = authors
  /\ UNCHANGED <<world, faults, authors, age, who, heard, waited>>

\* SELECT DISTINCT author ... ORDER BY author LIMIT PageSize OFFSET offset
Page ==
  LET rank(a) == Cardinality({b \in authors : b <= a})
  IN  {a \in authors : offset < rank(a) /\ rank(a) <= offset + PageSize}

\* Mutant: a page is worked off before the next one is read.
ReadPage_andDelete ==
  /\ pc[Sweeper] = "paging" /\ Page # {}
  /\ offset' = offset + Cardinality(Page)
  /\ todo' = todo \cup Page /\ collected' = collected \cup Page
  /\ authors' = authors \ (Page \cap listed)
  /\ UNCHANGED <<world, faults, memory, threads, atStart>>

ReadPage ==
  /\ pc[Sweeper] = "paging" /\ Page # {}
  /\ offset' = offset + Cardinality(Page)
  /\ todo' = todo \cup Page /\ collected' = collected \cup Page
  /\ UNCHANGED <<world, faults, authors, memory, threads, atStart>>

EndPages ==
  /\ pc[Sweeper] = "paging" /\ Page = {}
  /\ pc' = [pc EXCEPT ![Sweeper] = "checking"]
  /\ UNCHANGED <<world, faults, authors, memory, who, heard, waited, sweep>>

\* The authors are taken in the order in which they were read.
CheckNext ==
  /\ pc[Sweeper] = "checking"
  /\ \E a \in todo :
       /\ \A b \in todo : a <= b
       /\ todo' = todo \ {a}
       /\ IsBlacklisted(Sweeper, a)
  /\ UNCHANGED <<world, faults, authors, memory, offset, atStart, collected>>

\* _delete_posts_by_author, and on to the next.
Delete ==
  /\ pc[Sweeper] = "acting"
  /\ authors' = authors \ {who[Sweeper]}
  /\ pc' = [pc EXCEPT ![Sweeper] = "checking"]
  /\ who' = [who EXCEPT ![Sweeper] = NoAuthor]
  /\ UNCHANGED <<world, faults, memory, heard, waited, sweep>>

SweepOver ==
  /\ pc' = [pc EXCEPT ![Sweeper] = "idle"] /\ who' = [who EXCEPT ![Sweeper] = NoAuthor]
  /\ heard' = [heard EXCEPT ![Sweeper] = "clean"]
  /\ waited' = [waited EXCEPT ![Sweeper] = 0]
  /\ offset' = 0 /\ todo' = {} /\ atStart' = {} /\ collected' = {}

EndSweep ==
  /\ pc[Sweeper] = "checking" /\ todo = {}
  /\ SweepOver
  /\ UNCHANGED <<world, faults, authors, memory>>

\* An exception, or stop_event: the rest of the authors waits for the next
\* sweep, of this thread or of the next generation's.
CutSweep ==
  /\ pc[Sweeper] # "idle" /\ faults < MaxFaults
  /\ faults' = faults + 1
  /\ SweepOver
  /\ UNCHANGED <<world, authors, memory>>

-----------------------------------------------------------------------------
Crash ==
  /\ faults < MaxFaults /\ faults' = faults + 1
  /\ verdict' = [a \in Authors |-> "none"] /\ age' = [a \in Authors |-> Ttl]
  /\ pc' = [x \in Askers |-> "idle"] /\ who' = [x \in Askers |-> NoAuthor]
  /\ heard' = [x \in Askers |-> "clean"] /\ waited' = [x \in Askers |-> 0]
  /\ offset' = 0 /\ todo' = {} /\ atStart' = {} /\ collected' = {}
  /\ UNCHANGED <<world, authors>>

\* An author is put on the blacklist, or taken off it.
Change(a) ==
  /\ changes < MaxChanges /\ changes' = changes + 1
  /\ listed' = IF a \in listed THEN listed \ {a} ELSE listed \cup {a}
  /\ since' = [since EXCEPT ![a] = 0]
  /\ UNCHANGED <<faults, authors, memory, threads, sweep>>

Calling == {x \in Askers : pc[x] \in {"asking", "answered"}}

Older(n) == IF n < Ttl THEN n + 1 ELSE Ttl

\* Mutant: the call has no timeout.
Tick_noTimeout ==
  /\ waited' = [x \in Askers |-> IF x \in Calling THEN waited[x] + 1 ELSE waited[x]]
  /\ age' = [a \in Authors |-> Older(age[a])]
  /\ since' = [a \in Authors |-> Older(since[a])]
  /\ UNCHANGED <<listed, changes, faults, authors, verdict, pc, who, heard, sweep>>

\* A call does not outlast its timeout.
Tick ==
  /\ \A x \in Calling : waited[x] < MaxWait
  /\ waited' = [x \in Askers |-> IF x \in Calling THEN waited[x] + 1 ELSE waited[x]]
  /\ age' = [a \in Authors |-> Older(age[a])]
  /\ since' = [a \in Authors |-> Older(since[a])]
  /\ UNCHANGED <<listed, changes, faults, authors, verdict, pc, who, heard, sweep>>

SaverProceeds(s) == Answer(s) \/ Store(s) \/ Save(s)

SweepProceeds ==
  \/ BeginSweep \/ ReadPage \/ EndPages \/ CheckNext
  \/ Answer(Sweeper) \/ Store(Sweeper) \/ Delete \/ EndSweep

Next ==
  \/ \E s \in Savers : SaverProceeds(s) \/ \E a \in Authors : Take(s, a)
  \/ SweepProceeds \/ CutSweep
  \/ (\E x \in Askers : ApiFails(x) \/ Garble(x)) \/ Crash
  \/ (\E a \in Authors : Change(a)) \/ Tick

Spec == Init /\ [][Next]_vars

\* Time passes, and each thread goes on with what it has begun; the sweep comes
\* round again.  Nothing forces a post to come.
FairSpec ==
  /\ Spec
  /\ WF_vars(Tick) /\ WF_vars(SweepProceeds)
  /\ \A s \in Savers : WF_vars(SaverProceeds(s))

-----------------------------------------------------------------------------
(* Properties *)

(* A verdict the cache gives out is wrong only if the blacklist changed    *)
(* less than the TTL ago, also when a slow answer has overwritten a newer  *)
(* one, or if the API's answer could not be read (blacklist.py:24-46).     *)
VerdictNotStale ==
  \A a \in Authors :
    Fresh(a) /\ verdict[a] \notin {Truth(a), "garbled"} => since[a] < Ttl

(* The pages of a sweep miss no author who had posts when it began, though *)
(* posts keep coming in while it reads (blacklist.py:82-89).               *)
SweepIsComplete ==
  pc[Sweeper] \in {"checking", "asking", "answered", "acting"} =>
    atStart \cap authors \subseteq collected

(* "Newly blacklisted authors have their posts deleted"                    *)
(* (blacklist.py:65): an author who stays on the blacklist ends up without *)
(* posts, and stays so, whatever posts were under way at the time.         *)
ListedArePurged ==
  \A a \in Authors : <>[](a \in listed) => <>[](a \notin authors)
=============================================================================
