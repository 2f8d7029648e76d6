------------------------------- MODULE Reports ------------------------------
(***************************************************************************)
(* Misclassification reports: submit_report                                *)
(* (src/project/api/routes/reports.py) with all it awaits: the post's row, *)
(* the reporter's keys (src/project/api/hive_auth.py) and reputation       *)
(* (src/project/hafsql.py) from a list of Hive nodes, the rate limit, and  *)
(* the INSERT and COMMIT of create_post_report (src/project/db/crud.py),   *)
(* while the worker's sweep deletes posts and saves them again.            *)
(*                                                                         *)
(* A request holds its database connection from the first statement to the *)
(* end.  A post that comes back has another id, and the reports on a row   *)
(* go with it (ON DELETE CASCADE).                                         *)
(***************************************************************************)
EXTENDS Naturals, FiniteSets

CONSTANTS Posts, Users,
          Lowly,        \* users of reputation <= 25
          Requests,     \* the requests that may be in flight at a time
          NoOne,        \* post and user of a request that is not there
          Nodes,        \* number of hive_api_nodes
          Limit,        \* _RATE_LIMIT
          Connections,  \* db_pool_size + db_max_overflow
          MaxIds        \* bound on the rows of posts there ever are

ASSUME ReportsAssumption ==
  /\ IsFiniteSet(Requests) /\ Lowly \subseteq Users /\ NoOne \notin Posts \cup Users
  /\ Nodes \in Nat \ {0} /\ Limit \in Nat
  /\ Connections \in Nat \ {0} /\ MaxIds \in Nat

Ids == 1 .. MaxIds
None == 0      \* the id of no row

VARIABLES
  row,       \* row[p]: the id of p's row, or None
  lastId,
  reports,   \* the committed rows of post_reports: pairs of id and reporter
  slots,     \* slots[u]: the timestamps in _report_counts younger than _RATE_WINDOW
  request,   \* pc, user, post, the id read, and the node asked next
  accepted   \* history: accepted[id, u]: the answers 201

vars == <<row, lastId, reports, slots, request, accepted>>

Idle == [pc |-> "idle", user |-> NoOne, post |-> NoOne, id |-> None, node |-> 1]

TypeOK ==
  /\ row \in [Posts -> Ids \cup {None}] /\ lastId \in Ids \cup {None}
  /\ reports \subseteq Ids \X Users
  /\ slots \in [Users -> 0 .. Limit]
  /\ request \in [Requests ->
       [pc : {"idle", "waiting", "keys", "reputation", "limit", "insert", "commit"},
        user : Users \cup {NoOne}, post : Posts \cup {NoOne},
        id : Ids \cup {None}, node : 1 .. Nodes]]
  /\ accepted \in [Ids \X Users -> Nat]

Init ==
  /\ row = [p \in Posts |-> None] /\ lastId = None /\ reports = {}
  /\ slots = [u \in Users |-> 0]
  /\ request = [r \in Requests |-> Idle]
  /\ accepted = [x \in Ids \X Users |-> 0]

At(r, where) == request[r].pc = where
Goto(r, where) == request' = [request EXCEPT ![r].pc = where, ![r].node = 1]
Done(r) == request' = [request EXCEPT ![r] = Idle]
Report(r) == <<request[r].id, request[r].user>>
Holding == {r \in Requests : request[r].pc \notin {"idle", "waiting"}}

tables == <<row, lastId, reports>>

-----------------------------------------------------------------------------
(* submit_report *)

Submit(r, u, p) ==
  /\ At(r, "idle")
  /\ request' = [request EXCEPT ![r] = [Idle EXCEPT !.pc = "waiting", !.user = u, !.post = p]]
  /\ UNCHANGED <<tables, slots, accepted>>

\* Mutant: a request that waits for a connection counts as one that has one.
Lookup_greedy(r) ==
  /\ At(r, "waiting")
  /\ Cardinality({s \in Requests : ~At(s, "idle")}) <= Connections
  /\ LET id == row[request[r].post]
     IN  IF id = None THEN Done(r)
         ELSE request' = [request EXCEPT ![r].pc = "keys", ![r].id = id]
  /\ UNCHANGED <<tables, slots, accepted>>

\* A connection from the pool, and the post's row: 404 without one.
Lookup(r) ==
  /\ At(r, "waiting") /\ Cardinality(Holding) < Connections
  /\ LET id == row[request[r].post]
     IN  IF id = None THEN Done(r)
         ELSE request' = [request EXCEPT ![r].pc = "keys", ![r].id = id]
  /\ UNCHANGED <<tables, slots, accepted>>

\* A node does not answer, or not with JSON.  After the last one there are no
\* keys, and 403; but a reputation nobody knows is good enough.
NodeFails(r) ==
  /\ At(r, "keys") \/ At(r, "reputation")
  /\ IF request[r].node < Nodes
     THEN request' = [request EXCEPT ![r].node = @ + 1]
     ELSE IF At(r, "keys") THEN Done(r) ELSE Goto(r, "limit")
  /\ UNCHANGED <<tables, slots, accepted>>

\* The first answer counts, an error message too: without an account in it, or
\* if the signature is not by one of its keys, 403.
Keys(r) ==
  /\ At(r, "keys") /\ (Goto(r, "reputation") \/ Done(r))
  /\ UNCHANGED <<tables, slots, accepted>>

\* 403 for a low reputation; an answer without one lets everybody through.
Reputation(r) ==
  /\ At(r, "reputation")
  /\ Goto(r, "limit") \/ (request[r].user \in Lowly /\ Done(r))
  /\ UNCHANGED <<tables, slots, accepted>>

\* Mutant: one report more than the limit.
RateLimit_offByOne(r) ==
  LET u == request[r].user
  IN  /\ At(r, "limit")
      /\ IF slots[u] <= Limit
         THEN Goto(r, "insert") /\ slots' = [slots EXCEPT ![u] = @ + 1]
         ELSE Done(r) /\ UNCHANGED slots
      /\ UNCHANGED <<tables, accepted>>

\* _check_rate_limit: 429, or a slot, which a later failure does not give back.
RateLimit(r) ==
  LET u == request[r].user
  IN  /\ At(r, "limit")
      /\ IF slots[u] < Limit
         THEN Goto(r, "insert") /\ slots' = [slots EXCEPT ![u] = @ + 1]
         ELSE Done(r) /\ UNCHANGED slots
      /\ UNCHANGED <<tables, accepted>>

\* Mutant: the INSERT does not see what is not committed.
Insert_blind(r) ==
  /\ At(r, "insert")
  /\ IF row[request[r].post] # request[r].id \/ Report(r) \in reports
     THEN Done(r) ELSE Goto(r, "commit")
  /\ UNCHANGED <<tables, slots, accepted>>

\* The INSERT waits for another that has the same key and is not committed.
\* A row that is there already, and a post that has gone, are one
\* IntegrityError to the handler: 409.
Insert(r) ==
  /\ At(r, "insert")
  /\ \A s \in Requests \ {r} : At(s, "commit") => Report(s) # Report(r)
  /\ IF row[request[r].post] # request[r].id \/ Report(r) \in reports
     THEN Done(r) ELSE Goto(r, "commit")
  /\ UNCHANGED <<tables, slots, accepted>>

\* The connection breaks; retry_transient tries again with the broken session,
\* in vain: 500.
InsertFails(r) ==
  /\ At(r, "insert") /\ Done(r)
  /\ UNCHANGED <<tables, slots, accepted>>

\* 201
Commit(r) ==
  /\ At(r, "commit") /\ Done(r)
  /\ reports' = reports \cup {Report(r)}
  /\ accepted' = [accepted EXCEPT ![Report(r)] = @ + 1]
  /\ UNCHANGED <<row, lastId, slots>>

\* The connection breaks at the COMMIT, before or after the database took it.
CommitFails(r) ==
  /\ At(r, "commit") /\ Done(r)
  /\ reports' \in {reports, reports \cup {Report(r)}}
  /\ UNCHANGED <<row, lastId, slots, accepted>>

-----------------------------------------------------------------------------
(* The worker, and time *)

Save(p) ==
  /\ row[p] = None /\ lastId < MaxIds
  /\ lastId' = lastId + 1 /\ row' = [row EXCEPT ![p] = lastId + 1]
  /\ UNCHANGED <<reports, slots, request, accepted>>

\* The DELETE waits for an uncommitted report on the row, whose foreign key
\* holds a lock on it.
Delete(p) ==
  /\ row[p] # None
  /\ \A r \in Requests : At(r, "commit") => request[r].id # row[p]
  /\ row' = [row EXCEPT ![p] = None]
  /\ reports' = {x \in reports : x[1] # row[p]}
  /\ UNCHANGED <<lastId, slots, request, accepted>>

\* A timestamp gets older than the window.
Expire(u) ==
  /\ slots[u] > 0 /\ slots' = [slots EXCEPT ![u] = @ - 1]
  /\ UNCHANGED <<tables, request, accepted>>

Handle(r) ==
  \/ Lookup(r) \/ NodeFails(r) \/ Keys(r) \/ Reputation(r) \/ RateLimit(r)
  \/ Insert(r) \/ InsertFails(r) \/ Commit(r) \/ CommitFails(r)

Next ==
  \/ \E r \in Requests : Handle(r) \/ \E u \in Users, p \in Posts : Submit(r, u, p)
  \/ \E p \in Posts : Save(p) \/ Delete(p)
  \/ \E u \in Users : Expire(u)

\* Nodes answer within their timeout, the database does, and the pool serves
\* whoever waits for a connection.
Spec == Init /\ [][Next]_vars /\ \A r \in Requests : SF_vars(Handle(r))

-----------------------------------------------------------------------------
LiveIds == {row[p] : p \in Posts} \ {None}

\* A report answered with 201 is there as long as its post's row is, it was
\* answered so once, and no report outlives its row: with two tabs reporting at
\* once, a sweep in mid-request, and a COMMIT whose answer is lost.
AcceptedIsStored ==
  /\ \A x \in DOMAIN accepted :
       accepted[x] <= 1 /\ (accepted[x] = 1 /\ x[1] \in LiveIds => x \in reports)
  /\ \A x \in reports : x[1] \in LiveIds

\* Every request is answered: holding a connection through two rounds of slow
\* nodes, and waiting for each other's INSERT, the requests do not lock up.
Answered == \A r \in Requests : ~At(r, "idle") ~> At(r, "idle")
=============================================================================
