---------------------------- MODULE ReportsProofs ---------------------------
(***************************************************************************)
(* Proofs about misclassification reports, for every number of requests,   *)
(* posts, users, nodes and connections.                                    *)
(***************************************************************************)
EXTENDS Reports, FiniteSetTheorems, TLAPS

(* The inductive invariant.  That a report is accepted once rests on what  *)
(* holds between the INSERT and the COMMIT (Uncommitted): the row is there *)
(* still, and nobody has committed the same key or is about to.  That ids  *)
(* are never used twice (IdsUsedOnce) keeps an old acceptance from being   *)
(* mistaken for one of the row that has come back.                         *)
WellFormed ==
  \A r \in Requests :
    /\ ~At(r, "idle") => request[r].user \in Users /\ request[r].post \in Posts
    /\ r \in Holding => request[r].id \in Ids
IdsUsedOnce ==
  /\ \A p, q \in Posts : row[p] = row[q] /\ row[p] # None => p = q
  /\ \A p \in Posts : row[p] <= lastId
  /\ \A x \in Ids \X Users : accepted[x] > 0 => x[1] <= lastId
Uncommitted ==
  \A r \in Requests : At(r, "commit") =>
    /\ row[request[r].post] = request[r].id
    /\ Report(r) \notin reports /\ accepted[Report(r)] = 0
    /\ \A s \in Requests \ {r} : At(s, "commit") => Report(s) # Report(r)
(* A request that holds a connection has it from the pool. *)
PoolRespected == Cardinality(Holding) <= Connections

IInv ==
  /\ TypeOK /\ WellFormed /\ IdsUsedOnce /\ Uncommitted
  /\ AcceptedIsStored /\ PoolRespected

LEMMA InitIInv == Init => IInv
<1> SUFFICES ASSUME Init PROVE IInv
  OBVIOUS
<1> USE ReportsAssumption DEF Init, Idle, At
<1>1. TypeOK
  BY DEF TypeOK, None, Ids
<1>2. Holding = {}
  BY DEF Holding
<1>3. WellFormed /\ IdsUsedOnce /\ Uncommitted
  BY <1>2 DEF WellFormed, IdsUsedOnce, Uncommitted, None
<1>4. AcceptedIsStored
  BY DEF AcceptedIsStored
<1>5. PoolRespected
  BY <1>2, FS_EmptySet DEF PoolRespected
<1> QED BY <1>1, <1>3, <1>4, <1>5 DEF IInv

-----------------------------------------------------------------------------
(* Types *)

(* One request as the invariant wants it: TypeOK and WellFormed of one r.  *)
Sound(q) ==
  /\ q \in [pc : {"idle", "waiting", "keys", "reputation", "limit", "insert", "commit"},
            user : Users \cup {NoOne}, post : Posts \cup {NoOne},
            id : Ids \cup {None}, node : 1 .. Nodes]
  /\ q.pc # "idle" => q.user \in Users /\ q.post \in Posts
  /\ q.pc \notin {"idle", "waiting"} => q.id \in Ids

LEMMA RequestsSound ==
  ASSUME IInv, NEW r \in Requests
  PROVE  Sound(request[r])
BY DEF IInv, TypeOK, WellFormed, Sound, At, Holding

LEMMA IdleSound == Sound(Idle)
BY ReportsAssumption DEF Sound, Idle

LEMMA OneRequestChanges ==
  ASSUME IInv, NEW r \in Requests, NEW q, Sound(q),
         request' = [request EXCEPT ![r] = q]
  PROVE  /\ request' \in [Requests ->
              [pc : {"idle", "waiting", "keys", "reputation", "limit", "insert", "commit"},
               user : Users \cup {NoOne}, post : Posts \cup {NoOne},
               id : Ids \cup {None}, node : 1 .. Nodes]]
         /\ WellFormed'
<1>1. \A s \in Requests : request'[s] = IF s = r THEN q ELSE request[s]
  BY DEF IInv, TypeOK
<1>2. \A s \in Requests : Sound(request'[s])
  BY <1>1, RequestsSound
<1>3. request' = [s \in Requests |-> request'[s]]
  BY DEF IInv, TypeOK
<1> QED BY <1>2, <1>3 DEF Sound, WellFormed, At, Holding

(* What a handler may do with its own request and with the slots. *)
LEMMA HandleTypes ==
  ASSUME IInv, NEW r \in Requests, Handle(r)
  PROVE  TypeOK' /\ WellFormed'
<1> DEFINE old == request[r]
<1>1. PICK q : Sound(q) /\ request' = [request EXCEPT ![r] = q]
  <2>1. Sound(old) /\ request \in [Requests ->
          [pc : {"idle", "waiting", "keys", "reputation", "limit", "insert", "commit"},
           user : Users \cup {NoOne}, post : Posts \cup {NoOne},
           id : Ids \cup {None}, node : 1 .. Nodes]]
    BY RequestsSound DEF IInv, TypeOK
  <2>2. CASE Done(r)
    BY <2>2, IdleSound DEF Done
  <2>3. ASSUME NEW where \in {"reputation", "limit", "insert", "commit"}, Goto(r, where),
               old.pc \notin {"idle", "waiting"}
        PROVE  \E q : Sound(q) /\ request' = [request EXCEPT ![r] = q]
    <3> DEFINE q == [old EXCEPT !.pc = where, !.node = 1]
    <3>1. Sound(q)
      <4>1. 1 \in 1 .. Nodes
        BY ReportsAssumption
      <4>2. /\ old.user \in Users /\ old.post \in Posts /\ old.id \in Ids
            /\ q.pc = where /\ q.user = old.user /\ q.post = old.post /\ q.id = old.id
        BY <2>1, <2>3 DEF Sound
      <4>3. q \in [pc : {"idle", "waiting", "keys", "reputation", "limit", "insert", "commit"},
                   user : Users \cup {NoOne}, post : Posts \cup {NoOne},
                   id : Ids \cup {None}, node : 1 .. Nodes]
        BY <2>1, <2>3, <4>1 DEF Sound
      <4> QED BY <4>2, <4>3 DEF Sound
    <3>2. request' = [request EXCEPT ![r] = q]
      BY <2>1, <2>3 DEF Goto
    <3> QED BY <3>1, <3>2
  <2>4. CASE Lookup(r) /\ ~Done(r)
    <3> DEFINE id == row[old.post]
               q == [old EXCEPT !.pc = "keys", !.id = id]
    <3>1. old.pc = "waiting" /\ id # None
      BY <2>4 DEF Lookup, At
    <3>2. id \in Ids
      BY <2>1, <3>1 DEF IInv, TypeOK, Sound
    <3>3. Sound(q)
      BY <2>1, <3>1, <3>2 DEF Sound
    <3>4. request' = [request EXCEPT ![r] = q]
      BY <2>1, <2>4 DEF Lookup
    <3> QED BY <3>3, <3>4
  <2>5. CASE NodeFails(r) /\ old.node < Nodes
    <3> DEFINE q == [old EXCEPT !.node = @ + 1]
    <3>1. Sound(q)
      BY <2>1, <2>5, ReportsAssumption DEF Sound
    <3>2. request' = [request EXCEPT ![r] = q]
      BY <2>1, <2>5 DEF NodeFails
    <3> QED BY <3>1, <3>2
  <2> QED
    BY <2>2, <2>3, <2>4, <2>5
    DEF Handle, Lookup, NodeFails, Keys, Reputation, RateLimit, Insert, InsertFails,
        Commit, CommitFails, At
<1>2. /\ WellFormed'
      /\ request' \in [Requests ->
           [pc : {"idle", "waiting", "keys", "reputation", "limit", "insert", "commit"},
            user : Users \cup {NoOne}, post : Posts \cup {NoOne},
            id : Ids \cup {None}, node : 1 .. Nodes]]
  BY <1>1, OneRequestChanges
<1>3. row' = row /\ lastId' = lastId
  BY DEF Handle, Lookup, NodeFails, Keys, Reputation, RateLimit, Insert, InsertFails,
         Commit, CommitFails, tables
<1>4. slots' \in [Users -> 0 .. Limit]
  <2>1. CASE RateLimit(r)
    <3>1. request[r].user \in Users
      BY <2>1, RequestsSound DEF RateLimit, Sound, At
    <3> QED BY <2>1, <3>1, ReportsAssumption DEF RateLimit, IInv, TypeOK
  <2>2. CASE ~RateLimit(r)
    BY <2>2 DEF Handle, Lookup, NodeFails, Keys, Reputation, Insert, InsertFails,
                Commit, CommitFails, IInv, TypeOK
  <2> QED BY <2>1, <2>2
<1>5. reports' \subseteq Ids \X Users /\ accepted' \in [Ids \X Users -> Nat]
  <2>1. CASE Commit(r) \/ CommitFails(r)
    <3>1. Report(r) \in Ids \X Users
      BY <2>1, RequestsSound DEF Commit, CommitFails, Report, Sound, At
    <3> QED BY <2>1, <3>1 DEF Commit, CommitFails, IInv, TypeOK
  <2>2. CASE ~(Commit(r) \/ CommitFails(r))
    BY <2>2 DEF Handle, Lookup, NodeFails, Keys, Reputation, RateLimit, Insert,
                InsertFails, tables, IInv, TypeOK
  <2> QED BY <2>1, <2>2
<1> QED BY <1>2, <1>3, <1>4, <1>5 DEF IInv, TypeOK

LEMMA NextTypes == IInv /\ [Next]_vars => TypeOK' /\ WellFormed'
<1> SUFFICES ASSUME IInv, [Next]_vars PROVE TypeOK' /\ WellFormed'
  OBVIOUS
<1>1. ASSUME NEW r \in Requests, Handle(r) PROVE TypeOK' /\ WellFormed'
  BY <1>1, HandleTypes
<1>2. ASSUME NEW r \in Requests, NEW u \in Users, NEW p \in Posts, Submit(r, u, p)
      PROVE  TypeOK' /\ WellFormed'
  <2> DEFINE q == [Idle EXCEPT !.pc = "waiting", !.user = u, !.post = p]
  <2>1. Sound(q)
    <3>1. 1 \in 1 .. Nodes
      BY ReportsAssumption
    <3>2. q.pc = "waiting" /\ q.user = u /\ q.post = p
      BY DEF Idle
    <3>3. q \in [pc : {"idle", "waiting", "keys", "reputation", "limit", "insert", "commit"},
                 user : Users \cup {NoOne}, post : Posts \cup {NoOne},
                 id : Ids \cup {None}, node : 1 .. Nodes]
      BY <3>1 DEF Idle
    <3> QED BY <3>2, <3>3 DEF Sound
  <2>2. request' = [request EXCEPT ![r] = q]
    BY <1>2 DEF Submit
  <2> QED BY <1>2, <2>1, <2>2, OneRequestChanges DEF Submit, tables, IInv, TypeOK
<1> USE ReportsAssumption DEF IInv, TypeOK, WellFormed, At, Holding
<1>3. ASSUME NEW p \in Posts, Save(p) \/ Delete(p) PROVE TypeOK' /\ WellFormed'
  BY <1>3 DEF Save, Delete, None, Ids
<1>4. ASSUME NEW u \in Users, Expire(u) PROVE TypeOK' /\ WellFormed'
  BY <1>4 DEF Expire, tables
<1>5. CASE UNCHANGED vars
  BY <1>5 DEF vars
<1> QED BY <1>1, <1>2, <1>3, <1>4, <1>5 DEF Next

-----------------------------------------------------------------------------
(* Ids, and what stands between the INSERT and the COMMIT *)

LEMMA NextIds == IInv /\ [Next]_vars => IdsUsedOnce'
<1> SUFFICES ASSUME IInv, [Next]_vars PROVE IdsUsedOnce'
  OBVIOUS
<1> USE ReportsAssumption DEF IInv, TypeOK, IdsUsedOnce
<1>1. ASSUME NEW r \in Requests, Commit(r) PROVE IdsUsedOnce'
  <2>1. /\ Report(r) \in Ids \X Users /\ Report(r)[1] = row[request[r].post]
        /\ request[r].post \in Posts
    BY <1>1 DEF Commit, WellFormed, Holding, At, Report, Uncommitted
  <2> QED BY <1>1, <2>1 DEF Commit, Done
<1>2. ASSUME NEW r \in Requests, Handle(r), ~Commit(r) PROVE IdsUsedOnce'
  <2>1. UNCHANGED <<row, lastId, accepted>>
    BY <1>2 DEF Handle, Lookup, NodeFails, Keys, Reputation, RateLimit, Insert,
                InsertFails, CommitFails, tables
  <2> QED BY <2>1
<1>3. ASSUME NEW r \in Requests, NEW u \in Users, NEW p \in Posts, Submit(r, u, p)
      PROVE  IdsUsedOnce'
  BY <1>3 DEF Submit, tables
<1>4. ASSUME NEW p \in Posts, Save(p) PROVE IdsUsedOnce'
  BY <1>4 DEF Save, None, Ids
<1>5. ASSUME NEW p \in Posts, Delete(p) PROVE IdsUsedOnce'
  BY <1>5 DEF Delete, None, Ids
<1>6. ASSUME NEW u \in Users, Expire(u) PROVE IdsUsedOnce'
  BY <1>6 DEF Expire, tables
<1>7. CASE UNCHANGED vars
  BY <1>7 DEF vars
<1> QED BY <1>1, <1>2, <1>3, <1>4, <1>5, <1>6, <1>7 DEF Next

LEMMA AcceptedOnce ==
  ASSUME IInv, NEW x \in Ids \X Users
  PROVE  /\ accepted[x] \in Nat /\ accepted[x] <= 1
         /\ accepted[x] = 1 /\ x[1] \in LiveIds => x \in reports
<1>1. accepted[x] \in Nat /\ x \in DOMAIN accepted
  BY DEF IInv, TypeOK
<1>2. \A y \in DOMAIN accepted :
        accepted[y] <= 1 /\ (accepted[y] = 1 /\ y[1] \in LiveIds => y \in reports)
  BY Zenon DEF IInv, AcceptedIsStored
<1> QED BY <1>1, <1>2

(* Nobody else's step disturbs a report that waits for its COMMIT.         *)
LEMMA OthersLeaveCommit ==
  ASSUME IInv, NEW r \in Requests, Handle(r),
         NEW s \in Requests \ {r}, At(s, "commit")
  PROVE  /\ At(s, "commit")' /\ Report(s)' = Report(s)
         /\ request'[s] = request[s]
         /\ row' = row
         /\ Report(s) \notin reports' /\ accepted'[Report(s)] = 0
<1> USE DEF IInv, TypeOK
<1>1. /\ request'[s] = request[s] /\ row' = row
      /\ At(s, "commit")' /\ Report(s)' = Report(s)
  <2>1. request'[s] = request[s] /\ row' = row
    BY DEF Handle, Lookup, NodeFails, Keys, Reputation, RateLimit, Insert, InsertFails,
           Commit, CommitFails, Done, Goto, tables
  <2> QED BY <2>1 DEF At, Report
<1>2. Report(s) \notin reports /\ accepted[Report(s)] = 0
  BY DEF Uncommitted
<1>3. CASE Commit(r) \/ CommitFails(r)
  <2>1. Report(s) # Report(r)
    BY <1>3 DEF Uncommitted, Commit, CommitFails
  <2>2. Report(s) \in Ids \X Users
    BY RequestsSound DEF Sound, At, Report
  <2> QED BY <1>1, <1>2, <1>3, <2>1, <2>2 DEF Commit, CommitFails
<1>4. CASE ~(Commit(r) \/ CommitFails(r))
  <2>1. reports' = reports /\ accepted' = accepted
    BY <1>4 DEF Handle, Lookup, NodeFails, Keys, Reputation, RateLimit, Insert,
                InsertFails, tables
  <2> QED BY <1>1, <1>2, <2>1
<1> QED BY <1>3, <1>4

LEMMA HandleUncommitted ==
  ASSUME IInv, NEW r \in Requests, Handle(r)
  PROVE  Uncommitted'
(* Only Insert makes a report wait for its COMMIT. *)
<1>1. ASSUME At(r, "commit")'
      PROVE  /\ Insert(r) /\ request'[r].id = request[r].id
             /\ request'[r].post = request[r].post /\ request'[r].user = request[r].user
  BY <1>1 DEF Handle, Lookup, NodeFails, Keys, Reputation, RateLimit, Insert,
              InsertFails, Commit, CommitFails, Done, Goto, Idle, At, IInv, TypeOK
<1>2. ASSUME At(r, "commit")'
      PROVE  /\ row'[request'[r].post] = request'[r].id
             /\ Report(r)' \notin reports' /\ accepted'[Report(r)'] = 0
             /\ \A s \in Requests \ {r} : At(s, "commit") => Report(s) # Report(r)'
  <2>1. Report(r)' = Report(r)
    BY <1>1, <1>2 DEF Report
  <2>2. /\ row' = row /\ reports' = reports /\ accepted' = accepted
        /\ row[request[r].post] = request[r].id /\ Report(r) \notin reports
        /\ \A s \in Requests \ {r} : At(s, "commit") => Report(s) # Report(r)
    BY <1>1, <1>2 DEF Insert, Done, Idle, At, tables, IInv, TypeOK
  <2>3. /\ Report(r) \in Ids \X Users /\ Report(r)[1] = request[r].id
        /\ request[r].post \in Posts
    BY <1>1, <1>2 DEF WellFormed, Holding, Report, Insert, At, IInv
  <2>4. request[r].id \in LiveIds
    BY <2>2, <2>3, ReportsAssumption DEF LiveIds, Report, None, Ids
  <2>5. accepted[Report(r)] = 0
    <3>1. /\ accepted[Report(r)] \in Nat /\ accepted[Report(r)] <= 1
          /\ accepted[Report(r)] = 1 => Report(r) \in reports
      <4>1. Report(r)[1] \in LiveIds
        BY <2>3, <2>4
      <4> QED BY <2>3, <4>1, AcceptedOnce
    <3> QED BY <2>2, <3>1
  <2> QED BY <1>1, <1>2, <2>1, <2>2, <2>5
<1>3. ASSUME NEW s \in Requests \ {r}, At(s, "commit")'
      PROVE  At(s, "commit") /\ Report(s)' = Report(s)
  BY <1>3 DEF Handle, Lookup, NodeFails, Keys, Reputation, RateLimit, Insert, InsertFails,
              Commit, CommitFails, Done, Goto, At, Report, IInv, TypeOK
<1>4. ASSUME NEW s \in Requests \ {r}, At(s, "commit")'
      PROVE  /\ row'[request'[s].post] = request'[s].id
             /\ Report(s)' \notin reports' /\ accepted'[Report(s)'] = 0
  BY <1>3, <1>4, OthersLeaveCommit DEF Uncommitted, IInv
<1>5. ASSUME NEW s \in Requests, NEW t \in Requests \ {s}, At(s, "commit")', At(t, "commit")'
      PROVE  Report(s)' # Report(t)'
  <2>1. CASE s = r
    BY <1>2, <1>3, <1>5, <2>1
  <2>2. CASE t = r
    BY <1>2, <1>3, <1>5, <2>2
  <2>3. CASE s # r /\ t # r
    BY <1>3, <1>5, <2>3 DEF Uncommitted, IInv
  <2> QED BY <2>1, <2>2, <2>3
<1> QED BY <1>2, <1>4, <1>5 DEF Uncommitted

LEMMA NextUncommitted == IInv /\ [Next]_vars => Uncommitted'
<1> SUFFICES ASSUME IInv, [Next]_vars PROVE Uncommitted'
  OBVIOUS
<1>1. ASSUME NEW r \in Requests, Handle(r) PROVE Uncommitted'
  BY <1>1, HandleUncommitted
<1> USE DEF IInv, TypeOK, Uncommitted, At, Report
<1>2. ASSUME NEW r \in Requests, NEW u \in Users, NEW p \in Posts, Submit(r, u, p)
      PROVE  Uncommitted'
  BY <1>2 DEF Submit, Idle, tables
<1>3. ASSUME NEW p \in Posts, Save(p) PROVE Uncommitted'
  <2>1. ASSUME NEW r \in Requests, At(r, "commit")
        PROVE  request[r].post # p /\ request[r].post \in Posts
    <3>1. request[r].post \in Posts /\ request[r].id \in Ids
      BY <2>1, RequestsSound DEF Sound
    <3>2. row[request[r].post] = request[r].id
      BY <2>1
    <3>3. row[p] = None /\ None \notin Ids
      BY <1>3 DEF Save, None, Ids
    <3> QED BY <3>1, <3>2, <3>3
  <2> QED BY <1>3, <2>1 DEF Save
<1>4. ASSUME NEW p \in Posts, Delete(p) PROVE Uncommitted'
  <2>1. ASSUME NEW r \in Requests, At(r, "commit")
        PROVE  request[r].post # p /\ request[r].post \in Posts
    BY <1>4, <2>1 DEF Delete, WellFormed, Holding
  <2> QED BY <1>4, <2>1 DEF Delete
<1>5. ASSUME NEW u \in Users, Expire(u) PROVE Uncommitted'
  BY <1>5 DEF Expire, tables
<1>6. CASE UNCHANGED vars
  BY <1>6 DEF vars
<1> QED BY <1>1, <1>2, <1>3, <1>4, <1>5, <1>6 DEF Next

-----------------------------------------------------------------------------
(* What was accepted is stored *)

(* AcceptedIsStored, row by row. *)
LEMMA StoredFromParts ==
  ASSUME accepted' \in [Ids \X Users -> Nat],
         \A x \in Ids \X Users :
           /\ accepted'[x] <= 1
           /\ accepted'[x] = 1 /\ x[1] \in LiveIds' => x \in reports',
         \A x \in reports' : x[1] \in LiveIds'
  PROVE  AcceptedIsStored'
<1>1. DOMAIN accepted' = Ids \X Users
  OBVIOUS
<1> QED BY <1>1, Zenon DEF AcceptedIsStored

LEMMA CommitStores ==
  ASSUME IInv, TypeOK', NEW r \in Requests, Commit(r) \/ CommitFails(r)
  PROVE  AcceptedIsStored'
<1> DEFINE y == Report(r)
<1>1. y \in Ids \X Users /\ y[1] = request[r].id
  BY RequestsSound DEF Sound, Report, Commit, CommitFails, At
<1>2. accepted[y] = 0 /\ y[1] \in LiveIds
  <2>1. accepted[y] = 0 /\ row[request[r].post] = request[r].id
    BY DEF IInv, Uncommitted, Commit, CommitFails
  <2>2. request[r].post \in Posts /\ request[r].id # None
    BY RequestsSound, ReportsAssumption DEF Sound, Commit, CommitFails, At, None, Ids
  <2> QED BY <1>1, <2>1, <2>2 DEF LiveIds
<1>3. LiveIds' = LiveIds
  BY DEF Commit, CommitFails, LiveIds
<1>4. \A x \in reports : x[1] \in LiveIds
  BY DEF IInv, AcceptedIsStored
<1> HIDE DEF y
<1>5. reports' \subseteq reports \cup {y} /\ reports \subseteq reports'
  BY DEF Commit, CommitFails, y
<1>6. \A x \in reports' : x[1] \in LiveIds'
  BY <1>2, <1>3, <1>4, <1>5
<1>7. ASSUME NEW x \in Ids \X Users
      PROVE  /\ accepted'[x] <= 1
             /\ accepted'[x] = 1 /\ x[1] \in LiveIds' => x \in reports'
  <2>1. CASE Commit(r) /\ x = y
    <3>1. accepted'[x] = accepted[y] + 1 /\ x \in reports'
      BY <1>1, <2>1 DEF Commit, IInv, TypeOK, y
    <3> QED BY <1>2, <3>1
  <2>2. CASE CommitFails(r) \/ x # y
    <3>1. accepted'[x] = accepted[x]
      BY <1>1, <2>2 DEF Commit, CommitFails, IInv, TypeOK, y
    <3> QED BY <1>3, <1>5, <3>1, AcceptedOnce
  <2> QED BY <2>1, <2>2
<1>8. accepted' \in [Ids \X Users -> Nat]
  BY DEF TypeOK
<1> QED BY <1>6, <1>7, <1>8, StoredFromParts

(* A post that comes back has an id no report was ever accepted for. *)
LEMMA SaveKeepsStored ==
  ASSUME IInv, TypeOK', NEW p \in Posts, Save(p)
  PROVE  AcceptedIsStored'
<1>1. /\ accepted' = accepted /\ reports' = reports /\ lastId \in Nat
      /\ accepted' \in [Ids \X Users -> Nat]
  BY DEF Save, TypeOK, IInv, Ids, None
<1>2. LiveIds' = LiveIds \cup {lastId + 1}
  BY ReportsAssumption DEF Save, LiveIds, IInv, TypeOK, None, Ids
<1>3. \A x \in reports' : x[1] \in LiveIds'
  BY <1>1, <1>2 DEF IInv, AcceptedIsStored
<1>4. ASSUME NEW x \in Ids \X Users
      PROVE  /\ accepted'[x] <= 1
             /\ accepted'[x] = 1 /\ x[1] \in LiveIds' => x \in reports'
  <2>1. accepted[x] > 0 => x[1] <= lastId
    BY DEF IInv, IdsUsedOnce
  <2>2. x[1] \in Nat
    BY DEF Ids
  <2> QED BY <1>1, <1>2, <2>1, <2>2, AcceptedOnce
<1> QED BY <1>1, <1>3, <1>4, StoredFromParts

(* The reports on a row go with it, and the others stay. *)
LEMMA DeleteKeepsStored ==
  ASSUME IInv, TypeOK', NEW p \in Posts, Delete(p)
  PROVE  AcceptedIsStored'
<1>1. /\ accepted' = accepted /\ reports' = {x \in reports : x[1] # row[p]}
      /\ accepted' \in [Ids \X Users -> Nat]
  BY DEF Delete, TypeOK
<1>2. LiveIds' = LiveIds \ {row[p]}
  BY DEF Delete, LiveIds, IInv, TypeOK, IdsUsedOnce
<1>3. \A x \in reports : x[1] \in LiveIds
  BY DEF IInv, AcceptedIsStored
<1>4. \A x \in reports' : x[1] \in LiveIds'
  BY <1>1, <1>2, <1>3
<1>5. ASSUME NEW x \in Ids \X Users
      PROVE  /\ accepted'[x] <= 1
             /\ accepted'[x] = 1 /\ x[1] \in LiveIds' => x \in reports'
  BY <1>1, <1>2, AcceptedOnce
<1> QED BY <1>1, <1>4, <1>5, StoredFromParts

LEMMA NextStored == IInv /\ TypeOK' /\ [Next]_vars => AcceptedIsStored'
<1> SUFFICES ASSUME IInv, TypeOK', [Next]_vars PROVE AcceptedIsStored'
  OBVIOUS
<1>1. CASE UNCHANGED <<row, reports, accepted>>
  BY <1>1 DEF IInv, AcceptedIsStored, LiveIds
<1>2. ASSUME NEW r \in Requests, Handle(r) PROVE AcceptedIsStored'
  <2>1. CASE Commit(r) \/ CommitFails(r)
    BY <2>1, CommitStores
  <2>2. CASE ~(Commit(r) \/ CommitFails(r))
    BY <1>1, <1>2, <2>2
    DEF Handle, Lookup, NodeFails, Keys, Reputation, RateLimit, Insert, InsertFails, tables
  <2> QED BY <2>1, <2>2
<1>3. ASSUME NEW p \in Posts, Save(p) \/ Delete(p) PROVE AcceptedIsStored'
  BY <1>3, SaveKeepsStored, DeleteKeepsStored
<1>4. ASSUME \/ \E r \in Requests, u \in Users, p \in Posts : Submit(r, u, p)
             \/ \E u \in Users : Expire(u)
      PROVE  AcceptedIsStored'
  BY <1>1, <1>4 DEF Submit, Expire, tables
<1> QED BY <1>1, <1>2, <1>3, <1>4 DEF Next, vars

-----------------------------------------------------------------------------
(* The pool *)

LEMMA NextPool == IInv /\ [Next]_vars => PoolRespected'
<1> SUFFICES ASSUME IInv, [Next]_vars PROVE PoolRespected'
  OBVIOUS
<1>1. IsFiniteSet(Holding) /\ Cardinality(Holding) \in Nat
  BY FS_Subset, FS_CardinalityType, ReportsAssumption DEF Holding
<1>2. ASSUME Holding' \subseteq Holding PROVE PoolRespected'
  <2>1. Cardinality(Holding') <= Cardinality(Holding) /\ Cardinality(Holding') \in Nat
    BY <1>1, <1>2, FS_Subset, FS_CardinalityType
  <2> QED BY <1>1, <2>1, ReportsAssumption DEF IInv, PoolRespected
<1>3. ASSUME NEW r \in Requests, Lookup(r) PROVE PoolRespected'
  <2>1. Holding' \subseteq Holding \cup {r}
    BY <1>3 DEF Lookup, Done, Holding, IInv, TypeOK
  <2>2. /\ IsFiniteSet(Holding \cup {r})
        /\ Cardinality(Holding \cup {r}) <= Cardinality(Holding) + 1
        /\ Cardinality(Holding \cup {r}) \in Nat
    BY <1>1, FS_AddElement, FS_CardinalityType
  <2>3. Cardinality(Holding') <= Cardinality(Holding \cup {r})
        /\ Cardinality(Holding') \in Nat
    BY <2>1, <2>2, FS_Subset, FS_CardinalityType
  <2>4. Cardinality(Holding) < Connections
    BY <1>3 DEF Lookup
  <2> QED BY <1>1, <2>2, <2>3, <2>4, ReportsAssumption DEF PoolRespected
<1>4. ASSUME NEW r \in Requests, Handle(r), ~Lookup(r) PROVE Holding' \subseteq Holding
  BY <1>4 DEF Handle, NodeFails, Keys, Reputation, RateLimit, Insert, InsertFails, Commit,
              CommitFails, Goto, Done, Idle, At, Holding, IInv, TypeOK
<1>5. ASSUME NEW r \in Requests, NEW u \in Users, NEW p \in Posts, Submit(r, u, p)
      PROVE  Holding' \subseteq Holding
  BY <1>5 DEF Submit, Holding, IInv, TypeOK, Idle
<1>6. ASSUME \/ \E p \in Posts : Save(p) \/ Delete(p)
             \/ \E u \in Users : Expire(u)
             \/ UNCHANGED vars
      PROVE  Holding' \subseteq Holding
  BY <1>6 DEF Save, Delete, Expire, vars, Holding
<1> QED BY <1>2, <1>3, <1>4, <1>5, <1>6 DEF Next

-----------------------------------------------------------------------------
(* The theorems *)

LEMMA Invariance == Spec => []IInv
<1>1. Init => IInv
  BY InitIInv
<1>2. IInv /\ [Next]_vars => IInv'
  BY NextTypes, NextIds, NextUncommitted, NextStored, NextPool DEF IInv
<1> QED BY <1>1, <1>2, PTL DEF Spec

(* Type correctness: among it that nobody has more reports in the window   *)
(* than the rate limit allows (_check_rate_limit, reports.py).             *)
THEOREM TypeCorrect == Spec => []TypeOK
<1>1. IInv => TypeOK
  BY DEF IInv
<1> QED BY <1>1, Invariance, PTL

(* A report is answered with 201 at most once for a row and a reporter, it *)
(* stays in the database as long as the row does, and none outlives its    *)
(* row: for any number of requests in flight and sweeps between their      *)
(* steps (submit_report, reports.py).                                      *)
THEOREM AcceptedReportsAreStored == Spec => []AcceptedIsStored
<1>1. IInv => AcceptedIsStored
  BY DEF IInv
<1> QED BY <1>1, Invariance, PTL

(* Between its INSERT and its COMMIT a report is the only one with its key *)
(* and its post's row does not change.                                     *)
THEOREM UncommittedIsAlone == Spec => []Uncommitted
<1>1. IInv => Uncommitted
  BY DEF IInv
<1> QED BY <1>1, Invariance, PTL

(* However slow the nodes are, the requests hold no more connections than  *)
(* the pool has.                                                           *)
THEOREM PoolIsRespected == Spec => []PoolRespected
<1>1. IInv => PoolRespected
  BY DEF IInv
<1> QED BY <1>1, Invariance, PTL
=============================================================================
