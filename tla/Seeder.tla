-------------------------------- MODULE Seeder ------------------------------
(***************************************************************************)
(* The seeding script (src/scripts/seed_categories.py) up to the point     *)
(* where its labels are complete: a fetcher thread that walks HAFSQL and   *)
(* fills a bounded queue, a classifier thread that has a language model    *)
(* label what it takes from the queue, and the main thread, which puts the *)
(* unlabelled posts of the checkpoint in front, waits, handles Ctrl-C,     *)
(* saves the checkpoint, and may start a second, targeted pass.            *)
(*                                                                         *)
(* The script is run again and again over one checkpoint file.  A post is  *)
(* a number, the newest the highest; what a label says is left out.        *)
(***************************************************************************)
EXTENDS Naturals, Sequences, FiniteSets, FiniteSetsExt, SequencesExt, Orders

CONSTANTS NPosts,     \* posts HAFSQL has in the end
          Old,        \* those it has at the first start
          Poor,       \* posts of low reputation, or with a body that is a patch
          Tagged,     \* posts the Hive API lists under the tags of weak categories
          Target,     \* --posts
          QueueSize,  \* maxsize of a queue
          PageSize,   \* batch_size of the fetcher
          MaxErrors,  \* max_retries of the fetcher
          Every,      \* --checkpoint-every
          MaxRuns     \* bound on how often the script is started

HivePosts == 1 .. NPosts
End == 0              \* None, the end marker in a queue

ASSUME SeederAssumption ==
  /\ NPosts \in Nat \ {0} /\ Old \in HivePosts
  /\ Poor \subseteq HivePosts /\ Tagged \subseteq HivePosts
  /\ Target \in Nat \ {0} /\ QueueSize \in Nat \ {0} /\ PageSize \in Nat \ {0}
  /\ MaxErrors \in Nat \ {0} /\ Every \in Nat \ {0} /\ MaxRuns \in Nat

VARIABLES
  newest,    \* the newest post HAFSQL has
  runs, mode,
  file,      \* checkpoint.json; a torn one holds nothing that can be read
  best,      \* history: the labels that a checkpoint has held, since --resume was left out
  cutShort,  \* history: the script ended while it wrote the file that is there
  \* main
  main, phase,
  exiting,   \* the save is the one of an interrupt
  overflow,  \* prefill_overflow
  \* shared by the threads
  queue, stop, fetchDone,
  known,     \* the keys in all_posts
  labels,    \* labels[p]: how often p is in labeled
  seen,      \* seen_keys
  \* the fetcher: pc, want (n_posts), fetched, cursor, upper (start_ts), rows
  \* left of the batch, errors (retries)
  fetch,
  \* the classifier
  cls, hand,
  count      \* classified, modulo Every

shared == <<queue, stop, fetchDone>>
memory == <<known, labels, seen>>
mainVars == <<main, phase, exiting, overflow>>
clsVars == <<cls, hand, count>>
life == <<newest, runs, mode>>
disk == <<file, best, cutShort>>
seederVars == <<newest, runs, mode, file, best, cutShort, main, phase, exiting, overflow, queue, stop,
                fetchDone, known, labels, seen, fetch, cls, hand, count>>

MaxLabels == 2 * MaxRuns
Unlabelled == [p \in HivePosts |-> 0]
Torn == [kind |-> "torn", posts |-> {}, labels |-> Unlabelled]
NoFetcher == [pc |-> "off", want |-> 0, fetched |-> 0, cursor |-> NPosts + 1,
              upper |-> NPosts, rows |-> {}, errors |-> 0]

SeederTypeOK ==
  /\ newest \in HivePosts /\ runs \in 0 .. MaxRuns
  /\ mode \in {"fresh", "resume", "incremental"}
  /\ file \in [kind : {"none", "good", "torn"}, posts : SUBSET HivePosts,
               labels : [HivePosts -> 0 .. MaxLabels]]
  /\ best \in [HivePosts -> 0 .. MaxLabels] /\ cutShort \in BOOLEAN
  /\ main \in {"off", "drain", "wait", "stopping", "save", "writing", "saved", "target"}
  /\ phase \in {"broad", "targeted"} /\ exiting \in BOOLEAN
  /\ overflow \in SUBSET HivePosts
  /\ queue \in BoundedSeq(HivePosts \cup {End}, QueueSize)
  /\ stop \in BOOLEAN /\ fetchDone \in BOOLEAN
  /\ known \in SUBSET HivePosts /\ seen \in SUBSET HivePosts
  /\ labels \in [HivePosts -> 0 .. MaxLabels]
  /\ fetch \in [pc : {"off", "connect", "query", "rows", "closing", "flag"}, want : Nat,
                fetched : Nat, cursor : 1 .. NPosts + 1, upper : HivePosts,
                rows : SUBSET HivePosts, errors : 0 .. MaxErrors - 1]
  /\ cls \in {"off", "loop", "get", "empty", "holding", "asking", "full", "writing"}
  /\ hand \in HivePosts \cup {End} /\ count \in 0 .. Every - 1

Down ==
  /\ main = "off" /\ phase = "broad" /\ exiting = FALSE /\ overflow = {}
  /\ queue = <<>> /\ stop = FALSE /\ fetchDone = FALSE
  /\ known = {} /\ labels = Unlabelled /\ seen = {}
  /\ fetch = NoFetcher /\ cls = "off" /\ hand = End /\ count = 0

SeederInit ==
  /\ newest = Old /\ runs = 0 /\ mode = "fresh"
  /\ file = [kind |-> "none", posts |-> {}, labels |-> Unlabelled]
  /\ best = Unlabelled /\ cutShort = FALSE
  /\ Down

Room == Len(queue) < QueueSize

\* The lock, while one of the two writes the checkpoint.
Unlocked == main # "writing" /\ cls # "writing"
Writing == ~Unlocked

-----------------------------------------------------------------------------
(* The main thread: start *)

\* Mutant: --resume drops the labels of posts it does not queue.
Loaded_posts(m) ==
  IF m # "fresh" /\ file.kind = "good"
  THEN [posts |-> file.posts, labels |-> Unlabelled]
  ELSE [posts |-> {}, labels |-> Unlabelled]

Loaded(m) ==
  IF m # "fresh" /\ file.kind = "good"
  THEN [posts |-> file.posts, labels |-> file.labels]
  ELSE [posts |-> {}, labels |-> Unlabelled]

\* remaining_to_fetch
Want(m, n) == IF m = "incremental" THEN Target ELSE Target - Min({n, Target})

\* The checkpoint is read, its unlabelled posts are queued as far as they fit,
\* and the threads are started.  A torn checkpoint stops --resume at once.
Start(m) ==
  /\ main = "off" /\ runs < MaxRuns
  /\ m = "fresh" \/ file.kind # "torn"
  /\ runs' = runs + 1 /\ mode' = m
  /\ LET old == Loaded(m)
         cached == InOrder({p \in old.posts : old.labels[p] = 0})
         want == Want(m, Cardinality(old.posts))
     IN  /\ known' = old.posts /\ seen' = old.posts /\ labels' = old.labels
         /\ queue' = SubSeq(cached, 1, Min({Len(cached), QueueSize}))
         /\ overflow' = ToSet(SubSeq(cached, QueueSize + 1, Len(cached)))
         /\ fetch' = [NoFetcher EXCEPT !.pc = IF want > 0 THEN "connect" ELSE "off",
                                       !.want = want]
  /\ main' = "drain" /\ cls' = "loop"
  /\ best' = IF m = "fresh" THEN Unlabelled ELSE file.labels
  /\ UNCHANGED <<newest, file, cutShort, phase, exiting, stop, fetchDone, hand, count>>

\* What did not fit is put with a blocking put.
Drain ==
  /\ main = "drain" /\ overflow # {} /\ Room
  /\ overflow' = overflow \ {Max(overflow)} /\ queue' = Append(queue, Max(overflow))
  /\ UNCHANGED <<life, disk, main, phase, exiting, stop, fetchDone, memory, fetch, clsVars>>

\* Without a fetcher main ends the queue itself.
EndInput ==
  /\ main = "drain" /\ overflow = {}
  /\ IF fetch.want > 0
     THEN UNCHANGED <<queue, fetchDone>>
     ELSE Room /\ queue' = Append(queue, End) /\ fetchDone' = TRUE
  /\ main' = "wait"
  /\ UNCHANGED <<life, disk, phase, exiting, overflow, stop, memory, fetch, clsVars>>

\* The classifier has ended.  The fetcher, if it still runs, is waited for 10 s
\* and then forgotten; nobody takes from its queue any more.
Finish ==
  /\ main = "wait" /\ cls = "off"
  /\ main' = "save" /\ fetch' = [fetch EXCEPT !.pc = "off"]
  /\ UNCHANGED <<life, disk, phase, exiting, overflow, shared, memory, clsVars>>

\* Ctrl-C in one of the two join loops.
Interrupt ==
  /\ main = "wait" /\ cls # "off"
  /\ main' = "stopping" /\ stop' = TRUE
  /\ UNCHANGED <<life, disk, phase, exiting, overflow, queue, fetchDone, memory, fetch, clsVars>>

\* Five seconds are enough for the classifier's own steps, not for an answer of
\* the model.
StopWaiting ==
  /\ main = "stopping" /\ cls \in {"off", "asking"}
  /\ main' = "save" /\ exiting' = TRUE
  /\ UNCHANGED <<life, disk, phase, overflow, shared, memory, fetch, clsVars>>

\* _save_checkpoint, by main: write_text empties the file and fills it.
SaveBegin ==
  /\ main = "save" /\ Unlocked
  /\ main' = "writing" /\ file' = Torn
  /\ UNCHANGED <<life, best, cutShort, phase, exiting, overflow, shared, memory, fetch, clsVars>>

\* The file is complete, with all that is in memory.
Written ==
  /\ file' = [kind |-> "good", posts |-> known, labels |-> labels]
  /\ best' = [p \in HivePosts |-> Max({best[p], labels[p]})]
  /\ cutShort' = FALSE

SaveEnd ==
  /\ main = "writing"
  /\ main' = "saved" /\ Written
  /\ UNCHANGED <<life, phase, exiting, overflow, shared, memory, fetch, clsVars>>

\* The end, with all that is in memory: after the save of an interrupt, after
\* the targeted pass, or without --stratify; and at a crash, or a Ctrl-C
\* outside the join loops, at any time.  A classifier that still runs is cut off,
\* for it is a daemon thread.
AllDown ==
  /\ main' = "off" /\ phase' = "broad" /\ exiting' = FALSE /\ overflow' = {}
  /\ queue' = <<>> /\ stop' = FALSE /\ fetchDone' = FALSE
  /\ known' = {} /\ labels' = Unlabelled /\ seen' = {}
  /\ fetch' = NoFetcher /\ cls' = "off" /\ hand' = End /\ count' = 0
  /\ cutShort' = (cutShort \/ Writing)
  /\ UNCHANGED <<life, file, best>>

Exit == main = "saved" /\ AllDown
Kill == main # "off" /\ AllDown

\* --stratify, when a category has too few posts.  status keeps the fetch_done
\* of the first pass.
Stratify ==
  /\ main = "saved" /\ phase = "broad" /\ ~exiting
  /\ main' = "target" /\ phase' = "targeted"
  /\ seen' = known /\ queue' = <<>> /\ hand' = End /\ count' = 0
  /\ UNCHANGED <<life, disk, exiting, overflow, stop, fetchDone, known, labels, fetch, cls>>

\* fetch_targeted, run by main: the posts the API lists under the tags, page by
\* page.  Nobody takes from the queue yet, so a full one blocks main.
TargetPut(p) ==
  /\ main = "target" /\ p \notin seen \cup Poor /\ p <= newest /\ Room
  /\ seen' = seen \cup {p} /\ queue' = Append(queue, p)
  /\ UNCHANGED <<life, disk, mainVars, stop, fetchDone, known, labels, fetch, clsVars>>

\* The limits are reached, the tags are done, or no node answers.
TargetEnd ==
  /\ main = "target" /\ Room
  /\ queue' = Append(queue, End) /\ fetchDone' = TRUE
  /\ main' = "wait" /\ cls' = "loop"
  /\ UNCHANGED <<life, disk, phase, exiting, overflow, stop, memory, fetch, hand, count>>

-----------------------------------------------------------------------------
(* The fetcher thread *)

fetcherKeeps == <<life, disk, mainVars, stop, memory, clsVars>>

\* The newest post is taken as the upper bound; when that query fails, none is.
Connect ==
  /\ fetch.pc = "connect"
  /\ \E upper \in {newest, NPosts} : fetch' = [fetch EXCEPT !.pc = "query", !.upper = upper]
  /\ UNCHANGED <<fetcherKeeps, queue, fetchDone>>

NoConnection ==
  /\ fetch.pc = "connect"
  /\ fetch' = [fetch EXCEPT !.pc = "closing"]
  /\ UNCHANGED <<fetcherKeeps, queue, fetchDone>>

Fetched ==
  LET below == {p \in HivePosts : p <= newest /\ p <= fetch.upper /\ p < fetch.cursor}
  IN  {p \in below : Cardinality({q \in below : q >= p}) <= PageSize}

Fetching == fetch.fetched < fetch.want /\ ~stop

\* Nothing is left, or the last row has no time for the cursor: the end.
Query ==
  /\ fetch.pc = "query" /\ Fetching
  /\ \/ fetch' = [fetch EXCEPT !.pc = "closing", !.errors = 0]
     \/ /\ Fetched # {}
        /\ fetch' = [fetch EXCEPT !.pc = "rows", !.rows = Fetched, !.cursor = Min(Fetched),
                                 !.errors = 0]
  /\ UNCHANGED <<fetcherKeeps, queue, fetchDone>>

\* Mutant: one try too many.
QueryFails_offByOne ==
  /\ fetch.pc = "query" /\ Fetching
  /\ fetch' = IF fetch.errors >= MaxErrors
              THEN [fetch EXCEPT !.pc = "closing"]
              ELSE [fetch EXCEPT !.errors = @ + 1]
  /\ UNCHANGED <<fetcherKeeps, queue, fetchDone>>

QueryFails ==
  /\ fetch.pc = "query" /\ Fetching
  /\ fetch' = IF fetch.errors + 1 >= MaxErrors
              THEN [fetch EXCEPT !.pc = "closing"]
              ELSE [fetch EXCEPT !.errors = @ + 1]
  /\ UNCHANGED <<fetcherKeeps, queue, fetchDone>>

QueryDone ==
  /\ fetch.pc = "query" /\ ~Fetching
  /\ fetch' = [fetch EXCEPT !.pc = "closing"]
  /\ UNCHANGED <<fetcherKeeps, queue, fetchDone>>

\* One row: a poor one is passed over, any other is put, which waits for room.
Row ==
  /\ fetch.pc = "rows" /\ fetch.rows # {} /\ Fetching
  /\ LET p == Max(fetch.rows)
         left == [fetch EXCEPT !.rows = @ \ {p}]
     IN  IF p \in Poor
         THEN fetch' = left /\ UNCHANGED queue
         ELSE Room /\ fetch' = [left EXCEPT !.fetched = @ + 1] /\ queue' = Append(queue, p)
  /\ UNCHANGED <<fetcherKeeps, fetchDone>>

RowsDone ==
  /\ fetch.pc = "rows" /\ (fetch.rows = {} \/ ~Fetching)
  /\ fetch' = [fetch EXCEPT !.pc = "query", !.rows = {}]
  /\ UNCHANGED <<fetcherKeeps, queue, fetchDone>>

\* The end marker first, then the flag.
Close ==
  /\ fetch.pc = "closing" /\ Room
  /\ queue' = Append(queue, End) /\ fetch' = [fetch EXCEPT !.pc = "flag"]
  /\ UNCHANGED <<fetcherKeeps, fetchDone>>

SetDone ==
  /\ fetch.pc = "flag"
  /\ fetchDone' = TRUE /\ fetch' = [fetch EXCEPT !.pc = "off"]
  /\ UNCHANGED <<fetcherKeeps, queue>>

-----------------------------------------------------------------------------
(* The classifier thread *)

clsKeeps == <<life, mainVars, stop, fetchDone, fetch>>

Loop ==
  /\ cls = "loop" /\ cls' = IF stop THEN "off" ELSE "get"
  /\ UNCHANGED <<clsKeeps, disk, queue, memory, hand, count>>

Get ==
  /\ cls = "get" /\ queue # <<>>
  /\ queue' = Tail(queue)
  /\ IF Head(queue) = End
     THEN cls' = "off" /\ UNCHANGED hand
     ELSE cls' = "holding" /\ hand' = Head(queue)
  /\ UNCHANGED <<clsKeeps, disk, memory, count>>

\* Two seconds without a post; the flag is read afterwards.
GetTimesOut ==
  /\ cls = "get" /\ queue = <<>> /\ cls' = "empty"
  /\ UNCHANGED <<clsKeeps, disk, queue, memory, hand, count>>

AfterTimeout ==
  /\ cls = "empty" /\ cls' = IF fetchDone THEN "off" ELSE "loop"
  /\ UNCHANGED <<clsKeeps, disk, queue, memory, hand, count>>

Note ==
  /\ cls = "holding" /\ Unlocked
  /\ IF hand \in seen
     THEN UNCHANGED memory
     ELSE known' = known \cup {hand} /\ seen' = seen \cup {hand} /\ UNCHANGED labels
  /\ cls' = "asking"
  /\ UNCHANGED <<clsKeeps, disk, queue, hand, count>>

\* The model's answer; a failed call is an answer without categories.
Answer(match) ==
  /\ cls = "asking"
  /\ IF match
     THEN Unlocked /\ labels' = [labels EXCEPT ![hand] = @ + 1] /\ UNCHANGED <<known, seen>>
     ELSE UNCHANGED memory
  /\ count' = (count + 1) % Every /\ hand' = End
  /\ cls' = IF count' = 0 THEN "full" ELSE "loop"
  /\ UNCHANGED <<clsKeeps, disk, queue>>

\* Mutant: _save_checkpoint is called by the thread that holds the lock, and takes it.
CheckpointBegin_nested == FALSE

CheckpointBegin ==
  /\ cls = "full" /\ Unlocked
  /\ cls' = "writing" /\ file' = Torn
  /\ UNCHANGED <<clsKeeps, best, cutShort, queue, memory, hand, count>>

CheckpointEnd ==
  /\ cls = "writing"
  /\ cls' = "loop" /\ Written
  /\ UNCHANGED <<clsKeeps, queue, memory, hand, count>>

-----------------------------------------------------------------------------
\* A post appears on the chain.
Publish ==
  /\ newest < NPosts /\ newest' = newest + 1
  /\ UNCHANGED <<runs, mode, disk, mainVars, shared, memory, fetch, clsVars>>

Main == Drain \/ EndInput \/ Finish \/ StopWaiting \/ SaveBegin \/ SaveEnd
        \/ Stratify \/ (\E p \in Tagged : TargetPut(p)) \/ TargetEnd \/ Exit
Fetcher == Connect \/ NoConnection \/ Query \/ QueryFails \/ QueryDone \/ Row \/ RowsDone
           \/ Close \/ SetDone
Classifier == Loop \/ Get \/ GetTimesOut \/ AfterTimeout \/ Note
              \/ (\E match \in BOOLEAN : Answer(match)) \/ CheckpointBegin \/ CheckpointEnd

SeederNext ==
  \/ \E m \in {"fresh", "resume", "incremental"} : Start(m)
  \/ Main \/ Fetcher \/ Classifier
  \/ Interrupt \/ Kill \/ Publish

\* The three threads run; the model and HAFSQL answer, if only with an error.
SeederSpec ==
  /\ SeederInit /\ [][SeederNext]_seederVars
  /\ WF_seederVars(Main) /\ WF_seederVars(Fetcher) /\ WF_seederVars(Classifier)

-----------------------------------------------------------------------------
\* A label that a checkpoint has held is in the file, until a run starts without
\* --resume: a crash between two saves, a Ctrl-C while the model is asked and a
\* second resume lose no paid work.  A torn file holds nothing; it is excused only
\* while it is being written, and when the script has ended inside write_text.
SavedLabelsSurvive ==
  Writing \/ cutShort \/ \A p \in HivePosts : file.labels[p] >= best[p]

\* "Interrupt safely with Ctrl-C -- progress checkpointed": a script that has
\* saved after an interrupt leaves a checkpoint that can be read.
InterruptIsSafe ==
  [][exiting /\ main = "saved" /\ main' = "off" => file'.kind = "good"]_seederVars

\* Once what did not fit into the queue has been put, a run ends, though fetcher,
\* classifier and main all wait for one another at a queue of few places; the
\* one place where it may hang is the targeted pass, which fills a queue that
\* nobody empties yet.
EndsIfItFits ==
  main = "drain" /\ overflow = {} ~> main = "off" \/ (main = "target" /\ ~Room)
=============================================================================
