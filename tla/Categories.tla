----------------------------- MODULE Categories -----------------------------
(***************************************************************************)
(* The way of a category: the seeding script trains a centroid for it      *)
(* (src/scripts/seed_categories.py), the API stores the centroids and the  *)
(* category tree at its start (lifespan in src/project/api/main.py), the   *)
(* worker chooses categories by them (src/project/worker/classify.py), and *)
(* browse_posts finds posts by category, author and page                   *)
(* (src/project/db/crud.py).                                               *)
(*                                                                         *)
(* A centroid is the number of the training it comes from; similarities    *)
(* are small numbers.  seed_category_tree is one transaction: a worker     *)
(* that creates the same category at the same time waits for it, or it for *)
(* the worker, and a deadlock of the two is a start whose seeding fails.   *)
(***************************************************************************)
EXTENDS Integers, Sequences, FiniteSets, FiniteSetsExt, SequencesExt, Functions

CONSTANTS Parents, Leaves, ParentOf,   \* CATEGORY_TREE
          Samples, Models,    \* labelled posts, and the models that label them
          MinPosts,           \* --min-per-category
          MaxScore, Threshold, Margin, Boost,  \* similarities, and 0.03 and 0.08
          MaxCategories,      \* of a post: 3
          Posts, Authors, AuthorOf, CreatedOf,
          MaxLateral,         \* _LATERAL_THRESHOLD
          MaxLimit,           \* bound on the size of a page
          MaxTrainings,       \* bound on runs of the script
          NoTree, NoBoost

Names == Parents \cup Leaves
Absent == "absent"
Top == "top"

ASSUME CategoriesAssumption ==
  /\ Parents \cap Leaves = {} /\ {Absent, Top} \cap Names = {} /\ IsFiniteSet(Leaves)
  /\ ParentOf \in [Leaves -> Parents]
  /\ IsFiniteSet(Models) /\ Models # {} /\ IsFiniteSet(Samples) /\ MinPosts \in Nat \ {0}
  /\ MaxScore \in Nat /\ Threshold \in Nat \ {0} /\ Margin \in Nat /\ Boost \in Nat
  /\ MaxCategories \in Nat \ {0} /\ NoBoost \notin Leaves /\ NoBoost \notin Posts
  /\ IsFiniteSet(Posts) /\ AuthorOf \in [Posts -> Authors] /\ CreatedOf \in [Posts -> Nat]
  /\ MaxLateral \in Nat /\ MaxLimit \in Nat \ {0} /\ MaxTrainings \in Nat

Centroids == [Leaves -> 0 .. MaxTrainings]   \* 0: there is none
NoCentroids == [c \in Leaves |-> 0]
Trees == [Names -> {Absent, Top} \cup Parents]

VARIABLES
  trainings,
  trained,   \* seeds/centroids.json on the host
  baked,     \* the copy in the images
  stored,    \* category_centroids
  inUse,     \* the worker's
  parent,    \* the table categories
  app,       \* the API: "down" or "up"
  seeded,    \* its start seeded the tree
  tree,      \* its category_tree_internal
  saved,     \* the posts in the order of their ids
  cats       \* category_ids

seeds == <<trainings, trained, baked>>
api == <<app, seeded, tree>>
table == <<saved, cats>>
vars == <<trainings, trained, baked, stored, inUse, parent, app, seeded, tree, saved, cats>>

TypeOK ==
  /\ trainings \in 0 .. MaxTrainings
  /\ trained \in Centroids /\ baked \in Centroids /\ stored \in Centroids /\ inUse \in Centroids
  /\ parent \in Trees /\ tree \in Trees \cup {NoTree}
  /\ app \in {"down", "up"} /\ seeded \in BOOLEAN
  /\ saved \in Seq(Posts) /\ IsInjective(saved)
  /\ cats \in [Posts -> SUBSET Leaves]
  /\ \A p \in Posts : Cardinality(cats[p]) <= MaxCategories

Init ==
  /\ trainings = 0 /\ trained = NoCentroids /\ baked = NoCentroids
  /\ stored = NoCentroids /\ inUse = NoCentroids
  /\ parent = [c \in Names |-> Absent]
  /\ app = "down" /\ seeded = FALSE /\ tree = NoTree
  /\ saved = <<>> /\ cats = [p \in Posts |-> {}]

-----------------------------------------------------------------------------
(* The script *)

\* classify_post_ensemble: what all models say, or most of them, if that is nothing.
Agreed(vote) ==
  LET all == {c \in Leaves : \A m \in Models : c \in vote[m]}
      most == {c \in Leaves : 2 * Cardinality({m \in Models : c \in vote[m]}) > Cardinality(Models)}
  IN  IF all # {} THEN all ELSE most

\* compute_centroids: the categories with enough labelled posts.  Pruning and
\* refinement leave a category alone when too few posts would be left, and the
\* contrastive adjustment moves vectors only.
Trainable(votes) ==
  {c \in Leaves : Cardinality({s \in Samples : c \in Agreed(votes[s])}) >= MinPosts}

Outcomes == {Trainable(votes) : votes \in [Samples -> [Models -> SUBSET Leaves]]} \ {{}}

\* The script ends with a new centroids.json; without a centroid it writes none.
Train ==
  /\ trainings < MaxTrainings /\ trainings' = trainings + 1
  /\ \E cs \in Outcomes : trained' = [c \in Leaves |-> IF c \in cs THEN trainings' ELSE 0]
  /\ UNCHANGED <<baked, stored, inUse, parent, api, table>>

\* ./deploy.sh up: images are built, and the containers replaced.
Deploy ==
  /\ baked' = trained /\ inUse' = NoCentroids
  /\ app' = "down" /\ seeded' = FALSE /\ tree' = NoTree
  /\ UNCHANGED <<trainings, trained, stored, parent, table>>

-----------------------------------------------------------------------------
(* The API *)

\* Mutant: a leaf that is there already is left as it is.
Planted_insertOnly ==
  [c \in Names |-> IF parent[c] # Absent THEN parent[c]
                   ELSE IF c \in Parents THEN Top ELSE ParentOf[c]]

\* seed_category_tree: parents to the top; leaves under their parent, those
\* too that the worker has created without one.
Planted ==
  [c \in Names |-> IF c \in Parents THEN Top
                   ELSE IF parent[c] \in {Absent, Top} THEN ParentOf[c] ELSE parent[c]]

\* lifespan: the tree is seeded, which may fail; the centroids of the image go
\* into the table if none can be read from it, one by one over what is there,
\* which may fail as well.
Boot(plants, reads, stores) ==
  /\ app = "down" /\ app' = "up" /\ seeded' = plants /\ tree' = NoTree
  /\ parent' = IF plants THEN Planted ELSE parent
  /\ stored' = IF ~stores \/ (reads /\ stored # NoCentroids) THEN stored
               ELSE [c \in Leaves |-> IF baked[c] > 0 THEN baked[c] ELSE stored[c]]
  /\ UNCHANGED <<seeds, inUse, table>>

Shutdown ==
  /\ app = "up" /\ app' = "down" /\ seeded' = FALSE /\ tree' = NoTree
  /\ UNCHANGED <<seeds, stored, inUse, parent, table>>

\* _get_cached_category_tree; the entry lives for a day, or until it is evicted.
CacheTree ==
  /\ app = "up" /\ tree = NoTree /\ tree' = parent
  /\ UNCHANGED <<seeds, stored, inUse, parent, app, seeded, table>>

ForgetTree ==
  /\ tree # NoTree /\ tree' = NoTree
  /\ UNCHANGED <<seeds, stored, inUse, parent, app, seeded, table>>

-----------------------------------------------------------------------------
(* The worker *)

\* The start of each generation: _seed_categories, whose failure is only logged,
\* and _load_centroids, from the table, or from the file if it cannot be read or
\* is empty.  Without any centroids it does not stream.
WorkerBoot(plants, reads) ==
  /\ parent' = IF plants THEN Planted ELSE parent
  /\ inUse' = IF reads /\ stored # NoCentroids THEN stored ELSE baked
  /\ UNCHANGED <<seeds, stored, api, table>>

\* What _classify_from_embedding may answer; ties are broken by the order of
\* the rows in the table, which is any.
Answers(scores, boost) ==
  LET have == {c \in Leaves : inUse[c] > 0}
      s == [c \in have |-> IF c = boost THEN scores[c] + Boost ELSE scores[c]]
      top == Max({s[c] : c \in have})
      near == {c \in have : s[c] >= Threshold /\ s[c] >= top - Margin}
  IN  {S \in SUBSET near :
         /\ Cardinality(S) = Min({MaxCategories, Cardinality(near)})
         /\ \A c \in S, d \in near \ S : s[c] >= s[d]}

\* Mutant: an edit is inserted like a new post.
Save_twice(p, scores, boost) ==
  /\ inUse # NoCentroids
  /\ \E S \in Answers(scores, boost) :
       /\ cats' = [cats EXCEPT ![p] = S]
       /\ parent' = [c \in Names |-> IF c \in S /\ parent[c] = Absent THEN Top ELSE parent[c]]
  /\ Len(saved) < 4 /\ saved' = Append(saved, p)
  /\ UNCHANGED <<seeds, stored, inUse, api>>

\* create_post, for a new post or one seen before: it creates the categories
\* that are missing, without a parent.
Save(p, scores, boost) ==
  /\ inUse # NoCentroids
  /\ \E S \in Answers(scores, boost) :
       /\ cats' = [cats EXCEPT ![p] = S]
       /\ parent' = [c \in Names |-> IF c \in S /\ parent[c] = Absent THEN Top ELSE parent[c]]
  /\ saved' = IF p \in Range(saved) THEN saved ELSE Append(saved, p)
  /\ UNCHANGED <<seeds, stored, inUse, api>>

Next ==
  \/ Train \/ Deploy \/ Shutdown \/ CacheTree \/ ForgetTree
  \/ \E plants, reads, stores \in BOOLEAN : Boot(plants, reads, stores)
  \/ \E plants, reads \in BOOLEAN : WorkerBoot(plants, reads)
  \/ \E p \in Posts, scores \in [Leaves -> 0 .. MaxScore], boost \in Leaves \cup {NoBoost} :
       Save(p, scores, boost)

Spec == Init /\ [][Next]_vars

-----------------------------------------------------------------------------
(* browse_posts *)

TreeSeen == IF tree = NoTree THEN parent ELSE tree

\* _resolve_category_ids: a name without a parent stands for its children.
Resolve(names) ==
  UNION {CASE TreeSeen[c] = Absent -> {}
           [] TreeSeen[c] = Top -> {d \in Leaves : TreeSeen[d] = c}
           [] OTHER -> {c} : c \in names}

\* _attach_categories_and_languages: the names a post is shown with.
Shown(p) == {c \in cats[p] : TreeSeen[c] # Absent}

\* The conditions on category and author; the other filters work like these.
\* An empty set filters nothing.
Matches(p, names, authors) ==
  /\ p \in Range(saved) /\ cats[p] # {}
  /\ names = {} \/ cats[p] \cap Resolve(names) # {}
  /\ authors = {} \/ AuthorOf[p] \in authors

Id(p) == CHOOSE i \in DOMAIN saved : saved[i] = p

\* Mutant: the cursor compares the time only.
Before_time(p, q) == CreatedOf[p] < CreatedOf[q]

\* (created, id) < (created, id)
Before(p, q) ==
  CreatedOf[p] < CreatedOf[q] \/ (CreatedOf[p] = CreatedOf[q] /\ Id(p) < Id(q))

\* The part of a result that comes after post "cursor", NoBoost for none.
After(S, cursor, oldest) ==
  IF cursor \notin Posts THEN S
  ELSE {p \in S : IF oldest THEN Before(cursor, p) ELSE Before(p, cursor)}

\* ORDER BY created, id and LIMIT lim OFFSET off, as the set of rows.
Rows(S, oldest, lim, off) ==
  LET rank(p) == Cardinality({q \in S : IF oldest THEN Before(q, p) ELSE Before(p, q)})
  IN  {p \in S : rank(p) \in off .. off + lim - 1}

Lateral(authors) == Cardinality(authors) \in 2 .. MaxLateral

\* One SELECT, or a lateral join: each author's rows are limited on their own,
\* and then all of them together.
Page(names, authors, cursor, oldest, lim, off) ==
  LET rows(as) == After({p \in Posts : Matches(p, names, as)}, cursor, oldest)
  IN  IF Lateral(authors)
      THEN Rows(UNION {Rows(rows({a}), oldest, lim, 0) : a \in authors}, oldest, lim, off)
      ELSE Rows(rows(authors), oldest, lim, off)

\* A full page has a next one, after its last row.
NextCursor(page, oldest, lim) ==
  IF Cardinality(page) = lim
  THEN CHOOSE p \in page :
         \A q \in page \ {p} : IF oldest THEN Before(q, p) ELSE Before(p, q)
  ELSE NoBoost

-----------------------------------------------------------------------------
\* Once the tree is seeded, a post is shown with each of its categories, and
\* found by it and by its parent: also with a category the worker had created
\* before the tree was there, and with a tree that has been cached for a day.
FoundByCategory ==
  app = "up" /\ seeded =>
    \A p \in Range(saved) : \A c \in cats[p] :
      c \in Shown(p) /\ Matches(p, {c}, {}) /\ Matches(p, {ParentOf[c]}, {})

\* Pages that follow each other by cursor, with or without the lateral join,
\* show what the filters ask for and pass over nothing: a post that matches
\* and is not on the page comes after its cursor, or before the page began.
PagesAreComplete ==
  \A authors \in SUBSET Authors, oldest \in BOOLEAN, lim \in 1 .. MaxLimit,
     cursor \in Range(saved) \cup {NoBoost} :
    LET S == After({p \in Posts : Matches(p, {}, authors)}, cursor, oldest)
        page == Page({}, authors, cursor, oldest, lim, 0)
        next == NextCursor(page, oldest, lim)
    IN  page \subseteq S /\ (page # S => next # NoBoost /\ S \ page = After(S, next, oldest))
=============================================================================
