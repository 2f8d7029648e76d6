-------------------------- MODULE CategoriesProofs --------------------------
(***************************************************************************)
(* Proofs about categories.                                                *)
(*                                                                         *)
(* The first part is about their way into the database and to the reader   *)
(* (Categories), for any category tree, any labels, similarities and       *)
(* posts, and any size of a page.  The second is about the labels they are *)
(* trained with (Seeder), for any posts on HAFSQL and at Hive, any size of *)
(* its queue, any checkpoint and any number of runs.                       *)
(***************************************************************************)
EXTENDS Categories, Seeder, FiniteSetTheorems, TLAPS

-----------------------------------------------------------------------------
(* Pages of an order *)

(* R, a set of pairs, puts S into an order. *)
Ordered(R, S) ==
  /\ \A p \in S : <<p, p>> \notin R
  /\ \A p, q \in S : p # q => <<p, q>> \in R \/ <<q, p>> \in R
  /\ \A p, q, r \in S : <<p, q>> \in R /\ <<q, r>> \in R => <<p, r>> \in R

Ahead(R, S, p) == {q \in S : <<q, p>> \in R}
Place(R, S, p) == Cardinality(Ahead(R, S, p))
First(R, S, n) == {p \in S : Place(R, S, p) < n}

LEMMA PlaceType ==
  ASSUME NEW R, NEW S, IsFiniteSet(S), NEW p
  PROVE  Place(R, S, p) \in Nat /\ IsFiniteSet(Ahead(R, S, p))
<1>1. Ahead(R, S, p) \in SUBSET S
  BY DEF Ahead
<1> QED BY <1>1, FS_Subset, FS_CardinalityType DEF Place

LEMMA PlaceStrict ==
  ASSUME NEW R, NEW S, IsFiniteSet(S), Ordered(R, S),
         NEW p \in S, NEW q \in S, <<p, q>> \in R
  PROVE  Place(R, S, p) < Place(R, S, q)
<1>1. /\ Ahead(R, S, p) \in SUBSET Ahead(R, S, q)
      /\ p \in Ahead(R, S, q) /\ p \notin Ahead(R, S, p)
  BY DEF Ahead, Ordered
<1>2. /\ IsFiniteSet(Ahead(R, S, q))
      /\ Place(R, S, p) \in Nat /\ Place(R, S, q) \in Nat
  BY PlaceType
<1>3. /\ Place(R, S, p) <= Place(R, S, q)
      /\ Place(R, S, p) # Place(R, S, q)
  BY <1>1, <1>2, FS_Subset DEF Place
<1> QED BY <1>2, <1>3

LEMMA PlacesDiffer ==
  ASSUME NEW R, NEW S, IsFiniteSet(S), Ordered(R, S),
         NEW p \in S, NEW q \in S, Place(R, S, p) = Place(R, S, q)
  PROVE  p = q
<1> SUFFICES ASSUME p # q PROVE FALSE
  OBVIOUS
<1>1. <<p, q>> \in R \/ <<q, p>> \in R
  BY DEF Ordered
<1>2. Place(R, S, p) \in Nat
  BY PlaceType
<1> QED BY <1>1, <1>2, PlaceStrict

LEMMA PlaceOrders ==
  ASSUME NEW R, NEW S, IsFiniteSet(S), Ordered(R, S),
         NEW p \in S, NEW q \in S, Place(R, S, p) < Place(R, S, q)
  PROVE  <<p, q>> \in R
<1>1. Place(R, S, p) \in Nat /\ Place(R, S, q) \in Nat
  BY PlaceType
<1>2. p # q /\ <<q, p>> \notin R
  BY <1>1, PlaceStrict
<1> QED BY <1>2 DEF Ordered

(* With fewer in the order nobody's place is further back. *)
LEMMA PlaceInPart ==
  ASSUME NEW R, NEW S, IsFiniteSet(S), NEW T \in SUBSET S, NEW p
  PROVE  Place(R, T, p) <= Place(R, S, p)
<1>1. Ahead(R, T, p) \in SUBSET Ahead(R, S, p) /\ IsFiniteSet(Ahead(R, S, p))
  BY PlaceType DEF Ahead
<1> QED BY <1>1, FS_Subset DEF Place

(* Members of S whose places all lie in N are no more than N has members.  *)
LEMMA NoMoreThanPlaces ==
  ASSUME NEW R, NEW S, IsFiniteSet(S), Ordered(R, S), NEW T \in SUBSET S,
         NEW N, IsFiniteSet(N), \A p \in T : Place(R, S, p) \in N
  PROVE  Cardinality(T) <= Cardinality(N)
<1>1. IsFiniteSet(T) /\ Cardinality(T) \in Nat /\ Cardinality(N) \in Nat
  BY FS_Subset, FS_CardinalityType
<1> SUFFICES ASSUME Cardinality(N) < Cardinality(T) PROVE FALSE
  BY <1>1
<1> DEFINE f == [p \in T |-> Place(R, S, p)]
<1>2. f \in [T -> N] /\ \A p \in T : f[p] = Place(R, S, p)
  OBVIOUS
<1> HIDE DEF f
<1>3. \E p, q \in T : p # q /\ f[p] = f[q]
  BY <1>1, <1>2, FS_PigeonHole
<1>4. PICK p \in T, q \in T : p # q /\ Place(R, S, p) = Place(R, S, q)
  BY <1>2, <1>3
<1> QED BY <1>4, PlacesDiffer

(* Every place ahead of an occupied one is occupied. *)
LEMMA NoGap ==
  ASSUME NEW R, NEW S, IsFiniteSet(S), Ordered(R, S), NEW p \in S,
         NEW j \in Nat, j < Place(R, S, p)
  PROVE  \E q \in S : Place(R, S, q) = j
<1> SUFFICES ASSUME \A q \in S : Place(R, S, q) # j PROVE FALSE
  OBVIOUS
<1> DEFINE k == Place(R, S, p)
           N == (0 .. k - 1) \ {j}
<1>1. /\ k \in Nat /\ k = Place(R, S, p) /\ j < k
      /\ Ahead(R, S, p) \in SUBSET S /\ Cardinality(Ahead(R, S, p)) = k
  BY PlaceType DEF Place, Ahead
<1> HIDE DEF k
<1>2. ASSUME NEW q \in Ahead(R, S, p) PROVE Place(R, S, q) \in N
  <2>1. q \in S /\ <<q, p>> \in R
    BY <1>2 DEF Ahead
  <2>2. Place(R, S, q) \in Nat /\ Place(R, S, q) < k
    BY <1>1, <2>1, PlaceType, PlaceStrict
  <2> QED BY <1>1, <2>1, <2>2
<1>3. IsFiniteSet(N) /\ Cardinality(N) = k - 1
  <2>1. IsFiniteSet(0 .. k - 1) /\ Cardinality(0 .. k - 1) = k
    <3>1. 0 \in Int /\ k - 1 \in Int /\ ~(0 > k - 1) /\ (k - 1) - 0 + 1 = k
      BY <1>1
    <3> QED BY <3>1, FS_Interval
  <2>2. j \in 0 .. k - 1
    BY <1>1
  <2> QED BY <2>1, <2>2, FS_RemoveElement
<1> HIDE DEF N
<1>4. Cardinality(Ahead(R, S, p)) <= Cardinality(N)
  BY <1>1, <1>2, <1>3, NoMoreThanPlaces
<1> QED BY <1>1, <1>3, <1>4

(* A page is full if it is not all there is, and its last is at place n-1. *)
LEMMA FirstIsFull ==
  ASSUME NEW R, NEW S, IsFiniteSet(S), Ordered(R, S), NEW n \in Nat \ {0},
         NEW p \in S, p \notin First(R, S, n)
  PROVE  Cardinality(First(R, S, n)) = n
<1> DEFINE F == First(R, S, n)
<1>1. Place(R, S, p) \in Nat /\ Place(R, S, p) >= n
  BY PlaceType DEF First
<1>2. F \in SUBSET S /\ \A q \in F : Place(R, S, q) \in 0 .. n - 1
  BY PlaceType DEF First
<1>3. IsFiniteSet(0 .. n - 1) /\ Cardinality(0 .. n - 1) = n
  BY FS_Interval
<1>4. IsFiniteSet(F) /\ Cardinality(F) \in Nat
  BY <1>2, FS_Subset, FS_CardinalityType
<1>5. Cardinality(F) <= n
  <2> HIDE DEF F
  <2>1. Cardinality(F) <= Cardinality(0 .. n - 1)
    BY <1>2, <1>3, NoMoreThanPlaces
  <2> QED BY <1>3, <2>1
<1>6. ~(Cardinality(F) < n)
  <2> SUFFICES ASSUME Cardinality(F) < n PROVE FALSE
    OBVIOUS
  <2>1. \A j \in 0 .. n - 1 : \E q \in F : Place(R, S, q) = j
    <3> SUFFICES ASSUME NEW j \in 0 .. n - 1 PROVE \E q \in F : Place(R, S, q) = j
      OBVIOUS
    <3>1. PICK q \in S : Place(R, S, q) = j
      BY <1>1, NoGap
    <3> QED BY <3>1 DEF First
  <2> DEFINE g == [j \in 0 .. n - 1 |-> CHOOSE q \in F : Place(R, S, q) = j]
  <2> HIDE DEF F
  <2>2. g \in [0 .. n - 1 -> F] /\ \A j \in 0 .. n - 1 : Place(R, S, g[j]) = j
    BY <2>1
  <2> HIDE DEF g
  <2>3. \E i, j \in 0 .. n - 1 : i # j /\ g[i] = g[j]
    BY <1>3, <1>4, <2>2, FS_PigeonHole
  <2> QED BY <2>2, <2>3
<1> QED BY <1>4, <1>5, <1>6

LEMMA LastOfFull ==
  ASSUME NEW R, NEW S, IsFiniteSet(S), Ordered(R, S), NEW n \in Nat \ {0},
         Cardinality(First(R, S, n)) = n
  PROVE  \E m \in First(R, S, n) : Place(R, S, m) = n - 1
<1> DEFINE F == First(R, S, n)
<1> SUFFICES ASSUME \A m \in F : Place(R, S, m) # n - 1 PROVE FALSE
  OBVIOUS
<1>1. F \in SUBSET S
  BY DEF First
<1>2. \A q \in F : Place(R, S, q) \in 0 .. n - 2
  <2> SUFFICES ASSUME NEW q \in F PROVE Place(R, S, q) \in 0 .. n - 2
    OBVIOUS
  <2>1. Place(R, S, q) \in Nat /\ Place(R, S, q) < n
    BY PlaceType DEF First
  <2> QED BY <2>1
<1>3. IsFiniteSet(0 .. n - 2) /\ Cardinality(0 .. n - 2) = n - 1
  BY FS_Interval
<1>4. Cardinality(F) = n
  OBVIOUS
<1> HIDE DEF F
<1>5. Cardinality(F) <= Cardinality(0 .. n - 2)
  BY <1>1, <1>2, <1>3, NoMoreThanPlaces
<1> QED BY <1>3, <1>4, <1>5

(* The first n of a part that holds the first n of all are those. *)
LEMMA FirstOfPart ==
  ASSUME NEW R, NEW S, IsFiniteSet(S), Ordered(R, S), NEW n \in Nat \ {0},
         NEW T \in SUBSET S, First(R, S, n) \subseteq T
  PROVE  First(R, T, n) = First(R, S, n)
<1>1. IsFiniteSet(T)
  BY FS_Subset
<1>2. ASSUME NEW p \in First(R, S, n) PROVE p \in First(R, T, n)
  <2>1. /\ p \in T /\ Place(R, S, p) < n /\ Place(R, T, p) <= Place(R, S, p)
        /\ Place(R, T, p) \in Nat /\ Place(R, S, p) \in Nat
    BY <1>1, PlaceInPart, PlaceType DEF First
  <2> QED BY <2>1 DEF First
<1>3. ASSUME NEW p \in First(R, T, n), p \notin First(R, S, n) PROVE FALSE
  <2>1. p \in S /\ Place(R, T, p) < n /\ Place(R, T, p) \in Nat
    BY <1>1, PlaceType DEF First
  <2>2. Place(R, S, p) \in Nat /\ Place(R, S, p) >= n
    BY <1>3, <2>1, PlaceType DEF First
  <2>3. ASSUME NEW q \in First(R, S, n) PROVE q \in Ahead(R, T, p)
    <3>1. q \in T /\ q \in S /\ Place(R, S, q) < n /\ Place(R, S, q) \in Nat
      BY PlaceType DEF First
    <3>2. <<q, p>> \in R
      BY <2>1, <2>2, <3>1, PlaceOrders
    <3> QED BY <3>1, <3>2 DEF Ahead
  <2>4. Cardinality(First(R, S, n)) <= Place(R, T, p)
    <3>1. First(R, S, n) \in SUBSET Ahead(R, T, p) /\ IsFiniteSet(Ahead(R, T, p))
      BY <1>1, <2>3, PlaceType
    <3> QED BY <3>1, FS_Subset DEF Place
  <2>5. Cardinality(First(R, S, n)) = n
    BY <1>3, <2>1, FirstIsFull
  <2> QED BY <2>1, <2>4, <2>5
<1> QED BY <1>2, <1>3

-----------------------------------------------------------------------------
(* The order of the posts, and browse_posts in it *)

Ord(oldest) ==
  {x \in Posts \X Posts : IF oldest THEN Before(x[1], x[2]) ELSE Before(x[2], x[1])}

LEMMA SavedPosts ==
  ASSUME TypeOK
  PROVE  /\ Range(saved) \in SUBSET Posts /\ IsFiniteSet(Range(saved))
         /\ \A p \in Range(saved) : CreatedOf[p] \in Nat /\ Id(p) \in Nat /\ saved[Id(p)] = p
<1>1. saved \in Seq(Posts)
  BY DEF TypeOK
<1>2. Range(saved) \in SUBSET Posts
  BY <1>1 DEF Range
<1>3. IsFiniteSet(Range(saved))
  BY <1>2, CategoriesAssumption, FS_Subset
<1>4. ASSUME NEW p \in Range(saved)
      PROVE  CreatedOf[p] \in Nat /\ Id(p) \in Nat /\ saved[Id(p)] = p
  <2>1. CreatedOf[p] \in Nat
    BY <1>2, CategoriesAssumption
  <2>2. \E i \in DOMAIN saved : saved[i] = p
    BY DEF Range
  <2>3. Id(p) \in DOMAIN saved /\ saved[Id(p)] = p
    BY <2>2 DEF Id
  <2>4. DOMAIN saved \subseteq Nat
    BY <1>1
  <2> QED BY <2>1, <2>3, <2>4
<1> QED BY <1>2, <1>3, <1>4

LEMMA PostsOrdered ==
  ASSUME TypeOK, NEW oldest \in BOOLEAN, NEW S \in SUBSET Range(saved)
  PROVE  Ordered(Ord(oldest), S) /\ IsFiniteSet(S)
<1>1. \A p \in S : p \in Posts /\ CreatedOf[p] \in Nat /\ Id(p) \in Nat /\ saved[Id(p)] = p
  BY SavedPosts
<1>2. \A p, q \in S : Id(p) = Id(q) => p = q
  BY <1>1
<1>3. \A p, q \in S :
        <<p, q>> \in Ord(oldest) <=> IF oldest THEN Before(p, q) ELSE Before(q, p)
  BY <1>1 DEF Ord
<1>4. \A p \in S : ~Before(p, p)
  BY <1>1 DEF Before
<1>5. \A p, q \in S : p # q => Before(p, q) \/ Before(q, p)
  BY <1>1, <1>2 DEF Before
<1>6. \A p, q, r \in S : Before(p, q) /\ Before(q, r) => Before(p, r)
  BY <1>1 DEF Before
<1>7. Ordered(Ord(oldest), S)
  BY <1>3, <1>4, <1>5, <1>6 DEF Ordered
<1> QED BY <1>7, SavedPosts, FS_Subset

(* A page from the start is the first rows of the order. *)
LEMMA RowsAreFirst ==
  ASSUME TypeOK, NEW oldest \in BOOLEAN, NEW S \in SUBSET Range(saved),
         NEW lim \in Nat \ {0}
  PROVE  Rows(S, oldest, lim, 0) = First(Ord(oldest), S, lim)
<1> DEFINE rank(p) == Cardinality({q \in S : IF oldest THEN Before(q, p) ELSE Before(p, q)})
<1>1. S \subseteq Posts
  BY SavedPosts
<1>2. \A p \in S : rank(p) = Place(Ord(oldest), S, p)
  <2> SUFFICES ASSUME NEW p \in S PROVE rank(p) = Place(Ord(oldest), S, p)
    OBVIOUS
  <2>1. {q \in S : IF oldest THEN Before(q, p) ELSE Before(p, q)} = Ahead(Ord(oldest), S, p)
    BY <1>1 DEF Ahead, Ord
  <2> QED BY <2>1 DEF Place
<1>3. \A p \in S : Place(Ord(oldest), S, p) \in Nat
  BY PostsOrdered, PlaceType
<1>4. Rows(S, oldest, lim, 0) = {p \in S : rank(p) \in 0 .. 0 + lim - 1}
  BY DEF Rows
<1> HIDE DEF rank
<1>5. \A p \in S : rank(p) \in 0 .. 0 + lim - 1 <=> Place(Ord(oldest), S, p) < lim
  BY <1>2, <1>3
<1> QED BY <1>4, <1>5 DEF First

Wanted(authors, cursor, oldest) ==
  After({p \in Posts : Matches(p, {}, authors)}, cursor, oldest)

LEMMA WantedAreSaved ==
  ASSUME NEW authors, NEW cursor, NEW oldest
  PROVE  Wanted(authors, cursor, oldest) \in SUBSET Range(saved)
BY DEF Wanted, After, Matches

(* Each author's rows together are the rows of all of them. *)
LEMMA WantedByAuthor ==
  ASSUME NEW authors \in SUBSET Authors, authors # {}, NEW cursor, NEW oldest \in BOOLEAN
  PROVE  Wanted(authors, cursor, oldest)
           = UNION {Wanted({a}, cursor, oldest) : a \in authors}
<1>1. ASSUME NEW p
      PROVE  p \in Wanted(authors, cursor, oldest)
               <=> \E a \in authors : p \in Wanted({a}, cursor, oldest)
  <2>1. p \in Posts => (Matches(p, {}, authors) <=> \E a \in authors : Matches(p, {}, {a}))
    BY DEF Matches
  <2> QED BY <2>1 DEF Wanted, After
<1> QED BY <1>1

LEMMA PageIsFirst ==
  ASSUME TypeOK, NEW authors \in SUBSET Authors, NEW cursor, NEW oldest \in BOOLEAN,
         NEW lim \in Nat \ {0}
  PROVE  Page({}, authors, cursor, oldest, lim, 0)
           = First(Ord(oldest), Wanted(authors, cursor, oldest), lim)
<1> DEFINE S == Wanted(authors, cursor, oldest)
           R == Ord(oldest)
           of(a) == Wanted({a}, cursor, oldest)
           T == UNION {Rows(of(a), oldest, lim, 0) : a \in authors}
<1>1. S \in SUBSET Range(saved) /\ \A a \in authors : of(a) \in SUBSET Range(saved)
  BY WantedAreSaved
<1>2. Ordered(R, S) /\ IsFiniteSet(S)
  BY <1>1, PostsOrdered
<1>3. CASE ~Lateral(authors)
  <2>1. Page({}, authors, cursor, oldest, lim, 0) = Rows(S, oldest, lim, 0)
    BY <1>3 DEF Page, Wanted
  <2> QED BY <1>1, <2>1, RowsAreFirst
<1>4. CASE Lateral(authors)
  <2>1. Page({}, authors, cursor, oldest, lim, 0) = Rows(T, oldest, lim, 0)
    BY <1>4 DEF Page, Wanted
  <2>2. authors # {}
    BY <1>4, FS_EmptySet DEF Lateral
  <2>3. S = UNION {of(a) : a \in authors}
    BY <2>2, WantedByAuthor
  <2>4. \A a \in authors : Rows(of(a), oldest, lim, 0) = First(R, of(a), lim)
    BY <1>1, RowsAreFirst
  <2>5. T \in SUBSET S
    <3> SUFFICES ASSUME NEW p \in T PROVE p \in S
      OBVIOUS
    <3>1. PICK a \in authors : p \in Rows(of(a), oldest, lim, 0)
      OBVIOUS
    <3> HIDE DEF S, R, of
    <3>2. p \in of(a)
      BY <2>4, <3>1 DEF First
    <3> QED BY <2>3, <3>2
  <2>6. ASSUME NEW p \in First(R, S, lim) PROVE p \in T
    <3>1. p \in S /\ Place(R, S, p) < lim
      BY DEF First
    <3>2. PICK a \in authors : p \in of(a)
      BY <2>3, <3>1
    <3>3. of(a) \in SUBSET S
      BY <2>3
    <3> HIDE DEF S, R, of, T
    <3>4. IsFiniteSet(of(a))
      BY <1>2, <3>3, FS_Subset
    <3>5. Place(R, of(a), p) \in Nat /\ Place(R, S, p) \in Nat
          /\ Place(R, of(a), p) <= Place(R, S, p)
      BY <1>2, <3>3, <3>4, PlaceType, PlaceInPart
    <3>6. p \in First(R, of(a), lim)
      BY <3>1, <3>2, <3>5 DEF First
    <3> QED BY <2>4, <3>6 DEF T
  <2>7. T \in SUBSET Range(saved)
    BY <1>1, <2>5
  <2> HIDE DEF S, R, of, T
  <2>8. Rows(T, oldest, lim, 0) = First(R, T, lim)
    BY <2>7, RowsAreFirst DEF R
  <2>9. First(R, T, lim) = First(R, S, lim)
    BY <1>2, <2>5, <2>6, FirstOfPart
  <2> QED BY <2>1, <2>8, <2>9 DEF R, S
<1> QED BY <1>3, <1>4

(* The cursor of a page that is not all there is: its last row. *)
LEMMA CursorOfFull ==
  ASSUME TypeOK, NEW oldest \in BOOLEAN, NEW lim \in Nat \ {0},
         NEW S \in SUBSET Range(saved), NEW page, page = First(Ord(oldest), S, lim),
         page # S
  PROVE  LET next == NextCursor(page, oldest, lim)
         IN  /\ next \in Posts /\ next # NoBoost
             /\ S \ page = {p \in S : <<next, p>> \in Ord(oldest)}
<1> DEFINE R == Ord(oldest)
           next == NextCursor(page, oldest, lim)
<1>1. Ordered(R, S) /\ IsFiniteSet(S) /\ S \subseteq Posts /\ page \subseteq S
  BY PostsOrdered, SavedPosts DEF First
<1>2. PICK x \in S : x \notin page
  BY <1>1
<1>3. Cardinality(page) = lim
  BY <1>1, <1>2, FirstIsFull
<1>4. PICK m \in page : Place(R, S, m) = lim - 1
  BY <1>1, <1>3, LastOfFull
<1>5. \A p \in page : Place(R, S, p) \in Nat /\ Place(R, S, p) < lim
  BY <1>1, PlaceType DEF First
<1>6. \A q \in page \ {m} : <<q, m>> \in R
  <2> SUFFICES ASSUME NEW q \in page, q # m PROVE <<q, m>> \in R
    OBVIOUS
  <2> HIDE DEF R
  <2>1. q \in S /\ m \in S /\ Place(R, S, q) # lim - 1
    BY <1>1, <1>4, PlacesDiffer
  <2>2. Place(R, S, q) < Place(R, S, m)
    BY <1>4, <1>5, <2>1
  <2> QED BY <1>1, <2>1, <2>2, PlaceOrders
<1>7. next \in page /\ \A q \in page \ {next} : <<q, next>> \in R
  <2>1. \A p, q \in page : <<q, p>> \in R <=> IF oldest THEN Before(q, p) ELSE Before(p, q)
    BY <1>1 DEF Ord
  <2>2. \A q \in page \ {m} : IF oldest THEN Before(q, m) ELSE Before(m, q)
    BY <1>6, <2>1
  <2>3. next = CHOOSE p \in page :
                 \A q \in page \ {p} : IF oldest THEN Before(q, p) ELSE Before(p, q)
    BY <1>3 DEF NextCursor
  <2>4. /\ next \in page
        /\ \A q \in page \ {next} : IF oldest THEN Before(q, next) ELSE Before(next, q)
    BY <2>2, <2>3
  <2> QED BY <2>1, <2>4
<1> HIDE DEF R, next
<1>8. next \in S /\ Place(R, S, next) \in Nat /\ Place(R, S, next) < lim
  BY <1>1, <1>5, <1>7
<1>9. ASSUME NEW p \in S, p \notin page PROVE <<next, p>> \in R
  <2>1. Place(R, S, p) \in Nat /\ Place(R, S, p) >= lim
    BY <1>1, <1>9, PlaceType DEF First, R
  <2> QED BY <1>1, <1>8, <2>1, PlaceOrders
<1>10. ASSUME NEW p \in page, <<next, p>> \in R PROVE FALSE
  <2>1. p \in S /\ (p = next \/ <<p, next>> \in R)
    BY <1>1, <1>7
  <2> QED BY <1>1, <1>8, <1>10, <2>1 DEF Ordered
<1>11. next \in Posts /\ next # NoBoost
  BY <1>1, <1>8, CategoriesAssumption
<1>12. S \ page = {p \in S : <<next, p>> \in R}
  BY <1>1, <1>9, <1>10
<1> QED BY <1>11, <1>12 DEF R, next

LEMMA TypedPagesComplete == TypeOK => PagesAreComplete
<1> SUFFICES ASSUME TypeOK, NEW authors \in SUBSET Authors, NEW oldest \in BOOLEAN,
                    NEW lim \in 1 .. MaxLimit, NEW cursor \in Range(saved) \cup {NoBoost}
             PROVE  LET S == Wanted(authors, cursor, oldest)
                        page == Page({}, authors, cursor, oldest, lim, 0)
                        next == NextCursor(page, oldest, lim)
                    IN  page \subseteq S
                        /\ (page # S => next # NoBoost /\ S \ page = After(S, next, oldest))
  BY DEF PagesAreComplete, Wanted
<1> DEFINE S == Wanted(authors, cursor, oldest)
           page == Page({}, authors, cursor, oldest, lim, 0)
           next == NextCursor(page, oldest, lim)
<1>1. lim \in Nat \ {0}
  BY CategoriesAssumption
<1>2. page = First(Ord(oldest), S, lim) /\ S \in SUBSET Range(saved) /\ S \subseteq Posts
  BY <1>1, PageIsFirst, WantedAreSaved, SavedPosts
<1> HIDE DEF S, page
<1>3. page \subseteq S
  BY <1>2 DEF First
<1>4. ASSUME page # S PROVE next # NoBoost /\ S \ page = After(S, next, oldest)
  <2>1. /\ next \in Posts /\ next # NoBoost
        /\ S \ page = {p \in S : <<next, p>> \in Ord(oldest)}
    BY <1>1, <1>2, <1>4, CursorOfFull
  <2> HIDE DEF next
  <2>2. After(S, next, oldest) = {p \in S : <<next, p>> \in Ord(oldest)}
    BY <1>2, <2>1 DEF After, Ord
  <2> QED BY <2>1, <2>2
<1> QED BY <1>3, <1>4 DEF S, page

-----------------------------------------------------------------------------
(* The inductive invariant.  Once a start has seeded the tree, nothing that *)
(* the worker saves moves a category in it, and a tree that is cached while *)
(* this process lives is the tree of the table.  Before that a leaf is      *)
(* absent, without a parent, or in its place: seeding mends the second and  *)
(* never has to move the third.                                             *)
NeverMisplaced == \A c \in Leaves : parent[c] \in {Absent, Top, ParentOf[c]}
SeededIsPlanted ==
  seeded => /\ \A c \in Parents : parent[c] = Top
            /\ \A c \in Leaves : parent[c] = ParentOf[c]
            /\ tree \in {NoTree, parent}

IInv == TypeOK /\ NeverMisplaced /\ SeededIsPlanted

LEMMA InitIInv == Init => IInv
<1> SUFFICES ASSUME Init PROVE IInv
  OBVIOUS
<1>1. NoCentroids \in Centroids /\ [c \in Names |-> Absent] \in Trees /\ 0 \in 0 .. MaxTrainings
  BY CategoriesAssumption DEF NoCentroids, Centroids, Trees
<1>2. saved \in Seq(Posts) /\ IsInjective(saved)
  BY DEF Init, IsInjective
<1>3. cats \in [Posts -> SUBSET Leaves] /\ \A p \in Posts : Cardinality(cats[p]) <= MaxCategories
  BY CategoriesAssumption, FS_EmptySet DEF Init
<1>4. TypeOK
  BY <1>1, <1>2, <1>3 DEF Init, TypeOK
<1> QED BY <1>4 DEF IInv, Init, NeverMisplaced, SeededIsPlanted, Names

(* The classifier names at most MaxCategories categories. *)
LEMMA AnswersBounded ==
  ASSUME NEW scores, NEW boost, NEW S \in Answers(scores, boost)
  PROVE  S \in SUBSET Leaves /\ Cardinality(S) <= MaxCategories
<1> DEFINE have == {c \in Leaves : inUse[c] > 0}
           s == [c \in have |-> IF c = boost THEN scores[c] + Boost ELSE scores[c]]
           top == Max({s[c] : c \in have})
           near == {c \in have : s[c] >= Threshold /\ s[c] >= top - Margin}
<1>1. S \in SUBSET near /\ Cardinality(S) = Min({MaxCategories, Cardinality(near)})
  BY DEF Answers
<1>2. near \in SUBSET Leaves
  OBVIOUS
<1> HIDE DEF near
<1>3. Cardinality(near) \in Nat /\ MaxCategories \in Nat
  BY <1>2, CategoriesAssumption, FS_Subset, FS_CardinalityType
<1>4. \E x \in {MaxCategories, Cardinality(near)} :
        \A y \in {MaxCategories, Cardinality(near)} : x <= y
  BY <1>3
<1>5. Min({MaxCategories, Cardinality(near)}) <= MaxCategories
  BY <1>4 DEF Min
<1> QED BY <1>1, <1>2, <1>5

LEMMA SaveEffect ==
  ASSUME IInv, NEW p \in Posts, NEW scores, NEW boost, Save(p, scores, boost)
  PROVE  IInv'
<1>1. PICK S \in Answers(scores, boost) :
        /\ cats' = [cats EXCEPT ![p] = S]
        /\ parent' = [c \in Names |-> IF c \in S /\ parent[c] = Absent THEN Top ELSE parent[c]]
  BY DEF Save
<1>2. S \in SUBSET Leaves /\ Cardinality(S) <= MaxCategories
  BY AnswersBounded
<1>3. /\ UNCHANGED <<trainings, trained, baked, stored, inUse, app, seeded, tree>>
      /\ saved' = IF p \in Range(saved) THEN saved ELSE Append(saved, p)
  BY DEF Save, seeds, api
<1>4. saved \in Seq(Posts) /\ IsInjective(saved) /\ parent \in Trees
  BY DEF IInv, TypeOK
<1>5. saved' \in Seq(Posts) /\ IsInjective(saved')
  <2>1. CASE p \in Range(saved)
    BY <1>3, <1>4, <2>1
  <2>2. CASE p \notin Range(saved)
    <3>1. saved' = Append(saved, p)
      BY <1>3, <2>2
    <3>2. /\ saved' \in Seq(Posts) /\ DOMAIN saved' = 1 .. Len(saved) + 1
          /\ \A i \in 1 .. Len(saved) : saved'[i] = saved[i] /\ saved'[i] # p
          /\ saved'[Len(saved) + 1] = p /\ Len(saved) \in Nat /\ DOMAIN saved = 1 .. Len(saved)
      BY <1>4, <2>2, <3>1 DEF Range
    <3>3. \A i \in 1 .. Len(saved) + 1 : i \in 1 .. Len(saved) \/ i = Len(saved) + 1
      BY <3>2
    <3>4. \A i, j \in 1 .. Len(saved) : saved[i] = saved[j] => i = j
      BY <1>4, <3>2 DEF IsInjective
    <3>5. \A i, j \in 1 .. Len(saved) + 1 : saved'[i] = saved'[j] => i = j
      BY <3>2, <3>3, <3>4
    <3> QED BY <3>2, <3>5 DEF IsInjective
  <2> QED BY <2>1, <2>2
<1>6. parent' \in Trees
  BY <1>1, <1>4 DEF Trees
<1>7. TypeOK'
  BY <1>1, <1>2, <1>3, <1>5, <1>6 DEF IInv, TypeOK
<1>8. NeverMisplaced'
  BY <1>1 DEF NeverMisplaced, IInv, Names
<1>9. SeededIsPlanted'
  <2> SUFFICES ASSUME seeded PROVE parent' = parent
    BY <1>3 DEF SeededIsPlanted, IInv
  <2>1. \A c \in Names : parent[c] # Absent
    <3>1. Top # Absent /\ \A c \in Leaves : ParentOf[c] # Absent
      BY CategoriesAssumption DEF Top, Absent, Names
    <3> QED BY <3>1 DEF SeededIsPlanted, IInv, Names
  <2> QED BY <1>1, <1>4, <2>1 DEF Trees
<1> QED BY <1>7, <1>8, <1>9 DEF IInv

LEMMA PlantedFacts ==
  ASSUME IInv
  PROVE  /\ \A c \in Parents : Planted[c] = Top
         /\ \A c \in Leaves : Planted[c] = ParentOf[c]
         /\ Planted \in Trees
<1>1. /\ \A c \in Parents : Planted[c] = Top
      /\ \A c \in Leaves : Planted[c] = ParentOf[c]
  BY CategoriesAssumption DEF Planted, Names, IInv, NeverMisplaced
<1>2. Planted \in Trees
  <2> SUFFICES ASSUME NEW c \in Names PROVE Planted[c] \in {Absent, Top} \cup Parents
    BY DEF Planted, Trees
  <2> QED BY <1>1, CategoriesAssumption DEF Names
<1> QED BY <1>1, <1>2

LEMMA BootEffect ==
  ASSUME IInv, NEW plants \in BOOLEAN, NEW reads \in BOOLEAN, NEW stores \in BOOLEAN,
         Boot(plants, reads, stores)
  PROVE  IInv'
<1>1. /\ UNCHANGED <<trainings, trained, baked, inUse, saved, cats>>
      /\ app' = "up" /\ seeded' = plants /\ tree' = NoTree
      /\ parent' = IF plants THEN Planted ELSE parent
  BY DEF Boot, seeds, table
<1>2. stored' \in Centroids
  BY DEF Boot, IInv, TypeOK, Centroids
<1>3. TypeOK'
  BY <1>1, <1>2, PlantedFacts DEF IInv, TypeOK
<1>4. NeverMisplaced'
  BY <1>1, PlantedFacts DEF NeverMisplaced, IInv
<1>5. SeededIsPlanted'
  BY <1>1, PlantedFacts DEF SeededIsPlanted
<1> QED BY <1>3, <1>4, <1>5 DEF IInv

LEMMA WorkerBootEffect ==
  ASSUME IInv, NEW plants \in BOOLEAN, NEW reads \in BOOLEAN, WorkerBoot(plants, reads)
  PROVE  IInv'
<1>1. /\ UNCHANGED <<trainings, trained, baked, stored, app, seeded, tree, saved, cats>>
      /\ parent' = IF plants THEN Planted ELSE parent
      /\ inUse' = IF reads /\ stored # NoCentroids THEN stored ELSE baked
  BY DEF WorkerBoot, seeds, api, table
<1>2. TypeOK'
  BY <1>1, PlantedFacts DEF IInv, TypeOK
<1>3. NeverMisplaced'
  BY <1>1, PlantedFacts DEF NeverMisplaced, IInv
<1>4. SeededIsPlanted'
  <2> SUFFICES ASSUME seeded, plants PROVE parent' = parent
    BY <1>1 DEF SeededIsPlanted, IInv
  <2> SUFFICES ASSUME NEW c \in Names PROVE Planted[c] = parent[c]
    BY <1>1, PlantedFacts DEF Trees, IInv, TypeOK
  <2> QED BY PlantedFacts DEF IInv, SeededIsPlanted, Names
<1> QED BY <1>2, <1>3, <1>4 DEF IInv

LEMMA NextIInv == IInv /\ [Next]_vars => IInv'
<1> SUFFICES ASSUME IInv, [Next]_vars PROVE IInv'
  OBVIOUS
<1> USE DEF seeds, api, table
<1>1. CASE Train
  <2>1. trainings' \in 0 .. MaxTrainings
    BY <1>1, CategoriesAssumption DEF Train, IInv, TypeOK
  <2>2. 0 \in 0 .. MaxTrainings
    BY CategoriesAssumption
  <2>3. trained' \in Centroids
    BY <1>1, <2>1, <2>2 DEF Train, Centroids
  <2> QED BY <1>1, <2>1, <2>3
          DEF Train, IInv, TypeOK, NeverMisplaced, SeededIsPlanted
<1>2. CASE Deploy
  <2>1. NoCentroids \in Centroids
    BY CategoriesAssumption DEF NoCentroids, Centroids
  <2> QED BY <1>2, <2>1 DEF Deploy, IInv, TypeOK, NeverMisplaced, SeededIsPlanted
<1>3. CASE Shutdown
  BY <1>3 DEF Shutdown, IInv, TypeOK, NeverMisplaced, SeededIsPlanted
<1>4. CASE CacheTree \/ ForgetTree
  BY <1>4 DEF CacheTree, ForgetTree, IInv, TypeOK, NeverMisplaced, SeededIsPlanted
<1>5. ASSUME NEW plants \in BOOLEAN, NEW reads \in BOOLEAN, NEW stores \in BOOLEAN,
             Boot(plants, reads, stores)
      PROVE  IInv'
  BY <1>5, BootEffect
<1>6. ASSUME NEW plants \in BOOLEAN, NEW reads \in BOOLEAN, WorkerBoot(plants, reads) PROVE IInv'
  BY <1>6, WorkerBootEffect
<1>7. ASSUME NEW p \in Posts, NEW scores, NEW boost, Save(p, scores, boost) PROVE IInv'
  BY <1>7, SaveEffect
<1>8. CASE UNCHANGED vars
  BY <1>8 DEF vars, IInv, TypeOK, NeverMisplaced, SeededIsPlanted
<1> QED BY <1>1, <1>2, <1>3, <1>4, <1>5, <1>6, <1>7, <1>8 DEF Next

-----------------------------------------------------------------------------
(* The theorems *)

LEMMA Invariance == Spec => []IInv
BY InitIInv, NextIInv, PTL DEF Spec

(* Type correctness: among it that a post is saved once however often it   *)
(* is seen, and gets at most MaxCategories categories.                     *)
THEOREM TypeCorrect == Spec => []TypeOK
<1>1. IInv => TypeOK
  BY DEF IInv
<1> QED BY <1>1, Invariance, PTL

(* While the API runs on a seeded tree, a post is shown with each of its   *)
(* categories and found by it and by its parent, for any tree of names and *)
(* whatever the worker created before (seed_category_tree, browse_posts).  *)
THEOREM PostsAreFound == Spec => []FoundByCategory
<1>1. IInv => FoundByCategory
  <2> SUFFICES ASSUME IInv, seeded, NEW p \in Range(saved), NEW c \in cats[p]
               PROVE  c \in Shown(p) /\ Matches(p, {c}, {}) /\ Matches(p, {ParentOf[c]}, {})
    BY DEF FoundByCategory
  <2>1. p \in Posts /\ c \in Leaves
    BY SavedPosts DEF IInv, TypeOK
  <2>2. TreeSeen = parent
    BY DEF TreeSeen, IInv, SeededIsPlanted
  <2>3. /\ TreeSeen[c] = ParentOf[c] /\ ParentOf[c] \in Parents
        /\ ParentOf[c] # Absent /\ ParentOf[c] # Top /\ TreeSeen[ParentOf[c]] = Top
        /\ Top # Absent
    BY <2>1, <2>2, CategoriesAssumption
    DEF IInv, SeededIsPlanted, Names, Top, Absent
  <2>4. c \in Resolve({c})
    BY <2>3 DEF Resolve
  <2>5. c \in Resolve({ParentOf[c]})
    BY <2>1, <2>3 DEF Resolve
  <2> QED BY <2>3, <2>4, <2>5 DEF Shown, Matches
<1> QED BY <1>1, Invariance, PTL

(* Pages that follow each other by cursor, in either order of time, with   *)
(* or without the lateral join, neither repeat nor pass over a post that   *)
(* matches, for any posts, authors and page size (browse_posts).           *)
THEOREM PagesPassOverNothing == Spec => []PagesAreComplete
<1>1. IInv => PagesAreComplete
  BY TypedPagesComplete DEF IInv
<1> QED BY <1>1, Invariance, PTL

-----------------------------------------------------------------------------
(* The labels: the inductive invariant.  A run labels a post once because  *)
(* of the checkpoint it was in and once because HAFSQL or the targeted     *)
(* pass finds it; to show that no more can come, the ways a post still has *)
(* to the classifier are counted.                                          *)

(* How often e occurs in the sequence s. *)
Count(s, e) == Cardinality({i \in DOMAIN s : s[i] = e})
One(b) == IF b THEN 1 ELSE 0

(* Whether the thread that fetches may still put the post into the queue. *)
ToCome(p) ==
  IF phase = "broad"
  THEN fetch.pc \in {"connect", "query", "rows"} /\ (p < fetch.cursor \/ p \in fetch.rows)
  ELSE p \notin seen

(* How often a run may still have the post labelled. *)
Due(p) == One(p \in overflow) + Count(queue, p) + One(hand = p) + One(ToCome(p))

(* Memory has what the file has had: every run but a fresh one begins with *)
(* it, and a fresh one with nothing to lose.                                *)
SavedPart ==
  /\ main = "off" => Down
  /\ file.kind = "none" => file.labels = Unlabelled
  /\ file.kind # "torn" => \A p \in HivePosts : file.labels[p] >= best[p]
  /\ file.kind = "torn" => Writing \/ cutShort
  /\ main # "off" => \A p \in HivePosts : labels[p] >= best[p]

(* Which threads are on at which stage of main, and what they have noted.  *)
StagePart ==
  /\ main # "drain" => overflow = {}
  /\ main \in {"save", "writing", "saved"} /\ ~exiting => fetch.pc = "off" /\ cls = "off"
  /\ phase = "targeted" => fetch.pc = "off"
  /\ main = "target" => phase = "targeted" /\ cls = "off"
  /\ phase = "broad" => seen = known
  /\ fetch.pc = "rows" => \A p \in fetch.rows : p >= fetch.cursor
  /\ cls \in {"holding", "asking"} => hand \in HivePosts
  /\ cls = "asking" /\ phase = "broad" => hand \in known

(* Two labels a start, those due included; what the broad pass has not     *)
(* noted has both to spare, for the targeted pass may ask for it.          *)
LabelPart ==
  /\ \A p \in HivePosts : file.labels[p] <= 2 * runs
  /\ \A p \in HivePosts : labels[p] + Due(p) <= 2 * runs
  /\ main # "off" /\ phase = "broad" =>
       \A p \in HivePosts \ known : labels[p] + 2 <= 2 * runs

SeederIInv == SeederTypeOK /\ SavedPart /\ StagePart /\ LabelPart

-----------------------------------------------------------------------------
(* Sets in order *)

LEMMA RanksArePlaces ==
  ASSUME NEW S \in SUBSET Nat
  PROVE  LET R == {x \in S \X S : x[1] > x[2]}
         IN  /\ Ordered(R, S)
             /\ \A p, q \in S : p > q => <<p, q>> \in R
             /\ \A p \in S : Place(R, S, p) = Cardinality(Above(S, p))
<1> DEFINE R == {x \in S \X S : x[1] > x[2]}
<1>1. \A p, q \in S : <<p, q>> \in R <=> p > q
  OBVIOUS
<1>2. \A p \in S : p \in Nat
  OBVIOUS
<1> HIDE DEF R
<1>3. Ordered(R, S)
  BY <1>1, <1>2 DEF Ordered
<1>4. \A p \in S : Ahead(R, S, p) = Above(S, p)
  BY <1>1 DEF Ahead, Above
<1> QED BY <1>1, <1>3, <1>4 DEF Place, R

LEMMA RanksStrict ==
  ASSUME NEW S \in SUBSET Nat, IsFiniteSet(S)
  PROVE  /\ \A p \in S : /\ IsFiniteSet(Above(S, p))
                         /\ Cardinality(Above(S, p)) \in 0 .. Cardinality(S) - 1
         /\ \A p, q \in S :
              p > q => Cardinality(Above(S, p)) < Cardinality(Above(S, q))
<1>1. ASSUME NEW p \in S
      PROVE  /\ IsFiniteSet(Above(S, p))
             /\ Cardinality(Above(S, p)) \in 0 .. Cardinality(S) - 1
  <2>1. Above(S, p) \in SUBSET (S \ {p})
    BY DEF Above
  <2>2. /\ IsFiniteSet(S \ {p}) /\ Cardinality(S \ {p}) = Cardinality(S) - 1
        /\ Cardinality(S) \in Nat
    BY FS_RemoveElement, FS_CardinalityType
  <2> QED BY <2>1, <2>2, FS_Subset, FS_CardinalityType
<1>2. ASSUME NEW p \in S, NEW q \in S, p > q
      PROVE  Cardinality(Above(S, p)) < Cardinality(Above(S, q))
  <2> DEFINE R == {x \in S \X S : x[1] > x[2]}
  <2>1. /\ Ordered(R, S) /\ <<p, q>> \in R
        /\ Place(R, S, p) = Cardinality(Above(S, p))
        /\ Place(R, S, q) = Cardinality(Above(S, q))
    BY <1>2, RanksArePlaces
  <2> HIDE DEF R
  <2>2. Place(R, S, p) < Place(R, S, q)
    BY <2>1, PlaceStrict
  <2> QED BY <2>1, <2>2
<1> QED BY <1>1, <1>2

(* Every rank is that of a member. *)
LEMMA RanksTaken ==
  ASSUME NEW S \in SUBSET Nat, IsFiniteSet(S), NEW k \in 0 .. Cardinality(S) - 1
  PROVE  \E p \in S : Cardinality(Above(S, p)) = k
<1> DEFINE R == {x \in S \X S : x[1] > x[2]}
<1>1. Ordered(R, S) /\ \A p \in S : Place(R, S, p) = Cardinality(Above(S, p))
  BY RanksArePlaces
<1>2. \A p \in S : Place(R, S, p) \in Nat
  BY PlaceType
<1>3. k \in Nat /\ Cardinality(S) \in Nat /\ k < Cardinality(S)
  BY FS_CardinalityType
<1> HIDE DEF R
<1> SUFFICES ASSUME \A p \in S : Place(R, S, p) # k PROVE FALSE
  BY <1>1
<1>4. \A p \in S : Place(R, S, p) \in 0 .. k - 1
  <2>1. \A p \in S : ~(k < Place(R, S, p))
    BY <1>1, <1>3, NoGap
  <2> QED BY <1>2, <1>3, <2>1
<1>5. IsFiniteSet(0 .. k - 1) /\ Cardinality(0 .. k - 1) = k
  <2>1. 0 \in Int /\ k - 1 \in Int /\ (k - 1) - 0 + 1 = k /\ (0 > k - 1 => k = 0)
    BY <1>3
  <2> QED BY <2>1, FS_Interval
<1>6. Cardinality(S) <= k
  BY <1>1, <1>4, <1>5, NoMoreThanPlaces
<1> QED BY <1>3, <1>6

LEMMA InOrderFacts ==
  ASSUME NEW S \in SUBSET Nat, IsFiniteSet(S)
  PROVE  /\ InOrder(S) \in Seq(S)
         /\ Len(InOrder(S)) = Cardinality(S)
         /\ \A i, j \in 1 .. Len(InOrder(S)) : i < j => InOrder(S)[i] > InOrder(S)[j]
         /\ \A p \in S : \E i \in 1 .. Len(InOrder(S)) : InOrder(S)[i] = p
<1> DEFINE n == Cardinality(S)
           rank(p) == Cardinality(Above(S, p))
           s == InOrder(S)
<1>1. n \in Nat
  BY FS_CardinalityType
<1>2. /\ \A p \in S : rank(p) \in 0 .. n - 1
      /\ \A p, q \in S : p > q => rank(p) < rank(q)
      /\ \A k \in 0 .. n - 1 : \E p \in S : rank(p) = k
  BY RanksStrict, RanksTaken
<1>3. s = [i \in 1 .. n |-> CHOOSE p \in S : rank(p) = i - 1]
  BY DEF InOrder
<1> HIDE DEF n, rank, s
<1>4. \A i \in 1 .. n : s[i] \in S /\ rank(s[i]) = i - 1
  <2> SUFFICES ASSUME NEW i \in 1 .. n PROVE s[i] \in S /\ rank(s[i]) = i - 1
    OBVIOUS
  <2>1. \E p \in S : rank(p) = i - 1
    BY <1>1, <1>2
  <2> QED BY <1>3, <2>1
<1>5. s \in Seq(S) /\ Len(s) = n
  BY <1>1, <1>3, <1>4
<1>6. ASSUME NEW i \in 1 .. n, NEW j \in 1 .. n, i < j PROVE s[i] > s[j]
  <2>1. /\ s[i] \in S /\ s[j] \in S /\ rank(s[i]) = i - 1 /\ rank(s[j]) = j - 1
        /\ s[i] \in Nat /\ s[j] \in Nat
    BY <1>4
  <2>2. s[i] # s[j] /\ ~(s[j] > s[i])
    BY <1>2, <1>6, <2>1
  <2> QED BY <2>1, <2>2
<1>7. ASSUME NEW p \in S PROVE \E i \in 1 .. n : s[i] = p
  <2>1. PICK k \in 0 .. n - 1 : rank(p) = k
    BY <1>2
  <2>2. k + 1 \in 1 .. n /\ (k + 1) - 1 = k /\ p \in Nat
    BY <1>1
  <2>3. s[k + 1] \in S /\ s[k + 1] \in Nat /\ rank(s[k + 1]) = k
    BY <1>4, <2>2
  <2>4. ~(s[k + 1] > p) /\ ~(p > s[k + 1])
    BY <1>2, <2>1, <2>3
  <2> QED BY <2>2, <2>3, <2>4
<1> QED BY <1>5, <1>6, <1>7 DEF n, s

-----------------------------------------------------------------------------
(* How often something is in a sequence *)

LEMMA CountType ==
  ASSUME NEW S, NEW s \in Seq(S), NEW e
  PROVE  Count(s, e) \in Nat /\ IsFiniteSet({i \in DOMAIN s : s[i] = e})
<1>1. Len(s) \in Nat /\ DOMAIN s = 1 .. Len(s)
  OBVIOUS
<1>2. IsFiniteSet(DOMAIN s)
  BY <1>1, FS_Interval
<1>3. {i \in DOMAIN s : s[i] = e} \in SUBSET (DOMAIN s)
  OBVIOUS
<1> QED BY <1>2, <1>3, FS_Subset, FS_CardinalityType DEF Count

LEMMA CountNone ==
  ASSUME NEW S, NEW s \in Seq(S), NEW e, \A i \in 1 .. Len(s) : s[i] # e
  PROVE  Count(s, e) = 0
<1>1. {i \in DOMAIN s : s[i] = e} = {}
  OBVIOUS
<1> QED BY <1>1, FS_EmptySet DEF Count

LEMMA CountEmpty ==
  ASSUME NEW e
  PROVE  Count(<<>>, e) = 0
<1>1. {i \in DOMAIN <<>> : <<>>[i] = e} = {}
  OBVIOUS
<1> QED BY <1>1, FS_EmptySet DEF Count

LEMMA CountOnce ==
  ASSUME NEW S, NEW s \in Seq(S), NEW e,
         \A i, j \in 1 .. Len(s) : s[i] = s[j] => i = j
  PROVE  Count(s, e) <= 1
<1>1. CASE \A i \in 1 .. Len(s) : s[i] # e
  BY <1>1, CountNone
<1>2. CASE \E i \in 1 .. Len(s) : s[i] = e
  <2>1. PICK i \in 1 .. Len(s) : s[i] = e
    BY <1>2
  <2>2. {j \in DOMAIN s : s[j] = e} = {i}
    BY <2>1
  <2>3. Count(s, e) = 1
    BY <2>2, FS_Singleton, Zenon DEF Count
  <2> QED BY <2>3
<1> QED BY <1>1, <1>2

LEMMA CountAppend ==
  ASSUME NEW S, NEW s \in Seq(S), NEW x \in S, NEW e
  PROVE  Count(Append(s, x), e) = Count(s, e) + One(x = e)
<1> DEFINE n == Len(s)
           A == {i \in DOMAIN s : s[i] = e}
           B == {i \in DOMAIN Append(s, x) : Append(s, x)[i] = e}
<1>1. /\ n \in Nat /\ DOMAIN s = 1 .. n /\ DOMAIN Append(s, x) = 1 .. n + 1
      /\ Append(s, x)[n + 1] = x
      /\ \A i \in 1 .. n : Append(s, x)[i] = s[i]
  OBVIOUS
<1>2. IsFiniteSet(A) /\ Cardinality(A) \in Nat /\ n + 1 \notin A
  <2>1. IsFiniteSet(A) /\ Cardinality(A) \in Nat
    BY CountType DEF Count
  <2>2. n + 1 \notin 1 .. n
    BY <1>1
  <2> QED BY <1>1, <2>1, <2>2
<1>3. 1 .. n + 1 = (1 .. n) \cup {n + 1}
  BY <1>1
<1>4. B = IF x = e THEN A \cup {n + 1} ELSE A
  BY <1>1, <1>3
<1> HIDE DEF A, B, n
<1>5. Cardinality(B) = Cardinality(A) + One(x = e)
  <2>1. CASE x = e
    BY <1>2, <1>4, <2>1, FS_AddElement DEF One
  <2>2. CASE x # e
    BY <1>2, <1>4, <2>2 DEF One
  <2> QED BY <2>1, <2>2
<1> QED BY <1>5 DEF A, B, Count

LEMMA CountTail ==
  ASSUME NEW S, NEW s \in Seq(S), s # <<>>, NEW e
  PROVE  Count(s, e) = Count(Tail(s), e) + One(Head(s) = e)
<1> DEFINE n == Len(s)
           A == {i \in DOMAIN s : s[i] = e}
           B == {i \in DOMAIN Tail(s) : Tail(s)[i] = e}
           f == [i \in B |-> i + 1]
<1>1. /\ n \in Nat \ {0} /\ DOMAIN s = 1 .. n /\ DOMAIN Tail(s) = 1 .. n - 1
      /\ \A i \in 1 .. n - 1 : Tail(s)[i] = s[i + 1]
      /\ Head(s) = s[1] /\ Tail(s) \in Seq(S)
  OBVIOUS
<1>2. IsFiniteSet(A) /\ Cardinality(A) \in Nat /\ IsFiniteSet(B) /\ Cardinality(B) \in Nat
  BY <1>1, CountType DEF Count
<1>3. f \in Bijection(B, A \ {1})
  <2>1. \A i \in B : i \in 1 .. n - 1 /\ f[i] = i + 1 /\ s[i + 1] = e
    BY <1>1
  <2>2. \A i \in B : f[i] \in A \ {1}
    BY <1>1, <2>1
  <2>3. \A i \in A \ {1} : i - 1 \in B /\ f[i - 1] = i
    <3> SUFFICES ASSUME NEW i \in A \ {1} PROVE i - 1 \in B /\ f[i - 1] = i
      OBVIOUS
    <3>1. i \in 2 .. n /\ s[i] = e /\ i - 1 \in 1 .. n - 1 /\ (i - 1) + 1 = i
      BY <1>1
    <3>2. Tail(s)[i - 1] = e
      BY <1>1, <3>1
    <3> QED BY <1>1, <3>1, <3>2
  <2>4. f \in [B -> A \ {1}]
    BY <2>2
  <2>5. \A i, j \in B : f[i] = f[j] => i = j
    BY <2>1
  <2> HIDE DEF f, A, B
  <2> QED BY <2>3, <2>4, <2>5 DEF Bijection, Injection, Surjection, IsInjective
<1>4. 1 \in A <=> Head(s) = e
  BY <1>1
<1> HIDE DEF A, B, f
<1>5. Cardinality(B) = Cardinality(A \ {1})
  BY <1>2, <1>3, FS_Bijection DEF ExistsBijection
<1>6. Cardinality(A) = Cardinality(B) + One(Head(s) = e)
  <2>1. Cardinality(A \ {1}) = IF 1 \in A THEN Cardinality(A) - 1 ELSE Cardinality(A)
    BY <1>2, FS_RemoveElement
  <2> QED BY <1>2, <1>4, <1>5, <2>1 DEF One
<1> QED BY <1>6 DEF A, B, Count

-----------------------------------------------------------------------------
(* Types *)

LEMMA BoundedQueue ==
  ASSUME NEW S, NEW n \in Nat, NEW s
  PROVE  s \in BoundedSeq(S, n) <=> s \in Seq(S) /\ Len(s) <= n
<1>1. ASSUME s \in BoundedSeq(S, n) PROVE s \in Seq(S) /\ Len(s) <= n
  <2>1. PICK m \in 0 .. n : s \in [1 .. m -> S]
    BY <1>1 DEF BoundedSeq, SeqOf
  <2> QED BY <2>1
<1>2. ASSUME s \in Seq(S), Len(s) <= n PROVE s \in BoundedSeq(S, n)
  <2>1. Len(s) \in 0 .. n /\ s \in [1 .. Len(s) -> S]
    BY <1>2
  <2> QED BY <2>1 DEF BoundedSeq, SeqOf
<1> QED BY <1>1, <1>2

Items == HivePosts \cup {End}

LEMMA QueueIsSeq ==
  ASSUME SeederTypeOK
  PROVE  queue \in Seq(Items) /\ Len(queue) <= QueueSize /\ QueueSize \in Nat \ {0}
BY SeederAssumption, BoundedQueue DEF SeederTypeOK, Items

LEMMA QueuePut ==
  ASSUME SeederTypeOK, Room, NEW e \in Items
  PROVE  Append(queue, e) \in BoundedSeq(HivePosts \cup {End}, QueueSize)
<1>1. /\ queue \in Seq(Items) /\ Len(queue) + 1 <= QueueSize /\ QueueSize \in Nat
      /\ Len(queue) \in Nat
  BY QueueIsSeq DEF Room
<1>2. Append(queue, e) \in Seq(Items) /\ Len(Append(queue, e)) = Len(queue) + 1
  BY <1>1
<1> QED BY <1>1, <1>2, BoundedQueue DEF Items

LEMMA QueueTake ==
  ASSUME SeederTypeOK, queue # <<>>
  PROVE  /\ Tail(queue) \in BoundedSeq(HivePosts \cup {End}, QueueSize)
         /\ Head(queue) \in Items
<1>1. /\ queue \in Seq(Items) /\ Len(queue) <= QueueSize /\ QueueSize \in Nat
  BY QueueIsSeq
<1>2. /\ Tail(queue) \in Seq(Items) /\ Len(Tail(queue)) = Len(queue) - 1
      /\ Head(queue) \in Items /\ Len(queue) \in Nat
  BY <1>1
<1>3. Len(Tail(queue)) <= QueueSize
  BY <1>1, <1>2
<1> QED BY <1>1, <1>2, <1>3, BoundedQueue DEF Items

LEMMA EmptyQueue ==
  <<>> \in BoundedSeq(HivePosts \cup {End}, QueueSize)
<1>1. <<>> \in Seq(HivePosts \cup {End}) /\ Len(<<>>) = 0
  OBVIOUS
<1>2. QueueSize \in Nat /\ Len(<<>>) <= QueueSize
  BY <1>1, SeederAssumption
<1> QED BY <1>1, <1>2, BoundedQueue

LEMMA PostsFinite ==
  ASSUME NEW S \in SUBSET HivePosts
  PROVE  /\ IsFiniteSet(S) /\ S \in SUBSET Nat
         /\ S # {} => /\ Max(S) \in S /\ \A p \in S : p <= Max(S)
                      /\ Min(S) \in S /\ \A p \in S : Min(S) <= p
<1>1. S \in SUBSET Nat /\ IsFiniteSet(S) /\ IsFiniteSet(HivePosts)
  <2>1. NPosts \in Nat /\ NPosts \in Int /\ 1 \in Int
    BY SeederAssumption
  <2>2. IsFiniteSet(HivePosts)
    BY <2>1, FS_Interval DEF HivePosts
  <2>3. S \in SUBSET Nat
    BY <2>1 DEF HivePosts
  <2> QED BY <2>2, <2>3, FS_Subset
<1>2. ASSUME S # {} PROVE \E x \in S : \A y \in S : x >= y
  <2>1. Len(InOrder(S)) = Cardinality(S) /\ Cardinality(S) # 0 /\ Cardinality(S) \in Nat
    BY <1>1, <1>2, InOrderFacts, FS_EmptySet, FS_CardinalityType
  <2>2. /\ InOrder(S)[1] \in S
        /\ \A p \in S : \E i \in 1 .. Len(InOrder(S)) : InOrder(S)[i] = p
        /\ \A i \in 1 .. Len(InOrder(S)) : 1 < i => InOrder(S)[1] > InOrder(S)[i]
    BY <1>1, <2>1, InOrderFacts
  <2>3. \A y \in S : InOrder(S)[1] >= y
    <3> SUFFICES ASSUME NEW y \in S PROVE InOrder(S)[1] >= y
      OBVIOUS
    <3>1. PICK i \in 1 .. Len(InOrder(S)) : InOrder(S)[i] = y
      BY <2>2
    <3>2. InOrder(S)[1] \in Nat /\ y \in Nat
      BY <1>1, <2>2
    <3>3. i = 1 \/ 1 < i
      OBVIOUS
    <3> QED BY <2>2, <3>1, <3>2, <3>3
  <2> QED BY <2>2, <2>3
<1>3. ASSUME S # {} PROVE \E x \in S : \A y \in S : x <= y
  <2> DEFINE n == Len(InOrder(S))
  <2>1. n = Cardinality(S) /\ Cardinality(S) # 0 /\ Cardinality(S) \in Nat
    BY <1>1, <1>3, InOrderFacts, FS_EmptySet, FS_CardinalityType
  <2>2. /\ InOrder(S)[n] \in S
        /\ \A p \in S : \E i \in 1 .. n : InOrder(S)[i] = p
        /\ \A i \in 1 .. n : i < n => InOrder(S)[i] > InOrder(S)[n]
    BY <1>1, <2>1, InOrderFacts
  <2>3. \A y \in S : InOrder(S)[n] <= y
    <3> SUFFICES ASSUME NEW y \in S PROVE InOrder(S)[n] <= y
      OBVIOUS
    <3>1. PICK i \in 1 .. n : InOrder(S)[i] = y
      BY <2>2
    <3>2. InOrder(S)[n] \in Nat /\ y \in Nat
      BY <1>1, <2>2
    <3>3. i = n \/ i < n
      BY <2>1
    <3> QED BY <2>2, <3>1, <3>2, <3>3
  <2> QED BY <2>2, <2>3
<1>4. S # {} => Max(S) \in S /\ \A p \in S : Max(S) >= p
  BY <1>2 DEF Max
<1>5. S # {} => Min(S) \in S /\ \A p \in S : Min(S) <= p
  BY <1>3 DEF Min
<1> QED BY <1>1, <1>4, <1>5

(* What main does. *)
DiskOK ==
  /\ file \in [kind : {"none", "good", "torn"}, posts : SUBSET HivePosts,
               labels : [HivePosts -> 0 .. MaxLabels]]
  /\ best \in [HivePosts -> 0 .. MaxLabels] /\ cutShort \in BOOLEAN

LEMMA DiskType ==
  ASSUME SeederTypeOK
  PROVE  DiskOK /\ (UNCHANGED disk => DiskOK')
BY DEF SeederTypeOK, DiskOK, disk

LEMMA TypeStart ==
  ASSUME SeederTypeOK, NEW m \in {"fresh", "resume", "incremental"}, Start(m)
  PROVE  SeederTypeOK'
<1> DEFINE old == Loaded(m)
           S == {p \in old.posts : old.labels[p] = 0}
           cached == InOrder(S)
           want == Want(m, Cardinality(old.posts))
<1>1. old.posts \in SUBSET HivePosts /\ old.labels \in [HivePosts -> 0 .. MaxLabels]
  <2>1. 0 \in 0 .. MaxLabels
    BY SeederAssumption DEF MaxLabels
  <2> QED BY <2>1 DEF SeederTypeOK, Loaded, Unlabelled
<1>2. want \in Nat
  <2>1. Target \in Nat /\ Cardinality(old.posts) \in Nat
    BY <1>1, SeederAssumption, PostsFinite, FS_CardinalityType
  <2> DEFINE c == Cardinality(old.posts)
  <2>2. {c, Target} \in SUBSET Nat /\ Min({c, Target}) \in Nat /\ Min({c, Target}) <= Target
    <3>1. \E x \in {c, Target} : \A y \in {c, Target} : x <= y
      BY <2>1
    <3>2. /\ Min({c, Target}) \in {c, Target}
          /\ \A y \in {c, Target} : Min({c, Target}) <= y
      BY <3>1 DEF Min
    <3> QED BY <2>1, <3>2
  <2> QED BY <2>1, <2>2 DEF Want
<1>3. cached \in Seq(Items) /\ Len(cached) \in Nat
  <2>1. S \in SUBSET HivePosts
    BY <1>1
  <2>2. cached \in Seq(S)
    BY <2>1, PostsFinite, InOrderFacts
  <2> QED BY <2>1, <2>2 DEF Items
<1>4. SubSeq(cached, 1, Min({Len(cached), QueueSize}))
        \in BoundedSeq(HivePosts \cup {End}, QueueSize)
  <2> DEFINE k == Min({Len(cached), QueueSize})
  <2>1. k \in 0 .. Len(cached) /\ k <= QueueSize
    <3>1. QueueSize \in Nat
      BY SeederAssumption
    <3>2. \E x \in {Len(cached), QueueSize} : \A y \in {Len(cached), QueueSize} : x <= y
      BY <1>3, <3>1
    <3>3. k \in {Len(cached), QueueSize} /\ \A y \in {Len(cached), QueueSize} : k <= y
      BY <3>2 DEF Min
    <3> QED BY <1>3, <3>1, <3>3
  <2> HIDE DEF k, cached
  <2>2. SubSeq(cached, 1, k) \in Seq(Items) /\ Len(SubSeq(cached, 1, k)) = k
    BY <1>3, <2>1
  <2>3. QueueSize \in Nat
    BY SeederAssumption
  <2> QED BY <2>1, <2>2, <2>3, BoundedQueue DEF Items, k
<1>5. ToSet(SubSeq(cached, QueueSize + 1, Len(cached))) \in SUBSET HivePosts
  <2>1. cached \in Seq(HivePosts)
    <3>1. S \in SUBSET HivePosts
      BY <1>1
    <3>2. cached \in Seq(S)
      BY <3>1, PostsFinite, InOrderFacts
    <3> QED BY <3>1, <3>2
  <2> HIDE DEF cached
  <2> DEFINE t == SubSeq(cached, QueueSize + 1, Len(cached))
  <2>2. t \in Seq(HivePosts)
    BY <1>3, <2>1, SeederAssumption
  <2> HIDE DEF t
  <2>3. \A i \in DOMAIN t : t[i] \in HivePosts
    BY <2>2
  <2>4. ToSet(t) \in SUBSET HivePosts
    BY <2>3 DEF ToSet
  <2> QED BY <2>4 DEF t
<1>6. runs' \in 0 .. MaxRuns /\ mode' \in {"fresh", "resume", "incremental"}
  <2>1. runs \in 0 .. MaxRuns /\ runs < MaxRuns /\ runs' = runs + 1 /\ mode' = m
    BY DEF Start, SeederTypeOK
  <2> QED BY <2>1, SeederAssumption
<1> HIDE DEF old, cached, want, S
<1>7. fetch' \in [pc : {"off", "connect", "query", "rows", "closing", "flag"}, want : Nat,
                  fetched : Nat, cursor : 1 .. NPosts + 1, upper : HivePosts,
                  rows : SUBSET HivePosts, errors : 0 .. MaxErrors - 1]
  <2>1. /\ fetch' = [NoFetcher EXCEPT !.pc = IF want > 0 THEN "connect" ELSE "off",
                                      !.want = want]
    BY DEF Start, want, old
  <2>2. /\ NPosts + 1 \in 1 .. NPosts + 1 /\ NPosts \in HivePosts /\ 0 \in 0 .. MaxErrors - 1
    BY SeederAssumption DEF HivePosts
  <2> QED BY <1>2, <2>1, <2>2 DEF NoFetcher
<1>8. /\ known' \in SUBSET HivePosts /\ seen' \in SUBSET HivePosts
      /\ labels' \in [HivePosts -> 0 .. MaxLabels]
      /\ queue' \in BoundedSeq(HivePosts \cup {End}, QueueSize)
      /\ overflow' \in SUBSET HivePosts
  BY <1>1, <1>4, <1>5 DEF Start, old, cached, S
<1>9. DiskOK'
  <2>1. Unlabelled \in [HivePosts -> 0 .. MaxLabels]
    BY SeederAssumption DEF Unlabelled, MaxLabels
  <2>2. file.labels \in [HivePosts -> 0 .. MaxLabels]
    BY DEF SeederTypeOK
  <2>3. best' = (IF m = "fresh" THEN Unlabelled ELSE file.labels) /\ UNCHANGED <<file, cutShort>>
    BY DEF Start
  <2> QED BY <2>1, <2>2, <2>3, DiskType DEF DiskOK
<1> HIDE DEF old, cached, S, want
<1>10. /\ newest' = newest /\ main' = "drain" /\ cls' = "loop"
       /\ UNCHANGED <<phase, exiting, stop, fetchDone, hand, count>>
  BY DEF Start
<1> QED BY <1>6, <1>7, <1>8, <1>9, <1>10 DEF DiskOK, SeederTypeOK

LEMMA TypeDown ==
  ASSUME SeederTypeOK, AllDown
  PROVE  SeederTypeOK'
<1>1. NoFetcher \in [pc : {"off", "connect", "query", "rows", "closing", "flag"}, want : Nat,
                     fetched : Nat, cursor : 1 .. NPosts + 1, upper : HivePosts,
                     rows : SUBSET HivePosts, errors : 0 .. MaxErrors - 1]
  BY SeederAssumption DEF NoFetcher, HivePosts
<1>2. Unlabelled \in [HivePosts -> 0 .. MaxLabels] /\ 0 \in 0 .. Every - 1
  BY SeederAssumption DEF Unlabelled, MaxLabels
<1> QED BY <1>1, <1>2, EmptyQueue DEF AllDown, SeederTypeOK, life

LEMMA Highest ==
  ASSUME NEW a \in Nat, NEW b \in Nat
  PROVE  Max({a, b}) \in {a, b} /\ Max({a, b}) >= a /\ Max({a, b}) >= b
<1>1. \E x \in {a, b} : \A y \in {a, b} : x >= y
  <2>1. CASE a >= b
    <3>1. a \in {a, b} /\ \A y \in {a, b} : a >= y
      BY <2>1
    <3> QED BY <3>1
  <2>2. CASE ~(a >= b)
    <3>1. b \in {a, b} /\ \A y \in {a, b} : b >= y
      BY <2>2
    <3> QED BY <3>1
  <2> QED BY <2>1, <2>2
<1>2. Max({a, b}) = CHOOSE x \in {a, b} : \A y \in {a, b} : x >= y
  BY DEF Max
<1> HIDE DEF Max
<1> QED BY <1>1, <1>2

LEMMA FileTypes ==
  ASSUME SeederTypeOK
  PROVE  /\ Torn \in [kind : {"none", "good", "torn"}, posts : SUBSET HivePosts,
                      labels : [HivePosts -> 0 .. MaxLabels]]
         /\ Written => DiskOK'
<1>1. Unlabelled \in [HivePosts -> 0 .. MaxLabels] /\ MaxLabels \in Nat
  BY SeederAssumption DEF Unlabelled, MaxLabels
<1>2. known \in SUBSET HivePosts /\ labels \in [HivePosts -> 0 .. MaxLabels]
      /\ best \in [HivePosts -> 0 .. MaxLabels]
  BY DEF SeederTypeOK
<1>3. ASSUME NEW p \in HivePosts PROVE Max({best[p], labels[p]}) \in 0 .. MaxLabels
  <2>1. best[p] \in 0 .. MaxLabels /\ labels[p] \in 0 .. MaxLabels
    BY <1>2
  <2>2. best[p] \in Nat /\ labels[p] \in Nat
    BY <1>1, <2>1
  <2>3. Max({best[p], labels[p]}) \in {best[p], labels[p]}
    BY <2>2, Highest
  <2> QED BY <2>1, <2>3
<1>4. Torn \in [kind : {"none", "good", "torn"}, posts : SUBSET HivePosts,
                 labels : [HivePosts -> 0 .. MaxLabels]]
  BY <1>1 DEF Torn
<1>5. ASSUME Written
      PROVE  DiskOK'
  <2>1. best' \in [HivePosts -> 0 .. MaxLabels]
    BY <1>3, <1>5 DEF Written
  <2>2. file' \in [kind : {"none", "good", "torn"}, posts : SUBSET HivePosts,
                   labels : [HivePosts -> 0 .. MaxLabels]]
    BY <1>2, <1>5 DEF Written
  <2> QED BY <1>5, <2>1, <2>2 DEF Written, DiskOK
<1> QED BY <1>4, <1>5

LEMMA TypeMain ==
  ASSUME SeederTypeOK,
         Main \/ Interrupt \/ Kill \/ Publish
  PROVE  SeederTypeOK'
<1> USE DEF life, shared, memory, mainVars, clsVars, disk
<1>1. CASE Drain
  <2>1. Max(overflow) \in HivePosts
    BY <1>1, PostsFinite DEF Drain, SeederTypeOK
  <2>2. queue' \in BoundedSeq(HivePosts \cup {End}, QueueSize)
    BY <1>1, <2>1, QueuePut DEF Drain, Items
  <2>3. /\ overflow' \in SUBSET HivePosts
        /\ UNCHANGED <<newest, runs, mode, file, best, cutShort, main, phase, exiting, stop, fetchDone,
                       known, seen, labels, fetch, cls, hand, count>>
    BY <1>1 DEF Drain, SeederTypeOK
  <2> QED BY <2>2, <2>3 DEF SeederTypeOK
<1>2. CASE EndInput
  <2>1. queue' \in BoundedSeq(HivePosts \cup {End}, QueueSize)
    <3>1. CASE fetch.want > 0
      BY <1>2, <3>1 DEF EndInput, SeederTypeOK
    <3>2. CASE ~(fetch.want > 0)
      BY <1>2, <3>2, QueuePut DEF EndInput, Items
    <3> QED BY <3>1, <3>2
  <2>2. fetchDone' \in BOOLEAN
    BY <1>2 DEF EndInput, SeederTypeOK
  <2> QED BY <1>2, <2>1, <2>2 DEF EndInput, SeederTypeOK
<1>3. CASE Finish \/ StopWaiting \/ Interrupt
  <2>1. DiskOK'
    BY <1>3, DiskType DEF Finish, StopWaiting, Interrupt
  <2>2. CASE Finish
    <3>1. /\ main' = "save" /\ fetch' = [fetch EXCEPT !.pc = "off"]
          /\ UNCHANGED <<newest, runs, mode, phase, exiting, overflow, queue, stop, fetchDone,
                         known, seen, labels, cls, hand, count>>
      BY <2>2 DEF Finish
    <3> QED BY <2>1, <3>1 DEF DiskOK, SeederTypeOK
  <2>3. CASE StopWaiting \/ Interrupt
    BY <2>1, <2>3 DEF StopWaiting, Interrupt, DiskOK, SeederTypeOK
  <2> QED BY <1>3, <2>2, <2>3
<1>4. CASE SaveBegin \/ SaveEnd
  BY <1>4, FileTypes DEF SaveBegin, SaveEnd, DiskOK, SeederTypeOK
<1>5. CASE Stratify
  <2>1. 0 \in 0 .. Every - 1
    BY SeederAssumption
  <2>2. DiskOK'
    BY <1>5, DiskType DEF Stratify
  <2>3. /\ main' = "target" /\ phase' = "targeted" /\ seen' = known /\ queue' = <<>>
        /\ hand' = End /\ count' = 0
        /\ UNCHANGED <<newest, runs, mode, exiting, overflow, stop, fetchDone, known, labels,
                       fetch, cls>>
    BY <1>5 DEF Stratify
  <2> QED BY <2>1, <2>2, <2>3, EmptyQueue DEF DiskOK, SeederTypeOK
<1>6. CASE \E p \in Tagged : TargetPut(p)
  <2>1. PICK p \in Tagged : TargetPut(p)
    BY <1>6
  <2>2. p \in HivePosts
    BY SeederAssumption
  <2>3. queue' \in BoundedSeq(HivePosts \cup {End}, QueueSize)
    BY <2>1, <2>2, QueuePut DEF TargetPut, Items
  <2>4. DiskOK'
    BY <2>1, DiskType DEF TargetPut
  <2>5. /\ seen' = seen \cup {p}
        /\ UNCHANGED <<newest, runs, mode, main, phase, exiting, overflow, stop, fetchDone,
                       known, labels, fetch, cls, hand, count>>
    BY <2>1 DEF TargetPut
  <2> QED BY <2>2, <2>3, <2>4, <2>5 DEF DiskOK, SeederTypeOK
<1>7. CASE TargetEnd
  <2>1. queue' \in BoundedSeq(HivePosts \cup {End}, QueueSize)
    BY <1>7, QueuePut DEF TargetEnd, Items
  <2>2. DiskOK'
    BY <1>7, DiskType DEF TargetEnd
  <2>3. /\ main' = "wait" /\ cls' = "loop" /\ fetchDone' = TRUE
        /\ UNCHANGED <<newest, runs, mode, phase, exiting, overflow, stop, known, seen, labels,
                       fetch, hand, count>>
    BY <1>7 DEF TargetEnd
  <2> QED BY <2>1, <2>2, <2>3 DEF DiskOK, SeederTypeOK
<1>8. CASE Exit \/ Kill
  BY <1>8, TypeDown DEF Exit, Kill
<1>9. CASE Publish
  <2>1. newest' \in HivePosts
    BY <1>9, SeederAssumption DEF Publish, SeederTypeOK, HivePosts
  <2> QED BY <1>9, <2>1 DEF Publish, SeederTypeOK
<1> QED BY <1>1, <1>2, <1>3, <1>4, <1>5, <1>6, <1>7, <1>8, <1>9 DEF Main

LEMMA FetchedRows ==
  ASSUME SeederTypeOK
  PROVE  /\ Fetched \in SUBSET HivePosts
         /\ \A p \in Fetched : p < fetch.cursor
BY DEF Fetched

LEMMA TypeFetcher ==
  ASSUME SeederTypeOK, Fetcher
  PROVE  SeederTypeOK'
<1> USE DEF fetcherKeeps, life, memory, mainVars, clsVars, disk
<1> DEFINE FetchType == [pc : {"off", "connect", "query", "rows", "closing", "flag"},
                         want : Nat, fetched : Nat, cursor : 1 .. NPosts + 1,
                         upper : HivePosts, rows : SUBSET HivePosts,
                         errors : 0 .. MaxErrors - 1]
<1>1. fetch \in FetchType /\ newest \in HivePosts
  BY DEF SeederTypeOK
<1>0. UNCHANGED fetcherKeeps
  BY DEF Fetcher, Connect, NoConnection, Query, QueryFails, QueryDone, Row, RowsDone, Close,
         SetDone
<1>2. SUFFICES /\ fetch' \in FetchType /\ fetchDone' \in BOOLEAN
               /\ queue' \in BoundedSeq(HivePosts \cup {End}, QueueSize)
  BY <1>0 DEF SeederTypeOK
<1>3. queue \in BoundedSeq(HivePosts \cup {End}, QueueSize) /\ fetchDone \in BOOLEAN
  BY DEF SeederTypeOK
<1>4. CASE Connect
  <2>1. NPosts \in HivePosts
    BY SeederAssumption DEF HivePosts
  <2>2. PICK upper \in HivePosts : fetch' = [fetch EXCEPT !.pc = "query", !.upper = upper]
    BY <1>1, <1>4, <2>1 DEF Connect
  <2> QED BY <1>1, <1>3, <1>4, <2>2 DEF Connect
<1>5. CASE NoConnection \/ QueryDone \/ RowsDone \/ SetDone
  BY <1>1, <1>3, <1>5 DEF NoConnection, QueryDone, RowsDone, SetDone
<1>6. CASE Query
  <2>1. 0 \in 0 .. MaxErrors - 1
    BY SeederAssumption
  <2>2. Fetched # {} => Min(Fetched) \in 1 .. NPosts + 1
    <3>1. Fetched # {} => Min(Fetched) \in HivePosts
      BY FetchedRows, PostsFinite
    <3> QED BY <3>1, SeederAssumption DEF HivePosts
  <2> QED BY <1>1, <1>3, <1>6, <2>1, <2>2, FetchedRows DEF Query
<1>7. CASE QueryFails
  <2>1. fetch.errors \in 0 .. MaxErrors - 1
    BY <1>1
  <2>2. fetch.errors + 1 < MaxErrors => fetch.errors + 1 \in 0 .. MaxErrors - 1
    BY <2>1, SeederAssumption
  <2>3. ~(fetch.errors + 1 >= MaxErrors) => fetch.errors + 1 < MaxErrors
    BY <2>1, SeederAssumption
  <2> QED BY <1>1, <1>3, <1>7, <2>2, <2>3 DEF QueryFails
<1>8. CASE Row
  <2> DEFINE p == Max(fetch.rows)
  <2>1. p \in HivePosts
    BY <1>1, <1>8, PostsFinite DEF Row
  <2>2. fetch.fetched + 1 \in Nat
    BY <1>1
  <2> HIDE DEF p
  <2>3. CASE p \in Poor
    BY <1>1, <1>3, <1>8, <2>3 DEF Row, p
  <2>4. CASE p \notin Poor
    <3>1. queue' \in BoundedSeq(HivePosts \cup {End}, QueueSize)
      BY <1>8, <2>1, <2>4, QueuePut DEF Row, Items, p
    <3> DEFINE left == [fetch EXCEPT !.rows = @ \ {p}]
    <3>2. fetch' = [left EXCEPT !.fetched = left.fetched + 1] /\ fetchDone' = fetchDone
      BY <1>8, <2>4 DEF Row, p
    <3>3. left \in FetchType /\ left.fetched + 1 \in Nat
      BY <1>1
    <3> HIDE DEF left
    <3>4. fetch' \in FetchType
      BY <3>2, <3>3
    <3> QED BY <1>3, <3>1, <3>2, <3>4
  <2> QED BY <2>3, <2>4
<1>9. CASE Close
  <2>1. queue' \in BoundedSeq(HivePosts \cup {End}, QueueSize)
    BY <1>9, QueuePut DEF Close, Items
  <2> QED BY <1>1, <1>3, <1>9, <2>1 DEF Close
<1> QED BY <1>4, <1>5, <1>6, <1>7, <1>8, <1>9 DEF Fetcher

LEMMA TypeClassifier ==
  ASSUME SeederTypeOK, Classifier,
         cls \in {"holding", "asking"} => hand \in HivePosts,
         cls = "asking" => labels[hand] < MaxLabels
  PROVE  SeederTypeOK'
<1> USE DEF clsKeeps, life, memory, mainVars, disk
<1>1. CASE Loop \/ GetTimesOut \/ AfterTimeout
  <2>1. DiskOK'
    BY <1>1, DiskType DEF Loop, GetTimesOut, AfterTimeout
  <2>2. /\ cls' \in {"off", "get", "empty", "loop"}
        /\ UNCHANGED <<clsKeeps, queue, memory, hand, count>>
    BY <1>1 DEF Loop, GetTimesOut, AfterTimeout
  <2> QED BY <2>1, <2>2 DEF DiskOK, SeederTypeOK
<1>2. CASE Get
  <2>1. /\ queue' \in BoundedSeq(HivePosts \cup {End}, QueueSize)
        /\ Head(queue) \in Items
    BY <1>2, QueueTake DEF Get
  <2>2. hand' \in HivePosts \cup {End} /\ cls' \in {"off", "holding"}
    <3>1. hand \in HivePosts \cup {End}
      BY DEF SeederTypeOK
    <3> QED BY <1>2, <2>1, <3>1 DEF Get, Items
  <2>3. UNCHANGED <<clsKeeps, disk, memory, count>>
    BY <1>2 DEF Get
  <2> QED BY <2>1, <2>2, <2>3 DEF SeederTypeOK
<1>3. CASE Note
  BY <1>3 DEF Note, SeederTypeOK
<1>4. CASE \E match \in BOOLEAN : Answer(match)
  <2>1. PICK match \in BOOLEAN : Answer(match)
    BY <1>4
  <2>2. count' \in 0 .. Every - 1
    <3>1. count \in Nat /\ Every \in Nat /\ Every > 0 /\ count' = (count + 1) % Every
      BY <2>1, SeederAssumption DEF SeederTypeOK, Answer
    <3> QED BY <3>1
  <2>3. labels' \in [HivePosts -> 0 .. MaxLabels]
    <3>1. labels[hand] \in 0 .. MaxLabels /\ MaxLabels \in Nat
      BY <2>1, SeederAssumption DEF SeederTypeOK, Answer, MaxLabels
    <3>2. labels[hand] + 1 \in 0 .. MaxLabels
      BY <2>1, <3>1 DEF Answer
    <3> QED BY <2>1, <3>2 DEF SeederTypeOK, Answer
  <2> QED BY <2>1, <2>2, <2>3 DEF Answer, SeederTypeOK
<1>5. CASE CheckpointBegin \/ CheckpointEnd
  BY <1>5, FileTypes DEF CheckpointBegin, CheckpointEnd, DiskOK, SeederTypeOK
<1> QED BY <1>1, <1>2, <1>3, <1>4, <1>5 DEF Classifier

-----------------------------------------------------------------------------
(* What a checkpoint holds, memory has, unless the run began without it. *)

LEMMA SavedNumbers ==
  ASSUME SeederTypeOK
  PROVE  /\ \A p \in HivePosts : labels[p] \in Nat /\ file.labels[p] \in Nat /\ best[p] \in Nat
         /\ labels \in [HivePosts -> Nat] /\ best \in [HivePosts -> Nat]
BY SeederAssumption DEF SeederTypeOK, MaxLabels

(* A complete checkpoint has all that an earlier one had, and memory as well. *)
LEMMA WrittenSaves ==
  ASSUME SeederTypeOK, SavedPart, main # "off", Written
  PROVE  /\ file'.kind = "good" /\ file'.labels = labels /\ cutShort' = FALSE
         /\ \A p \in HivePosts : file'.labels[p] >= best'[p] /\ labels[p] >= best'[p]
<1>1. /\ file'.kind = "good" /\ file'.labels = labels /\ cutShort' = FALSE
      /\ best' = [p \in HivePosts |-> Max({best[p], labels[p]})]
  BY DEF Written
<1>2. ASSUME NEW p \in HivePosts PROVE labels[p] >= best'[p]
  <2>1. labels[p] \in Nat /\ best[p] \in Nat /\ labels[p] >= best[p]
    BY SavedNumbers DEF SavedPart
  <2>2. best'[p] = Max({best[p], labels[p]}) /\ best'[p] \in {best[p], labels[p]}
    BY <1>1, <2>1, Highest
  <2> QED BY <2>1, <2>2
<1> QED BY <1>1, <1>2

LEMMA SavedStep ==
  ASSUME SeederTypeOK, SavedPart, StagePart, [SeederNext]_seederVars
  PROVE  SavedPart'
<1> USE DEF life, shared, memory, mainVars, clsVars, disk
<1>0. \A p \in HivePosts : labels[p] \in Nat /\ file.labels[p] \in Nat /\ best[p] \in Nat
  BY SavedNumbers
<1>1. CASE \E m \in {"fresh", "resume", "incremental"} : Start(m)
  <2>1. PICK m \in {"fresh", "resume", "incremental"} : Start(m)
    BY <1>1
  <2>2. /\ main' # "off" /\ file' = file /\ labels' = Loaded(m).labels /\ main = "off"
        /\ best' = (IF m = "fresh" THEN Unlabelled ELSE file.labels) /\ cutShort' = cutShort
    BY <2>1 DEF Start
  <2>3. m # "fresh" => file.kind \in {"none", "good"}
    BY <2>1 DEF Start, SeederTypeOK
  <2>4. m # "fresh" => labels' = file.labels
    BY <2>2, <2>3 DEF Loaded, SavedPart
  <2>5. m = "fresh" => labels' = Unlabelled
    BY <2>2 DEF Loaded
  <2>6. file.kind = "torn" => cutShort
    BY <2>2 DEF SavedPart, Down, Writing, Unlocked
  <2>7. \A p \in HivePosts : Unlabelled[p] = 0
    BY DEF Unlabelled
  <2>8. CASE m = "fresh"
    BY <1>0, <2>2, <2>5, <2>6, <2>7, <2>8 DEF SavedPart
  <2>9. CASE m # "fresh"
    BY <1>0, <2>2, <2>3, <2>4, <2>9 DEF SavedPart
  <2> QED BY <2>8, <2>9
<1>2. CASE Kill \/ Exit
  <2>1. AllDown
    BY <1>2 DEF Kill, Exit
  <2>2. UNCHANGED <<file, best>> /\ (cutShort \/ Writing => cutShort') /\ main' = "off" /\ Down'
    BY <2>1 DEF AllDown, Down
  <2> QED BY <2>2 DEF SavedPart
<1>3. CASE \/ Drain \/ EndInput \/ Finish \/ StopWaiting \/ Interrupt \/ Stratify
           \/ (\E p \in Tagged : TargetPut(p)) \/ TargetEnd
  <2>1. main # "off" /\ main' # "off" /\ UNCHANGED <<file, best, cutShort, labels>>
    BY <1>3 DEF Drain, EndInput, Finish, StopWaiting, Interrupt, Stratify, TargetPut, TargetEnd
  <2>2. main # "writing"
    BY <1>3 DEF Drain, EndInput, Finish, StopWaiting, Interrupt, Stratify, TargetPut, TargetEnd
  <2>3. cls' = cls \/ cls = "off"
    <3>1. CASE TargetEnd
      BY <3>1 DEF TargetEnd, StagePart
    <3>2. CASE \/ Drain \/ EndInput \/ Finish \/ StopWaiting \/ Interrupt \/ Stratify
               \/ (\E p \in Tagged : TargetPut(p))
      BY <3>2 DEF Drain, EndInput, Finish, StopWaiting, Interrupt, Stratify, TargetPut
    <3> QED BY <1>3, <3>1, <3>2
  <2> QED BY <2>1, <2>2, <2>3 DEF SavedPart, Writing, Unlocked
<1>4. CASE SaveBegin
  <2>1. /\ main # "off" /\ main' = "writing" /\ file' = Torn
        /\ UNCHANGED <<best, labels>>
    BY <1>4 DEF SaveBegin
  <2> QED BY <2>1 DEF SavedPart, Torn, Writing, Unlocked
<1>5. CASE SaveEnd
  <2>1. main # "off" /\ main' # "off" /\ Written /\ labels' = labels
    BY <1>5 DEF SaveEnd
  <2> QED BY <2>1, WrittenSaves DEF SavedPart
<1>6. CASE Fetcher
  <2>1. main # "off"
    BY <1>6 DEF Fetcher, Connect, NoConnection, Query, QueryFails, QueryDone, Row, RowsDone,
                Close, SetDone, SavedPart, Down, NoFetcher
  <2>2. UNCHANGED fetcherKeeps
    BY <1>6 DEF Fetcher, Connect, NoConnection, Query, QueryFails, QueryDone, Row, RowsDone,
                Close, SetDone
  <2> QED BY <2>1, <2>2 DEF SavedPart, fetcherKeeps, Writing, Unlocked
<1>7. CASE Classifier
  <2>1. main # "off" /\ UNCHANGED clsKeeps
    BY <1>7 DEF Classifier, Loop, Get, GetTimesOut, AfterTimeout, Note, Answer, CheckpointBegin,
                CheckpointEnd, SavedPart, Down
  <2>2. CASE CheckpointBegin
    <3>1. cls' = "writing" /\ file' = Torn /\ UNCHANGED <<best, labels>>
      BY <2>2 DEF CheckpointBegin
    <3> QED BY <2>1, <3>1 DEF SavedPart, clsKeeps, Torn, Writing, Unlocked
  <2>3. CASE CheckpointEnd
    <3>1. Written /\ labels' = labels
      BY <2>3 DEF CheckpointEnd
    <3> QED BY <2>1, <3>1, WrittenSaves DEF SavedPart, clsKeeps
  <2>4. CASE \E match \in BOOLEAN : Answer(match)
    <3>1. /\ UNCHANGED <<file, best, cutShort>> /\ cls = "asking"
          /\ (labels' = labels \/ labels' = [labels EXCEPT ![hand] = @ + 1])
      BY <2>4 DEF Answer
    <3>2. labels \in [HivePosts -> Nat]
      BY SavedNumbers
    <3>3. \A p \in HivePosts : labels'[p] \in Nat /\ labels'[p] >= labels[p]
      BY <1>0, <3>1, <3>2
    <3>4. \A p \in HivePosts : labels'[p] >= best'[p]
      BY <1>0, <2>1, <3>1, <3>3 DEF SavedPart
    <3>5. main' = main
      BY <2>1 DEF clsKeeps
    <3> QED BY <2>1, <3>1, <3>4, <3>5 DEF SavedPart, Writing, Unlocked
  <2>5. CASE Loop \/ Get \/ GetTimesOut \/ AfterTimeout \/ Note
    <3>1. UNCHANGED <<file, best, cutShort, labels>> /\ cls # "writing"
      BY <2>5 DEF Loop, Get, GetTimesOut, AfterTimeout, Note
    <3> QED BY <2>1, <3>1 DEF SavedPart, clsKeeps, Writing, Unlocked
  <2> QED BY <1>7, <2>2, <2>3, <2>4, <2>5 DEF Classifier
<1>8. CASE Publish \/ UNCHANGED seederVars
  BY <1>8 DEF Publish, seederVars, SavedPart, Down, Writing, Unlocked
<1> QED BY <1>1, <1>2, <1>3, <1>4, <1>5, <1>6, <1>7, <1>8 DEF SeederNext, Main

(* What a step does to the labels that the file holds. *)
LEMMA FileStep ==
  ASSUME SeederTypeOK, SavedPart, [SeederNext]_seederVars
  PROVE  file'.labels \in {file.labels, labels, Unlabelled}
<1> USE DEF life, shared, memory, mainVars, clsVars, disk
<1>1. CASE SaveBegin \/ CheckpointBegin
  BY <1>1 DEF SaveBegin, CheckpointBegin, Torn
<1>2. CASE SaveEnd \/ CheckpointEnd
  BY <1>2 DEF SaveEnd, CheckpointEnd, Written
<1>3. CASE \/ (\E m \in {"fresh", "resume", "incremental"} : Start(m))
           \/ Kill \/ Exit \/ Drain \/ EndInput \/ Finish \/ StopWaiting \/ Interrupt
           \/ Stratify \/ (\E p \in Tagged : TargetPut(p)) \/ TargetEnd
           \/ Publish \/ UNCHANGED seederVars
  <2>1. file' = file
    BY <1>3 DEF Start, Kill, Exit, AllDown, Drain, EndInput, Finish, StopWaiting, Interrupt,
                Stratify, TargetPut, TargetEnd, Publish, seederVars
  <2> QED BY <2>1
<1>4. CASE Fetcher
  <2>1. UNCHANGED fetcherKeeps
    BY <1>4 DEF Fetcher, Connect, NoConnection, Query, QueryFails, QueryDone, Row, RowsDone,
                Close, SetDone
  <2> QED BY <2>1 DEF fetcherKeeps
<1>5. CASE Loop \/ Get \/ GetTimesOut \/ AfterTimeout \/ Note
           \/ (\E match \in BOOLEAN : Answer(match))
  <2>1. file' = file
    BY <1>5 DEF Loop, Get, GetTimesOut, AfterTimeout, Note, Answer
  <2> QED BY <2>1
<1> QED BY <1>1, <1>2, <1>3, <1>4, <1>5 DEF SeederNext, Main, Classifier

-----------------------------------------------------------------------------
(* The threads at the stages of a run *)

LEMMA StageStep ==
  ASSUME SeederTypeOK, SavedPart, StagePart, [SeederNext]_seederVars
  PROVE  StagePart'
<1> USE DEF life, shared, memory, mainVars, clsVars, disk
<1>1. CASE \E m \in {"fresh", "resume", "incremental"} : Start(m)
  <2>1. PICK m \in {"fresh", "resume", "incremental"} : Start(m)
    BY <1>1
  <2>2. phase = "broad"
    BY <2>1 DEF Start, SavedPart, Down
  <2>3. /\ main' = "drain" /\ phase' = "broad" /\ seen' = known' /\ cls' = "loop"
        /\ fetch'.pc # "rows"
    BY <2>1, <2>2 DEF Start, NoFetcher
  <2> QED BY <2>3 DEF StagePart
<1>2. CASE Kill \/ Exit
  <2>1. /\ main' = "off" /\ phase' = "broad" /\ overflow' = {} /\ known' = {} /\ seen' = {}
        /\ fetch' = NoFetcher /\ cls' = "off"
    BY <1>2 DEF Kill, Exit, AllDown
  <2>2. fetch'.pc = "off"
    BY <2>1 DEF NoFetcher
  <2> QED BY <2>1, <2>2 DEF StagePart
<1>3. CASE Drain \/ EndInput \/ StopWaiting \/ Interrupt
  BY <1>3 DEF Drain, EndInput, StopWaiting, Interrupt, StagePart
<1>4. CASE Finish
  BY <1>4 DEF Finish, StagePart, SeederTypeOK
<1>5. CASE SaveBegin \/ SaveEnd
  BY <1>5 DEF SaveBegin, SaveEnd, StagePart
<1>6. CASE Stratify
  BY <1>6 DEF Stratify, StagePart
<1>7. CASE (\E p \in Tagged : TargetPut(p)) \/ TargetEnd
  <2>1. /\ main = "target" /\ phase = "targeted"
        /\ main' # "drain" /\ main' \notin {"save", "writing", "saved"}
    BY <1>7 DEF TargetPut, TargetEnd, StagePart
  <2>2. UNCHANGED <<overflow, phase, known, fetch, hand>> /\ cls' \in {cls, "loop"}
    BY <1>7 DEF TargetPut, TargetEnd
  <2> QED BY <1>7, <2>1, <2>2 DEF StagePart, TargetPut, TargetEnd
<1>8. CASE Fetcher
  <2>1. UNCHANGED fetcherKeeps
    BY <1>8 DEF Fetcher, Connect, NoConnection, Query, QueryFails, QueryDone, Row, RowsDone,
                Close, SetDone
  <2>2. fetch.pc # "off"
    BY <1>8 DEF Fetcher, Connect, NoConnection, Query, QueryFails, QueryDone, Row, RowsDone,
                Close, SetDone
  <2>3. fetch'.pc = "rows" => \A p \in fetch'.rows : p >= fetch'.cursor
    <3>1. fetch \in [pc : {"off", "connect", "query", "rows", "closing", "flag"}, want : Nat,
                     fetched : Nat, cursor : 1 .. NPosts + 1, upper : HivePosts,
                     rows : SUBSET HivePosts, errors : 0 .. MaxErrors - 1]
      BY DEF SeederTypeOK
    <3>2. CASE Connect \/ NoConnection \/ QueryFails \/ QueryDone \/ RowsDone \/ Close \/ SetDone
      <4>1. fetch'.pc # "rows"
        BY <3>1, <3>2 DEF Connect, NoConnection, QueryFails, QueryDone, RowsDone, Close, SetDone
      <4> QED BY <4>1
    <3>3. CASE Query
      <4>1. Fetched # {} => \A p \in Fetched : p >= Min(Fetched)
        <5>1. Fetched \in SUBSET Nat
          BY FetchedRows, PostsFinite
        <5>2. Fetched # {} => Min(Fetched) \in Nat /\ \A p \in Fetched : Min(Fetched) <= p
          BY <5>1, FetchedRows, PostsFinite
        <5> QED BY <5>1, <5>2
      <4>2. CASE fetch' = [fetch EXCEPT !.pc = "closing", !.errors = 0]
        BY <3>1, <4>2
      <4>3. CASE fetch' # [fetch EXCEPT !.pc = "closing", !.errors = 0]
        <5>1. /\ Fetched # {}
              /\ fetch' = [fetch EXCEPT !.pc = "rows", !.rows = Fetched, !.cursor = Min(Fetched),
                                       !.errors = 0]
          BY <3>3, <4>3 DEF Query
        <5>2. fetch'.rows = Fetched /\ fetch'.cursor = Min(Fetched)
          BY <3>1, <5>1
        <5> QED BY <4>1, <5>1, <5>2
      <4> QED BY <4>2, <4>3
    <3>4. CASE Row
      <4>1. /\ fetch.pc = "rows" /\ fetch'.cursor = fetch.cursor
            /\ fetch'.rows \subseteq fetch.rows
        BY <3>1, <3>4 DEF Row
      <4> QED BY <4>1 DEF StagePart
    <3> QED BY <1>8, <3>2, <3>3, <3>4 DEF Fetcher
  <2> QED BY <2>1, <2>2, <2>3 DEF StagePart, fetcherKeeps
<1>9. CASE Classifier
  <2>1. UNCHANGED clsKeeps /\ cls # "off"
    BY <1>9 DEF Classifier, Loop, Get, GetTimesOut, AfterTimeout, Note, Answer, CheckpointBegin,
                CheckpointEnd
  <2>2. /\ phase' = "broad" => seen' = known'
        /\ cls' \in {"holding", "asking"} => hand' \in HivePosts
        /\ cls' = "asking" /\ phase' = "broad" => hand' \in known'
    <3>1. CASE Loop \/ GetTimesOut \/ AfterTimeout \/ CheckpointBegin \/ CheckpointEnd
      BY <2>1, <3>1 DEF Loop, GetTimesOut, AfterTimeout, CheckpointBegin, CheckpointEnd,
                        clsKeeps, StagePart
    <3>2. CASE Get
      <4>1. Head(queue) \in Items
        BY <3>2, QueueTake DEF Get
      <4>2. cls' = "holding" => hand' \in HivePosts
        BY <3>2, <4>1 DEF Get, Items
      <4> QED BY <2>1, <3>2, <4>2 DEF Get, clsKeeps, StagePart
    <3>3. CASE Note
      BY <2>1, <3>3 DEF Note, clsKeeps, StagePart
    <3>4. CASE \E match \in BOOLEAN : Answer(match)
      BY <2>1, <3>4 DEF Answer, clsKeeps, StagePart
    <3> QED BY <1>9, <3>1, <3>2, <3>3, <3>4 DEF Classifier
  <2> QED BY <2>1, <2>2 DEF StagePart, clsKeeps
<1>10. CASE Publish \/ UNCHANGED seederVars
  BY <1>10 DEF Publish, seederVars, StagePart
<1> QED BY <1>1, <1>2, <1>3, <1>4, <1>5, <1>6, <1>7, <1>8, <1>9, <1>10 DEF SeederNext, Main

-----------------------------------------------------------------------------
(* How often a post may be labelled *)

LEMMA OneType ==
  ASSUME NEW b \in BOOLEAN
  PROVE  One(b) \in 0 .. 1 /\ (b => One(b) = 1) /\ (~b => One(b) = 0)
BY DEF One

LEMMA DueType ==
  ASSUME SeederTypeOK, NEW p \in HivePosts
  PROVE  /\ labels[p] \in Nat /\ runs \in Nat /\ Count(queue, p) \in Nat /\ Due(p) \in Nat
         /\ Due(p) = One(p \in overflow) + Count(queue, p) + One(hand = p) + One(ToCome(p))
         /\ One(p \in overflow) \in 0 .. 1 /\ One(hand = p) \in 0 .. 1 /\ One(ToCome(p)) \in 0 .. 1
<1>1. labels[p] \in Nat /\ runs \in Nat
  BY SeederAssumption DEF SeederTypeOK, MaxLabels
<1>2. Count(queue, p) \in Nat
  BY QueueIsSeq, CountType
<1>3. One(p \in overflow) \in 0 .. 1 /\ One(hand = p) \in 0 .. 1 /\ One(ToCome(p)) \in 0 .. 1
  BY DEF One
<1> QED BY <1>1, <1>2, <1>3 DEF Due

LEMMA DueTypeNext ==
  ASSUME SeederTypeOK', NEW p \in HivePosts
  PROVE  /\ labels'[p] \in Nat /\ runs' \in Nat /\ Count(queue', p) \in Nat /\ Due(p)' \in Nat
         /\ Due(p)' = One(p \in overflow') + Count(queue', p) + One(hand' = p) + One(ToCome(p)')
         /\ One(p \in overflow') \in 0 .. 1 /\ One(hand' = p) \in 0 .. 1
         /\ One(ToCome(p)') \in 0 .. 1
<1>1. labels'[p] \in Nat /\ runs' \in Nat
  BY SeederAssumption DEF SeederTypeOK, MaxLabels
<1>2. Count(queue', p) \in Nat
  <2>1. queue' \in Seq(Items)
    BY SeederAssumption, BoundedQueue DEF SeederTypeOK, Items
  <2> QED BY <2>1, CountType
<1>3. /\ One(p \in overflow') \in 0 .. 1 /\ One(hand' = p) \in 0 .. 1
      /\ One(ToCome(p)') \in 0 .. 1
  BY DEF One
<1> QED BY <1>1, <1>2, <1>3 DEF Due

(* Nothing that is due is lost, and nothing is added. *)
LEMMA DueBound ==
  ASSUME SeederTypeOK, SeederTypeOK', LabelPart, NEW p \in HivePosts, runs' = runs,
         ToCome(p)' => ToCome(p),
         labels'[p] + One(p \in overflow') + Count(queue', p) + One(hand' = p)
           <= labels[p] + One(p \in overflow) + Count(queue, p) + One(hand = p)
  PROVE  labels'[p] + Due(p)' <= 2 * runs'
<1>1. One(ToCome(p)') <= One(ToCome(p))
  BY DEF One
<1>2. labels[p] + Due(p) <= 2 * runs
  BY DEF LabelPart
<1> HIDE DEF Due
<1> QED BY <1>1, <1>2, DueType, DueTypeNext

LEMMA CountPut ==
  ASSUME SeederTypeOK, NEW e \in Items, NEW p \in HivePosts
  PROVE  /\ Count(Append(queue, e), p) = Count(queue, p) + One(e = p)
         /\ e = End => Count(Append(queue, e), p) = Count(queue, p)
<1>1. Count(Append(queue, e), p) = Count(queue, p) + One(e = p)
  BY QueueIsSeq, CountAppend
<1>2. e = End => e # p
  BY SeederAssumption DEF HivePosts, End
<1>3. Count(queue, p) \in Nat
  BY DueType
<1> QED BY <1>1, <1>2, <1>3 DEF One

LEMMA DueMain ==
  ASSUME SeederTypeOK, SeederTypeOK', SavedPart, StagePart, LabelPart, NEW p \in HivePosts,
         Main \/ Interrupt \/ Kill \/ Publish
  PROVE  labels'[p] + Due(p)' <= 2 * runs'
<1> USE DEF life, shared, memory, mainVars, clsVars, disk
<1>1. CASE Drain
  <2> DEFINE m == Max(overflow)
  <2>1. m \in overflow /\ m \in Items
    BY <1>1, PostsFinite DEF Drain, SeederTypeOK, Items
  <2>2. /\ overflow' = overflow \ {m} /\ queue' = Append(queue, m)
        /\ UNCHANGED <<labels, hand, runs, phase, fetch, seen>>
    BY <1>1 DEF Drain
  <2> HIDE DEF m
  <2>3. Count(queue', p) = Count(queue, p) + One(m = p)
    BY <2>1, <2>2, CountPut
  <2>4. One(p \in overflow') + One(m = p) = One(p \in overflow)
    BY <2>1, <2>2 DEF One
  <2>5. ToCome(p)' => ToCome(p)
    BY <2>2 DEF ToCome
  <2>6. labels'[p] + One(p \in overflow') + Count(queue', p) + One(hand' = p)
          <= labels[p] + One(p \in overflow) + Count(queue, p) + One(hand = p)
    BY <2>2, <2>3, <2>4, DueType, DueTypeNext DEF One
  <2> QED BY <2>2, <2>5, <2>6, DueBound
<1>2. CASE EndInput \/ TargetEnd
  <2>1. /\ UNCHANGED <<labels, overflow, hand, runs, phase, fetch, seen>>
        /\ queue' = queue \/ queue' = Append(queue, End)
    BY <1>2 DEF EndInput, TargetEnd
  <2>2. Count(queue', p) = Count(queue, p)
    <3>1. Count(Append(queue, End), p) = Count(queue, p)
      BY CountPut DEF Items
    <3> QED BY <2>1, <3>1
  <2>3. ToCome(p)' => ToCome(p)
    BY <2>1 DEF ToCome
  <2> QED BY <2>1, <2>2, <2>3, DueBound, DueType
<1>3. CASE Finish \/ StopWaiting \/ Interrupt \/ SaveBegin \/ SaveEnd \/ Publish
  <2>1. /\ UNCHANGED <<labels, overflow, queue, hand, runs, phase, seen>>
        /\ fetch' = fetch \/ fetch' = [fetch EXCEPT !.pc = "off"]
    BY <1>3 DEF Finish, StopWaiting, Interrupt, SaveBegin, SaveEnd, Publish
  <2>2. fetch'.pc \in {fetch.pc, "off"} /\ fetch'.cursor = fetch.cursor /\ fetch'.rows = fetch.rows
    BY <2>1 DEF SeederTypeOK
  <2>3. ToCome(p)' => ToCome(p)
    BY <2>1, <2>2 DEF ToCome
  <2> QED BY <2>1, <2>3, DueBound, DueType
<1>4. CASE Exit \/ Kill
  <2>1. /\ labels' = Unlabelled /\ overflow' = {} /\ queue' = <<>> /\ hand' = End
        /\ phase' = "broad" /\ fetch' = NoFetcher
    BY <1>4 DEF Exit, Kill, AllDown
  <2>2. labels'[p] = 0 /\ One(p \in overflow') = 0 /\ One(hand' = p) = 0
    BY <2>1, SeederAssumption DEF Unlabelled, One, HivePosts, End
  <2>3. Count(queue', p) = 0
    BY <2>1, CountEmpty
  <2>4. One(ToCome(p)') = 0
    BY <2>1 DEF One, ToCome, NoFetcher
  <2> QED BY <2>2, <2>3, <2>4, DueTypeNext
<1>5. CASE Stratify
  <2>1. /\ labels' = labels /\ overflow' = overflow /\ queue' = <<>> /\ hand' = End
        /\ phase' = "targeted" /\ seen' = known /\ runs' = runs
        /\ main = "saved" /\ phase = "broad"
    BY <1>5 DEF Stratify
  <2>2. overflow = {}
    BY <2>1 DEF StagePart
  <2>3. One(p \in overflow') = 0 /\ One(hand' = p) = 0
    BY <2>1, <2>2, SeederAssumption DEF One, HivePosts, End
  <2>4. Count(queue', p) = 0
    BY <2>1, CountEmpty
  <2>5. One(ToCome(p)') = One(p \notin known)
    BY <2>1 DEF One, ToCome
  <2> DEFINE coming == IF p \in known THEN 0 ELSE 1
  <2>9. One(ToCome(p)') = coming
    BY <2>5 DEF One
  <2>8. Due(p)' = coming /\ labels'[p] = labels[p] /\ runs' = runs
    <3> HIDE DEF coming, Due
    <3>1. Due(p)' = 0 + 0 + 0 + coming /\ coming \in 0 .. 1
      BY <2>3, <2>4, <2>9, DueTypeNext
    <3> QED BY <2>1, <3>1
  <2>6. CASE p \in known
    <3>1. labels[p] + Due(p) <= 2 * runs
      BY DEF LabelPart
    <3> HIDE DEF Due
    <3> QED BY <2>6, <2>8, <3>1, DueType
  <2>7. CASE p \notin known
    <3>1. labels[p] + 2 <= 2 * runs
      BY <2>1, <2>7 DEF LabelPart
    <3> HIDE DEF Due
    <3> QED BY <2>7, <2>8, <3>1, DueType
  <2> QED BY <2>6, <2>7
<1>6. CASE \E q \in Tagged : TargetPut(q)
  <2>1. PICK q \in Tagged : TargetPut(q)
    BY <1>6
  <2>2. /\ UNCHANGED <<labels, overflow, hand, runs, phase>>
        /\ q \notin seen /\ seen' = seen \cup {q} /\ queue' = Append(queue, q)
        /\ phase = "targeted" /\ q \in Items
    BY <2>1, SeederAssumption DEF TargetPut, StagePart, Items
  <2>3. Count(queue', p) = Count(queue, p) + One(q = p)
    BY <2>2, CountPut
  <2>4. One(q = p) + One(ToCome(p)') = One(ToCome(p))
    BY <2>2 DEF One, ToCome
  <2>5. labels[p] + Due(p) <= 2 * runs
    BY DEF LabelPart
  <2>6. One(q = p) \in 0 .. 1
    BY DEF One
  <2>7. /\ labels'[p] = labels[p] /\ One(p \in overflow') = One(p \in overflow)
        /\ One(hand' = p) = One(hand = p) /\ runs' = runs
    BY <2>2
  <2> HIDE DEF Due
  <2> QED BY <2>3, <2>4, <2>5, <2>6, <2>7, DueType, DueTypeNext
<1> QED BY <1>1, <1>2, <1>3, <1>4, <1>5, <1>6 DEF Main

LEMMA DueFetcher ==
  ASSUME SeederTypeOK, SeederTypeOK', SavedPart, StagePart, LabelPart, NEW p \in HivePosts,
         Fetcher
  PROVE  labels'[p] + Due(p)' <= 2 * runs'
<1>1. UNCHANGED <<labels, overflow, hand, runs, phase, seen>> /\ fetch.pc # "off"
  BY DEF Fetcher, Connect, NoConnection, Query, QueryFails, QueryDone, Row, RowsDone, Close,
         SetDone, fetcherKeeps, life, mainVars, memory, clsVars
<1>2. phase = "broad" /\ phase' = "broad"
  BY <1>1 DEF StagePart, SeederTypeOK
<1>3. fetch \in [pc : {"off", "connect", "query", "rows", "closing", "flag"}, want : Nat,
                 fetched : Nat, cursor : 1 .. NPosts + 1, upper : HivePosts,
                 rows : SUBSET HivePosts, errors : 0 .. MaxErrors - 1]
  BY DEF SeederTypeOK
<1>4. CASE Connect \/ NoConnection \/ QueryFails \/ QueryDone \/ RowsDone \/ SetDone
  <2>1. queue' = queue
    BY <1>4 DEF Connect, NoConnection, QueryFails, QueryDone, RowsDone, SetDone
  <2>2. ToCome(p)' => ToCome(p)
    <3>1. /\ fetch'.cursor = fetch.cursor /\ fetch'.rows \subseteq fetch.rows
          /\ fetch'.pc \in {"connect", "query", "rows"}
               => fetch.pc \in {"connect", "query", "rows"}
      BY <1>3, <1>4 DEF Connect, NoConnection, QueryFails, QueryDone, RowsDone, SetDone
    <3> QED BY <1>2, <3>1 DEF ToCome
  <2> QED BY <1>1, <2>1, <2>2, DueBound, DueType
<1>5. CASE Close
  <2>1. queue' = Append(queue, End) /\ fetch'.pc = "flag"
    BY <1>3, <1>5 DEF Close
  <2>2. Count(queue', p) = Count(queue, p)
    BY <2>1, CountPut DEF Items
  <2>3. ToCome(p)' => ToCome(p)
    BY <1>2, <2>1 DEF ToCome
  <2> QED BY <1>1, <2>2, <2>3, DueBound, DueType
<1>6. CASE Query
  <2>1. queue' = queue /\ fetch.pc = "query"
    BY <1>6 DEF Query
  <2>2. ToCome(p)' => ToCome(p)
    <3>1. CASE fetch' = [fetch EXCEPT !.pc = "closing", !.errors = 0]
      <4>1. fetch'.pc = "closing"
        BY <1>3, <3>1
      <4> QED BY <1>2, <4>1 DEF ToCome
    <3>2. CASE fetch' # [fetch EXCEPT !.pc = "closing", !.errors = 0]
      <4>0. /\ Fetched # {}
            /\ fetch' = [fetch EXCEPT !.pc = "rows", !.rows = Fetched, !.cursor = Min(Fetched),
                                     !.errors = 0]
        BY <1>6, <3>2 DEF Query
      <4>1. fetch'.rows = Fetched /\ fetch'.cursor = Min(Fetched)
        BY <1>3, <4>0
      <4>2. Min(Fetched) \in Fetched /\ Fetched \in SUBSET HivePosts
        BY <4>0, FetchedRows, PostsFinite
      <4>3. /\ Min(Fetched) < fetch.cursor /\ Min(Fetched) \in Nat /\ fetch.cursor \in Nat
            /\ p \in Nat
        <5>1. fetch.cursor \in Nat /\ HivePosts \in SUBSET Nat
          BY <1>3, SeederAssumption DEF HivePosts
        <5> QED BY <4>2, <5>1, FetchedRows
      <4>4. p < Min(Fetched) \/ p \in Fetched => p < fetch.cursor
        BY <4>3, FetchedRows
      <4> QED BY <1>2, <2>1, <4>1, <4>4 DEF ToCome
    <3> QED BY <3>1, <3>2
  <2> QED BY <1>1, <2>1, <2>2, DueBound, DueType
<1>7. CASE Row
  <2> DEFINE q == Max(fetch.rows)
  <2>1. q \in fetch.rows /\ q \in HivePosts /\ q \in Items
    BY <1>3, <1>7, PostsFinite DEF Row, Items
  <2>2. fetch.pc = "rows" /\ fetch'.cursor = fetch.cursor /\ fetch'.rows = fetch.rows \ {q}
        /\ fetch'.pc = "rows"
    BY <1>3, <1>7 DEF Row
  <2>3. queue' = queue \/ queue' = Append(queue, q)
    BY <1>7 DEF Row
  <2> HIDE DEF q
  <2>4. ToCome(p)' => ToCome(p)
    BY <1>2, <2>2 DEF ToCome
  <2>5. CASE queue' = queue
    BY <1>1, <2>4, <2>5, DueBound, DueType
  <2>6. CASE queue' = Append(queue, q)
    <3>1. Count(queue', p) = Count(queue, p) + One(q = p)
      BY <2>1, <2>6, CountPut
    <3>2. q >= fetch.cursor /\ q \in Nat /\ fetch.cursor \in Nat
      BY <1>3, <2>1, <2>2, SeederAssumption DEF StagePart, HivePosts
    <3>3. q = p => ToCome(p) /\ ~ToCome(p)'
      BY <1>2, <2>1, <2>2, <3>2 DEF ToCome
    <3>4. One(q = p) + One(ToCome(p)') <= One(ToCome(p))
      BY <2>4, <3>3 DEF One
    <3>5. labels[p] + Due(p) <= 2 * runs
      BY DEF LabelPart
    <3>6. One(q = p) \in 0 .. 1
      BY DEF One
    <3>7. /\ labels'[p] = labels[p] /\ One(p \in overflow') = One(p \in overflow)
          /\ One(hand' = p) = One(hand = p) /\ runs' = runs
      BY <1>1
    <3> HIDE DEF Due
    <3> QED BY <3>1, <3>4, <3>5, <3>6, <3>7, DueType, DueTypeNext
  <2> QED BY <2>3, <2>5, <2>6
<1> QED BY <1>4, <1>5, <1>6, <1>7 DEF Fetcher

LEMMA DueClassifier ==
  ASSUME SeederTypeOK, SeederTypeOK', StagePart, LabelPart, NEW p \in HivePosts, Classifier
  PROVE  labels'[p] + Due(p)' <= 2 * runs'
<1>1. UNCHANGED <<overflow, runs, phase, fetch>>
  BY DEF Classifier, Loop, Get, GetTimesOut, AfterTimeout, Note, Answer, CheckpointBegin,
         CheckpointEnd, clsKeeps, life, mainVars
<1>2. CASE Loop \/ GetTimesOut \/ AfterTimeout \/ Note \/ CheckpointBegin \/ CheckpointEnd
  <2>1. UNCHANGED <<labels, queue, hand>> /\ seen \subseteq seen'
    BY <1>2 DEF Loop, GetTimesOut, AfterTimeout, Note, CheckpointBegin, CheckpointEnd, memory
  <2>2. ToCome(p)' => ToCome(p)
    BY <1>1, <2>1 DEF ToCome
  <2> QED BY <1>1, <2>1, <2>2, DueBound, DueType
<1>3. CASE Get
  <2>1. queue # <<>> /\ queue' = Tail(queue) /\ UNCHANGED <<labels, seen>>
    BY <1>3 DEF Get, memory
  <2>2. Count(queue, p) = Count(queue', p) + One(Head(queue) = p)
    BY <2>1, QueueIsSeq, CountTail
  <2>3. One(hand' = p) <= One(hand = p) + One(Head(queue) = p)
    <3>1. hand' = hand \/ hand' = Head(queue)
      BY <1>3 DEF Get
    <3> QED BY <3>1 DEF One
  <2>4. ToCome(p)' => ToCome(p)
    BY <1>1, <2>1 DEF ToCome
  <2>5. One(Head(queue) = p) \in 0 .. 1
    BY DEF One
  <2>6. /\ labels'[p] = labels[p] /\ One(p \in overflow') = One(p \in overflow)
        /\ labels[p] \in Nat /\ One(p \in overflow) \in 0 .. 1
        /\ Count(queue, p) \in Nat /\ Count(queue', p) \in Nat
        /\ One(hand = p) \in 0 .. 1 /\ One(hand' = p) \in 0 .. 1
    BY <1>1, <2>1, DueType, DueTypeNext
  <2>7. labels'[p] + One(p \in overflow') + Count(queue', p) + One(hand' = p)
          <= labels[p] + One(p \in overflow) + Count(queue, p) + One(hand = p)
    BY <2>2, <2>3, <2>5, <2>6
  <2> QED BY <1>1, <2>4, <2>7, DueBound
<1>4. CASE \E match \in BOOLEAN : Answer(match)
  <2>1. PICK match \in BOOLEAN : Answer(match)
    BY <1>4
  <2>2. queue' = queue /\ hand' = End /\ seen' = seen /\ hand \in HivePosts
    BY <2>1 DEF Answer, StagePart, memory
  <2>3. labels'[p] <= labels[p] + One(hand = p)
    <3>1. labels' = labels \/ labels' = [labels EXCEPT ![hand] = @ + 1]
      BY <2>1 DEF Answer, memory
    <3>2. labels \in [HivePosts -> Nat]
      BY SeederAssumption DEF SeederTypeOK, MaxLabels
    <3> QED BY <3>1, <3>2 DEF One
  <2>4. One(hand' = p) = 0
    BY <2>2, SeederAssumption DEF One, HivePosts, End
  <2>5. ToCome(p)' => ToCome(p)
    BY <1>1, <2>2 DEF ToCome
  <2>6. labels'[p] + One(p \in overflow') + Count(queue', p) + One(hand' = p)
          <= labels[p] + One(p \in overflow) + Count(queue, p) + One(hand = p)
    BY <1>1, <2>2, <2>3, <2>4, DueType, DueTypeNext
  <2> QED BY <1>1, <2>5, <2>6, DueBound
<1> QED BY <1>2, <1>3, <1>4 DEF Classifier

(* A post without a label in the file is put once by main. *)
LEMMA DueStart ==
  ASSUME SeederTypeOK, SeederTypeOK', SavedPart, LabelPart, NEW p \in HivePosts,
         NEW m \in {"fresh", "resume", "incremental"}, Start(m)
  PROVE  /\ labels'[p] + Due(p)' <= 2 * runs'
         /\ labels'[p] + 2 <= 2 * runs'
<1> DEFINE old == Loaded(m)
           S == {q \in old.posts : old.labels[q] = 0}
           s == InOrder(S)
           k == Min({Len(s), QueueSize})
           front == SubSeq(s, 1, k)
           rest == SubSeq(s, QueueSize + 1, Len(s))
<1>1. S \in SUBSET HivePosts
  BY DEF SeederTypeOK, Loaded
<1>2. /\ s \in Seq(S) /\ Len(s) \in Nat
      /\ \A i, j \in 1 .. Len(s) : s[i] = s[j] => i = j
  <2>1. /\ s \in Seq(S) /\ \A i, j \in 1 .. Len(s) : i < j => s[i] > s[j]
    BY <1>1, PostsFinite, InOrderFacts
  <2>4. S \in SUBSET Nat
    BY <1>1, PostsFinite
  <2> HIDE DEF s
  <2>5. \A i \in 1 .. Len(s) : s[i] \in S
    BY <2>1
  <2> HIDE DEF S
  <2>2. \A i \in 1 .. Len(s) : s[i] \in Nat
    BY <2>4, <2>5
  <2>3. \A i, j \in 1 .. Len(s) : i # j => i < j \/ j < i
    OBVIOUS
  <2> QED BY <2>1, <2>2, <2>3
<1>3. queue' = front /\ overflow' = ToSet(rest) /\ labels' = old.labels /\ runs' = runs + 1
  BY DEF Start
<1>4. k \in 0 .. Len(s) /\ k <= QueueSize /\ (k = Len(s) \/ k = QueueSize) /\ QueueSize \in Nat
  <2>1. QueueSize \in Nat
    BY SeederAssumption
  <2>2. \E x \in {Len(s), QueueSize} : \A y \in {Len(s), QueueSize} : x <= y
    BY <1>2, <2>1
  <2>3. k \in {Len(s), QueueSize} /\ \A y \in {Len(s), QueueSize} : k <= y
    BY <2>2 DEF Min
  <2> QED BY <1>2, <2>1, <2>3
<1> HIDE DEF s, k
<1>5. /\ front \in Seq(S) /\ Len(front) = k
      /\ \A i \in 1 .. k : front[i] = s[i]
  BY <1>2, <1>4
<1>6. Count(queue', p) <= 1
  <2>1. \A i, j \in 1 .. Len(front) : front[i] = front[j] => i = j
    BY <1>2, <1>4, <1>5
  <2> HIDE DEF front
  <2> QED BY <1>3, <1>5, <2>1, CountOnce
<1>7. ASSUME p \notin S PROVE Count(queue', p) = 0 /\ p \notin overflow'
  <2>1. \A i \in 1 .. Len(front) : front[i] \in S
    BY <1>5
  <2>2. p \notin ToSet(rest)
    <3>1. rest \in Seq(S)
      BY <1>2, <1>4
    <3> HIDE DEF rest
    <3>2. \A i \in DOMAIN rest : rest[i] \in S
      BY <3>1
    <3> QED BY <1>7, <3>2 DEF ToSet
  <2> HIDE DEF front, rest
  <2> QED BY <1>3, <1>5, <1>7, <2>1, <2>2, CountNone
<1>8. ASSUME p \in overflow' PROVE Count(queue', p) = 0
  <2>1. PICK i \in QueueSize + 1 .. Len(s) : s[i] = p
    <3>1. /\ DOMAIN rest \subseteq Nat
          /\ \A i \in DOMAIN rest : /\ i + QueueSize \in QueueSize + 1 .. Len(s)
                                    /\ rest[i] = s[i + QueueSize]
      <4>1. CASE QueueSize + 1 <= Len(s)
        <5>1. /\ DOMAIN rest = 1 .. Len(s) - QueueSize
              /\ \A i \in 1 .. Len(s) - QueueSize : rest[i] = s[i + QueueSize]
          BY <1>2, <1>4, <4>1
        <5> HIDE DEF rest
        <5>2. \A i \in 1 .. Len(s) - QueueSize :
                i \in Nat /\ i + QueueSize \in QueueSize + 1 .. Len(s)
          BY <1>2, <1>4
        <5> QED BY <5>1, <5>2
      <4>2. CASE ~(QueueSize + 1 <= Len(s))
        <5>1. DOMAIN rest = {}
          BY <1>2, <1>4, <4>2
        <5> HIDE DEF rest
        <5> QED BY <5>1
      <4> QED BY <4>1, <4>2
    <3> HIDE DEF rest
    <3>2. PICK j \in DOMAIN rest : rest[j] = p
      BY <1>3, <1>8 DEF ToSet
    <3> QED BY <3>1, <3>2
  <2>2. \A j \in 1 .. k : front[j] # p
    <3>1. i \in 1 .. Len(s) /\ i > QueueSize /\ i \in Nat
      BY <1>2, <1>4
    <3>2. \A j \in 1 .. k : j \in 1 .. Len(s) /\ j # i
      BY <1>2, <1>4, <3>1
    <3> HIDE DEF front
    <3> QED BY <1>2, <1>5, <2>1, <3>1, <3>2
  <2> HIDE DEF front
  <2> QED BY <1>3, <1>5, <2>2, CountNone
<1>9. labels'[p] \in Nat /\ labels'[p] <= 2 * runs /\ runs \in Nat
  <2>1. file.labels[p] <= 2 * runs /\ file.labels[p] \in Nat /\ runs \in Nat
    BY SeederAssumption DEF LabelPart, SeederTypeOK, MaxLabels
  <2>2. labels'[p] \in {0, file.labels[p]}
    BY <1>3 DEF Loaded, Unlabelled
  <2> QED BY <2>1, <2>2
<1>10. One(hand' = p) = 0
  <2>1. hand' = End
    BY DEF Start, SavedPart, Down
  <2> QED BY <2>1, SeederAssumption DEF One, HivePosts, End
<1>11. labels'[p] + One(p \in overflow') + Count(queue', p) <= 2 * runs + 1
  <2>1. One(p \in overflow') = IF p \in overflow' THEN 1 ELSE 0
    BY DEF One
  <2>2. Count(queue', p) \in Nat
    BY DueTypeNext
  <2>3. CASE p \in S
    <3>1. labels'[p] = 0
      BY <1>3, <2>3
    <3> QED BY <1>6, <1>8, <1>9, <2>1, <2>2, <3>1
  <2>4. CASE p \notin S
    BY <1>7, <1>9, <2>1, <2>4
  <2> QED BY <2>3, <2>4
<1>12. labels'[p] + Due(p)' <= 2 * runs + 2
  <2> HIDE DEF Due
  <2>1. /\ Due(p)' = One(p \in overflow') + Count(queue', p) + 0 + One(ToCome(p)')
        /\ One(p \in overflow') \in 0 .. 1 /\ One(ToCome(p)') \in 0 .. 1
        /\ Count(queue', p) \in Nat
    BY <1>10, DueTypeNext
  <2> QED BY <1>9, <1>11, <2>1
<1>13. Due(p)' \in Nat
  BY DueTypeNext
<1>14. 2 * runs' = 2 * runs + 2
  BY <1>3, <1>9
<1> QED BY <1>9, <1>12, <1>13, <1>14

LEMMA LabelStep ==
  ASSUME SeederTypeOK, SeederTypeOK', SavedPart, StagePart, LabelPart, [SeederNext]_seederVars
  PROVE  LabelPart'
<1>1. ASSUME NEW p \in HivePosts
      PROVE  /\ labels'[p] + Due(p)' <= 2 * runs'
             /\ main' # "off" /\ phase' = "broad" /\ p \notin known'
                  => labels'[p] + 2 <= 2 * runs'
  <2>1. CASE \E m \in {"fresh", "resume", "incremental"} : Start(m)
    BY <2>1, DueStart
  <2>2. CASE Main \/ Interrupt \/ Kill \/ Publish
    <3>1. main' # "off" => UNCHANGED <<labels, known, runs>> /\ main # "off"
                           /\ (phase' = "broad" => phase = "broad")
      BY <2>2 DEF Main, Drain, EndInput, Finish, StopWaiting, SaveBegin, SaveEnd, Stratify,
                  TargetPut, TargetEnd, Exit, Interrupt, Kill, Publish, AllDown,
                  life, shared, memory, mainVars, clsVars
    <3> QED BY <2>2, <3>1, DueMain DEF LabelPart
  <2>3. CASE Fetcher
    <3>1. UNCHANGED <<labels, known, runs, main, phase>>
      BY <2>3 DEF Fetcher, Connect, NoConnection, Query, QueryFails, QueryDone, Row, RowsDone,
                  Close, SetDone, fetcherKeeps, life, mainVars, memory, clsVars
    <3> QED BY <2>3, <3>1, DueFetcher DEF LabelPart
  <2>4. CASE Classifier
    <3>1. UNCHANGED <<runs, main, phase>> /\ known \subseteq known'
      BY <2>4 DEF Classifier, Loop, Get, GetTimesOut, AfterTimeout, Note, Answer,
                  CheckpointBegin, CheckpointEnd, clsKeeps, life, mainVars, memory
    <3>2. phase = "broad" /\ p \notin known' => labels'[p] = labels[p]
      <4>1. CASE \E match \in BOOLEAN : Answer(match)
        <5>1. cls = "asking" /\ (labels' = labels \/ labels' = [labels EXCEPT ![hand] = @ + 1])
          BY <4>1 DEF Answer, memory
        <5>2. phase = "broad" /\ p \notin known' => p # hand
          BY <3>1, <5>1 DEF StagePart
        <5> QED BY <5>1, <5>2 DEF SeederTypeOK
      <4>2. CASE Loop \/ Get \/ GetTimesOut \/ AfterTimeout \/ Note \/ CheckpointBegin
                 \/ CheckpointEnd
        BY <4>2 DEF Loop, Get, GetTimesOut, AfterTimeout, Note, CheckpointBegin, CheckpointEnd,
                    memory
      <4> QED BY <2>4, <4>1, <4>2 DEF Classifier
    <3> QED BY <2>4, <3>1, <3>2, DueClassifier DEF LabelPart
  <2>5. CASE UNCHANGED seederVars
    <3>1. Due(p)' = Due(p) /\ UNCHANGED <<labels, known, runs, main, phase>>
      BY <2>5 DEF seederVars, Due, ToCome
    <3> QED BY <3>1 DEF LabelPart
  <2> QED BY <2>1, <2>2, <2>3, <2>4, <2>5 DEF SeederNext
<1>2. runs \in Nat /\ runs' \in Nat /\ runs <= runs'
  <2>1. runs' \in {runs, runs + 1}
    BY DEF SeederNext, Start, Main, Drain, EndInput, Finish, StopWaiting, SaveBegin, SaveEnd,
           Stratify, TargetPut, TargetEnd, Exit, Interrupt, Kill, Publish, AllDown,
           life, shared, memory, mainVars, clsVars, Fetcher, Connect, NoConnection, Query,
           QueryFails, QueryDone, Row, RowsDone, Close, SetDone, fetcherKeeps,
           Classifier, Loop, Get, GetTimesOut, AfterTimeout, Note, Answer,
           CheckpointBegin, CheckpointEnd, clsKeeps, seederVars
  <2>2. runs \in Nat
    BY DEF SeederTypeOK
  <2> QED BY <2>1, <2>2
<1>3. ASSUME NEW p \in HivePosts PROVE file'.labels[p] <= 2 * runs'
  <2>1. file.labels[p] <= 2 * runs /\ labels[p] <= 2 * runs
    <3>1. file.labels[p] <= 2 * runs /\ labels[p] + Due(p) <= 2 * runs
      BY DEF LabelPart
    <3>2. labels[p] \in Nat /\ Due(p) \in Nat
      BY DueType
    <3> HIDE DEF Due
    <3> QED BY <1>2, <3>1, <3>2
  <2>2. file'.labels[p] \in {file.labels[p], labels[p], 0}
    BY FileStep DEF Unlabelled
  <2>3. file'.labels[p] \in Nat
    BY SeederAssumption DEF SeederTypeOK, MaxLabels
  <2> QED BY <1>2, <2>1, <2>2, <2>3
<1> QED BY <1>1, <1>3 DEF LabelPart

-----------------------------------------------------------------------------
(* The theorems *)

LEMMA SeederInitially ==
  SeederInit => SeederIInv
<1> SUFFICES ASSUME SeederInit PROVE SeederIInv
  OBVIOUS
<1>1. SeederTypeOK
  <2>1. NoFetcher \in [pc : {"off", "connect", "query", "rows", "closing", "flag"}, want : Nat,
                       fetched : Nat, cursor : 1 .. NPosts + 1, upper : HivePosts,
                       rows : SUBSET HivePosts, errors : 0 .. MaxErrors - 1]
    BY SeederAssumption DEF NoFetcher, HivePosts
  <2>2. Unlabelled \in [HivePosts -> 0 .. MaxLabels] /\ 0 \in 0 .. Every - 1 /\ 0 \in 0 .. MaxRuns
    BY SeederAssumption DEF Unlabelled, MaxLabels
  <2> QED BY <2>1, <2>2, EmptyQueue, SeederAssumption DEF SeederInit, Down, SeederTypeOK
<1>2. SavedPart
  <2>1. \A p \in HivePosts : Unlabelled[p] >= Unlabelled[p]
    BY DEF Unlabelled
  <2> QED BY <2>1 DEF SavedPart, SeederInit, Down
<1>3. StagePart
  BY DEF StagePart, SeederInit, Down, NoFetcher
<1>4. LabelPart
  <2>1. main = "off" /\ runs = 0 /\ \A p \in HivePosts : file.labels[p] = 0 /\ labels[p] = 0
    BY DEF SeederInit, Down, Unlabelled
  <2>2. ASSUME NEW p \in HivePosts PROVE Due(p) = 0
    <3>1. One(p \in overflow) = 0 /\ One(hand = p) = 0 /\ One(ToCome(p)) = 0
      BY SeederAssumption DEF One, HivePosts, End, SeederInit, Down, ToCome, NoFetcher
    <3>2. Count(queue, p) = 0
      BY CountEmpty DEF SeederInit, Down
    <3> QED BY <3>1, <3>2 DEF Due
  <2> QED BY <2>1, <2>2 DEF LabelPart
<1> QED BY <1>1, <1>2, <1>3, <1>4 DEF SeederIInv

LEMMA SeederKept ==
  SeederIInv /\ [SeederNext]_seederVars => SeederIInv'
<1> SUFFICES ASSUME SeederIInv, [SeederNext]_seederVars PROVE SeederIInv'
  OBVIOUS
<1> USE DEF SeederIInv
<1>1. cls = "asking" => labels[hand] < MaxLabels
  <2> SUFFICES ASSUME cls = "asking" PROVE labels[hand] < MaxLabels
    OBVIOUS
  <2>1. hand \in HivePosts
    BY DEF StagePart
  <2>2. labels[hand] + Due(hand) <= 2 * runs
    BY <2>1 DEF LabelPart
  <2>3. /\ Due(hand) = One(hand \in overflow) + Count(queue, hand) + 1 + One(ToCome(hand))
        /\ One(hand \in overflow) \in Nat /\ One(ToCome(hand)) \in Nat
        /\ Count(queue, hand) \in Nat /\ labels[hand] \in Nat
    BY <2>1, DueType DEF One
  <2>4. runs <= MaxRuns /\ runs \in Nat /\ MaxRuns \in Nat /\ MaxLabels = 2 * MaxRuns
    BY SeederAssumption DEF SeederTypeOK, MaxLabels
  <2> HIDE DEF Due, ToCome, Count, One
  <2> QED BY <2>2, <2>3, <2>4
<1>2. SeederTypeOK'
  <2>1. CASE \E m \in {"fresh", "resume", "incremental"} : Start(m)
    BY <2>1, TypeStart
  <2>2. CASE Main \/ Interrupt \/ Kill \/ Publish
    BY <2>2, TypeMain
  <2>3. CASE Fetcher
    BY <2>3, TypeFetcher
  <2>4. CASE Classifier
    BY <1>1, <2>4, TypeClassifier DEF StagePart
  <2>5. CASE UNCHANGED seederVars
    BY <2>5 DEF seederVars, SeederTypeOK
  <2> QED BY <2>1, <2>2, <2>3, <2>4, <2>5 DEF SeederNext
<1>3. SavedPart' /\ StagePart' /\ LabelPart'
  BY <1>2, SavedStep, StageStep, LabelStep
<1> QED BY <1>2, <1>3

(* While a run goes on memory has what the file has, threads and stages fit *)
(* together, and no post gets more labels than it owes (the checkpoint, the *)
(* queue and the threads of seed_categories.py).                            *)
THEOREM SeederInvariant == SeederSpec => []SeederIInv
BY SeederInitially, SeederKept, PTL DEF SeederSpec

(* Every value keeps its type; that a post has at most two labels for each *)
(* start of the script is the part of it that is not obvious: a run may    *)
(* label a post once from the checkpoint and once from HAFSQL, and the     *)
(* targeted pass asks only for posts that the first pass has not noted.    *)
THEOREM SeederTypes == SeederSpec => []SeederTypeOK
<1>1. SeederIInv => SeederTypeOK
  BY DEF SeederIInv
<1> QED BY <1>1, SeederInvariant, PTL

(* A label that a checkpoint has held is in the file until the script is    *)
(* started without --resume, whatever crashes and interrupts come between,  *)
(* if the script has not ended inside write_text.                           *)
THEOREM LabelsSurvive == SeederSpec => []SavedLabelsSurvive
<1>1. SeederIInv => SavedLabelsSurvive
  BY DEF SeederIInv, SavedPart, SavedLabelsSurvive
<1> QED BY <1>1, SeederInvariant, PTL
=============================================================================
