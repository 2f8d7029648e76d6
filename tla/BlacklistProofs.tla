--------------------------- MODULE BlacklistProofs --------------------------
(***************************************************************************)
(* Proofs about the author blacklist, for any number of authors, savers    *)
(* and changes, any page size, and any timeout shorter than the TTL.       *)
(***************************************************************************)
EXTENDS Blacklist, FiniteSetTheorems, TLAPS

(* The inductive invariant.  A verdict that is wrong, or an answer about   *)
(* to be stored that is, was right when it was given, and that was not     *)
(* before the time noted with it: the blacklist has changed since.  While  *)
(* the sweep pages nobody leaves the authors and newcomers only push       *)
(* others back, so whoever was there at the start and is ranked within the *)
(* offset has been collected.                                              *)
WhoIsKnown ==
  \A x \in Askers : pc[x] \in {"asking", "answered", "acting"} => who[x] \in Authors
AnswersWereTrue ==
  \A x \in Askers :
    pc[x] = "answered" /\ heard[x] \notin {Truth(who[x]), "garbled"}
      => since[who[x]] <= waited[x]
VerdictsWereTrue ==
  \A a \in Authors :
    verdict[a] \notin {"none", Truth(a), "garbled"} => since[a] <= age[a]

Upto(S, a) == {b \in S : b <= a}
Rank(S, a) == Cardinality(Upto(S, a))

Collects ==
  /\ pc[Sweeper] = "paging" =>
       /\ atStart \subseteq authors
       /\ \A a \in atStart : Rank(authors, a) <= offset => a \in collected
  /\ pc[Sweeper] \in {"checking", "asking", "answered", "acting"} =>
       atStart \subseteq collected

IInv == TypeOK /\ WhoIsKnown /\ AnswersWereTrue /\ VerdictsWereTrue /\ Collects

LEMMA InitIInv == Init => IInv
<1> SUFFICES ASSUME Init PROVE IInv
  OBVIOUS
<1> USE BlacklistAssumption DEF Init
<1>1. TypeOK
  BY DEF TypeOK
<1>2. Sweeper \in Askers
  BY DEF Askers
<1> QED
  BY <1>1, <1>2
  DEF IInv, WhoIsKnown, AnswersWereTrue, VerdictsWereTrue, Collects

-----------------------------------------------------------------------------
(* Ranks and pages *)

LEMMA AuthorsAreNumbers == Authors \subseteq Nat \ {0}
BY BlacklistAssumption DEF Authors

LEMMA AuthorsFinite ==
  ASSUME NEW S \in SUBSET Authors
  PROVE  IsFiniteSet(S) /\ Cardinality(S) \in Nat /\ Cardinality(S) <= NAuthors
<1>1. IsFiniteSet(Authors) /\ Cardinality(Authors) = NAuthors
  BY BlacklistAssumption, FS_Interval DEF Authors
<1> QED BY <1>1, FS_Subset, FS_CardinalityType

LEMMA RankType ==
  ASSUME NEW S \in SUBSET Authors, NEW a \in Authors
  PROVE  Rank(S, a) \in Nat /\ Rank(S, a) <= NAuthors
BY AuthorsFinite DEF Rank, Upto

(* The first of a set has rank one. *)
LEMMA RankPositive ==
  ASSUME NEW S \in SUBSET Authors, NEW a \in S
  PROVE  Rank(S, a) >= 1
<1>1. a <= a
  BY AuthorsAreNumbers
<1>2. a \in Upto(S, a)
  BY <1>1 DEF Upto
<1>3. Upto(S, a) \in SUBSET Authors
  BY DEF Upto
<1> QED BY <1>2, <1>3, AuthorsFinite, FS_EmptySet DEF Rank

LEMMA RankStrict ==
  ASSUME NEW S \in SUBSET Authors, NEW a \in S, NEW b \in S, a < b
  PROVE  Rank(S, a) < Rank(S, b)
<1>1. Upto(S, a) \in SUBSET Upto(S, b) /\ b \in Upto(S, b) /\ b \notin Upto(S, a)
  <2>1. S \subseteq Nat /\ a \in Nat /\ b \in Nat
    BY AuthorsAreNumbers
  <2>2. \A c \in Nat : c <= a => c <= b
    BY <2>1
  <2>3. b <= b /\ ~(b <= a)
    BY <2>1
  <2> QED BY <2>1, <2>2, <2>3 DEF Upto
<1>2. IsFiniteSet(Upto(S, b))
  BY AuthorsFinite DEF Upto
<1>3. Rank(S, a) \in Nat /\ Rank(S, b) \in Nat
  BY RankType
<1> QED BY <1>1, <1>2, <1>3, FS_Subset DEF Rank

(* Nobody's rank falls while nobody leaves. *)
LEMMA RankGrows ==
  ASSUME NEW T \in SUBSET Authors, NEW S \in SUBSET T, NEW a \in Authors
  PROVE  Rank(S, a) <= Rank(T, a)
<1>1. Upto(S, a) \in SUBSET Upto(T, a) /\ IsFiniteSet(Upto(T, a))
  BY AuthorsFinite DEF Upto
<1> QED BY <1>1, FS_Subset DEF Rank

(* Authors of S whose ranks all lie in R are no more than R has members.   *)
LEMMA NoMoreThanRanks ==
  ASSUME NEW S \in SUBSET Authors, NEW U \in SUBSET S, NEW R, IsFiniteSet(R),
         \A a \in U : Rank(S, a) \in R
  PROVE  Cardinality(U) <= Cardinality(R)
<1> SUFFICES ASSUME Cardinality(R) < Cardinality(U) PROVE FALSE
  <2>1. Cardinality(R) \in Nat /\ Cardinality(U) \in Nat
    BY AuthorsFinite, FS_CardinalityType
  <2> QED BY <2>1
<1> DEFINE f == [a \in U |-> Rank(S, a)]
<1>1. f \in [U -> R] /\ IsFiniteSet(U)
  BY AuthorsFinite
<1>2. \A a \in U : f[a] = Rank(S, a)
  OBVIOUS
<1> HIDE DEF f
<1>3. \E a, b \in U : a # b /\ f[a] = f[b]
  BY <1>1, FS_PigeonHole
<1>4. PICK a \in U, b \in U : a # b /\ Rank(S, a) = Rank(S, b)
  BY <1>2, <1>3
<1>5. a \in S /\ b \in S /\ (a < b \/ b < a)
  BY <1>4, AuthorsAreNumbers
<1>6. Rank(S, a) \in Nat
  BY <1>5, RankType
<1> QED BY <1>4, <1>5, <1>6, RankStrict

LEMMA PageIs ==
  Page = {a \in authors : offset < Rank(authors, a) /\ Rank(authors, a) <= offset + PageSize}
BY DEF Page, Rank, Upto

(* A page is no longer than its LIMIT, and the offset stays within the     *)
(* number of authors.                                                      *)
LEMMA PageFits ==
  ASSUME TypeOK
  PROVE  /\ Page \in SUBSET Authors /\ Cardinality(Page) \in Nat
         /\ Cardinality(Page) <= PageSize
         /\ offset + Cardinality(Page) \in 0 .. NAuthors
<1>1. /\ authors \in SUBSET Authors /\ offset \in Nat /\ offset <= NAuthors
      /\ PageSize \in Nat /\ NAuthors \in Nat
  BY BlacklistAssumption DEF TypeOK
<1>2. Page \in SUBSET authors
  BY DEF Page
<1>3. \A a \in Page : /\ Rank(authors, a) \in offset + 1 .. offset + PageSize
                      /\ Rank(authors, a) \in offset + 1 .. NAuthors
  BY <1>1, <1>2, PageIs, RankType
<1>4. Cardinality(Page) \in Nat /\ Page \in SUBSET Authors
  BY <1>1, <1>2, AuthorsFinite
<1>5. Cardinality(Page) <= PageSize
  <2>1. IsFiniteSet(offset + 1 .. offset + PageSize)
        /\ Cardinality(offset + 1 .. offset + PageSize) <= PageSize
    BY <1>1, FS_Interval
  <2>2. Cardinality(Page) <= Cardinality(offset + 1 .. offset + PageSize)
    BY <1>1, <1>2, <1>3, <2>1, NoMoreThanRanks
  <2>3. Cardinality(offset + 1 .. offset + PageSize) \in Nat
    BY <2>1, FS_CardinalityType
  <2> QED BY <1>1, <1>4, <2>1, <2>2, <2>3
<1>6. Cardinality(Page) <= NAuthors - offset
  <2>1. IsFiniteSet(offset + 1 .. NAuthors)
        /\ Cardinality(offset + 1 .. NAuthors) <= NAuthors - offset
    BY <1>1, FS_Interval
  <2>2. Cardinality(Page) <= Cardinality(offset + 1 .. NAuthors)
    BY <1>1, <1>2, <1>3, <2>1, NoMoreThanRanks
  <2>3. Cardinality(offset + 1 .. NAuthors) \in Nat
    BY <2>1, FS_CardinalityType
  <2> QED BY <1>1, <1>4, <2>1, <2>2, <2>3
<1> QED BY <1>1, <1>4, <1>5, <1>6

(* An empty page is the end: ranks have no gap. *)
LEMMA EmptyPageIsTheEnd ==
  ASSUME TypeOK, Page = {}, NEW a \in authors
  PROVE  Rank(authors, a) <= offset
<1>1. authors \in SUBSET Authors /\ offset \in Nat /\ PageSize \in Nat \ {0} /\ a \in Authors
  BY BlacklistAssumption DEF TypeOK
<1> DEFINE k == Rank(authors, a)
           U == Upto(authors, a)
           R == (1 .. k) \ {offset + 1}
<1>2. k \in Nat /\ Cardinality(U) = k /\ U \in SUBSET authors
  BY <1>1, RankType DEF Rank, Upto
<1> SUFFICES ASSUME offset < k PROVE FALSE
  BY <1>1, <1>2
<1>3. ASSUME NEW b \in U PROVE Rank(authors, b) \in R
  <2>1. Rank(authors, b) \in Nat /\ Rank(authors, b) >= 1
    BY <1>1, <1>2, RankType, RankPositive
  <2>2. Rank(authors, b) <= k
    <3>1. b = a \/ b < a
      BY <1>1, <1>2, AuthorsAreNumbers DEF Upto
    <3>2. b < a => Rank(authors, b) < k
      BY <1>1, <1>2, RankStrict
    <3> QED BY <1>2, <2>1, <3>1, <3>2
  <2>3. Rank(authors, b) # offset + 1
    BY <1>1, <1>2, PageIs
  <2> QED BY <1>2, <2>1, <2>2, <2>3
<1>4. IsFiniteSet(R) /\ Cardinality(R) = k - 1
  <2>1. IsFiniteSet(1 .. k) /\ Cardinality(1 .. k) = k
    BY <1>2, FS_Interval
  <2>2. offset + 1 \in 1 .. k
    BY <1>1, <1>2
  <2> QED BY <2>1, <2>2, FS_RemoveElement
<1>5. Cardinality(U) <= Cardinality(R)
  BY <1>1, <1>2, <1>3, <1>4, NoMoreThanRanks
<1> QED BY <1>2, <1>4, <1>5

-----------------------------------------------------------------------------
(* What a step does to the threads *)

Where == {"idle", "paging", "checking", "asking", "answered", "acting"}
Busy == {"checking", "asking", "answered", "acting"}

ThreadTypes ==
  /\ pc \in [Askers -> Where]
  /\ who \in [Askers -> Authors \cup {NoAuthor}]
  /\ heard \in [Askers -> {"clean", "listed", "garbled"}]
  /\ waited \in [Askers -> 0 .. MaxWait]
  /\ WhoIsKnown

(* Only thread x has moved. *)
OthersStay(x) ==
  \A y \in Askers \ {x} :
    pc'[y] = pc[y] /\ who'[y] = who[y] /\ heard'[y] = heard[y] /\ waited'[y] = waited[y]

LEMMA ThreadsTyped == IInv => ThreadTypes /\ 0 \in 0 .. MaxWait
BY BlacklistAssumption DEF IInv, TypeOK, ThreadTypes, Where

LEMMA ToldEffect ==
  ASSUME IInv, NEW x \in Askers, NEW a \in Authors, NEW answer, Told(x, a, answer)
  PROVE  /\ ThreadTypes' /\ OthersStay(x)
         /\ pc'[x] \in {"idle", "checking", "acting"}
         /\ x = Sweeper => pc'[x] \in Busy
<1> DEFINE act == (answer = "listed") = (x = Sweeper)
<1>1. PICK p \in Where, w \in Authors \cup {NoAuthor} :
        /\ pc' = [pc EXCEPT ![x] = p] /\ who' = [who EXCEPT ![x] = w]
        /\ p \in {"idle", "checking", "acting"} /\ (x = Sweeper => p \in Busy)
        /\ p = "acting" => w \in Authors
  <2>1. CASE act
    BY <2>1 DEF Told, Where, Busy
  <2>2. CASE ~act /\ x = Sweeper
    BY <2>2 DEF Told, Where, Busy
  <2>3. CASE ~act /\ x # Sweeper
    BY <2>3 DEF Told, Where, Busy
  <2> QED BY <2>1, <2>2, <2>3
<1>2. heard' = [heard EXCEPT ![x] = "clean"] /\ waited' = [waited EXCEPT ![x] = 0]
  BY DEF Told
<1>3. ThreadTypes /\ 0 \in 0 .. MaxWait
  BY ThreadsTyped
<1> QED BY <1>1, <1>2, <1>3 DEF ThreadTypes, OthersStay, WhoIsKnown

LEMMA AskEffect ==
  ASSUME IInv, NEW x \in Askers, NEW a \in Authors, IsBlacklisted(x, a)
  PROVE  /\ ThreadTypes' /\ OthersStay(x)
         /\ pc'[x] \in {"idle", "checking", "acting", "asking"}
         /\ x = Sweeper => pc'[x] \in Busy
<1>1. CASE Fresh(a)
  BY <1>1, ToldEffect DEF IsBlacklisted
<1>2. CASE ~Fresh(a)
  <2>1. /\ pc' = [pc EXCEPT ![x] = "asking"] /\ who' = [who EXCEPT ![x] = a]
        /\ waited' = [waited EXCEPT ![x] = 0] /\ heard' = heard
    BY <1>2 DEF IsBlacklisted
  <2>2. ThreadTypes /\ 0 \in 0 .. MaxWait
    BY ThreadsTyped
  <2> QED BY <2>1, <2>2 DEF ThreadTypes, OthersStay, WhoIsKnown, Where, Busy
<1> QED BY <1>1, <1>2

LEMMA AnswerEffect ==
  ASSUME IInv, NEW x \in Askers, Answer(x) \/ Garble(x)
  PROVE  /\ ThreadTypes' /\ OthersStay(x)
         /\ pc'[x] = "answered" /\ pc[x] = "asking" /\ who'[x] = who[x]
         /\ heard'[x] \in {Truth(who[x]), "garbled"}
<1>1. PICK h \in {Truth(who[x]), "garbled"} :
        heard' = [heard EXCEPT ![x] = h] /\ h \in {"clean", "listed", "garbled"}
  BY DEF Answer, Garble, Truth
<1>2. /\ pc' = [pc EXCEPT ![x] = "answered"] /\ UNCHANGED <<who, waited>>
      /\ pc[x] = "asking"
  BY DEF Answer, Garble
<1> QED BY <1>1, <1>2, ThreadsTyped DEF ThreadTypes, OthersStay, WhoIsKnown, Where

(* A thread that goes elsewhere without asking. *)
LEMMA GoEffect ==
  ASSUME IInv, NEW x \in Askers, NEW p \in {"idle", "paging", "checking"},
         pc' = [pc EXCEPT ![x] = p],
         UNCHANGED who \/ who' = [who EXCEPT ![x] = NoAuthor],
         \/ UNCHANGED <<heard, waited>>
         \/ heard' = [heard EXCEPT ![x] = "clean"] /\ waited' = [waited EXCEPT ![x] = 0]
  PROVE  ThreadTypes' /\ OthersStay(x) /\ pc'[x] = p
BY ThreadsTyped DEF ThreadTypes, OthersStay, WhoIsKnown, Where

LEMMA TickEffect ==
  ASSUME IInv, Tick
  PROVE  /\ ThreadTypes' /\ UNCHANGED <<pc, who, heard>>
         /\ \A x \in Askers : pc[x] = "answered" => waited'[x] = waited[x] + 1
         /\ age' \in [Authors -> 0 .. Ttl] /\ since' \in [Authors -> 0 .. Ttl]
<1>1. ASSUME NEW x \in Askers
      PROVE  (IF x \in Calling THEN waited[x] + 1 ELSE waited[x]) \in 0 .. MaxWait
  <2>1. waited[x] \in 0 .. MaxWait /\ MaxWait \in Nat
    BY BlacklistAssumption, ThreadsTyped DEF ThreadTypes
  <2> QED BY <2>1 DEF Tick
<1>2. waited' \in [Askers -> 0 .. MaxWait]
  BY <1>1 DEF Tick
<1>3. \A n \in 0 .. Ttl : Older(n) \in 0 .. Ttl
  BY BlacklistAssumption DEF Older
<1>4. age' \in [Authors -> 0 .. Ttl] /\ since' \in [Authors -> 0 .. Ttl]
  BY <1>3 DEF Tick, IInv, TypeOK
<1> QED BY <1>2, <1>4, ThreadsTyped DEF Tick, ThreadTypes, WhoIsKnown, Calling

-----------------------------------------------------------------------------
(* Types *)

Rest ==
  /\ listed \in SUBSET Authors /\ since \in [Authors -> 0 .. Ttl]
  /\ changes \in 0 .. MaxChanges /\ faults \in 0 .. MaxFaults
  /\ authors \in SUBSET Authors
  /\ verdict \in [Authors -> {"none", "clean", "listed", "garbled"}]
  /\ age \in [Authors -> 0 .. Ttl]
  /\ offset \in 0 .. NAuthors
  /\ todo \in SUBSET Authors
  /\ atStart \in SUBSET Authors /\ collected \in SUBSET Authors

LEMMA NextTypes == IInv /\ [Next]_vars => ThreadTypes' /\ Rest'
<1> DEFINE Good == ThreadTypes' /\ Rest'
<1> SUFFICES ASSUME IInv, [Next]_vars PROVE Good
  OBVIOUS
<1> USE DEF world, memory, threads, sweep
<1>1. /\ Rest /\ ThreadTypes /\ Sweeper \in Askers /\ Savers \subseteq Askers /\ TypeOK
      /\ 0 \in 0 .. NAuthors /\ 0 \in 0 .. Ttl /\ Ttl \in 0 .. Ttl
  BY ThreadsTyped, BlacklistAssumption DEF IInv, TypeOK, Rest, Askers
<1>2. faults < MaxFaults => faults + 1 \in 0 .. MaxFaults
  BY <1>1, BlacklistAssumption DEF Rest
<1>3. changes < MaxChanges => changes + 1 \in 0 .. MaxChanges
  BY <1>1, BlacklistAssumption DEF Rest
<1>4. ASSUME NEW x \in Askers, Answer(x) \/ Garble(x) PROVE Good
  <2>1. Rest'
    BY <1>1, <1>2, <1>4 DEF Answer, Garble, Rest
  <2> QED BY <1>4, <2>1, AnswerEffect
<1>5. ASSUME NEW x \in Askers, Store(x) PROVE Good
  <2>1. /\ who[x] \in Authors /\ heard[x] \in {"clean", "listed", "garbled"}
        /\ waited[x] \in 0 .. Ttl
    BY <1>1, <1>5, BlacklistAssumption DEF Store, ThreadTypes, WhoIsKnown
  <2>2. Rest'
    BY <1>1, <1>5, <2>1 DEF Store, Rest, NotedAge
  <2> QED BY <1>5, <2>1, <2>2, ToldEffect DEF Store
<1>6. ASSUME NEW x \in Askers, ApiFails(x) PROVE Good
  <2>1. who[x] \in Authors
    BY <1>1, <1>6 DEF ApiFails, ThreadTypes, WhoIsKnown
  <2>2. Rest'
    BY <1>1, <1>2, <1>6 DEF ApiFails, Rest
  <2> QED BY <1>6, <2>1, <2>2, ToldEffect DEF ApiFails
<1>7. ASSUME NEW s \in Savers, NEW a \in Authors, Take(s, a) PROVE Good
  <2>1. Rest'
    BY <1>1, <1>7 DEF Take, Rest
  <2> QED BY <1>1, <1>7, <2>1, AskEffect DEF Take
<1>8. ASSUME NEW s \in Savers, Save(s) PROVE Good
  <2>1. who[s] \in Authors
    BY <1>1, <1>8 DEF Save, ThreadTypes, WhoIsKnown
  <2>2. Rest'
    BY <1>1, <1>8, <2>1 DEF Save, Rest
  <2> QED BY <1>1, <1>8, <2>2, GoEffect DEF Save
<1>9. CASE BeginSweep
  <2>1. Rest'
    BY <1>1, <1>9 DEF BeginSweep, Rest
  <2> QED BY <1>1, <1>9, <2>1, GoEffect DEF BeginSweep
<1>10. CASE ReadPage
  <2>1. Rest'
    BY <1>1, <1>10, PageFits DEF ReadPage, Rest
  <2> QED BY <1>1, <1>10, <2>1 DEF ReadPage, ThreadTypes, WhoIsKnown
<1>11. CASE EndPages
  <2>1. Rest'
    BY <1>1, <1>11 DEF EndPages, Rest
  <2> QED BY <1>1, <1>11, <2>1, GoEffect DEF EndPages
<1>12. CASE CheckNext
  <2>1. PICK a \in todo : todo' = todo \ {a} /\ IsBlacklisted(Sweeper, a)
    BY <1>12 DEF CheckNext
  <2>2. Rest' /\ a \in Authors
    BY <1>1, <1>12, <2>1 DEF CheckNext, Rest
  <2> QED BY <1>1, <2>1, <2>2, AskEffect
<1>13. CASE Delete
  <2>1. Rest'
    BY <1>1, <1>13 DEF Delete, Rest
  <2> QED BY <1>1, <1>13, <2>1, GoEffect DEF Delete
<1>14. CASE EndSweep \/ CutSweep
  <2>1. Rest'
    BY <1>1, <1>2, <1>14 DEF EndSweep, CutSweep, SweepOver, Rest
  <2> QED BY <1>1, <1>14, <2>1, GoEffect DEF EndSweep, CutSweep, SweepOver
<1>15. CASE Crash
  <2>1. Rest'
    BY <1>1, <1>2, <1>15 DEF Crash, Rest
  <2>2. 0 \in 0 .. MaxWait
    BY ThreadsTyped
  <2> QED BY <1>15, <2>1, <2>2 DEF Crash, ThreadTypes, WhoIsKnown, Where
<1>16. ASSUME NEW a \in Authors, Change(a) PROVE Good
  <2>1. Rest'
    BY <1>1, <1>3, <1>16 DEF Change, Rest
  <2> QED BY <1>1, <1>16, <2>1 DEF Change, ThreadTypes, WhoIsKnown
<1>17. CASE Tick
  <2>1. Rest'
    BY <1>1, <1>17, TickEffect DEF Tick, Rest
  <2> QED BY <1>17, <2>1, TickEffect
<1>18. CASE UNCHANGED vars
  BY <1>1, <1>18 DEF vars, Rest, ThreadTypes, WhoIsKnown
<1> HIDE DEF Good
<1> QED
  BY <1>1, <1>4, <1>5, <1>6, <1>7, <1>8, <1>9, <1>10, <1>11, <1>12, <1>13, <1>14,
     <1>15, <1>16, <1>17, <1>18
  DEF Next, SaverProceeds, SweepProceeds

-----------------------------------------------------------------------------
(* Answers and verdicts were true *)

Truths == AnswersWereTrue /\ VerdictsWereTrue

LEMMA QuietStep ==
  ASSUME IInv, NEW x \in Askers, OthersStay(x), pc'[x] # "answered",
         UNCHANGED <<listed, since, age>>,
         \A a \in Authors : verdict'[a] \in {verdict[a], "none"}
  PROVE  Truths'
BY DEF IInv, Truths, AnswersWereTrue, VerdictsWereTrue, OthersStay, Truth

LEMMA NextTruths == IInv /\ [Next]_vars => Truths'
<1> DEFINE Good == Truths'
<1> SUFFICES ASSUME IInv, [Next]_vars PROVE Good
  OBVIOUS
<1> USE DEF world, memory, threads, sweep
<1>1. /\ Rest /\ ThreadTypes /\ Truths
      /\ Sweeper \in Askers /\ Savers \subseteq Askers
  BY ThreadsTyped DEF IInv, TypeOK, Rest, Askers, Truths
<1>2. ASSUME NEW x \in Askers, Answer(x) \/ Garble(x) PROVE Good
  <2>1. UNCHANGED <<listed, since, age, verdict>>
    BY <1>2 DEF Answer, Garble
  <2>2. /\ OthersStay(x) /\ who'[x] = who[x]
        /\ heard'[x] \in {Truth(who[x]), "garbled"}
    BY <1>2, AnswerEffect
  <2> QED BY <1>1, <2>1, <2>2
          DEF Truths, AnswersWereTrue, VerdictsWereTrue, OthersStay, Truth
<1>3. ASSUME NEW x \in Askers, Store(x) PROVE Good
  <2>1. /\ who[x] \in Authors /\ pc[x] = "answered"
        /\ OthersStay(x) /\ pc'[x] # "answered" /\ UNCHANGED <<listed, since>>
    BY <1>1, <1>3, ToldEffect DEF Store, ThreadTypes, WhoIsKnown
  <2>2. heard[x] \notin {Truth(who[x]), "garbled"} => since[who[x]] <= waited[x]
    BY <1>1, <2>1 DEF Truths, AnswersWereTrue
  <2>3. /\ verdict' = [verdict EXCEPT ![who[x]] = heard[x]]
        /\ age' = [age EXCEPT ![who[x]] = waited[x]]
    BY <1>3 DEF Store, NotedAge
  <2>4. VerdictsWereTrue'
    BY <1>1, <2>1, <2>2, <2>3 DEF Rest, Truths, VerdictsWereTrue, Truth
  <2>5. AnswersWereTrue'
    BY <1>1, <2>1 DEF Truths, AnswersWereTrue, OthersStay, Truth
  <2> QED BY <2>4, <2>5 DEF Truths
<1>4. ASSUME NEW x \in Askers, ApiFails(x) PROVE Good
  <2>1. who[x] \in Authors
    BY <1>1, <1>4 DEF ApiFails, ThreadTypes, WhoIsKnown
  <2>2. OthersStay(x) /\ pc'[x] # "answered"
    BY <1>4, <2>1, ToldEffect DEF ApiFails
  <2> QED BY <1>4, <2>2, QuietStep DEF ApiFails
<1>5. ASSUME NEW s \in Savers, NEW a \in Authors, Take(s, a) PROVE Good
  <2>1. OthersStay(s) /\ pc'[s] # "answered"
    BY <1>1, <1>5, AskEffect DEF Take
  <2> QED BY <1>1, <1>5, <2>1, QuietStep DEF Take
<1>6. ASSUME NEW s \in Savers, Save(s) PROVE Good
  <2>1. OthersStay(s) /\ pc'[s] # "answered"
    BY <1>1, <1>6, GoEffect DEF Save
  <2> QED BY <1>1, <1>6, <2>1, QuietStep DEF Save
<1>7. CASE BeginSweep
  <2>1. OthersStay(Sweeper) /\ pc'[Sweeper] # "answered"
    BY <1>1, <1>7, GoEffect DEF BeginSweep
  <2> QED BY <1>1, <1>7, <2>1, QuietStep DEF BeginSweep
<1>8. CASE ReadPage
  BY <1>1, <1>8 DEF ReadPage, Truths, AnswersWereTrue, VerdictsWereTrue, Truth
<1>9. CASE EndPages \/ Delete
  <2>1. OthersStay(Sweeper) /\ pc'[Sweeper] # "answered"
    BY <1>1, <1>9, GoEffect DEF EndPages, Delete
  <2> QED BY <1>1, <1>9, <2>1, QuietStep DEF EndPages, Delete
<1>10. CASE CheckNext
  <2>1. PICK a \in todo : IsBlacklisted(Sweeper, a)
    BY <1>10 DEF CheckNext
  <2>2. OthersStay(Sweeper) /\ pc'[Sweeper] # "answered"
    BY <1>1, <2>1, AskEffect DEF Rest
  <2> QED BY <1>1, <1>10, <2>2, QuietStep DEF CheckNext
<1>11. CASE EndSweep \/ CutSweep
  <2>1. OthersStay(Sweeper) /\ pc'[Sweeper] # "answered"
    BY <1>1, <1>11, GoEffect DEF EndSweep, CutSweep, SweepOver
  <2> QED BY <1>1, <1>11, <2>1, QuietStep DEF EndSweep, CutSweep
<1>12. CASE Crash
  BY <1>12 DEF Crash, Truths, AnswersWereTrue, VerdictsWereTrue
(* An author's change of sides makes every answer about him old. *)
<1>13. ASSUME NEW a \in Authors, Change(a) PROVE Good
  <2>1. /\ UNCHANGED <<pc, who, heard, waited, verdict, age>>
        /\ since' = [since EXCEPT ![a] = 0]
        /\ \A b \in Authors \ {a} : Truth(b)' = Truth(b)
    BY <1>13 DEF Change, Truth
  <2>2. \A b \in Authors : age[b] \in 0 .. Ttl
    BY <1>1 DEF Rest
  <2>3. \A x \in Askers : waited[x] \in 0 .. MaxWait
    BY <1>1 DEF ThreadTypes
  <2>4. since'[a] = 0 /\ \A b \in Authors \ {a} : since'[b] = since[b]
    BY <1>1, <2>1 DEF Rest
  <2>5. VerdictsWereTrue'
    BY <1>1, <2>1, <2>2, <2>4 DEF Truths, VerdictsWereTrue
  <2>6. AnswersWereTrue'
    <3> SUFFICES ASSUME NEW x \in Askers, pc[x] = "answered",
                        heard[x] \notin {Truth(who[x])', "garbled"}
                 PROVE  since'[who[x]] <= waited[x]
      BY <2>1 DEF AnswersWereTrue, Truth
    <3>1. who[x] \in Authors
      BY <1>1 DEF ThreadTypes, WhoIsKnown
    <3>2. CASE who[x] = a
      BY <2>3, <2>4, <3>2
    <3>3. CASE who[x] # a
      BY <1>1, <2>1, <2>4, <3>1, <3>3 DEF Truths, AnswersWereTrue, Truth
    <3> QED BY <3>2, <3>3
  <2> QED BY <2>5, <2>6 DEF Truths
<1>14. CASE Tick
  <2>1. /\ UNCHANGED <<listed, verdict, pc, who, heard>>
        /\ age' = [a \in Authors |-> Older(age[a])]
        /\ since' = [a \in Authors |-> Older(since[a])]
        /\ \A x \in Askers : pc[x] = "answered" => waited'[x] = waited[x] + 1
    BY <1>14, TickEffect DEF Tick
  <2>2. \A m, n \in 0 .. Ttl : m <= n => Older(m) <= Older(n)
    BY BlacklistAssumption DEF Older
  <2>3. \A m \in 0 .. Ttl, n \in Nat : m <= n => Older(m) <= n + 1
    BY BlacklistAssumption DEF Older
  <2>4. VerdictsWereTrue'
    BY <1>1, <2>1, <2>2 DEF Rest, Truths, VerdictsWereTrue, Truth
  <2>5. AnswersWereTrue'
    <3> SUFFICES ASSUME NEW x \in Askers, pc[x] = "answered",
                        heard[x] \notin {Truth(who[x]), "garbled"}
                 PROVE  since'[who[x]] <= waited'[x]
      BY <2>1 DEF AnswersWereTrue, Truth
    <3>1. /\ who[x] \in Authors /\ waited[x] \in Nat /\ since[who[x]] \in 0 .. Ttl
          /\ since[who[x]] <= waited[x]
      BY <1>1, BlacklistAssumption
      DEF ThreadTypes, WhoIsKnown, Rest, Truths, AnswersWereTrue
    <3> QED BY <2>1, <2>3, <3>1
  <2> QED BY <2>4, <2>5 DEF Truths
<1>15. CASE UNCHANGED vars
  BY <1>1, <1>15 DEF vars, Truths, AnswersWereTrue, VerdictsWereTrue, Truth
<1> HIDE DEF Good
<1> QED
  BY <1>1, <1>2, <1>3, <1>4, <1>5, <1>6, <1>7, <1>8, <1>9, <1>10, <1>11, <1>12, <1>13,
     <1>14, <1>15
  DEF Next, SaverProceeds, SweepProceeds

-----------------------------------------------------------------------------
(* The sweep *)

LEMMA SameSweep ==
  ASSUME IInv, authors' \in SUBSET Authors, UNCHANGED <<offset, atStart, collected>>,
         \/ pc[Sweeper] \in Busy /\ pc'[Sweeper] \in Busy
         \/ pc'[Sweeper] = pc[Sweeper] /\ authors \subseteq authors'
  PROVE  Collects'
<1>1. CASE pc[Sweeper] \in Busy /\ pc'[Sweeper] \in Busy
  BY <1>1 DEF IInv, Collects, Busy
<1>2. CASE pc'[Sweeper] = pc[Sweeper] /\ authors \subseteq authors'
  <2>1. ASSUME NEW a \in Authors, Rank(authors', a) <= offset
        PROVE  Rank(authors, a) <= offset
    <3>1. authors \in SUBSET authors' /\ authors \in SUBSET Authors /\ offset \in Nat
      BY <1>2 DEF IInv, TypeOK
    <3>2. Rank(authors, a) \in Nat /\ Rank(authors', a) \in Nat
          /\ Rank(authors, a) <= Rank(authors', a)
      BY <3>1, RankType, RankGrows
    <3> QED BY <2>1, <3>1, <3>2
  <2>2. \A a \in Authors : Rank(authors, a)' = Rank(authors', a)
    BY DEF Rank, Upto
  <2>3. atStart \subseteq Authors
    BY DEF IInv, TypeOK
  <2> QED BY <1>2, <2>1, <2>2, <2>3 DEF IInv, Collects
<1> QED BY <1>1, <1>2

LEMMA NextCollects == IInv /\ [Next]_vars => Collects'
<1> DEFINE Good == Collects'
<1> SUFFICES ASSUME IInv, [Next]_vars PROVE Good
  OBVIOUS
<1> USE DEF world, memory, threads, sweep
<1>1. /\ Rest /\ ThreadTypes /\ Collects /\ TypeOK
      /\ Sweeper \in Askers /\ Savers \subseteq Askers /\ Sweeper \notin Savers
  BY ThreadsTyped, BlacklistAssumption DEF IInv, TypeOK, Rest, Askers
<1>2. Rest'
  BY NextTypes
<1> DEFINE Beside(x) ==
             /\ UNCHANGED <<offset, atStart, collected>> /\ authors \subseteq authors'
             /\ OthersStay(x) /\ (x = Sweeper => pc[x] \in Busy /\ pc'[x] \in Busy)
<1>3. ASSUME NEW x \in Askers, Beside(x) PROVE Good
  BY <1>1, <1>2, <1>3, SameSweep DEF Rest, OthersStay
<1>4. ASSUME NEW x \in Askers, Answer(x) \/ Garble(x) PROVE Good
  <2>1. OthersStay(x) /\ pc'[x] \in Busy /\ pc[x] \in Busy
    BY <1>4, AnswerEffect DEF Busy
  <2> QED BY <1>3, <1>4, <2>1 DEF Answer, Garble
<1>5. ASSUME NEW x \in Askers, Store(x) \/ ApiFails(x) PROVE Good
  <2>1. who[x] \in Authors /\ pc[x] \in Busy
    BY <1>1, <1>5 DEF Store, ApiFails, ThreadTypes, WhoIsKnown, Busy
  <2>2. OthersStay(x) /\ (x = Sweeper => pc'[x] \in Busy)
    BY <1>5, <2>1, ToldEffect DEF Store, ApiFails
  <2>3. UNCHANGED <<offset, atStart, collected>> /\ authors' = authors
    BY <1>5 DEF Store, ApiFails
  <2>4. Beside(x)
    BY <2>1, <2>2, <2>3
  <2> QED BY <1>3, <2>4
<1>6. ASSUME NEW s \in Savers, NEW a \in Authors, Take(s, a) PROVE Good
  <2>1. OthersStay(s) /\ s # Sweeper /\ s \in Askers
    BY <1>1, <1>6, AskEffect DEF Take
  <2>2. UNCHANGED <<offset, atStart, collected>> /\ authors' = authors
    BY <1>6 DEF Take
  <2>3. Beside(s)
    BY <2>1, <2>2
  <2> QED BY <1>3, <2>1, <2>3
<1>7. ASSUME NEW s \in Savers, Save(s) PROVE Good
  <2>1. OthersStay(s) /\ s # Sweeper /\ s \in Askers
    BY <1>1, <1>7, GoEffect DEF Save
  <2>2. UNCHANGED <<offset, atStart, collected>> /\ authors \subseteq authors'
    BY <1>7 DEF Save
  <2>3. Beside(s)
    BY <2>1, <2>2
  <2> QED BY <1>3, <2>1, <2>3
<1>8. CASE BeginSweep
  <2>1. pc'[Sweeper] = "paging" /\ authors' = authors /\ atStart' = authors /\ offset' = 0
    BY <1>1, <1>8 DEF BeginSweep, ThreadTypes
  <2>2. ASSUME NEW a \in authors PROVE ~(Rank(authors, a)' <= 0)
    <3>1. Rank(authors, a) \in Nat /\ Rank(authors, a) >= 1
      BY <1>1, RankType, RankPositive DEF Rest
    <3>2. Rank(authors, a)' = Rank(authors, a)
      BY <2>1 DEF Rank, Upto
    <3> QED BY <3>1, <3>2
  <2> QED BY <2>1, <2>2 DEF Collects
(* Whoever is ranked within the new offset was within the old one, or is   *)
(* on the page: the page is not longer than PageSize.                      *)
<1>9. CASE ReadPage
  <2>1. /\ pc[Sweeper] = "paging" /\ offset' = offset + Cardinality(Page)
        /\ collected' = collected \cup Page /\ UNCHANGED <<pc, authors, atStart>>
    BY <1>9 DEF ReadPage
  <2>2. /\ Cardinality(Page) \in Nat /\ Cardinality(Page) <= PageSize
        /\ offset \in Nat /\ PageSize \in Nat
    BY <1>1, PageFits, BlacklistAssumption DEF Rest
  <2>3. ASSUME NEW a \in atStart, Rank(authors, a) <= offset + Cardinality(Page)
        PROVE  a \in collected \cup Page
    <3>1. a \in authors /\ Rank(authors, a) \in Nat
      BY <1>1, <2>1, RankType DEF Rest, Collects
    <3>2. CASE Rank(authors, a) <= offset
      BY <1>1, <2>1, <3>2 DEF Collects
    <3>3. CASE Rank(authors, a) > offset
      BY <2>2, <2>3, <3>1, <3>3, PageIs
    <3> QED BY <2>2, <3>1, <3>2, <3>3
  <2>4. \A a \in atStart : Rank(authors, a)' = Rank(authors, a)
    BY <2>1 DEF Rank, Upto
  <2> QED BY <1>1, <2>1, <2>3, <2>4 DEF Collects
<1>10. CASE EndPages
  <2>1. /\ pc[Sweeper] = "paging" /\ pc'[Sweeper] = "checking"
        /\ UNCHANGED <<atStart, collected>> /\ Page = {}
    BY <1>1, <1>10 DEF EndPages, ThreadTypes
  <2>2. ASSUME NEW a \in atStart PROVE a \in collected
    BY <1>1, <2>1, EmptyPageIsTheEnd DEF Collects
  <2> QED BY <2>1, <2>2 DEF Collects
<1>11. CASE CheckNext
  <2>1. PICK a \in todo : IsBlacklisted(Sweeper, a)
    BY <1>11 DEF CheckNext
  <2>2. OthersStay(Sweeper) /\ pc'[Sweeper] \in Busy /\ pc[Sweeper] \in Busy
    BY <1>1, <1>11, <2>1, AskEffect DEF Rest, CheckNext, Busy
  <2> QED BY <1>1, <1>3, <1>11, <2>2 DEF CheckNext
<1>12. CASE Delete
  <2>1. pc'[Sweeper] \in Busy /\ pc[Sweeper] \in Busy
    BY <1>1, <1>12 DEF Delete, Busy, ThreadTypes
  <2> QED BY <1>2, <1>12, <2>1, SameSweep DEF Delete, Rest
<1>13. CASE EndSweep \/ CutSweep \/ Crash
  <2>1. pc'[Sweeper] = "idle"
    BY <1>1, <1>13 DEF EndSweep, CutSweep, SweepOver, Crash, ThreadTypes
  <2> QED BY <2>1 DEF Collects
<1>14. CASE Tick \/ UNCHANGED vars \/ \E a \in Authors : Change(a)
  <2>1. UNCHANGED <<pc, authors, offset, atStart, collected>>
    BY <1>14 DEF Tick, vars, Change
  <2> QED BY <1>1, <2>1, SameSweep DEF Rest
<1> HIDE DEF Good
<1> QED
  BY <1>1, <1>4, <1>5, <1>6, <1>7, <1>8, <1>9, <1>10, <1>11, <1>12, <1>13, <1>14
  DEF Next, SaverProceeds, SweepProceeds

-----------------------------------------------------------------------------
(* The theorems *)

LEMMA Invariance == Spec => []IInv
<1>1. ThreadTypes /\ Rest /\ Truths /\ Collects => IInv
  BY DEF ThreadTypes, Rest, Truths, IInv, TypeOK, Where
<1>2. IInv /\ [Next]_vars => IInv'
  BY <1>1, NextTypes, NextTruths, NextCollects, PTL
<1> QED BY <1>2, InitIInv, PTL DEF Spec

(* Type correctness: among it that the offset of the sweep's query never   *)
(* passes the number of authors, and that no call outlasts its timeout.    *)
THEOREM TypeCorrect == Spec => []TypeOK
<1>1. IInv => TypeOK
  BY DEF IInv
<1> QED BY <1>1, Invariance, PTL

(* A verdict given out of the cache is wrong only about an author whose    *)
(* standing changed less than the TTL ago, however many threads ask, and   *)
(* however late their answers come (blacklist.py:24-46).                   *)
THEOREM NoStaleVerdict == Spec => []VerdictNotStale
<1>1. IInv => VerdictNotStale
  <2> SUFFICES ASSUME IInv, NEW a \in Authors, Fresh(a),
                      verdict[a] \notin {Truth(a), "garbled"}
               PROVE  since[a] < Ttl
    BY DEF VerdictNotStale
  <2>1. since[a] <= age[a] /\ age[a] < Ttl
    BY DEF Fresh, IInv, VerdictsWereTrue
  <2>2. since[a] \in 0 .. Ttl /\ age[a] \in 0 .. Ttl /\ Ttl \in Nat
    BY BlacklistAssumption DEF IInv, TypeOK
  <2> QED BY <2>1, <2>2
<1> QED BY <1>1, Invariance, PTL

(* A sweep that has read all its pages has collected everyone who had      *)
(* posts when it began, whatever was saved in between and wherever the     *)
(* newcomers sort (blacklist.py:82-89).                                    *)
THEOREM PagesMissNobody == Spec => []SweepIsComplete
<1>1. IInv => SweepIsComplete
  BY DEF IInv, Collects, SweepIsComplete
<1> QED BY <1>1, Invariance, PTL
=============================================================================
