-------------------------------- MODULE Feed --------------------------------
(***************************************************************************)
(* The feed of the browser code: the filters in force (communities.js,     *)
(* filters.js), the debounced applyFilters, the endless scrolling          *)
(* (loadMore) and the live polling (pollNewPosts) of rendering.js, and the *)
(* muted users (social.js), all working on the one object `state`.         *)
(*                                                                         *)
(* Everything that waits for the server is two steps here: the question is *)
(* put together from the state of that moment, and the answer changes      *)
(* whatever the state has become by then.  The server reads its table when *)
(* it is asked, so that an answer is as old as it can be when it arrives.  *)
(* Only applyFilters takes its earlier question back.                      *)
(*                                                                         *)
(* Posts are numbered by (created, id); `created` is the second, which     *)
(* posts may share.  The feed is sorted newest first, curation is off, and *)
(* the page is not one that a link to a post has opened.                   *)
(***************************************************************************)
EXTENDS Naturals, FiniteSets, Sequences, SequencesExt, Orders

CONSTANTS NPosts, Created,
          InCategory,   \* posts that the category chips select
          ByFollowed,   \* posts of followed users
          InMine,       \* posts in communities the user has joined
          InCommunity,  \* posts in the community of a badge
          ByAuthor,     \* posts of the author whose name is clicked
          ByMuted,      \* posts of the user who may be muted
          PageSize,     \* PAGE_SIZE
          PollLimits,   \* how many posts a poll asks for
          FeedMax,      \* ALL_POSTS_MAX
          MaxOffset,    \* the largest offset that the server accepts (2000)
          MaxPolls,     \* bound on the polls that are out at once
          NInitial,     \* how many posts the server has at first
          MaxChanges    \* bound on what the user does and on refreshed lists

Posts == 1 .. NPosts
Nothing == 0       \* null, as a cursor and as newestCreated

ASSUME FeedAssumption ==
  /\ NPosts \in Nat /\ PageSize \in Nat \ {0} /\ FeedMax \in Nat \ {0} /\ MaxOffset \in Nat
  /\ PollLimits \in SUBSET (Nat \ {0}) /\ MaxChanges \in Nat /\ MaxPolls \in Nat /\ NInitial \in 0 .. NPosts
  /\ Created \in [Posts -> Nat \ {0}]
  /\ \A p, r \in Posts : p < r => Created[p] <= Created[r]
  /\ {InCategory, ByFollowed, InMine, InCommunity, ByAuthor, ByMuted} \in SUBSET SUBSET Posts

VARIABLES
  table,      \* the posts the server has
  filter,     \* the filters in force
  known,      \* the lists among "following" and "mine" that are not empty here
  muted,      \* whether that user is in mutedUsers
  timer,      \* filterTimer is set
  shown,      \* state.posts
  cursor, offset,   \* lastCursor, currentOffset
  noMore, newest,   \* noMorePosts, newestCreated
  apply,      \* the question of applyFilters, if it has one out
  more,       \* the question of loadMore (loadingMore = it has one out)
  polls,      \* the questions of pollNewPosts
  changes,
  base,       \* history: what the feed's first page was asked and given
  patched,    \* history: since then answers came in that it did not ask for
  cut         \* history: what ended it with an error, "offset" for one too large

asked == <<apply, more, polls>>
lists == <<known, muted>>
feed == <<shown, cursor, offset, noMore, newest>>
history == <<base, patched, cut>>
feedVars == <<table, filter, lists, timer, feed, asked, changes, history>>

-----------------------------------------------------------------------------
(* Filters *)

Switches == {"category", "following", "mine", "community", "author"}

\* hasActiveFilters
Active(f) == f # {}

\* The source that _gatherFilterParams chooses, and the chips.
Question(f) ==
  [source |-> IF "author" \in f THEN "author"
              ELSE IF "following" \in f \cap known THEN "following"
              ELSE IF "mine" \in f \cap known THEN "mine"
              ELSE IF "community" \in f THEN "community"
              ELSE "any",
   chips |-> "category" \in f]

Questions == [source : (Switches \ {"category"}) \cup {"any"}, chips : BOOLEAN]

Everything == [source |-> "any", chips |-> FALSE]

\* The posts a question is about.
Selection(q) ==
  LET from == [author |-> ByAuthor, following |-> ByFollowed, mine |-> InMine,
               community |-> InCommunity, any |-> Posts]
  IN  from[q.source] \cap (IF q.chips THEN InCategory ELSE Posts)

\* getEmptyFilterReason
EmptyList(f) == (f \cap {"following", "mine"}) \ known # {}

-----------------------------------------------------------------------------
(* Questions to the server, and its answers *)

\* Mutant: the page begins with the post of the cursor once more.
AskServer_inclusive(f, q, below, from, limit, own) ==
  [out |-> TRUE, filter |-> f, q |-> q, limit |-> limit, offset |-> from, own |-> own,
   had |-> {p \in table \cap Selection(q) : below = Nothing \/ p <= below}]

\* A question that is out, with the posts it is about: at most `limit` of them,
\* the newest, come back.  With a cursor the server makes no use of the offset,
\* but checks it.  `own` is history: whether it is about the feed shown.
AskServer(f, q, below, from, limit, own) ==
  [out |-> TRUE, filter |-> f, q |-> q, limit |-> limit, offset |-> from, own |-> own,
   had |-> {p \in table \cap Selection(q) : below = Nothing \/ p < below}]

NoQuestion ==
  [out |-> FALSE, filter |-> {}, q |-> Everything, limit |-> PageSize, offset |-> 0,
   own |-> FALSE, had |-> {}]

Rows(x) == Newest(x.had, x.limit)

\* The answer is an error, and its body is JSON.
TooFar(x) == x.offset > MaxOffset

\* Mutant: one above the newest post of the page.
NextCursor_above(rows) == IF Cardinality(rows) = PageSize
                         THEN 1 + CHOOSE p \in rows : \A r \in rows : p >= r ELSE Nothing

\* next_cursor, and whether the page was the last one
NextCursor(rows) == IF Cardinality(rows) = PageSize THEN CHOOSE p \in rows : \A r \in rows : p <= r
                    ELSE Nothing

\* Mutant: a full page is taken for the last one.
IsLast_early(rows) == Cardinality(rows) <= PageSize
IsLast(rows) == Cardinality(rows) < PageSize

\* filterMutedPosts
FilterMuted(rows) == IF muted THEN rows \ ByMuted ELSE rows

Lost == [filter |-> {}, q |-> Everything, had |-> {}, answered |-> FALSE]
FirstPage(f, q, had) == [filter |-> f, q |-> q, had |-> had, answered |-> TRUE]

-----------------------------------------------------------------------------
(* The page is loaded: init up to enableFilterEffect *)

\* With a list in force, init waits for applyFilters, which leaves newestCreated
\* alone.  Otherwise it shows what it asked for before the filters were known:
\* for all of them, g = f, or, on a page that is about one filter, for that one.
\* The effect on the chips comes after init has enabled it, if init did not wait.
\* An error ends the feed if its body is JSON.  A fetch that fails ends init, and
\* with it the page, but not the applyFilters that init waits for.
FeedInit ==
  /\ table = 1 .. NInitial /\ known \in {{}, {"following", "mine"}}
  /\ muted \in BOOLEAN
  /\ filter \in {{}, {"following"}, {"category", "community"}}
  /\ \/ \E g \in {filter} \cup {{s} : s \in filter \cap {"category", "community"}} :
          LET had == table \cap Selection(Question(g))
              rows == Newest(had, PageSize)
              empty == EmptyList(filter)
          IN  /\ shown = IF empty THEN <<>> ELSE InOrder(FilterMuted(rows))
              /\ cursor = IF empty THEN Nothing ELSE NextCursor(rows)
              /\ noMore = (empty \/ IsLast(rows))
              /\ newest = IF shown = <<>> \/ "following" \in filter THEN Nothing
                          ELSE Created[shown[1]]
              /\ base = FirstPage(filter, Question(g), IF empty THEN {} ELSE had)
              /\ patched = (g # filter)
     \/ /\ ~EmptyList(filter)
        /\ shown = <<>> /\ cursor = Nothing /\ newest = Nothing
        /\ noMore \in BOOLEAN /\ (noMore \/ "following" \in filter)
        /\ base = Lost /\ patched = FALSE
  /\ offset = Len(shown) /\ cut = "no"
  /\ timer \in {FALSE, "category" \in filter}
  /\ apply = NoQuestion /\ more = NoQuestion /\ polls = {}
  /\ changes = 0

-----------------------------------------------------------------------------
(* applyFilters *)

\* Mutant: while a question is out no other is asked.
ApplyFilters_busy(f) ==
  /\ cursor' = Nothing /\ offset' = 0
  /\ more' = [more EXCEPT !.own = FALSE]
  /\ noMore' = FALSE
  /\ apply' = IF apply.out THEN apply ELSE AskServer(f, Question(f), Nothing, 0, PageSize, TRUE)
  /\ UNCHANGED <<shown, history, newest, polls>>

\* applyFilters under the filters f: an earlier question is taken back.
ApplyFilters(f) ==
  /\ cursor' = Nothing /\ offset' = 0
  /\ more' = [more EXCEPT !.own = FALSE]
  /\ \/ /\ EmptyList(f)
        /\ shown' = <<>> /\ noMore' = TRUE /\ apply' = NoQuestion
        /\ base' = FirstPage(f, Question(f), {}) /\ patched' = FALSE /\ cut' = "no"
     \/ /\ ~EmptyList(f)
        /\ noMore' = FALSE /\ apply' = AskServer(f, Question(f), Nothing, 0, PageSize, TRUE)
        /\ UNCHANGED <<shown, history>>
  /\ UNCHANGED <<newest, polls>>

\* The timer of scheduleFilter goes off.
TimerFires ==
  /\ timer
  /\ timer' = FALSE
  /\ ApplyFilters(filter)
  /\ UNCHANGED <<table, filter, lists, changes>>

ApplyAnswer ==
  /\ apply.out
  /\ apply' = NoQuestion
  /\ LET rows == Rows(apply)
     IN  /\ shown' = InOrder(FilterMuted(rows)) /\ offset' = Len(shown')
         /\ cursor' = NextCursor(rows) /\ noMore' = IsLast(rows)
  /\ base' = FirstPage(apply.filter, apply.q, apply.had)
  /\ patched' = FALSE /\ cut' = "no"
  /\ UNCHANGED <<table, filter, lists, timer, newest, more, polls, changes>>

\* The request fails: the old posts stay, with no cursor.
ApplyFails ==
  /\ apply.out
  /\ apply' = NoQuestion
  /\ base' = Lost
  /\ UNCHANGED <<table, filter, lists, timer, feed, more, polls, changes, patched, cut>>

\* An error with a JSON body is an answer without posts and without next_cursor.
ApplyRefused ==
  /\ apply.out
  /\ apply' = NoQuestion
  /\ shown' = <<>> /\ offset' = 0 /\ cursor' = Nothing /\ noMore' = TRUE
  /\ base' = Lost
  /\ UNCHANGED <<table, filter, lists, timer, newest, more, polls, changes, patched, cut>>

-----------------------------------------------------------------------------
(* loadMore *)

\* The end of the feed comes into view.  Without a cursor the question is by
\* offset, and the offset is 0 then.
LoadMore ==
  /\ ~more.out /\ ~noMore
  /\ more' = AskServer({}, Question(filter), cursor, offset, PageSize,
                 /\ ~apply.out /\ base.answered /\ ~patched
                 /\ base.q = Question(filter))
  /\ UNCHANGED <<table, filter, lists, timer, feed, apply, polls, changes, history>>

\* An answer of which all is muted leaves the offset as it was.
MoreAnswer ==
  /\ more.out /\ ~TooFar(more)
  /\ more' = NoQuestion
  /\ LET rows == Rows(more)
         left == FilterMuted(rows)
     IN  /\ shown' = shown \o InOrder(left)
         /\ offset' = IF left = {} THEN offset ELSE Len(shown')
         /\ cursor' = NextCursor(rows) /\ noMore' = (noMore \/ IsLast(rows))
  /\ patched' = (patched \/ ~more.own)
  /\ UNCHANGED <<table, filter, lists, timer, newest, apply, polls, changes, base, cut>>

\* An error with a JSON body, as the server gives for a large offset, is the last
\* page, and empty.
MoreRefused ==
  /\ more.out
  /\ more' = NoQuestion
  /\ cursor' = Nothing /\ noMore' = TRUE
  /\ patched' = (patched \/ ~more.own)
  /\ cut' = IF TooFar(more) THEN "offset" ELSE "error"
  /\ UNCHANGED <<table, filter, lists, timer, shown, offset, newest, apply, polls, changes, base>>

\* Only a request that fails leaves the feed alone.
MoreFails ==
  /\ more.out
  /\ more' = NoQuestion
  /\ UNCHANGED <<table, filter, lists, timer, feed, apply, polls, changes, history>>

-----------------------------------------------------------------------------
(* pollNewPosts *)

\* Every 30 s, and whenever the page is seen again, be an earlier poll out or not.
Poll ==
  /\ ~Active(filter) /\ newest # Nothing
  /\ Cardinality(polls) < MaxPolls
  /\ \E n \in PollLimits :
       polls' = polls \cup {AskServer({}, Everything, Nothing, 0, n, TRUE)}
  /\ UNCHANGED <<table, filter, lists, timer, feed, apply, more, changes, history>>

\* Posts newer than newestCreated that are not shown go in front.  The answer is
\* one for this feed if that has no filters and they are newer than all of it.
PollAnswer ==
  /\ \E poll \in polls :
       /\ polls' = polls \ {poll}
       /\ LET fresh == {p \in FilterMuted(Rows(poll)) :
                         Created[p] > newest /\ p \notin ToSet(shown)}
              all == InOrder(fresh) \o shown
              fits == base.filter = {} /\ Len(all) <= FeedMax
                        /\ \A p \in fresh, r \in base.had \cup ToSet(shown) : p > r
          IN  IF fresh = {} THEN UNCHANGED <<shown, newest, patched>>
              ELSE /\ shown' = SubSeq(all, 1, IF Len(all) > FeedMax THEN FeedMax ELSE Len(all))
                   /\ newest' = Created[all[1]]
                   /\ patched' = (patched \/ ~fits)
  /\ UNCHANGED <<table, filter, lists, timer, cursor, offset, noMore, apply, more, changes,
                 base, cut>>

\* A poll that fails or is refused changes nothing.
PollFails ==
  /\ \E poll \in polls : polls' = polls \ {poll}
  /\ UNCHANGED <<table, filter, lists, timer, feed, apply, more, changes, history>>

-----------------------------------------------------------------------------
(* What the user does *)

Change ==
  /\ changes < MaxChanges
  /\ changes' = changes + 1
  /\ UNCHANGED table

\* The filters become f, and scheduleFilter sets the timer anew.
Choose(f) ==
  /\ Change
  /\ filter' = f /\ timer' = TRUE
  /\ UNCHANGED <<lists, feed, asked, history>>

Toggled(s) == SymDiff(filter, {s})

ToggleCategory == Choose(Toggled("category"))

ToggleFollowing ==
  Choose(IF "following" \in filter THEN filter \ {"following"}
         ELSE (filter \ {"author", "mine", "community"}) \cup {"following"})

ToggleMyCommunities ==
  Choose(IF "mine" \in filter THEN filter \ {"mine"}
         ELSE (filter \ {"author", "following", "community"}) \cup {"mine"})

FilterByCommunity == Choose(Toggled("community") \ {"mine"})

FilterByAuthor ==
  Choose(IF "author" \in filter THEN filter \ {"author"}
         ELSE (filter \ {"mine", "following"}) \cup {"author"})

\* clearFilters applies at once; the effect on the chips sets the timer as well.
ClearFilters ==
  /\ Change
  /\ filter' = {} /\ timer' = TRUE
  /\ ApplyFilters({})
  /\ UNCHANGED lists

\* The user mutes somebody, here or (in the list that arrives) elsewhere.
MuteUser ==
  /\ Change
  /\ ~muted /\ muted' = TRUE
  /\ shown' = Without(shown, ByMuted)
  /\ UNCHANGED <<filter, known, timer, cursor, offset, noMore, newest, asked, history>>

UnmuteUser ==
  /\ Change
  /\ muted /\ muted' = FALSE
  /\ UNCHANGED <<filter, known, timer, feed, asked, history>>

\* A list of followed or muted users or of communities arrives, as it is or,
\* when no node answered, empty.
ListArrives ==
  /\ Change
  /\ \/ \E l \in {"following", "mine"} : known' = SymDiff(known, {l}) /\ UNCHANGED muted
     \/ muted' = ~muted /\ UNCHANGED known
  /\ UNCHANGED <<filter, timer, feed, asked, history>>

\* The worker saves a post, not always in order.
PostSaved ==
  /\ \E p \in Posts \ table : table' = table \cup {p}
  /\ UNCHANGED <<filter, lists, timer, feed, asked, changes, history>>

FeedNext ==
  \/ TimerFires \/ ApplyAnswer \/ ApplyFails \/ ApplyRefused
  \/ LoadMore \/ MoreAnswer \/ MoreRefused \/ MoreFails
  \/ Poll \/ PollAnswer \/ PollFails
  \/ ToggleCategory \/ ToggleFollowing \/ ToggleMyCommunities \/ FilterByCommunity
  \/ FilterByAuthor \/ ClearFilters \/ MuteUser \/ UnmuteUser \/ ListArrives
  \/ PostSaved

FeedSpec == FeedInit /\ [][FeedNext]_feedVars

-----------------------------------------------------------------------------
(* Properties *)

FeedTypeOK ==
  LET Question0 == [out : BOOLEAN, filter : SUBSET Switches, q : Questions,
                    limit : PollLimits \cup {PageSize}, offset : Nat,
                    had : SUBSET Posts, own : BOOLEAN]
  IN  /\ table \in SUBSET Posts /\ filter \in SUBSET Switches
      /\ known \in SUBSET {"following", "mine"} /\ muted \in BOOLEAN /\ timer \in BOOLEAN
      /\ shown \in Seq(Posts) /\ cursor \in 0 .. NPosts /\ offset \in Nat
      /\ noMore \in BOOLEAN
      /\ newest \in {Nothing} \cup {Created[p] : p \in Posts}
      /\ apply \in Question0 /\ more \in Question0 
      /\ polls \in SUBSET Question0
      /\ changes \in 0 .. MaxChanges
      /\ base \in [filter : SUBSET Switches, q : Questions, had : SUBSET Posts,
                   answered : BOOLEAN]
      /\ patched \in BOOLEAN /\ cut \in {"no", "error", "offset"}

\* No change of the filters is waiting to be applied, and the last one was.
Settled == ~timer /\ ~apply.out /\ base.answered

\* Once the dust has settled the feed answers the filters in force, however the
\* user switched them while earlier questions were out, unless a late answer of
\* loadMore or of a poll was mixed in.
FeedAnswersFilter ==
  Settled /\ ~patched => /\ base.filter = filter
                         /\ ToSet(shown) \subseteq Selection(base.q)

\* What the server had when it answered the first page and is not shown comes after
\* all that is shown.
NoGap ==
  \A p \in base.had \ ByMuted : p \in ToSet(shown) \/ \A r \in ToSet(shown) : p < r

\* It comes after the cursor, so that at the end all is shown.
Complete ==
  \A p \in base.had \ ByMuted :
    p \in ToSet(shown) \/ (~noMore /\ cursor # Nothing /\ p < cursor)

\* A feed that no foreign answer was mixed into shows no post twice and is in
\* order, with polls in front and pages at the end; scrolling passes over nothing
\* that the server had when it answered the first page; and it goes on until all
\* of that is shown, if no error has ended it.
EachPostOnce ==
  ~patched =>
    /\ \A i, j \in 1 .. Len(shown) : i < j => shown[i] > shown[j]
    /\ Settled => NoGap
    /\ Settled /\ cut = "no" => Complete

\* "Endless scrolling": as long as the server is in order, scrolling down brings
\* all the posts that the server had when it answered the first page.
ScrollingIsEndless == Settled /\ ~patched /\ cut # "error" => Complete
=============================================================================
