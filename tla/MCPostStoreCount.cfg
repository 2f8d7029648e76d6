CONSTANTS
  Posts = {1, 2, 3}
  Communities = {"c", "d"}
  Authors = {"a", "b"}
  TagsOf <- MCTagsOf
  AuthorOf <- MCAuthorOf
  stream = stream
  backfill = backfill
  Savers <- MCSavers
  NoPost = NoPost
  NoCommunity = NoCommunity
  NoRow = NoRow
  MaxCache = 1
  EvictBatch = 1
  MaxSlips = 1
SYMMETRY Symmetry
SPECIFICATION Spec
INVARIANT ListedHavePosts
CHECK_DEADLOCK FALSE
