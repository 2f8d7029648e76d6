SPECIFICATION FeedSpec
CONSTANTS
  NPosts = 3
  Created <- CreatedValue
  InCategory = {1, 3}
  ByFollowed = {1, 2}
  InMine = {2, 3}
  InCommunity = {1, 3}
  ByAuthor = {2}
  ByMuted = {3}
  PageSize = 1
  PollLimits = {2}
  FeedMax = 2
  MaxOffset = 1
  MaxPolls = 2
  NInitial = 2
  MaxChanges = 2
INVARIANTS ScrollingIsEndless
CHECK_DEADLOCK FALSE
