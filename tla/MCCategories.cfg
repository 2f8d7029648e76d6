SPECIFICATION Spec
CONSTANTS
  Parents = {"lifestyle", "creative"}
  Leaves = {"food", "art"}
  ParentOf <- MCParentOf
  Samples = {s1, s2}
  Models = {m1, m2, m3}
  MinPosts = 2
  MaxScore = 3
  Threshold = 2
  Margin = 1
  Boost = 1
  MaxCategories = 2
  Posts = {1, 2, 3}
  Authors = {"ann", "bob"}
  AuthorOf <- MCAuthorOf
  CreatedOf <- MCCreatedOf
  MaxLateral = 2
  MaxLimit = 2
  MaxTrainings = 1
  NoTree = NoTree
  NoBoost = NoBoost
INVARIANTS
  TypeOK
  FoundByCategory
  PagesAreComplete
