\* Four rows and pages of two: two full pages, or more when rows move.  Four
\* dates or ranks: all rows, some or none may share theirs with another.
SPECIFICATION FairSpec
CONSTANTS
  Rows = {1, 2, 3, 4}
  MaxRank = 4
  Rankings <- SortedRankings
  MaxChanges = 2
  Limit = 2
INVARIANT HistoryComplete
INVARIANT PagesAddUp
PROPERTY WalkEnds
\* A walk comes to its end.
CHECK_DEADLOCK FALSE
