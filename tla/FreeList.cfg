SPECIFICATION ListSpec
CONSTANTS
  Alignment = 2
  ChunkSize = 10
  RequestSizes = {1, 2, 3, 5}
INVARIANT SortedApart
PROPERTY FollowsRanges
