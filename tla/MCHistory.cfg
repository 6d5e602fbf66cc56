SPECIFICATION HistLiveSpec
CONSTANTS
  Limits <- SomeLimits
  PageSize = 2
  MaxActivities = 3
INVARIANT HistTypeOK
INVARIANT AnswersAreUpToDate
PROPERTY LimitCutsShortOnly
PROPERTY ImplementsLookup
PROPERTY SearchEnds
