CONSTANTS
  Threads = {main, w1, w2}
  MainThread = main
  Ids = {h1, h2}
  Nobody = nobody
  Poller = poller
  MaxWork = 1
SPECIFICATION ReaderSpec
INVARIANTS
  TypeOK
  PollReadsLiveThreads
  EntriesFollowIds
  ReportsSurvive
  DeltasAddUp
  OnlyReuseIsRejected
PROPERTIES
  WorkReachesTheLog
  StopEndsThePoll
CHECK_DEADLOCK FALSE
