SPECIFICATION FairSpec
CONSTANTS
  w1 = w1
  w2 = w2
  Workers <- TwoWorkers
  Main = main
  Nobody = nobody
  Snapshot <- MCSnapshot
  Page = 2
  DataSize = 1
  HandlerThreads <- OnMain
  MaxSignals = 4
INVARIANTS TypeOK EachMatchOnce DoneMeansComplete RegisteredLive
  
