SPECIFICATION FairSpec
CONSTANTS
  Worker = {1, 2}
  Queue = {"default", "gpu"}
  Serves <- TwoQueues
  MaxRunning <- OneEach
  AliveFor = 2
  PruneAfter = 2
  Cooldown = 1
  Absent = Absent
  NoWorker = NoWorker
  Dispatch = {1}
  QueueOf <- AllDefault
  MaxRetries = 1
INVARIANT DispatchSound
PROPERTIES CrashedNotPicked RetryElsewhere DispatchEnds ComesBack
