SPECIFICATION FairSpec
CONSTANTS
  j1 = j1
  j2 = j2
  j3 = j3
  NoJob = NoJob
  Free = Free
  Job = {j1, j2, j3}
  Priority <- ThreePriorities
  NumWorkers = 1
INVARIANT PoolSound
PROPERTIES NoSpawnWhileJoining EveryJobEnds StopReturns
