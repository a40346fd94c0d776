SPECIFICATION FairSpec
CONSTANTS
  often = often
  rare = rare
  NoJob = NoJob
  Spec5 = {often, rare}
  Slots <- Matches
  Window = 5
  Horizon = 3
  MaxJobs = 2
INVARIANT CronSound
PROPERTIES TriggersRight CronLive
