SPECIFICATION FairSpec
CONSTANT RetryCounts <- Counts
INVARIANT RunnerSound
PROPERTY EndsUnlessHeld
