SPECIFICATION FairSpec
CONSTANTS
  a = a
  b = b
  master = master
  worker = worker
  none = none
  leaves = leaves
  nested = nested
  loop = loop
  chain = chain
  single = single
  one = one
  wrap = wrap
  deep = deep
  cyclic = cyclic
  broken = broken
  garbled = garbled
  badConfig = badConfig
  unnamed = unnamed
  lowered = lowered
  raised = raised
  NoRow = NoRow
  NoId = none
  NoBody = none
  Server = {master, worker}
  Front = {master}
  TaskId = {a, b}
  RunId <- MCRunId
  Source = {"manual", "template", "cron", "worker", "execution", "task_template"}
  Body = {leaves, nested, loop, chain, single, one, wrap, deep, cyclic, broken, garbled, badConfig,
          unnamed, lowered, raised}
  Content <- MCContent
  WorkersOf <- Workers
  GivenRunId = {0}
  MaxDepth = 2
  MaxAttempts = 2
  MaxRequests = 1
  MaxRestarts = 1
INVARIANTS RowsMatch ProxyFinds NestingBounded
PROPERTY EveryRunEnds
CHECK_DEADLOCK FALSE
