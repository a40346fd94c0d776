SPECIFICATION BuilderSpec
CONSTANTS
  a = a
  b = b
  c = c
  Empty = Empty
  Name = {a, b, c, Empty}
  TaskLists <- AllLists
INVARIANTS AcceptsExactlyDags CycleIsReal
