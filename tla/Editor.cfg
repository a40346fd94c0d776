SPECIFICATION Spec
CONSTANTS
  Nodes = {n1, n2}
  Lines = {l1, l2}
  Dag = Dag
  None = None
  Profiles <- MCProfiles
CONSTRAINT Promised
INVARIANTS
  UndoExact
  ExportedIsShown
  ItemsSafe
