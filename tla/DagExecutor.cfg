SPECIFICATION FairSpec
CONSTANTS
    a = a
    b = b
    c = c
    NoNode = NoNode
    Node = {a, b, c}
    Configs <- SmallConfigs
    Outcomes <- ThreeOutcomes
INVARIANTS VerdictSound RowsAgree AtMostOneLateStart
PROPERTIES ImplementsDagRun RowsImplementDagRun Progress
