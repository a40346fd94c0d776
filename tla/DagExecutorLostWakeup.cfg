SPECIFICATION FairSpec
CONSTANTS
    a = a
    b = b
    c = c
    NoNode = NoNode
    Node = {a, b, c}
    Configs <- PoolConfigs
    Outcomes <- TwoOutcomes
PROPERTY Termination
