SPECIFICATION Spec
CONSTANTS
    t1 = t1
    r1 = r1
    NoRun = NoRun
    NoBuf = NoBuf
    Nobody = Nobody
    Emitter = {e1, e2}
    Session = {s1}
    Token = {tok}
    Key <- MCKey
    Channel <- MCChannel
    PagedKey <- MCPaged
    PageSize <- MCPages
    PerTaskMax = 2
    PruneInterval = 2
    RotateLines = 1
    MaxFiles = 1
    FlushEachLine = FALSE
    MaxPending = 2
    MaxRate = 2
    Profiles <- MCProfiles
INVARIANTS PagesComplete StreamInOrder AtMostOneLatePush FileKeepsNewest
PROPERTY SessionsLeave
CHECK_DEADLOCK FALSE
