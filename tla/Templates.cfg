CONSTANTS
    Clients = {c1, c2}
    Ids = {t1}
    Posted <- McPosted
    Inputs <- McInputs
    RecordsSent <- McRecords
    MaxRequests = 5
    MaxRestarts = 1
    None = None
    Render <- render
SPECIFICATION StoreSpec
INVARIANTS
    AnswersCurrent
    RenderSound
CHECK_DEADLOCK FALSE
