\* Two clients, one of which may be inside backupTo().
SPECIFICATION DatabaseSpec
CONSTANTS
    c1 = c1
    c2 = c2
    Clients = {c1, c2}
    NoClient = NoClient
    a = a
    Blank = Blank
    Data = {a, Blank}
    MaxId = 2
    Workloads <- SomeWorkloads
    NoRow = NoRow
    Refused = Refused
    Done = Done
    Failed = Failed
    Chunks = 2
    MaxBusy = 1
    Torn = Torn
    NoFile = NoFile
INVARIANTS
    TypeOK
    NoTransactionLeft
    ReferencesHold
    DestinationWhole
PROPERTIES
    StoreAtomic
    CallEnds
    LockReleased
