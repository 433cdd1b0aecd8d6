SPECIFICATION FairSpec
CONSTANTS
    server = server
    cli = cli
    Procs = {server, cli}
    NoProc = NoProc
    Settings <- StoreSettings
INVARIANTS
    TypeOK
    LockExclusive
    NeverTorn
    MemoryReachedDisk
    OneWriterReadsAreCurrent
PROPERTIES
    OperationsEnd
