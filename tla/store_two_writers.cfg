SPECIFICATION Spec
CONSTANTS
    server = server
    cli = cli
    Procs = {server, cli}
    NoProc = NoProc
    Settings <- TwoWriters
INVARIANTS
    ReadsAreCurrent
