SPECIFICATION Spec
CONSTANTS
    Callers = {c1, c2}
    c1 = c1
    c2 = c2
    c3 = c3
    NoCaller = NoCaller
    v1 = v1
    v2 = v2
    v3 = v3
    Versions = {v1, v2, v3}
    EmptyVersions = {v3}
    NoVersion = NoVersion
    DnsEnabled = FALSE
    MayTimeOut = TRUE
    StoreMayFail = FALSE
    MayLoseFile = FALSE
    MaxCalls = 3
PROPERTIES
    FailureKeepsCache
