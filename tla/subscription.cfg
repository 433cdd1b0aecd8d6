SPECIFICATION FairSpec
CONSTANTS
    o1 = o1
    o2 = o2
    o3 = o3
    Origins = {o1, o2, o3}
    SafeOrigins = {o1, o2}
    Home = o1
    MaxRedirects = 2
    Hosts = {"h1", "h2"}
    Endpoints = 2
    Concurrency = 2
    SourceName = "s1"
    Setups <- SomeSetups
    Bodies <- SomeBodies
INVARIANTS
    TypeOK
    HeadersStayHome
    AcceptedStays
    NoSilentLoss
    PermitsBalance
    NothingOutlives
    FirstAnswerWins
PROPERTIES
    RefreshEnds
