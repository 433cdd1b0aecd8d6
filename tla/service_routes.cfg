SPECIFICATION Spec
CONSTANTS
    r1 = r1
    r2 = r2
    s1 = s1
    s2 = s2
    NoCall = NoCall
    Places = {1, 2}
    Sources = {s1, s2}
    Requests = {r1, r2}
    Configs <- SafetyConfigs
INVARIANTS
    TypeOK
    AnswersAreOnePass
    NothingExpiredServed
    ServesWhatIsValid
    RequestCallsTracked
    OwnersAreAlive
    NothingRunsAfterStop
