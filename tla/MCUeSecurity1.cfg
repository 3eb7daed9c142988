SPECIFICATION FairSecSpec
CONSTANTS
    Ues = {u1}
    MaxSessions = 2
    MaxSpont = 3
    Unsolicited = {"pdu", "dereg", "release", "junk", "auth"}
    NasCounts = 5
INVARIANTS
    ExitFreesResources
    RulesOnlyForAuthenticated
    CountsFresh
    AcceptsProtected
PROPERTIES
    RemovedEnds
    ReleaseEnds
