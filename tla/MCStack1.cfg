SPECIFICATION FairSpec
CONSTANTS
    Callers = {c1, c2}
    Assocs = {a1, a2}
    Codes = {setup, release}
    Inits = {i1}
    Scenarios <- OneOrAll
INVARIANT NoPanicAlone
INVARIANT ReplyHasRequestedCode
INVARIANT WaitingHasReader
INVARIANT ResponseChannelFree
PROPERTY RequestEndsWithAssociation
CHECK_DEADLOCK FALSE
