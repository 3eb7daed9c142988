SPECIFICATION Spec
CONSTANTS
    Ues = {u1}
    MaxSessions = 1
    MaxSpont = 1
    Unsolicited = {"pdu"}
INVARIANT ExitFreesSessions
