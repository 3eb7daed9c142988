SPECIFICATION Spec
CONSTANTS
    Callers = {c1, c2}
    Assocs = {a1}
    Codes = {setup}
    Inits = {}
    Scenarios <- Everything
INVARIANT ChosenEntryIsWaiting
