CONSTANTS
  Fds = {f1, f2}
  MaxAccepts = 3
SPECIFICATION FairPoolSpec
INVARIANT MapMatchesTasks
INVARIANT OpenWhileUsed
INVARIANT ShutdownLeavesNothing
PROPERTY ShutdownReturns
PROPERTY DeadAssociationLeaves
CHECK_DEADLOCK FALSE
