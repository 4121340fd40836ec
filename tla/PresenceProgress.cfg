SPECIFICATION FairSpec
CONSTANTS
  Connections = {c1, c2}
  Sessions = {s1}
  Elements = {e1, e2}
  JoinTargets <- AnyTarget
  Calls = {"join", "claim"}
  MaxInstances = 3
  None = None
PROPERTIES LeaveIsComplete EveryOperationReturns
