SPECIFICATION Spec
CONSTANTS
  Connections = {c1, c2}
  Sessions = {s1}
  Elements = {e1}
  JoinTargets <- AnyTarget
  Calls = {"join", "select", "claim", "release", "locks", "roster"}
  MaxInstances = 3
  None = None
SYMMETRY Symmetry
INVARIANTS LockHolderIsPresent NoOrphanWrites IndexAgrees EmptySessionsAreCollected
PROPERTIES ImplementsRegistry
