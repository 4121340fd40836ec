SPECIFICATION Spec
CONSTANTS
  Connections = {c1, c2}
  Sessions = {s1}
  Elements = {e1}
  Frames = {f1, f2}
  Watches <- SameTemplate
  Methods = {"join", "push", "select", "claim", "release"}
  None = None
VIEW Unshown
SYMMETRY Symmetry
INVARIANTS NoMissedUpdates NoGhostLocks NoMissedLocks
