SPECIFICATION Spec
CONSTANTS
  Elements = {e1, e2}
  Session = s1
  MaxEdits = 1
  MaxSelects = 2
  MaxRefreshes = 1
  MaxOutages = 1
  None = None
INVARIANTS EditsArePushed SelectionIsPublished NoStrayLock LockIsKept
