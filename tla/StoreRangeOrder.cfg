CONSTANTS
  Requests = {w1, w2}
  Scenarios <- MCScenarios
  SeedFields <- MCSeedFields
  Today = 1
  None = None
  NoName = NoName
  o1 = o1
  o2 = o2
  f1 = f1
  f2 = f2
  p1 = p1
  p2 = p2
  p3 = p3
  l1 = l1
  r1 = r1
  x1 = x1
  x2 = x2
  t1 = t1
  VOC = VOC
  SO2 = SO2
  HotMix = HotMix
  Ash = Ash
  Renewed = Renewed
SPECIFICATION Spec
CHECK_DEADLOCK FALSE
INVARIANTS RangesAreOrdered
