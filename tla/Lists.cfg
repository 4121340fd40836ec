CONSTANTS
  NoKey = NoKey
  NewKey = NewKey
  NoRow = NoRow
  Org = Org
  Blank = Blank
  Spaces = Spaces
  Padded = Padded
  Plain = Plain
  Other = Other
  None = None
  i1 = i1
  i2 = i2
  i3 = i3
  PM = PM
  SO2 = SO2
  f1 = f1
  f2 = f2
  Screens <- MCScreens
  Routes = {f1, f2}
  FirstRoute = f1
  Ids = {i1, i2, i3}
  EmissionTypes <- MCEmissionTypes
  Stored <- MCStored
  MaxEvents = 2
  MaxInputs = 3
  MaxTogether <- MCMaxTogether
SPECIFICATION Spec
CHECK_DEADLOCK FALSE
INVARIANTS SettledListIsCurrent ScreenIsWellFormed
PROPERTIES LoadingEnds
