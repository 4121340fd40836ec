CONSTANTS
  NoKey = NoKey
  NewKey = NewKey
  NoRow = NoRow
  NoDetail = NoDetail
  f1 = f1
  f2 = f2
  HotMix = HotMix
  Ran = Ran
  Details = {f1}
  Addresses <- MCAddresses
  Budgets <- MCBudgets
  FirstStore <- MCFirstStore
  Dates = {1, 2, 3}
  Today = 3
  PageSize = 1
  MaxEntries = 2
SPECIFICATION Spec
CHECK_DEADLOCK FALSE
INVARIANTS AddressMatchesScreen ShownRecordsMatchTheFilter ConfirmedRecordsAreShown ScreensAreConsistent
PROPERTIES RedirectSettles RequestsSettle
