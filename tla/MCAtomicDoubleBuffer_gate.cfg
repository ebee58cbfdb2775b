\* The io thread loads too, as on_balance_msg does.
SPECIFICATION Spec
CONSTANTS
  usd = usd
  token = token
  Words <- MCWords
  MaxStores = 3
  LoadBeforeStore = TRUE
INVARIANT
  NeverOnSameSlot
