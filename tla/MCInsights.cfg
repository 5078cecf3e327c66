SPECIFICATION MCSpec
CONSTANTS
  s1 = s1
  s2 = s2
  a1 = a1
  a2 = a2
  l1 = l1
  l2 = l2
  Securities = {s1, s2}
  Dates = {1, 2, 3}
  FirstPrices <- MCFirstPrices
  Seeded <- MCSeeded
  Readers = {r1, r2}
  Loaders = {l1, l2}
  NoEntry = NoEntry
  MaxWrites = 2
  MaxRestarts = 1
  Accounts = {a1, a2}
  AccountTypes = {"CASH", "BROKERAGE", "CPF_OA"}
  Currencies = {"SGD", "EUR", "JPY"}
  Base = "SGD"
  ListedIn = "USD"
  Amounts = {0, 25}
  Flows <- MCFlows
  FxRates <- MCFxRates
  Unit = 2
  AsOf <- MCAsOf
  Parameters <- MCParameters
  Precision = 100
  NoAccount = NoAccount
  FirstAccounts <- MCFirstAccounts
  Queries = {q1}
  MaxCommits = 2
  Owned = s1
  NoProfile = NoProfile
  Calls = {c1, c2}
  Todays <- MCTodays
INVARIANTS
  IInv
  ServesAnnounced
  NetWorthOfAMoment
  FiguresAgree
  BandIsWhole
CONSTRAINT OneLoaderWhileAdvising
CHECK_DEADLOCK FALSE
