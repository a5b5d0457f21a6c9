SPECIFICATION FairSpec
CONSTANTS
  a = a
  b = b
  c = c
  Accounts = {a, b}
  Registrants = {a}
  GenesisFree <- Uneven
  ExistentialDeposit = 2
  MaxBalance = 2
  Fees = {2}
  Penalties = {0, 2}
  Durations = {1}
  Deadlines = {1, 2}
  MomentMod = 16
  SelfParaId = 200
  Siblings = {100}
  OnReceived = "Busy"
  NoDevice = NoDevice
  NoOrder = NoOrder
  MaxNow = 2
  MaxInFlight = 1
INVARIANTS Backed OrderedDevicesAreBusy CancelNeverBlocked
PROPERTIES ImplementsEscrow LocalOrdersEnd SettlementReported
