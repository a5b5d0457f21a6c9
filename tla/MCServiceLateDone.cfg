SPECIFICATION Spec
CONSTANTS
  a = a
  b = b
  c = c
  Accounts = {a, b, c}
  Registrants = {a}
  GenesisFree <- Even
  ExistentialDeposit = 1
  MaxBalance = 2
  Fees = {2}
  Penalties = {1}
  Durations = {1}
  Deadlines = {1}
  MomentMod = 16
  SelfParaId = 200
  Siblings = {100}
  OnReceived = "Busy2"
  NoDevice = NoDevice
  NoOrder = NoOrder
  MaxNow = 1
  MaxInFlight = 1
PROPERTY LateDoneCostsCollateral
