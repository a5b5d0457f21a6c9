SPECIFICATION Spec
CONSTANTS
  a = a
  b = b
  Accounts = {a, b}
  Registrants = {a}
  GenesisFree <- Genesis
  ExistentialDeposit = 1
  MaxBalance = 2
  Fees = {1, 2}
  Penalties = {1}
  Durations = {1}
  Deadlines = {1, 2}
  MomentMod = 16
  DeviceParas = {200}
  TestPara = 200
  NoDevice = NoDevice
  NoOrder = NoOrder
  MaxNow = 2
  MaxInFlight = 2
INVARIANT ReadyIsFree
