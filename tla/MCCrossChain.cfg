SPECIFICATION FairSpec
CONSTANTS
  alice = alice
  bob = bob
  dev = dev
  Accounts = {alice, bob, dev}
  Registrants = {dev}
  ClientGenesis <- ClientFunds
  ServiceGenesis <- ServiceFunds
  ExistentialDeposit = 1
  MaxBalance = 1
  Fees = {1}
  Penalties = {1}
  Durations = {1}
  Deadlines = {1, 2}
  MomentMod = 16
  ClientPara = 100
  ServicePara = 200
  OnReceived = "Busy2"
  NoDevice = NoDevice
  NoOrder = NoOrder
  MaxNow = 2
  MaxInFlight = 2
INVARIANTS TypeOK OneTrace SameOrder ClientFundsBacked
PROPERTIES EarlyEndNeedsVerdict ImplementsRemoteOrder ClientOrdersEnd ServiceDevicesIdleAgain
