SPECIFICATION Spec
CONSTANTS
  p1 = p1
  p2 = p2
  c1 = c1
  c2 = c2
  None = None
  Several = Several
  Processes = {p1, p2}
  Codes = {c1, c2}
  ParaIds = {100}
  RelayArgs <- MCRelayArgs
SYMMETRY Symmetric
INVARIANTS TypeOK OwnGenesis CollatesForItsGenesis
