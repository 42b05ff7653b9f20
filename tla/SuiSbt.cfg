SPECIFICATION ClientsSpec
CONSTANTS
  Addresses = {minter, user}
  Circuits = {1, 2}
  Nullifiers = {1, 2}
  Actions = {a1}
  Any = any
  MaxU256 = 3
  MsPerSecond = 2
  Expirations = {0, 2}
  MaxMs = 2
  MaxSbts = 2
  Relayer = minter
  ExpectedCircuit = 1
  ExpectedAction = a1
  WrongCircuit = 3
  WrongAction = a2
  MaxDate = 1
  PageLimit = 1
  NoFields = noFields
  MaxEvents = 2
CHECK_DEADLOCK FALSE
INVARIANTS TypeOK NullifierOncePerCircuit RevokedOnlyByHolders ChecksAgree NegativeVerdictsStand EventsCountedOnce
PROPERTIES InvalidForGood EventsCountedAtLast
