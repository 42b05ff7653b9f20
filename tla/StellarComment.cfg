SPECIFICATION Spec
CONSTANTS
  Accounts = {alice}
  Circuits = {k1}
  Nullifiers = {n1}
  Values = {x1}
  NoSBT = noSBT
  NoId = noId
  LedgerSeconds = 1
  DayInLedgers = 2
  YearInLedgers = 20
  MaxU32 = 12
  MinTTL = 4
  MaxTTL = 11
  Expirations = {3, 5, 7}
  MaxSeq = 9
INVARIANTS NotArchivedBeforeExpiry
