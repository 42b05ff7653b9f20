SPECIFICATION Spec
CONSTANTS
  Accounts = {alice, bob}
  Circuits = {k1}
  Nullifiers = {n1, n2}
  Values = {x1}
  NoSBT = noSBT
  NoId = noId
  LedgerSeconds = 1
  DayInLedgers = 2
  YearInLedgers = 2
  MaxU32 = 7
  MinTTL = 2
  MaxTTL = 10
  Expirations = {3, 6}
  MaxSeq = 4
INVARIANTS TypeOK NullifierSpentOnce RevocableUntilLastDay LiveUntilLastTwoDays
PROPERTIES ServedOnlyByMint
