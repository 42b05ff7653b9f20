SPECIFICATION MCSpec
CONSTANTS
  Callers = {c1, c2}
  MaxEncryptions = 2
  Users = {u1}
  FieldPrime = 61
  Year = 4
  Month = 3
  Range25 = 8
  Iats = {10}
  Expiries <- MCExpiries
  SubOrder = 5
  PointMessage <- MCPointMessage
  ScriptPoints <- MCScriptPoints
  PointLists <- MCPointLists
  Secrets = {2, 6}
  EphemeralKeys = {1, 7}
CHECK_DEADLOCK FALSE
INVARIANTS EncryptsItsMessages ProvedWithinTheYear
PROPERTIES CallsReturn
