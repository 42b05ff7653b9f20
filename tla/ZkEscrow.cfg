SPECIFICATION EscrowSpec
CONSTANTS
  Prime = 13
  N32 = 2
  Radix = 4
  Declared <- MCDeclared
  InputSizes <- MCInputSizes
  Refused = 7
  Calls = {c1, c2, c3}
  Inputs <- MCInputs
  Sessions = {s1}
  NumMsgs = 2
  Messages = {m1, m2, large}
  TooLarge = {large}
  AccessLogics = {logic}
  Randoms = {0, 1}
  PrfKey = prf
  MaxMessages = 2
CHECK_DEADLOCK FALSE
INVARIANTS WitnessOfTheLastStart CommitmentsOpen
PROPERTIES SessionsSettle
