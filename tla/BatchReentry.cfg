SPECIFICATION BatchSpec
CONSTANTS
  Accounts = {user, wallet}
  Contracts = {wallet}
  Circuits = {k1}
  Verifiers = {v1}
  Nullifiers = {n0, n1}
  Values = {x1}
  Chains = {here}
  Chain = here
  HighBits = {0}
  ZeroAddress = zero
  NoNullifier = n0
  NoIdentifier = noIdentifier
  NoValues = noValues
  NoSigner = noSigner
  Owners = {}
  Installed = {}
  Revocable = {}
  Expirations = {1}
  Fees = {0, 1}
  MaxTime = 1
  MaxTokens = 2
  MaxDepth = 4
  MaxSigned = 2
  BatchLimit = 2
  MaxItems = 3
CHECK_DEADLOCK FALSE
INVARIANTS BatchTypeOK ResultsMatchTokens
PROPERTIES StrictIsAllOrNothing
