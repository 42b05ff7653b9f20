SPECIFICATION Spec
CONSTANTS
  Accounts = {user, wallet}
  Contracts = {wallet}
  Circuits = {k1}
  Verifiers = {v1}
  Nullifiers = {n0, n1}
  Values = {x1, x2}
  Chains = {here}
  Chain = here
  HighBits = {0}
  ZeroAddress = zero
  NoNullifier = n0
  NoIdentifier = noIdentifier
  NoValues = noValues
  NoSigner = noSigner
  Owners = {wallet, zero}
  Installed = {v1, zero}
  Revocable = {wallet}
  Expirations = {1}
  Fees = {0, 1}
  MaxTime = 1
  MaxTokens = 3
  MaxDepth = 3
  MaxSigned = 2
CHECK_DEADLOCK FALSE
SYMMETRY ClaimSymmetry
INVARIANTS OneTokenPerNullifier NullifierFindsItsPair NewestTokenIsCurrent FeesAccounted
