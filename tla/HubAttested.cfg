SPECIFICATION Spec
CONSTANTS
  Accounts = {alice, bob}
  Contracts = {bob}
  Circuits = {k1}
  Verifiers = {v1, v2}
  Nullifiers = {n0, n1}
  Values = {x1}
  Chains = {here, there}
  Chain = here
  HighBits = {0, 1}
  ZeroAddress = zero
  NoNullifier = n0
  NoIdentifier = noIdentifier
  NoValues = noValues
  NoSigner = noSigner
  Owners = {alice}
  Installed = {v1, v2}
  Revocable = {alice, bob}
  Expirations = {1, 2}
  Fees = {0}
  MaxTime = 3
  MaxTokens = 2
  MaxDepth = 2
  MaxSigned = 1
CHECK_DEADLOCK FALSE
PROPERTIES ReadableOnlyByMint MintedAsSigned
