SPECIFICATION Spec
CONSTANTS
  Commitments = {c1}
  Services = {s1}
  Accounts = {user}
  Contracts = {}
  Oracles = {o1}
  Chains = {here}
  Chain = here
  ZeroAddress = zero
  NoService = noService
  NoCommitment = noCommitment
  NoSigner = noSigner
  PayWindow = 2
  RefundWindow = 1
  Amounts = {1}
  MaxBalance = 1
  MaxTime = 3
  MaxDepth = 1
  MaxSigned = 2
  RoleTargets = {}
  MaxBatch = 0
INVARIANTS RefundSignaturesLastAYear
