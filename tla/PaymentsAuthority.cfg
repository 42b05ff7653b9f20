SPECIFICATION Spec
CONSTANTS
  Commitments = {c1}
  Services = {s1}
  Accounts = {wallet}
  Contracts = {wallet}
  Oracles = {o1, o2}
  Chains = {here, there}
  Chain = here
  ZeroAddress = zero
  NoService = noService
  NoCommitment = noCommitment
  NoSigner = noSigner
  PayWindow = 1
  RefundWindow = 0
  Amounts = {1, 2}
  MaxBalance = 2
  MaxTime = 2
  MaxDepth = 1
  MaxSigned = 2
  RoleTargets = {wallet}
  MaxBatch = 0
PROPERTIES PaymentsAuthorised RefundsAuthorised AbandonedForGood
