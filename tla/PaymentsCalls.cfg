SPECIFICATION Spec
CONSTANTS
  Commitments = {c1, c2}
  Services = {s1}
  Accounts = {wallet, user}
  Contracts = {wallet}
  Oracles = {o1}
  Chains = {here}
  Chain = here
  ZeroAddress = zero
  NoService = noService
  NoCommitment = noCommitment
  NoSigner = noSigner
  PayWindow = 2
  RefundWindow = 1
  Amounts = {1}
  MaxBalance = 2
  MaxTime = 0
  MaxDepth = 3
  MaxSigned = 4
  MaxBatch = 2
  RoleTargets = {}
INVARIANTS TypeOK RefundedExactlyOnce BooksBalance
PROPERTIES ImplementsLifecycle PaymentsAuthorised
