------------------------------- MODULE Payments -------------------------------
(***************************************************************************)
(* The contract HumanIDPayments (contracts/HumanIDPayments.sol): payments  *)
(* for a service, recorded under a commitment once the oracle has signed   *)
(* for them, and refunded at most once, by the oracle's signature or by an *)
(* admin.                                                                  *)
(*                                                                         *)
(* A call that the contract reverts before it hands control to anyone      *)
(* leaves no trace, so it is a stuttering step: the operators *Error give  *)
(* the first error the function meets, and an action happens when it is    *)
(* "Ok".  A transfer of ether is different: `call{value: ..}("")` runs the *)
(* receiver's code, which may call the contract again before it returns    *)
(* or fails.  The variable stack holds the calls that are open, each with  *)
(* the contract's state from before the function that made it, to which    *)
(* a revert (TransferFailed) goes back.                                    *)
(***************************************************************************)
EXTENDS Integers, Sequences, FiniteSets, Functions

CONSTANTS
  Commitments,     \* commitment hashes that payments are recorded under
  Services,        \* service identifiers
  Accounts,        \* addresses that call the contract and receive ether
  Contracts,       \* the accounts with code: called, they may call back or fail
  Oracles,         \* addresses that are or may become the oracle
  Chains,          \* chain ids an oracle may sign for
  Chain,           \* block.chainid here
  ZeroAddress,     \* address(0)
  NoService,       \* bytes32(0), the service of an empty record
  NoCommitment,    \* marks a transfer that refunds nothing
  NoSigner,        \* what ecrecover yields for a signature of something else
  PayWindow,       \* 365 days
  RefundWindow,    \* 10 minutes
  Amounts,         \* bound: amounts of wei in calls
  MaxBalance,      \* bound: wei in the contract
  MaxTime,         \* bound: block.timestamp
  MaxDepth,        \* bound: calls open at once (the EVM's limit is 1024)
  MaxSigned,       \* bound: messages the oracles sign
  RoleTargets,     \* bound: accounts whose roles change
  MaxBatch         \* bound: payments in one batch

ASSUME AccountsAssumption ==
  /\ Contracts \subseteq Accounts /\ RoleTargets \subseteq Accounts
  /\ ZeroAddress \notin Accounts \cup Oracles
  /\ NoSigner \notin Oracles
  /\ NoCommitment \notin Commitments
  /\ NoService \notin Services

ASSUME BoundsAssumption ==
  /\ PayWindow \in Nat /\ RefundWindow \in Nat
  /\ Amounts \subseteq Nat
  /\ MaxBalance \in Nat /\ MaxTime \in Nat /\ MaxDepth \in Nat
  /\ MaxSigned \in Nat /\ MaxBatch \in Nat

ASSUME ChainAssumption == Chain \in Chains

(* Commitment hashes are words of 256 bits. *)
ASSUME CommitmentsAssumption == IsFiniteSet(Commitments)

VARIABLES
  payments,        \* the mapping of records
  oracleAddress,
  roles,           \* AccessControl: the members of each role
  balance,         \* address(this).balance
  stack,           \* the external calls that are open, outermost first
  now,             \* block.timestamp
  signed,          \* the messages oracles have signed, off chain
  payouts,         \* history: the refund transfers made for each commitment
  surplus          \* history: wei deposited less wei withdrawn

vars == <<payments, oracleAddress, roles, balance, stack, now, signed,
          payouts, surplus>>

-----------------------------------------------------------------------------
(* Records, messages and calls *)

Payment == [service: Services \cup {NoService}, timestamp: Nat,
            sender: Accounts \cup {ZeroAddress}, amount: Nat,
            refunded: BOOLEAN]

(* A mapping reads as zero where nothing was stored.  The record's field
   `commitment` repeats the key and is left out. *)
NoPayment == [service |-> NoService, timestamp |-> 0, sender |-> ZeroAddress,
              amount |-> 0, refunded |-> FALSE]

Roles == {"DEFAULT_ADMIN_ROLE", "ADMIN_ROLE"}

PayMessage(amount, c, s, chain, ts) ==
  [kind |-> "pay", amount |-> amount, commitment |-> c, service |-> s,
   chain |-> chain, timestamp |-> ts]

RefundMessage(c, chain, ts) ==
  [kind |-> "refund", commitment |-> c, chain |-> chain, timestamp |-> ts]

(* The addresses `recover` may return for message m, over every signature a
   caller can present: whoever signed exactly m, or some address that is
   nobody's. *)
Signers(m) == {s.by : s \in {t \in signed : t.message = m}} \cup {NoSigner}

Payout == [to: Accounts, amount: Nat, authority: {"oracle", "admin"},
           at: Nat, signedAt: Nat]

(* What a revert restores: everything on chain. *)
World == [payments |-> payments, oracleAddress |-> oracleAddress,
          roles |-> roles, balance |-> balance, payouts |-> payouts,
          surplus |-> surplus]

Worlds == [payments: [Commitments -> Payment], oracleAddress: Oracles,
           roles: [Roles -> SUBSET Accounts], balance: Nat,
           payouts: [Commitments -> Seq(Payout)], surplus: Int]

Frame == [receiver: Accounts, commitment: Commitments \cup {NoCommitment},
          saved: Worlds]

(* Who may be msg.sender: anyone at the top of a transaction; while a
   receiver runs, only accounts with code, and only if the receiver is one. *)
Callers ==
  IF stack = <<>> THEN Accounts
  ELSE IF stack[Len(stack)].receiver \in Contracts THEN Contracts ELSE {}

HasRole(role, account) == account \in roles[role]

-----------------------------------------------------------------------------
(* pay and batchPay *)

(* Fault: a refunded commitment may be paid for again. *)
PaymentErrorReusable(p) ==
  IF p.amount = 0 THEN "InvalidAmount"
  ELSE IF payments[p.commitment].amount # 0 /\ ~payments[p.commitment].refunded
  THEN "PaymentAlreadyExists"
  ELSE IF p.timestamp > now THEN "TimestampInFuture"
  ELSE IF now - p.timestamp > PayWindow THEN "SignatureTooOld"
  ELSE IF p.signer # oracleAddress THEN "InvalidSignature"
  ELSE "Ok"

(* Fault: signatures never expire. *)
PaymentErrorAgeless(p) ==
  IF p.amount = 0 THEN "InvalidAmount"
  ELSE IF payments[p.commitment].amount # 0 THEN "PaymentAlreadyExists"
  ELSE IF p.timestamp > now THEN "TimestampInFuture"
  ELSE IF p.signer # oracleAddress THEN "InvalidSignature"
  ELSE "Ok"

(* _processPayment up to the store, in the order of its checks *)
PaymentError(p) ==
  IF p.amount = 0 THEN "InvalidAmount"
  ELSE IF payments[p.commitment].amount # 0 THEN "PaymentAlreadyExists"
  ELSE IF p.timestamp > now THEN "TimestampInFuture"
  ELSE IF now - p.timestamp > PayWindow THEN "SignatureTooOld"
  ELSE IF p.signer # oracleAddress THEN "InvalidSignature"
  ELSE "Ok"

Recorded(caller, p) ==
  [service |-> p.service, timestamp |-> now, sender |-> caller,
   amount |-> p.amount, refunded |-> FALSE]

PaymentArgs ==
  {p \in [commitment: Commitments, service: Services, amount: Amounts,
          timestamp: 0..MaxTime, signer: Oracles \cup {NoSigner}] :
     p.signer \in Signers(PayMessage(p.amount, p.commitment, p.service,
                                     Chain, p.timestamp))}

(* The ether that comes with a call, up to the bound on the balance. *)
TakeIn(value) ==
  /\ balance + value <= MaxBalance
  /\ balance' = balance + value

Pay(caller, p) ==
  /\ caller \in Callers
  /\ PaymentError(p) = "Ok"
  /\ TakeIn(p.amount)
  /\ payments' = [payments EXCEPT ![p.commitment] = Recorded(caller, p)]
  /\ UNCHANGED <<oracleAddress, roles, stack, now, signed, payouts, surplus>>

TotalAmount(batch) ==
  FoldFunction(LAMBDA a, b : a + b, 0,
               [i \in DOMAIN batch |-> batch[i].amount])

(* What the loop meets at item i: the records of the items before it are
   stored already. *)
ItemError(batch, i) ==
  IF batch[i].amount # 0
     /\ \E j \in 1..(i - 1) : batch[j].commitment = batch[i].commitment
  THEN "PaymentAlreadyExists"
  ELSE PaymentError(batch[i])

(* Fault: only the first payment of a batch is checked. *)
FirstFailingItem(batch) ==
  {i \in DOMAIN batch \cap {1} : ItemError(batch, i) # "Ok"}

FailingItems(batch) == {i \in DOMAIN batch : ItemError(batch, i) # "Ok"}

(* sameLengths: services, amounts, timestamps and signatures have as many
   entries as commitments. *)
BatchError(batch, sameLengths, value) ==
  IF batch = <<>> THEN "EmptyBatch"
  ELSE IF ~sameLengths THEN "ArrayLengthMismatch"
  ELSE IF value # TotalAmount(batch) THEN "IncorrectTotalAmount"
  ELSE IF FailingItems(batch) # {} THEN
    ItemError(batch, CHOOSE i \in FailingItems(batch) :
                       \A j \in FailingItems(batch) : i <= j)
  ELSE "Ok"

(* The records after the whole batch: the commitments of a batch that is
   accepted are distinct. *)
AfterBatch(caller, batch) ==
  [c \in Commitments |->
     IF \E i \in DOMAIN batch : batch[i].commitment = c
     THEN Recorded(caller,
                   batch[CHOOSE i \in DOMAIN batch : batch[i].commitment = c])
     ELSE payments[c]]

BatchPay(caller, batch, sameLengths, value) ==
  /\ caller \in Callers
  /\ BatchError(batch, sameLengths, value) = "Ok"
  /\ TakeIn(value)
  /\ payments' = AfterBatch(caller, batch)
  /\ UNCHANGED <<oracleAddress, roles, stack, now, signed, payouts, surplus>>

-----------------------------------------------------------------------------
(* External calls *)

(* `to.call{value: amount}("")`: the ether leaves and the receiver runs.  The
   function that makes the call is undone if the receiver fails. *)
Send(to, c, amount) ==
  /\ Len(stack) < MaxDepth
  /\ balance' = balance - amount
  /\ stack' = Append(stack, [receiver |-> to, commitment |-> c,
                             saved |-> World])

(* The receiver returns: `success` is true and the function ends. *)
CallReturns ==
  /\ stack # <<>>
  /\ stack' = SubSeq(stack, 1, Len(stack) - 1)
  /\ UNCHANGED <<payments, oracleAddress, roles, balance, now, signed,
                 payouts, surplus>>

(* Fault: `success` is not looked at; the function's own effect stays. *)
CallFailsIgnored ==
  /\ stack # <<>>
  /\ LET frame == stack[Len(stack)]
     IN  /\ frame.receiver \in Contracts
         /\ payments' = [c \in Commitments |->
              IF c = frame.commitment
              THEN [frame.saved.payments[c] EXCEPT !.refunded = TRUE]
              ELSE frame.saved.payments[c]]
         /\ oracleAddress' = frame.saved.oracleAddress
         /\ roles' = frame.saved.roles
         /\ balance' = frame.saved.balance
         /\ payouts' = frame.saved.payouts
         /\ surplus' = frame.saved.surplus
  /\ stack' = SubSeq(stack, 1, Len(stack) - 1)
  /\ UNCHANGED <<now, signed>>

(* The receiver fails: revert TransferFailed() undoes the function, and with
   it whatever the receiver did meanwhile. *)
CallFails ==
  /\ stack # <<>>
  /\ LET frame == stack[Len(stack)]
     IN  /\ frame.receiver \in Contracts
         /\ payments' = frame.saved.payments
         /\ oracleAddress' = frame.saved.oracleAddress
         /\ roles' = frame.saved.roles
         /\ balance' = frame.saved.balance
         /\ payouts' = frame.saved.payouts
         /\ surplus' = frame.saved.surplus
  /\ stack' = SubSeq(stack, 1, Len(stack) - 1)
  /\ UNCHANGED <<now, signed>>

-----------------------------------------------------------------------------
(* refund and forceRefund *)

(* Fault: a payment already refunded is refunded again. *)
RefundableErrorAlways(c) ==
  IF payments[c].amount = 0 THEN "PaymentDoesNotExist" ELSE "Ok"

RefundableError(c) ==
  IF payments[c].amount = 0 THEN "PaymentDoesNotExist"
  ELSE IF payments[c].refunded THEN "AlreadyRefunded"
  ELSE "Ok"

(* Fault: the window of pay, as the comment says. *)
RefundErrorYear(c, ts, signer) ==
  IF RefundableError(c) # "Ok" THEN RefundableError(c)
  ELSE IF ts > now THEN "TimestampInFuture"
  ELSE IF now - ts > PayWindow THEN "SignatureTooOld"
  ELSE IF signer # oracleAddress THEN "InvalidSignature"
  ELSE IF payments[c].amount > balance THEN "TransferFailed"
  ELSE "Ok"

(* The last line is the call itself: sending more than the balance fails
   before any code runs. *)
RefundError(c, ts, signer) ==
  IF RefundableError(c) # "Ok" THEN RefundableError(c)
  ELSE IF ts > now THEN "TimestampInFuture"
  ELSE IF now - ts > RefundWindow THEN "SignatureTooOld"
  ELSE IF signer # oracleAddress THEN "InvalidSignature"
  ELSE IF payments[c].amount > balance THEN "TransferFailed"
  ELSE "Ok"

ForceRefundError(caller, c) ==
  IF ~HasRole("ADMIN_ROLE", caller) THEN "AccessControl"
  ELSE IF RefundableError(c) # "Ok" THEN RefundableError(c)
  ELSE IF payments[c].amount > balance THEN "TransferFailed"
  ELSE "Ok"

(* refunded is set before the call, and the receiver is the payer. *)
MarkAndSend(c, authority, ts) ==
  LET payment == payments[c]
  IN  /\ payments' = [payments EXCEPT ![c].refunded = TRUE]
      /\ payouts' = [payouts EXCEPT ![c] =
           Append(@, [to |-> payment.sender, amount |-> payment.amount,
                      authority |-> authority, at |-> now,
                      signedAt |-> ts])]
      /\ Send(payment.sender, c, payment.amount)

Refund(caller, c, ts, signer) ==
  /\ caller \in Callers
  /\ RefundError(c, ts, signer) = "Ok"
  /\ MarkAndSend(c, "oracle", ts)
  /\ UNCHANGED <<oracleAddress, roles, now, signed, surplus>>

ForceRefund(caller, c) ==
  /\ caller \in Callers
  /\ ForceRefundError(caller, c) = "Ok"
  /\ MarkAndSend(c, "admin", now)
  /\ UNCHANGED <<oracleAddress, roles, now, signed, surplus>>

-----------------------------------------------------------------------------
(* Reserves *)

DepositError(value) == IF value = 0 THEN "MustSendETH" ELSE "Ok"

PutIn(value) ==
  /\ TakeIn(value)
  /\ surplus' = surplus + value
  /\ UNCHANGED <<payments, oracleAddress, roles, stack, now, signed, payouts>>

Deposit(caller, value) ==
  /\ caller \in Callers
  /\ DepositError(value) = "Ok"
  /\ PutIn(value)

Receive(caller, value) ==
  /\ caller \in Callers
  /\ PutIn(value)

TakeOut(to, amount) ==
  /\ Send(to, NoCommitment, amount)
  /\ surplus' = surplus - amount
  /\ UNCHANGED <<payments, oracleAddress, roles, now, signed, payouts>>

(* Fault: the balance is not looked at. *)
WithdrawErrorOverdrawn(caller, to, amount) ==
  IF ~HasRole("ADMIN_ROLE", caller) THEN "AccessControl"
  ELSE IF to = ZeroAddress THEN "InvalidRecipient"
  ELSE "Ok"

WithdrawError(caller, to, amount) ==
  IF ~HasRole("ADMIN_ROLE", caller) THEN "AccessControl"
  ELSE IF to = ZeroAddress THEN "InvalidRecipient"
  ELSE IF amount > balance THEN "InsufficientBalance"
  ELSE "Ok"

Withdraw(caller, amount) ==
  /\ caller \in Callers
  /\ WithdrawError(caller, caller, amount) = "Ok"
  /\ TakeOut(caller, amount)

WithdrawTo(caller, to, amount) ==
  /\ caller \in Callers
  /\ WithdrawError(caller, to, amount) = "Ok"
  /\ TakeOut(to, amount)

WithdrawAllError(caller) ==
  IF ~HasRole("ADMIN_ROLE", caller) THEN "AccessControl"
  ELSE IF balance = 0 THEN "NoBalanceToWithdraw"
  ELSE "Ok"

WithdrawAll(caller) ==
  /\ caller \in Callers
  /\ WithdrawAllError(caller) = "Ok"
  /\ TakeOut(caller, balance)

-----------------------------------------------------------------------------
(* Oracle and roles *)

(* Fault: anyone may change the oracle. *)
SetOracleErrorOpen(caller, newOracle) ==
  IF newOracle = ZeroAddress THEN "InvalidOracleAddress" ELSE "Ok"

SetOracleError(caller, newOracle) ==
  IF ~HasRole("ADMIN_ROLE", caller) THEN "AccessControl"
  ELSE IF newOracle = ZeroAddress THEN "InvalidOracleAddress"
  ELSE "Ok"

SetOracleAddress(caller, newOracle) ==
  /\ caller \in Callers
  /\ SetOracleError(caller, newOracle) = "Ok"
  /\ oracleAddress' = newOracle
  /\ UNCHANGED <<payments, roles, balance, stack, now, signed, payouts, surplus>>

(* AccessControl, which the contract inherits: DEFAULT_ADMIN_ROLE
   administers both roles, and a member may renounce. *)
RolesBecome(newRoles) ==
  /\ roles' = newRoles
  /\ UNCHANGED <<payments, oracleAddress, balance, stack, now, signed,
                 payouts, surplus>>

GrantRole(caller, role, account) ==
  /\ caller \in Callers
  /\ HasRole("DEFAULT_ADMIN_ROLE", caller)
  /\ RolesBecome([roles EXCEPT ![role] = @ \cup {account}])

RevokeRole(caller, role, account) ==
  /\ caller \in Callers
  /\ HasRole("DEFAULT_ADMIN_ROLE", caller)
  /\ RolesBecome([roles EXCEPT ![role] = @ \ {account}])

RenounceRole(caller, role) ==
  /\ caller \in Callers
  /\ RolesBecome([roles EXCEPT ![role] = @ \ {caller}])

-----------------------------------------------------------------------------
(* The world around the contract: blocks and the oracle's backend *)

Tick ==
  /\ stack = <<>>
  /\ now < MaxTime
  /\ now' = now + 1
  /\ UNCHANGED <<payments, oracleAddress, roles, balance, stack, signed,
                 payouts, surplus>>

Messages ==
  {PayMessage(amount, c, s, chain, ts) : amount \in Amounts,
     c \in Commitments, s \in Services, chain \in Chains, ts \in 0..MaxTime}
  \cup
  {RefundMessage(c, chain, ts) :
     c \in Commitments, chain \in Chains, ts \in 0..MaxTime}

Sign(o, m) ==
  /\ stack = <<>>
  /\ Cardinality(signed) < MaxSigned
  /\ signed' = signed \cup {[by |-> o, message |-> m]}
  /\ UNCHANGED <<payments, oracleAddress, roles, balance, stack, now,
                 payouts, surplus>>

-----------------------------------------------------------------------------
Init ==
  /\ payments = [c \in Commitments |-> NoPayment]
  /\ oracleAddress \in Oracles
  /\ \E deployer \in Accounts : roles = [r \in Roles |-> {deployer}]
  /\ balance = 0
  /\ stack = <<>>
  /\ now = 0
  /\ signed = {}
  /\ payouts = [c \in Commitments |-> <<>>]
  /\ surplus = 0

(* An empty batch is refused: calls of batchPay bring at least one item. *)
Batches == UNION {[1..n -> PaymentArgs] : n \in 1..MaxBatch}

Paying(caller) ==
  \/ \E p \in PaymentArgs : Pay(caller, p)
  \/ \E batch \in Batches, sameLengths \in BOOLEAN, value \in 0..MaxBalance :
       BatchPay(caller, batch, sameLengths, value)

Refunding(caller) ==
  \E c \in Commitments :
    \/ \E ts \in 0..MaxTime : \E signer \in Signers(RefundMessage(c, Chain, ts)) :
         Refund(caller, c, ts, signer)
    \/ ForceRefund(caller, c)

Funding(caller) ==
  \/ \E amount \in Amounts :
       \/ Deposit(caller, amount)
       \/ Receive(caller, amount)
       \/ Withdraw(caller, amount)
       \/ \E to \in Accounts \cup {ZeroAddress} :
            WithdrawTo(caller, to, amount)
  \/ WithdrawAll(caller)

Administering(caller) ==
  \/ \E newOracle \in Oracles \cup {ZeroAddress} :
       SetOracleAddress(caller, newOracle)
  \/ \E role \in Roles :
       \/ \E account \in RoleTargets : GrantRole(caller, role, account)
       \/ \E account \in RoleTargets : RevokeRole(caller, role, account)
       \/ caller \in RoleTargets /\ RenounceRole(caller, role)

Next ==
  \/ \E caller \in Accounts :
       \/ Paying(caller)
       \/ Refunding(caller)
       \/ Funding(caller)
       \/ Administering(caller)
  \/ CallReturns
  \/ CallFails
  \/ Tick
  \/ \E o \in Oracles, m \in Messages : Sign(o, m)

Spec == Init /\ [][Next]_vars

-----------------------------------------------------------------------------
(* Properties *)

(* The variables keep their types, and so does the state that every open
   call would go back to. *)
TypeOK ==
  /\ World \in Worlds
  /\ stack \in Seq(Frame)
  /\ now \in Nat
  /\ \A s \in signed : s.by \in Oracles /\ s.message \in Messages

RefundOf(payment, payout) ==
  payout.to = payment.sender /\ payout.amount = payment.amount

OncePerPayment(w) ==
  \A c \in Commitments :
    /\ Len(w.payouts[c]) = (IF w.payments[c].refunded THEN 1 ELSE 0)
    /\ \A i \in DOMAIN w.payouts[c] :
         RefundOf(w.payments[c], w.payouts[c][i])

(* A payment is refunded at most once, to the account that paid, with the
   amount that was paid, and it is marked refunded exactly when the ether has
   left: at every point of every transaction, while receivers run code that
   calls refund, forceRefund or anything else again (the reentrancy notice of
   refund), and after a transfer that failed. *)
RefundedExactlyOnce == OncePerPayment(World)

Outstanding ==
  FoldFunction(LAMBDA a, b : a + b, 0,
    [c \in Commitments |->
       IF payments[c].refunded THEN 0 ELSE payments[c].amount])

(* The contract's ether is what was deposited less what admins withdrew, plus
   every payment not yet refunded: no call creates a record it received no
   ether for (a batch spends msg.value once), and a refund, a reverted one
   included, moves exactly one record's ether. *)
BooksBalance == balance = surplus + Outstanding

SignedBy(o, m) == [by |-> o, message |-> m] \in signed

PaidNow(c) ==
  /\ payments[c].amount = 0
  /\ payments'[c].amount # 0

RefundedNow(c) == Len(payouts'[c]) > Len(payouts[c])

(* A record appears, in pay or anywhere in a batch, only for terms that the
   oracle of that moment signed for this chain within the last PayWindow: not
   for a signature of a former oracle, of another chain or amount, and not
   again after a refund. *)
PaymentsAuthorised ==
  [][\A c \in Commitments : PaidNow(c) =>
       /\ payouts[c] = <<>>
       /\ \E ts \in 0..now :
            /\ now - ts <= PayWindow
            /\ SignedBy(oracleAddress,
                        PayMessage(payments'[c].amount, c,
                                   payments'[c].service, Chain, ts))]_vars

(* Ether leaves for a refund only on a signature that the oracle of that
   moment made for this commitment and this chain within the last
   RefundWindow, or by forceRefund while there is an admin; the record it pays
   existed before. *)
RefundsAuthorised ==
  [][\A c \in Commitments : RefundedNow(c) =>
       LET payout == payouts'[c][Len(payouts'[c])]
       IN  /\ payments[c].amount # 0
           /\ \/ payout.authority = "admin" /\ roles["ADMIN_ROLE"] # {}
              \/ /\ payout.at - payout.signedAt \in 0..RefundWindow
                 /\ SignedBy(oracleAddress,
                             RefundMessage(c, Chain, payout.signedAt))]_vars

(* The chain's state once the transaction that is running is undone, or as
   it is when none runs: what anybody outside can rely on. *)
Committed == IF stack = <<>> THEN World ELSE stack[1].saved

AccountOf(payment, refunds) ==
  [phase |-> IF payment.amount = 0 THEN "none"
             ELSE IF payment.refunded THEN "refunded" ELSE "paid",
   payer |-> payment.sender,
   amount |-> payment.amount,
   returned |-> [i \in DOMAIN refunds |->
                   [to |-> refunds[i].to, amount |-> refunds[i].amount]]]

AccountsOf(w) ==
  [c \in Commitments |-> AccountOf(w.payments[c], w.payouts[c])]

Lifecycle == INSTANCE PaymentLifecycle
  WITH account <- AccountsOf(Committed), Nobody <- ZeroAddress

(* Seen from outside, every transaction moves each commitment forward only:
   paid for once, then the same amount back to the same payer at most once.
   Batches, nested calls and reverted transfers are inside one step. *)
ImplementsLifecycle == Lifecycle!Spec

Abandoned(w) == \A role \in Roles : w.roles[role] = {}

(* Once both roles have lost their last member nobody regains one: the oracle
   stays, and nothing but refunds leaves the contract. *)
AbandonedForGood ==
  [][Abandoned(Committed) =>
       /\ Abandoned(Committed')
       /\ Committed'.oracleAddress = Committed.oracleAddress
       /\ Committed'.surplus >= Committed.surplus]_vars

(* What the comment "Verify timestamp is within the last year" above the
   check in refund says: a refund signature is too old only after the year
   that payments allow.  The check is against ten minutes. *)
RefundSignaturesLastAYear ==
  \A c \in Commitments, s \in signed :
    s.message.kind = "refund" /\ s.message.commitment = c =>
      (RefundError(c, s.message.timestamp, s.by) = "SignatureTooOld"
         => now - s.message.timestamp > PayWindow)
=============================================================================
