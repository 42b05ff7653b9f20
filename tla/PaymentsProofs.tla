---------------------------- MODULE PaymentsProofs ----------------------------
(***************************************************************************)
(* Proofs about Payments for every value of its constants: any number of   *)
(* commitments, accounts and open calls, and any bounds.                   *)
(***************************************************************************)
EXTENDS Payments, SumTheorems, SequenceTheorems, TLAPS

-----------------------------------------------------------------------------
(* Typing *)

(* What each open call would go back to is typed like the current state. *)
LEMMA WorldTyped ==
  World \in Worlds <=>
    /\ payments \in [Commitments -> Payment]
    /\ oracleAddress \in Oracles
    /\ roles \in [Roles -> SUBSET Accounts]
    /\ balance \in Nat
    /\ payouts \in [Commitments -> Seq(Payout)]
    /\ surplus \in Int
BY DEF World, Worlds

LEMMA WorldTypedNext ==
  World' \in Worlds <=>
    /\ payments' \in [Commitments -> Payment]
    /\ oracleAddress' \in Oracles
    /\ roles' \in [Roles -> SUBSET Accounts]
    /\ balance' \in Nat
    /\ payouts' \in [Commitments -> Seq(Payout)]
    /\ surplus' \in Int
BY DEF World, Worlds

LEMMA ArgsTyped ==
  ASSUME NEW p \in PaymentArgs
  PROVE  /\ p.commitment \in Commitments /\ p.service \in Services
         /\ p.amount \in Nat /\ p.timestamp \in Nat
         /\ p.signer \in Oracles \cup {NoSigner}
<1>1. p \in [commitment: Commitments, service: Services, amount: Amounts,
             timestamp: 0..MaxTime, signer: Oracles \cup {NoSigner}]
  BY Zenon DEF PaymentArgs
<1>2. p.amount \in Amounts /\ p.timestamp \in 0..MaxTime
  BY <1>1
<1>3. \A ts \in 0..MaxTime : ts \in Nat
  OBVIOUS
<1>4. p.amount \in Nat /\ p.timestamp \in Nat
  BY <1>2, <1>3, BoundsAssumption, Zenon
<1>5. QED
  BY <1>1, <1>4

LEMMA RecordedTyped ==
  ASSUME NEW caller \in Accounts, NEW p \in PaymentArgs, now \in Nat
  PROVE  Recorded(caller, p) \in Payment
BY ArgsTyped DEF Recorded, Payment

LEMMA PayType ==
  ASSUME NEW caller \in Accounts, NEW p \in PaymentArgs, TypeOK,
         Pay(caller, p)
  PROVE  TypeOK'
<1>1. Recorded(caller, p) \in Payment
  BY RecordedTyped DEF TypeOK
<1>2. World' \in Worlds
  BY <1>1, WorldTyped, WorldTypedNext, ArgsTyped DEF TypeOK, Pay, TakeIn
<1>3. QED
  BY <1>2 DEF TypeOK, Pay

LEMMA BatchPayType ==
  ASSUME NEW caller \in Accounts, NEW n \in Nat,
         NEW batch \in [1..n -> PaymentArgs],
         NEW sameLengths \in BOOLEAN, NEW value \in Nat, TypeOK,
         BatchPay(caller, batch, sameLengths, value)
  PROVE  TypeOK'
<1>1. ASSUME NEW c \in Commitments
      PROVE  AfterBatch(caller, batch)[c] \in Payment
  <2>1. CASE \E i \in DOMAIN batch : batch[i].commitment = c
    <3>1. (CHOOSE i \in DOMAIN batch : batch[i].commitment = c) \in 1..n
      BY <2>1
    <3>2. QED
      BY <2>1, <3>1, RecordedTyped DEF AfterBatch, TypeOK
  <2>2. CASE ~ \E i \in DOMAIN batch : batch[i].commitment = c
    BY <2>2, WorldTyped DEF AfterBatch, TypeOK
  <2>3. QED
    BY <2>1, <2>2
<1>2. AfterBatch(caller, batch) \in [Commitments -> Payment]
  BY <1>1 DEF AfterBatch
<1>3. World' \in Worlds
  BY <1>2, WorldTyped, WorldTypedNext DEF TypeOK, BatchPay, TakeIn
<1>4. QED
  BY <1>3 DEF TypeOK, BatchPay

LEMMA SendType ==
  ASSUME NEW to \in Accounts, NEW c \in Commitments \cup {NoCommitment},
         NEW amount \in Nat, TypeOK, amount <= balance, Send(to, c, amount)
  PROVE  stack' \in Seq(Frame) /\ balance' \in Nat
<1>1. [receiver |-> to, commitment |-> c, saved |-> World] \in Frame
  BY DEF TypeOK, Frame
<1>2. stack' \in Seq(Frame)
  BY <1>1, AppendProperties DEF Send, TypeOK
<1>3. balance' \in Nat
  BY WorldTyped DEF Send, TypeOK
<1>4. QED
  BY <1>2, <1>3

LEMMA Popped ==
  ASSUME NEW S, NEW seq \in Seq(S), seq # <<>>
  PROVE  /\ Len(seq) \in Nat \ {0}
         /\ SubSeq(seq, 1, Len(seq) - 1) \in Seq(S)
         /\ Len(SubSeq(seq, 1, Len(seq) - 1)) = Len(seq) - 1
         /\ \A i \in 1..(Len(seq) - 1) : SubSeq(seq, 1, Len(seq) - 1)[i] = seq[i]
<1> DEFINE n == Len(seq) - 1
           front == SubSeq(seq, 1, n)
<1>1. Len(seq) \in Nat \ {0}
  BY EmptySeq
<1>2. n \in Int /\ 1 \in Int /\ \A i \in 1..n : seq[i] \in S
  BY <1>1, ElementOfSeq
<1>3. /\ front \in Seq(S)
      /\ Len(front) = IF 1 <= n THEN n - 1 + 1 ELSE 0
      /\ \A i \in 1..(n - 1 + 1) : front[i] = seq[1 + i - 1]
  BY <1>2, SubSeqProperties
<1>4. \A i \in 1..n : front[i] = seq[i]
  <2>1. ASSUME NEW i \in 1..n PROVE front[i] = seq[i]
    <3>1. i \in 1..(n - 1 + 1) /\ 1 + i - 1 = i
      BY <1>1
    <3>2. QED
      BY <1>3, <3>1
  <2>2. QED
    BY <2>1
<1>5. Len(front) = n
  <2>1. n \in Nat
    BY <1>1
  <2> HIDE DEF n, front
  <2>2. QED
    BY <2>1, <1>3
<1>6. QED
  BY <1>1, <1>3, <1>4, <1>5

LEMMA TopTyped ==
  ASSUME TypeOK, stack # <<>>
  PROVE  stack[Len(stack)] \in Frame /\ stack[Len(stack)].saved \in Worlds
<1>1. Len(stack) \in 1..Len(stack)
  BY Popped DEF TypeOK
<1>2. stack[Len(stack)] \in Frame
  BY <1>1, ElementOfSeq DEF TypeOK
<1>3. QED
  BY <1>2 DEF Frame

LEMMA CallReturnsType ==
  ASSUME TypeOK, CallReturns
  PROVE  TypeOK'
<1>1. stack' \in Seq(Frame)
  BY Popped DEF TypeOK, CallReturns
<1>2. QED
  BY <1>1 DEF TypeOK, CallReturns, World

LEMMA CallFailsType ==
  ASSUME TypeOK, CallFails
  PROVE  TypeOK'
<1>1. stack' \in Seq(Frame)
  BY Popped DEF TypeOK, CallFails
<1>2. stack[Len(stack)].saved \in Worlds
  BY TopTyped DEF CallFails
<1>3. World' = stack[Len(stack)].saved
  BY <1>2 DEF World, Worlds, CallFails
<1>4. QED
  BY <1>1, <1>2, <1>3 DEF TypeOK, CallFails

-----------------------------------------------------------------------------
(* The invariant *)

(* A stored payment has a payer, and nothing else is marked refunded. *)
RecordsWhole(w) ==
  \A c \in Commitments :
    /\ w.payments[c].amount # 0 => w.payments[c].sender \in Accounts
    /\ w.payments[c].amount = 0 => ~w.payments[c].refunded

GoodWorld(w) == RecordsWhole(w) /\ OncePerPayment(w)

(* The current state is good, and so is every state a revert may restore:
   without the second half a failing call could undo the first. *)
IInv ==
  /\ TypeOK
  /\ GoodWorld(World)
  /\ \A i \in 1..Len(stack) : GoodWorld(stack[i].saved)

LEMMA InitIInv == Init => IInv
<1>1. SUFFICES ASSUME Init PROVE IInv
  OBVIOUS
<1>2. NoPayment \in Payment
  BY DEF NoPayment, Payment
<1>3. TypeOK
  BY <1>1, <1>2, WorldTyped DEF Init, TypeOK
<1>4. GoodWorld(World)
  BY <1>1, <1>2 DEF Init, GoodWorld, RecordsWhole, OncePerPayment, World,
     NoPayment
<1>5. QED
  BY <1>1, <1>3, <1>4 DEF Init, IInv

-----------------------------------------------------------------------------
(* The steps, by what they do to the records, the refunds and the open calls *)

Quiet == UNCHANGED <<payments, payouts, stack>>

Recording ==
  /\ UNCHANGED <<payouts, stack>>
  /\ \A c \in Commitments :
       \/ payments'[c] = payments[c]
       \/ /\ payments[c].amount = 0 /\ payments'[c].amount # 0
          /\ payments'[c].sender \in Accounts /\ ~payments'[c].refunded

Opening(to, c) ==
  stack' = Append(stack, [receiver |-> to, commitment |-> c, saved |-> World])

RefundOpening(c) ==
  /\ payments[c].amount # 0 /\ ~payments[c].refunded
  /\ payments' = [payments EXCEPT ![c].refunded = TRUE]
  /\ \E p \in Payout :
       /\ RefundOf(payments[c], p)
       /\ payouts' = [payouts EXCEPT ![c] = Append(@, p)]
  /\ Opening(payments[c].sender, c)

WithdrawOpening ==
  /\ UNCHANGED <<payments, payouts>>
  /\ \E to \in Accounts : Opening(to, NoCommitment)

Kind ==
  \/ Quiet
  \/ Recording
  \/ \E c \in Commitments : RefundOpening(c)
  \/ WithdrawOpening
  \/ CallReturns
  \/ CallFails

LEMMA PayKind ==
  ASSUME NEW caller \in Accounts, NEW p \in PaymentArgs, TypeOK,
         Pay(caller, p)
  PROVE  Recording
<1>1. payments[p.commitment].amount = 0 /\ p.amount # 0
  BY DEF Pay, PaymentError
<1>2. Recorded(caller, p).amount # 0 /\ Recorded(caller, p).sender \in Accounts
      /\ ~Recorded(caller, p).refunded
  BY <1>1 DEF Recorded
<1>3. payments \in [Commitments -> Payment] /\ p.commitment \in Commitments
  BY WorldTyped, ArgsTyped DEF TypeOK
<1>4. QED
  BY <1>1, <1>2, <1>3 DEF Pay, Recording

(* The error of the first item that fails is the batch's. *)
LEMMA NoFailingItem ==
  ASSUME NEW caller, NEW n \in Nat, NEW batch \in [1..n -> PaymentArgs],
         NEW sameLengths, NEW value,
         BatchPay(caller, batch, sameLengths, value)
  PROVE  FailingItems(batch) = {}
<1>1. SUFFICES ASSUME FailingItems(batch) # {} PROVE FALSE
  OBVIOUS
<1> DEFINE first == CHOOSE i \in FailingItems(batch) :
                      \A j \in FailingItems(batch) : i <= j
<1>2. \E i \in FailingItems(batch) : \A j \in FailingItems(batch) : i <= j
  <2>1. FailingItems(batch) \subseteq 1..n
    BY DEF FailingItems
  <2>2. FailingItems(batch) \subseteq Nat
    BY <2>1
  <2>3. QED
    BY <1>1, <2>2, LeastNat
<1>3. first \in FailingItems(batch)
  BY <1>2
<1>4. ItemError(batch, first) # "Ok"
  BY <1>3 DEF FailingItems
<1>5. BatchError(batch, sameLengths, value) = ItemError(batch, first)
  BY <1>1 DEF BatchPay, BatchError
<1>6. QED
  BY <1>4, <1>5 DEF BatchPay

LEMMA BatchPayKind ==
  ASSUME NEW caller \in Accounts, NEW n \in Nat,
         NEW batch \in [1..n -> PaymentArgs],
         NEW sameLengths \in BOOLEAN, NEW value \in Nat, TypeOK,
         BatchPay(caller, batch, sameLengths, value)
  PROVE  Recording
<1>1. FailingItems(batch) = {}
  BY NoFailingItem
<1>2. ASSUME NEW i \in 1..n
      PROVE  batch[i].amount # 0 /\ payments[batch[i].commitment].amount = 0
  BY <1>1 DEF FailingItems, ItemError, PaymentError
<1>3. ASSUME NEW c \in Commitments
      PROVE  \/ payments'[c] = payments[c]
             \/ /\ payments[c].amount = 0 /\ payments'[c].amount # 0
                /\ payments'[c].sender \in Accounts /\ ~payments'[c].refunded
  <2>1. CASE \E i \in DOMAIN batch : batch[i].commitment = c
    <3> DEFINE k == CHOOSE i \in DOMAIN batch : batch[i].commitment = c
    <3>1. k \in 1..n /\ batch[k].commitment = c
      BY <2>1
    <3>2. payments'[c] = Recorded(caller, batch[k])
      BY <2>1 DEF BatchPay, AfterBatch
    <3>3. QED
      BY <3>1, <3>2, <1>2 DEF Recorded
  <2>2. CASE ~ \E i \in DOMAIN batch : batch[i].commitment = c
    BY <2>2 DEF BatchPay, AfterBatch
  <2>3. QED
    BY <2>1, <2>2
<1>4. QED
  BY <1>3 DEF BatchPay, Recording

LEMMA MarkAndSendKind ==
  ASSUME NEW c \in Commitments, NEW authority \in {"oracle", "admin"},
         NEW ts \in Nat, IInv, RefundableError(c) = "Ok",
         payments[c].amount <= balance, MarkAndSend(c, authority, ts),
         UNCHANGED <<oracleAddress, roles, now, signed, surplus>>
  PROVE  TypeOK' /\ RefundOpening(c)
<1> DEFINE p == [to |-> payments[c].sender, amount |-> payments[c].amount,
                 authority |-> authority, at |-> now, signedAt |-> ts]
<1>1. payments[c].amount # 0 /\ ~payments[c].refunded
  BY DEF RefundableError
<1>2. payments[c] \in Payment /\ payments[c].sender \in Accounts
  BY <1>1, WorldTyped DEF IInv, TypeOK, GoodWorld, RecordsWhole, World
<1>3. p \in Payout /\ RefundOf(payments[c], p)
  BY <1>2 DEF IInv, TypeOK, Payout, Payment, RefundOf
<1>4. payouts' = [payouts EXCEPT ![c] = Append(@, p)]
  BY DEF MarkAndSend
<1>5. stack' \in Seq(Frame) /\ balance' \in Nat
  BY <1>2, SendType DEF MarkAndSend, IInv, Payment
<1>6. payments' \in [Commitments -> Payment]
  BY <1>2, WorldTyped DEF MarkAndSend, IInv, TypeOK, Payment
<1>7. payouts' \in [Commitments -> Seq(Payout)]
  <2>1. payouts \in [Commitments -> Seq(Payout)]
    BY WorldTyped DEF IInv, TypeOK
  <2>2. Append(payouts[c], p) \in Seq(Payout)
    BY <2>1, <1>3, AppendProperties
  <2> HIDE DEF p
  <2>3. QED
    BY <2>1, <2>2, <1>4
<1>8. World' \in Worlds
  BY <1>5, <1>6, <1>7, WorldTyped, WorldTypedNext DEF IInv, TypeOK
<1>9. TypeOK'
  BY <1>5, <1>8 DEF IInv, TypeOK
<1>10. Opening(payments[c].sender, c)
  BY DEF MarkAndSend, Send, Opening
<1>11. QED
  BY <1>1, <1>3, <1>4, <1>9, <1>10 DEF RefundOpening, MarkAndSend

LEMMA TakeOutKind ==
  ASSUME NEW to \in Accounts, NEW amount \in Nat, IInv,
         amount <= balance, TakeOut(to, amount)
  PROVE  TypeOK' /\ WithdrawOpening
<1>1. stack' \in Seq(Frame) /\ balance' \in Nat
  BY SendType DEF TakeOut, IInv
<1>2. World' \in Worlds
  BY <1>1, WorldTyped, WorldTypedNext DEF TakeOut, IInv, TypeOK
<1>3. TypeOK'
  BY <1>1, <1>2 DEF TakeOut, IInv, TypeOK
<1>4. WithdrawOpening
  BY DEF TakeOut, Send, Opening, WithdrawOpening
<1>5. QED
  BY <1>3, <1>4

LEMMA PayingSteps ==
  ASSUME IInv, NEW caller \in Accounts, Paying(caller)
  PROVE  TypeOK' /\ Recording
<1>1. CASE \E p \in PaymentArgs : Pay(caller, p)
  BY <1>1, PayType, PayKind DEF IInv
<1>2. CASE \E batch \in Batches, sameLengths \in BOOLEAN,
             value \in 0..MaxBalance :
               BatchPay(caller, batch, sameLengths, value)
  <2>1. PICK batch \in Batches, sameLengths \in BOOLEAN,
             value \in 0..MaxBalance :
               BatchPay(caller, batch, sameLengths, value)
    BY <1>2
  <2>2. PICK n \in 1..MaxBatch : batch \in [1..n -> PaymentArgs]
    BY DEF Batches
  <2>3. n \in Nat /\ value \in Nat
    OBVIOUS
  <2>4. QED
    BY <2>1, <2>2, <2>3, BatchPayType, BatchPayKind DEF IInv
<1>3. QED
  BY <1>1, <1>2 DEF Paying

LEMMA RefundingSteps ==
  ASSUME IInv, NEW caller \in Accounts, Refunding(caller)
  PROVE  TypeOK' /\ \E c \in Commitments : RefundOpening(c)
<1>1. PICK c \in Commitments :
        \/ \E ts \in 0..MaxTime :
             \E signer \in Signers(RefundMessage(c, Chain, ts)) :
               Refund(caller, c, ts, signer)
        \/ ForceRefund(caller, c)
  BY DEF Refunding
<1>2. CASE \E ts \in 0..MaxTime :
             \E signer \in Signers(RefundMessage(c, Chain, ts)) :
               Refund(caller, c, ts, signer)
  <2>0. PICK ts \in 0..MaxTime :
          \E signer \in Signers(RefundMessage(c, Chain, ts)) :
            Refund(caller, c, ts, signer)
    BY <1>2
  <2>1. PICK signer : Refund(caller, c, ts, signer)
    BY <2>0
  <2>2. RefundableError(c) = "Ok" /\ ~(payments[c].amount > balance)
    BY <2>1 DEF Refund, RefundError
  <2>3. payments[c].amount \in Nat /\ balance \in Nat /\ ts \in Nat
    BY WorldTyped DEF IInv, TypeOK, Payment
  <2>4. payments[c].amount <= balance
    BY <2>2, <2>3
  <2>5. QED
    BY <2>1, <2>2, <2>3, <2>4, MarkAndSendKind DEF Refund
<1>3. CASE ForceRefund(caller, c)
  <2>1. RefundableError(c) = "Ok" /\ ~(payments[c].amount > balance)
    BY <1>3 DEF ForceRefund, ForceRefundError
  <2>2. payments[c].amount \in Nat /\ balance \in Nat /\ now \in Nat
    BY WorldTyped DEF IInv, TypeOK, Payment
  <2>3. payments[c].amount <= balance
    BY <2>1, <2>2
  <2>4. QED
    BY <1>3, <2>1, <2>2, <2>3, MarkAndSendKind DEF ForceRefund
<1>4. QED
  BY <1>1, <1>2, <1>3

LEMMA PutInKind ==
  ASSUME IInv, NEW value \in Nat, PutIn(value)
  PROVE  TypeOK' /\ Quiet
<1>1. World' \in Worlds
  BY WorldTyped, WorldTypedNext DEF IInv, TypeOK, PutIn, TakeIn
<1>2. QED
  BY <1>1 DEF IInv, TypeOK, PutIn, Quiet

LEMMA FundingSteps ==
  ASSUME IInv, NEW caller \in Accounts, Funding(caller)
  PROVE  TypeOK' /\ (Quiet \/ WithdrawOpening)
<1>1. balance \in Nat
  BY WorldTyped DEF IInv, TypeOK
<1>2. CASE WithdrawAll(caller)
  BY <1>1, <1>2, TakeOutKind DEF WithdrawAll
<1>3. ASSUME NEW amount \in Amounts,
             \/ Deposit(caller, amount)
             \/ Receive(caller, amount)
             \/ Withdraw(caller, amount)
             \/ \E to \in Accounts \cup {ZeroAddress} :
                  WithdrawTo(caller, to, amount)
      PROVE  TypeOK' /\ (Quiet \/ WithdrawOpening)
  <2>1. amount \in Nat
    BY BoundsAssumption, Zenon
  <2>2. CASE Deposit(caller, amount)
    BY <2>1, <2>2, PutInKind DEF Deposit
  <2>3. CASE Receive(caller, amount)
    BY <2>1, <2>3, PutInKind DEF Receive
  <2>4. CASE Withdraw(caller, amount)
    <3>1. ~(amount > balance)
      BY <2>4 DEF Withdraw, WithdrawError
    <3>2. amount <= balance
      BY <1>1, <2>1, <3>1
    <3>3. QED
      BY <2>1, <2>4, <3>2, TakeOutKind DEF Withdraw
  <2>5. CASE \E to \in Accounts \cup {ZeroAddress} :
               WithdrawTo(caller, to, amount)
    <3>1. PICK to \in Accounts \cup {ZeroAddress} :
            WithdrawTo(caller, to, amount)
      BY <2>5
    <3>2. to # ZeroAddress /\ ~(amount > balance)
      BY <3>1 DEF WithdrawTo, WithdrawError
    <3>3. amount <= balance /\ to \in Accounts
      BY <1>1, <2>1, <3>2
    <3>4. QED
      BY <2>1, <3>1, <3>3, TakeOutKind DEF WithdrawTo
  <2>6. QED
    BY <1>3, <2>2, <2>3, <2>4, <2>5
<1>4. QED
  BY <1>2, <1>3 DEF Funding

LEMMA RolesBecomeKind ==
  ASSUME IInv, NEW newRoles \in [Roles -> SUBSET Accounts],
         RolesBecome(newRoles)
  PROVE  TypeOK' /\ Quiet
<1>1. World' \in Worlds
  BY WorldTyped, WorldTypedNext DEF IInv, TypeOK, RolesBecome
<1>2. QED
  BY <1>1 DEF IInv, TypeOK, RolesBecome, Quiet

LEMMA AdministeringSteps ==
  ASSUME IInv, NEW caller \in Accounts, Administering(caller)
  PROVE  TypeOK' /\ Quiet
<1>1. ASSUME NEW newOracle \in Oracles \cup {ZeroAddress},
             SetOracleAddress(caller, newOracle)
      PROVE  TypeOK' /\ Quiet
  <2>1. newOracle \in Oracles
    BY <1>1 DEF SetOracleAddress, SetOracleError
  <2>2. World' \in Worlds
    BY <1>1, <2>1, WorldTyped, WorldTypedNext
       DEF IInv, TypeOK, SetOracleAddress
  <2>3. QED
    BY <1>1, <2>2 DEF IInv, TypeOK, SetOracleAddress, Quiet
<1>2. ASSUME NEW role \in Roles, NEW account \in Accounts,
             \/ GrantRole(caller, role, account)
             \/ RevokeRole(caller, role, account)
             \/ RenounceRole(caller, role)
      PROVE  TypeOK' /\ Quiet
  <2>1. roles \in [Roles -> SUBSET Accounts]
    BY WorldTyped DEF IInv, TypeOK
  <2>2. PICK members \in SUBSET Accounts :
          RolesBecome([roles EXCEPT ![role] = members])
    <3>1. CASE GrantRole(caller, role, account)
      BY <2>1, <3>1 DEF GrantRole
    <3>2. CASE RevokeRole(caller, role, account)
      BY <2>1, <3>2 DEF RevokeRole
    <3>3. CASE RenounceRole(caller, role)
      BY <2>1, <3>3 DEF RenounceRole
    <3>4. QED
      BY <1>2, <3>1, <3>2, <3>3
  <2>3. [roles EXCEPT ![role] = members] \in [Roles -> SUBSET Accounts]
    BY <2>1
  <2>4. QED
    BY <2>2, <2>3, RolesBecomeKind
<1>3. QED
  BY <1>1, <1>2, AccountsAssumption DEF Administering

LEMMA NextKind ==
  ASSUME IInv, Next
  PROVE  TypeOK' /\ Kind
<1>1. ASSUME NEW caller \in Accounts,
             \/ Paying(caller) \/ Refunding(caller)
             \/ Funding(caller) \/ Administering(caller)
      PROVE  TypeOK' /\ Kind
  BY <1>1, PayingSteps, RefundingSteps, FundingSteps, AdministeringSteps
     DEF Kind
<1>2. CASE CallReturns
  BY <1>2, CallReturnsType DEF IInv, Kind
<1>3. CASE CallFails
  BY <1>3, CallFailsType DEF IInv, Kind
<1>4. CASE Tick
  BY <1>4 DEF Tick, Kind, Quiet, IInv, TypeOK, World
<1>5. ASSUME NEW o \in Oracles, NEW m \in Messages, Sign(o, m)
      PROVE  TypeOK' /\ Kind
  BY <1>5 DEF Sign, Kind, Quiet, IInv, TypeOK, World
<1>6. QED
  BY <1>1, <1>2, <1>3, <1>4, <1>5 DEF Next

-----------------------------------------------------------------------------
(* The invariant is inductive *)

LEMMA WorldFields ==
  /\ World.payments = payments /\ World.payouts = payouts
  /\ World'.payments = payments' /\ World'.payouts = payouts'
BY DEF World

LEMMA QuietGood ==
  ASSUME IInv, Quiet
  PROVE  GoodWorld(World)' /\ \A i \in 1..Len(stack') : GoodWorld(stack'[i].saved)
BY WorldFields DEF IInv, Quiet, GoodWorld, RecordsWhole, OncePerPayment

LEMMA RecordingGood ==
  ASSUME IInv, Recording
  PROVE  GoodWorld(World') /\ \A i \in 1..Len(stack') : GoodWorld(stack'[i].saved)
<1>1. ASSUME NEW c \in Commitments
      PROVE  /\ payments'[c].amount # 0 => payments'[c].sender \in Accounts
             /\ payments'[c].amount = 0 => ~payments'[c].refunded
  BY WorldFields DEF IInv, Recording, GoodWorld, RecordsWhole
<1>2. ASSUME NEW c \in Commitments
      PROVE  /\ Len(payouts'[c]) = (IF payments'[c].refunded THEN 1 ELSE 0)
             /\ \A i \in DOMAIN payouts'[c] :
                  RefundOf(payments'[c], payouts'[c][i])
  <2>1. /\ Len(payouts[c]) = (IF payments[c].refunded THEN 1 ELSE 0)
        /\ \A i \in DOMAIN payouts[c] : RefundOf(payments[c], payouts[c][i])
    BY WorldFields DEF IInv, GoodWorld, OncePerPayment
  <2>2. CASE payments'[c] = payments[c]
    BY <2>1, <2>2 DEF Recording
  <2>3. CASE payments[c].amount = 0 /\ ~payments'[c].refunded
    <3>1. ~payments[c].refunded
      BY <2>3, WorldFields DEF IInv, GoodWorld, RecordsWhole
    <3>2. payouts[c] \in Seq(Payout) /\ Len(payouts[c]) = 0
      BY <2>1, <3>1, WorldTyped DEF IInv, TypeOK
    <3>3. DOMAIN payouts[c] = 1..0
      BY <3>2
    <3>4. QED
      BY <2>3, <3>2, <3>3 DEF Recording
  <2>4. QED
    BY <2>2, <2>3 DEF Recording
<1>3. GoodWorld(World')
  BY <1>1, <1>2, WorldFields DEF GoodWorld, RecordsWhole, OncePerPayment
<1>4. QED
  BY <1>3 DEF IInv, Recording

(* A call that opens saves the current state, which is good. *)
LEMMA OpeningGood ==
  ASSUME IInv, NEW to, NEW c, Opening(to, c), stack' \in Seq(Frame)
  PROVE  \A i \in 1..Len(stack') : GoodWorld(stack'[i].saved)
<1> DEFINE frame == [receiver |-> to, commitment |-> c, saved |-> World]
<1>1. stack \in Seq(Frame) /\ Len(stack) \in Nat
  BY DEF IInv, TypeOK
<1>2. /\ Len(stack') = Len(stack) + 1
      /\ \A i \in 1..Len(stack) : stack'[i] = stack[i]
      /\ stack'[Len(stack) + 1] = frame
  BY <1>1 DEF Opening
<1>3. frame.saved = World
  OBVIOUS
<1>4. ASSUME NEW i \in 1..Len(stack') PROVE GoodWorld(stack'[i].saved)
  <2>1. i \in 1..Len(stack) \/ i = Len(stack) + 1
    BY <1>1, <1>2
  <2> HIDE DEF frame
  <2>2. CASE i \in 1..Len(stack)
    BY <1>2, <2>2 DEF IInv
  <2>3. CASE i = Len(stack) + 1
    BY <1>2, <1>3, <2>3 DEF IInv
  <2>4. QED
    BY <2>1, <2>2, <2>3
<1>5. QED
  BY <1>4

LEMMA RefundOpeningGood ==
  ASSUME IInv, TypeOK', NEW d \in Commitments, RefundOpening(d)
  PROVE  GoodWorld(World') /\ \A i \in 1..Len(stack') : GoodWorld(stack'[i].saved)
<1>1. payments \in [Commitments -> Payment]
      /\ payouts \in [Commitments -> Seq(Payout)]
  BY WorldTyped DEF IInv, TypeOK
<1>2. PICK p \in Payout : /\ RefundOf(payments[d], p)
                          /\ payouts' = [payouts EXCEPT ![d] = Append(@, p)]
  BY DEF RefundOpening
<1>3. payments' = [payments EXCEPT ![d].refunded = TRUE]
  BY DEF RefundOpening
<1>4. ASSUME NEW c \in Commitments
      PROVE  /\ payments'[c].amount = payments[c].amount
             /\ payments'[c].sender = payments[c].sender
             /\ payments'[c].refunded = (c = d \/ payments[c].refunded)
  BY <1>1, <1>3 DEF Payment
<1>5. RecordsWhole(World')
  BY <1>4, WorldFields DEF RefundOpening, IInv, GoodWorld, RecordsWhole
<1>6. ASSUME NEW c \in Commitments
      PROVE  /\ Len(payouts'[c]) = (IF payments'[c].refunded THEN 1 ELSE 0)
             /\ \A i \in DOMAIN payouts'[c] :
                  RefundOf(payments'[c], payouts'[c][i])
  <2>1. /\ Len(payouts[c]) = (IF payments[c].refunded THEN 1 ELSE 0)
        /\ \A i \in DOMAIN payouts[c] : RefundOf(payments[c], payouts[c][i])
    BY WorldFields DEF IInv, GoodWorld, OncePerPayment
  <2>2. CASE c = d
    <3>1. ~payments[c].refunded /\ payments'[c].refunded
      BY <1>4, <2>2 DEF RefundOpening
    <3>2. payouts[c] \in Seq(Payout) /\ Len(payouts[c]) = 0
      BY <1>1, <2>1, <3>1
    <3>3. payouts'[c] = Append(payouts[c], p)
      BY <1>1, <1>2, <2>2
    <3>4. /\ Len(payouts'[c]) = 1 /\ DOMAIN payouts'[c] = 1..1
          /\ payouts'[c][1] = p
      BY <3>2, <3>3
    <3>5. RefundOf(payments'[c], p)
      BY <1>2, <1>4, <2>2 DEF RefundOf
    <3>6. QED
      BY <3>1, <3>4, <3>5
  <2>3. CASE c # d
    <3>1. payouts'[c] = payouts[c] /\ payments'[c] = payments[c]
      BY <1>1, <1>2, <1>3, <2>3
    <3>2. QED
      BY <2>1, <3>1
  <2>4. QED
    BY <2>2, <2>3
<1>7. GoodWorld(World')
  BY <1>5, <1>6, WorldFields DEF GoodWorld, OncePerPayment
<1>8. QED
  BY <1>7, OpeningGood DEF RefundOpening, TypeOK

LEMMA PoppedGood ==
  ASSUME IInv, stack # <<>>, stack' = SubSeq(stack, 1, Len(stack) - 1)
  PROVE  /\ \A i \in 1..Len(stack') : GoodWorld(stack'[i].saved)
         /\ GoodWorld(stack[Len(stack)].saved)
<1>1. stack \in Seq(Frame)
  BY DEF IInv, TypeOK
<1>2. /\ Len(stack) \in Nat \ {0}
      /\ Len(stack') = Len(stack) - 1
      /\ \A i \in 1..(Len(stack) - 1) : stack'[i] = stack[i]
  BY <1>1, Popped
<1>3. ASSUME NEW i \in 1..Len(stack') PROVE GoodWorld(stack'[i].saved)
  <2>1. i \in 1..(Len(stack) - 1) /\ i \in 1..Len(stack)
    BY <1>2
  <2>2. QED
    BY <1>2, <2>1 DEF IInv
<1>4. Len(stack) \in 1..Len(stack)
  BY <1>2
<1>5. QED
  BY <1>3, <1>4 DEF IInv

LEMMA NextIInv == IInv /\ [Next]_vars => IInv'
<1>1. ASSUME IInv, Next PROVE IInv'
  <2>1. TypeOK' /\ Kind
    BY <1>1, NextKind
  <2>2. GoodWorld(World') /\ \A i \in 1..Len(stack') : GoodWorld(stack'[i].saved)
    <3>1. CASE Quiet
      BY <1>1, <3>1, QuietGood
    <3>2. CASE Recording
      BY <1>1, <3>2, RecordingGood
    <3>3. CASE \E c \in Commitments : RefundOpening(c)
      BY <1>1, <2>1, <3>3, RefundOpeningGood
    <3>4. CASE WithdrawOpening
      <4>1. GoodWorld(World')
        BY <1>1, <3>4, WorldFields
           DEF WithdrawOpening, IInv, GoodWorld, RecordsWhole, OncePerPayment
      <4>2. PICK to \in Accounts : Opening(to, NoCommitment)
        BY <3>4 DEF WithdrawOpening
      <4>3. QED
        BY <1>1, <2>1, <4>1, <4>2, OpeningGood DEF TypeOK
    <3>5. CASE CallReturns
      <4>1. GoodWorld(World')
        BY <1>1, <3>5, WorldFields
           DEF CallReturns, IInv, GoodWorld, RecordsWhole, OncePerPayment
      <4>2. QED
        BY <1>1, <3>5, <4>1, PoppedGood DEF CallReturns
    <3>6. CASE CallFails
      <4>1. /\ World'.payments = stack[Len(stack)].saved.payments
            /\ World'.payouts = stack[Len(stack)].saved.payouts
        BY <3>6, WorldFields DEF CallFails
      <4>2. QED
        BY <1>1, <3>6, <4>1, PoppedGood
           DEF CallFails, GoodWorld, RecordsWhole, OncePerPayment
    <3>7. QED
      BY <2>1, <3>1, <3>2, <3>3, <3>4, <3>5, <3>6 DEF Kind
  <2>3. QED
    BY <2>1, <2>2 DEF IInv
<1>2. ASSUME IInv, UNCHANGED vars PROVE IInv'
  BY <1>2 DEF vars, IInv, TypeOK, World, GoodWorld, RecordsWhole,
     OncePerPayment
<1>3. QED
  BY <1>1, <1>2

LEMMA InvariantIInv == Spec => []IInv
BY InitIInv, NextIInv, PTL DEF Spec

(* For any number of commitments, accounts, open calls and any bounds, the
   variables of the contract and every state a revert goes back to keep their
   types; in particular the balance never falls below zero and the oracle is
   never the zero address. *)
THEOREM TypeCorrect == Spec => []TypeOK
<1>1. IInv => TypeOK
  BY DEF IInv
<1>2. QED
  BY <1>1, InvariantIInv, PTL

(* For any nesting of calls, a payment is refunded at most once, to its payer
   and with its amount, and is marked refunded exactly when the ether has
   left. *)
THEOREM RefundOnce == Spec => []RefundedExactlyOnce
<1>1. IInv => RefundedExactlyOnce
  BY DEF IInv, GoodWorld, RefundedExactlyOnce
<1>2. QED
  BY <1>1, InvariantIInv, PTL

-----------------------------------------------------------------------------
(***************************************************************************)
(* The books                                                               *)
(***************************************************************************)

(* What is due back for each record. *)
Due(records) ==
  [c \in Commitments |-> IF records[c].refunded THEN 0 ELSE records[c].amount]

Balanced(w) == w.balance = w.surplus + Sum(Due(w.payments))

(* The books balance, and would after any revert. *)
BooksOK ==
  /\ Balanced(World)
  /\ \A i \in 1..Len(stack) : Balanced(stack[i].saved)

LEMMA BalancedWorld ==
  /\ Balanced(World) <=> balance = surplus + Sum(Due(payments))
  /\ Balanced(World') <=> balance' = surplus' + Sum(Due(payments'))
BY DEF Balanced, World

LEMMA DueSummable ==
  ASSUME NEW records \in [Commitments -> Payment]
  PROVE  Summable(Due(records)) /\ DOMAIN Due(records) = Commitments
<1>1. \A c \in Commitments : records[c].amount \in Nat
  BY DEF Payment
<1>2. QED
  BY <1>1, CommitmentsAssumption DEF Due, Summable

(* A step that changes one record. *)
LEMMA DueChange ==
  ASSUME NEW before \in [Commitments -> Payment],
         NEW after \in [Commitments -> Payment], NEW c \in Commitments,
         \A d \in Commitments : d # c => after[d] = before[d]
  PROVE  Sum(Due(after)) = Sum(Due(before)) - Due(before)[c] + Due(after)[c]
<1> DEFINE f == Due(before)
           g == Due(after)
<1>1. Summable(f) /\ Summable(g) /\ DOMAIN f = Commitments /\ DOMAIN g = Commitments
  BY DueSummable
<1>2. \A d \in Commitments : d # c => g[d] = f[d]
  BY DEF Due
<1> HIDE DEF f, g
<1>3. Sum(g) = Sum(f) - f[c] + g[c]
  BY <1>1, <1>2, SumChange
<1>4. QED
  BY <1>3 DEF f, g

LEMMA DueInt ==
  ASSUME NEW records \in [Commitments -> Payment]
  PROVE  Sum(Due(records)) \in Int
BY DueSummable, SumInt

LEMMA PayBooks ==
  ASSUME NEW caller \in Accounts, NEW p \in PaymentArgs, TypeOK, TypeOK',
         Balanced(World), Pay(caller, p)
  PROVE  Balanced(World')
<1> DEFINE c == p.commitment
<1>1. /\ payments \in [Commitments -> Payment] /\ balance \in Nat
      /\ payments' \in [Commitments -> Payment] /\ surplus \in Int
  BY WorldTyped, WorldTypedNext DEF TypeOK
<1>2. c \in Commitments /\ p.amount \in Nat
  BY ArgsTyped
<1>3. payments[c].amount = 0
  BY DEF Pay, PaymentError
<1>4. /\ payments' = [payments EXCEPT ![c] = Recorded(caller, p)]
      /\ balance' = balance + p.amount /\ surplus' = surplus
  BY DEF Pay, TakeIn
<1> HIDE DEF c
<1>5. /\ payments'[c] = Recorded(caller, p)
      /\ \A d \in Commitments : d # c => payments'[d] = payments[d]
  BY <1>1, <1>2, <1>4
<1>6. Due(payments)[c] = 0 /\ Due(payments')[c] = p.amount
  BY <1>2, <1>3, <1>5 DEF Due, Recorded
<1>7. Sum(Due(payments')) = Sum(Due(payments)) - Due(payments)[c] + Due(payments')[c]
  BY <1>1, <1>2, <1>5, DueChange
<1>8. balance = surplus + Sum(Due(payments)) /\ Sum(Due(payments)) \in Int
  BY <1>1, BalancedWorld, DueInt
<1>9. balance' = surplus' + Sum(Due(payments'))
  BY <1>1, <1>2, <1>4, <1>6, <1>7, <1>8
<1>10. QED
  BY <1>9, BalancedWorld

(* A batch pays once for each of its items: their commitments are distinct
   and new. *)
LEMMA BatchBooks ==
  ASSUME NEW caller \in Accounts, NEW n \in Nat,
         NEW batch \in [1..n -> PaymentArgs],
         NEW sameLengths \in BOOLEAN, NEW value \in Nat, TypeOK, TypeOK',
         Balanced(World), BatchPay(caller, batch, sameLengths, value)
  PROVE  Balanced(World')
<1> DEFINE k == [i \in 1..n |-> batch[i].commitment]
           b == [i \in DOMAIN batch |-> batch[i].amount]
           f == Due(payments)
           g == Due(payments')
<1>1. /\ payments \in [Commitments -> Payment] /\ balance \in Nat
      /\ payments' \in [Commitments -> Payment] /\ surplus \in Int
  BY WorldTyped, WorldTypedNext DEF TypeOK
<1>2. /\ payments' = AfterBatch(caller, batch)
      /\ balance' = balance + value /\ surplus' = surplus
  BY DEF BatchPay, TakeIn
<1>3. value = TotalAmount(batch)
  BY DEF BatchPay, BatchError
<1>4. value = Sum(b)
  BY <1>3 DEF TotalAmount, Sum
<1>5. \A i \in 1..n : ItemError(batch, i) = "Ok"
  BY NoFailingItem DEF FailingItems
<1>6. ASSUME NEW i \in 1..n
      PROVE  /\ batch[i].commitment \in Commitments
             /\ batch[i].amount # 0 /\ payments[batch[i].commitment].amount = 0
             /\ \A j \in 1..(i - 1) : batch[j].commitment # batch[i].commitment
  BY <1>5, ArgsTyped DEF ItemError, PaymentError
<1>7. ASSUME NEW i \in 1..n, NEW j \in 1..n,
             batch[i].commitment = batch[j].commitment
      PROVE  i = j
  <2>1. i < j => i \in 1..(j - 1)
    OBVIOUS
  <2>2. j < i => j \in 1..(i - 1)
    OBVIOUS
  <2>3. ~(i < j) /\ ~(j < i)
    BY <1>6, <1>7, <2>1, <2>2
  <2>4. QED
    BY <2>3
<1>8. ASSUME NEW i \in 1..n
      PROVE  f[batch[i].commitment] = 0 /\ g[batch[i].commitment] = batch[i].amount
  <2> DEFINE c == batch[i].commitment
             m == CHOOSE j \in DOMAIN batch : batch[j].commitment = c
  <2>1. c \in Commitments /\ payments[c].amount = 0
    BY <1>6
  <2>2. m \in 1..n /\ batch[m].commitment = c
    OBVIOUS
  <2>3. m = i
    BY <1>7, <2>2
  <2>4. AfterBatch(caller, batch)[c] = Recorded(caller, batch[m])
    BY <2>1 DEF AfterBatch
  <2> HIDE DEF m
  <2>5. payments'[c] = Recorded(caller, batch[i])
    BY <1>2, <2>3, <2>4
  <2>6. QED
    BY <2>1, <2>5 DEF Due, Recorded
<1>9. ASSUME NEW c \in Commitments, \A i \in 1..n : batch[i].commitment # c
      PROVE  g[c] = f[c]
  BY <1>2, <1>9 DEF AfterBatch, Due
<1>10. Summable(f) /\ Summable(g) /\ DOMAIN f = Commitments /\ DOMAIN g = Commitments
  BY <1>1, DueSummable
<1>11. DOMAIN b = 1..n /\ \A i \in 1..n : b[i] = batch[i].amount
  OBVIOUS
<1>12. \A i \in 1..n : k[i] = batch[i].commitment
  OBVIOUS
<1> HIDE DEF f, g, b, k
<1>13. \A i \in 1..n : k[i] \in DOMAIN f /\ f[k[i]] = 0 /\ g[k[i]] = b[i]
  BY <1>6, <1>8, <1>10, <1>11, <1>12
<1>14. \A i, j \in 1..n : k[i] = k[j] => i = j
  BY <1>7, <1>12
<1>15. \A c \in DOMAIN f : (\A i \in 1..n : k[i] # c) => g[c] = f[c]
  BY <1>9, <1>10, <1>12
<1>16. Sum(g) = Sum(f) + Sum(b)
  <2>1. Spread(f, g, b, k, n)
    BY <1>11, <1>13, <1>14, <1>15 DEF Spread
  <2>2. QED
    BY <1>10, <2>1, SumSpread
<1>17. balance = surplus + Sum(f) /\ Sum(f) \in Int
  BY <1>1, BalancedWorld, DueInt DEF f
<1>18. balance' = surplus' + Sum(g)
  BY <1>1, <1>2, <1>4, <1>16, <1>17
<1>19. QED
  BY <1>18, BalancedWorld DEF g

LEMMA RefundBooks ==
  ASSUME TypeOK, TypeOK', Balanced(World), NEW c \in Commitments,
         NEW authority, NEW ts, RefundableError(c) = "Ok",
         MarkAndSend(c, authority, ts), surplus' = surplus
  PROVE  Balanced(World')
<1>1. /\ payments \in [Commitments -> Payment] /\ balance \in Nat
      /\ payments' \in [Commitments -> Payment] /\ surplus \in Int
  BY WorldTyped, WorldTypedNext DEF TypeOK
<1>2. ~payments[c].refunded /\ payments[c].amount \in Nat
  BY <1>1 DEF RefundableError, Payment
<1>3. /\ payments' = [payments EXCEPT ![c].refunded = TRUE]
      /\ balance' = balance - payments[c].amount
  BY DEF MarkAndSend, Send
<1>4. payments'[c].refunded
      /\ \A d \in Commitments : d # c => payments'[d] = payments[d]
  BY <1>1, <1>3 DEF Payment
<1>5. Due(payments)[c] = payments[c].amount /\ Due(payments')[c] = 0
  BY <1>2, <1>4 DEF Due
<1>6. Sum(Due(payments')) = Sum(Due(payments)) - Due(payments)[c] + Due(payments')[c]
  BY <1>1, <1>4, DueChange
<1>7. balance = surplus + Sum(Due(payments)) /\ Sum(Due(payments)) \in Int
  BY <1>1, BalancedWorld, DueInt
<1>8. balance' = surplus' + Sum(Due(payments'))
  BY <1>1, <1>2, <1>3, <1>5, <1>6, <1>7
<1>9. QED
  BY <1>8, BalancedWorld

(* Ether that is not for a record. *)
LEMMA ReserveBooks ==
  ASSUME TypeOK, Balanced(World), NEW d \in Int,
         payments' = payments, balance' = balance + d, surplus' = surplus + d
  PROVE  Balanced(World')
<1>1. payments \in [Commitments -> Payment] /\ balance \in Nat /\ surplus \in Int
  BY WorldTyped DEF TypeOK
<1>2. balance = surplus + Sum(Due(payments)) /\ Sum(Due(payments)) \in Int
  BY <1>1, BalancedWorld, DueInt
<1>3. balance' = surplus' + Sum(Due(payments'))
  BY <1>1, <1>2
<1>4. QED
  BY <1>3, BalancedWorld

LEMMA TakeOutBooks ==
  ASSUME TypeOK, Balanced(World), NEW to, NEW amount \in Nat, TakeOut(to, amount)
  PROVE  Balanced(World')
<1>1. /\ payments' = payments /\ balance' = balance - amount
      /\ surplus' = surplus - amount
  BY DEF TakeOut, Send
<1>2. balance \in Nat /\ surplus \in Int
  BY WorldTyped DEF TypeOK
<1> DEFINE d == -amount
<1>3. d \in Int /\ balance' = balance + d /\ surplus' = surplus + d
  BY <1>1, <1>2
<1> HIDE DEF d
<1>4. QED
  BY <1>1, <1>3, ReserveBooks

LEMMA PutInBooks ==
  ASSUME TypeOK, Balanced(World), NEW value \in Nat, PutIn(value)
  PROVE  Balanced(World')
BY ReserveBooks DEF PutIn, TakeIn

(* What is restored was saved with balanced books. *)
LEMMA FailureBooks ==
  ASSUME IInv, BooksOK, CallFails
  PROVE  Balanced(World')
<1>1. stack \in Seq(Frame) /\ stack # <<>>
  BY DEF IInv, TypeOK, CallFails
<1>2. Len(stack) \in 1..Len(stack)
  BY <1>1, Popped
<1>3. Balanced(stack[Len(stack)].saved)
  BY <1>2 DEF BooksOK
<1>4. /\ payments' = stack[Len(stack)].saved.payments
      /\ balance' = stack[Len(stack)].saved.balance
      /\ surplus' = stack[Len(stack)].saved.surplus
  BY DEF CallFails
<1>5. balance' = surplus' + Sum(Due(payments'))
  BY <1>3, <1>4 DEF Balanced
<1>6. QED
  BY <1>5, BalancedWorld

LEMMA StepBooks ==
  ASSUME IInv, BooksOK, Next, TypeOK'
  PROVE  Balanced(World')
<1>0. TypeOK /\ Balanced(World)
  BY DEF IInv, BooksOK
<1>1. ASSUME NEW caller \in Accounts, Paying(caller) PROVE Balanced(World')
  <2>1. CASE \E p \in PaymentArgs : Pay(caller, p)
    BY <1>0, <2>1, PayBooks
  <2>2. CASE \E batch \in Batches, sameLengths \in BOOLEAN,
               value \in 0..MaxBalance :
                 BatchPay(caller, batch, sameLengths, value)
    <3>1. PICK batch \in Batches, sameLengths \in BOOLEAN,
               value \in 0..MaxBalance :
                 BatchPay(caller, batch, sameLengths, value)
      BY <2>2
    <3>2. PICK n \in 1..MaxBatch : batch \in [1..n -> PaymentArgs]
      BY DEF Batches
    <3>3. n \in Nat /\ value \in Nat
      OBVIOUS
    <3>4. QED
      BY <1>0, <3>1, <3>2, <3>3, BatchBooks
  <2>3. QED
    BY <1>1, <2>1, <2>2 DEF Paying
<1>2. ASSUME NEW caller \in Accounts, Refunding(caller) PROVE Balanced(World')
  <2>1. PICK c \in Commitments :
          \/ \E ts \in 0..MaxTime :
               \E signer \in Signers(RefundMessage(c, Chain, ts)) :
                 Refund(caller, c, ts, signer)
          \/ ForceRefund(caller, c)
    BY <1>2 DEF Refunding
  <2>2. ASSUME NEW ts, NEW signer, Refund(caller, c, ts, signer)
        PROVE  Balanced(World')
    <3>1. RefundableError(c) = "Ok" /\ MarkAndSend(c, "oracle", ts)
          /\ surplus' = surplus
      BY <2>2 DEF Refund, RefundError
    <3>2. QED
      BY <1>0, <3>1, RefundBooks
  <2>3. CASE ForceRefund(caller, c)
    <3>1. RefundableError(c) = "Ok" /\ MarkAndSend(c, "admin", now)
          /\ surplus' = surplus
      BY <2>3 DEF ForceRefund, ForceRefundError
    <3>2. QED
      BY <1>0, <3>1, RefundBooks
  <2>4. QED
    BY <2>1, <2>2, <2>3
<1>3. ASSUME NEW caller \in Accounts, Funding(caller) PROVE Balanced(World')
  <2>1. balance \in Nat
    BY <1>0, WorldTyped DEF TypeOK
  <2>2. CASE WithdrawAll(caller)
    BY <1>0, <2>1, <2>2, TakeOutBooks DEF WithdrawAll
  <2>3. ASSUME NEW amount \in Amounts,
               \/ Deposit(caller, amount)
               \/ Receive(caller, amount)
               \/ Withdraw(caller, amount)
               \/ \E to \in Accounts \cup {ZeroAddress} :
                    WithdrawTo(caller, to, amount)
        PROVE  Balanced(World')
    <3>1. amount \in Nat
      BY BoundsAssumption, Zenon
    <3>2. PutIn(amount) \/ \E to : TakeOut(to, amount)
      BY <2>3, Zenon DEF Deposit, Receive, Withdraw, WithdrawTo
    <3>3. QED
      BY <1>0, <3>1, <3>2, PutInBooks, TakeOutBooks
  <2>4. QED
    BY <1>3, <2>2, <2>3 DEF Funding
<1>4. CASE \/ \E caller \in Accounts : Administering(caller)
           \/ CallReturns \/ Tick
           \/ \E o \in Oracles, m \in Messages : Sign(o, m)
  <2>1. payments' = payments /\ balance' = balance /\ surplus' = surplus
    BY <1>4, Zenon DEF Administering, SetOracleAddress, GrantRole, RevokeRole,
                       RenounceRole, RolesBecome, CallReturns, Tick, Sign
  <2>2. QED
    BY <1>0, <2>1, BalancedWorld
<1>5. QED
  BY <1>1, <1>2, <1>3, <1>4, FailureBooks DEF Next

(* Whatever a call would go back to was saved when it opened. *)
LEMMA SavedBooks ==
  ASSUME IInv, BooksOK, Kind, NEW i \in 1..Len(stack')
  PROVE  Balanced(stack'[i].saved)
<1>1. stack \in Seq(Frame) /\ Len(stack) \in Nat
  BY DEF IInv, TypeOK
<1>2. ASSUME NEW to, NEW c, Opening(to, c) PROVE Balanced(stack'[i].saved)
  <2> DEFINE frame == [receiver |-> to, commitment |-> c, saved |-> World]
  <2>1. /\ Len(stack') = Len(stack) + 1
        /\ \A j \in 1..Len(stack) : stack'[j] = stack[j]
        /\ stack'[Len(stack) + 1] = frame
    BY <1>1, <1>2 DEF Opening
  <2>2. frame.saved = World
    OBVIOUS
  <2> HIDE DEF frame
  <2>3. i \in 1..Len(stack) \/ i = Len(stack) + 1
    BY <1>1, <2>1
  <2>4. QED
    BY <2>1, <2>2, <2>3 DEF BooksOK
<1>3. CASE CallReturns \/ CallFails
  <2>1. stack # <<>> /\ stack' = SubSeq(stack, 1, Len(stack) - 1)
    BY <1>3 DEF CallReturns, CallFails
  <2>2. /\ Len(stack) \in Nat \ {0} /\ Len(stack') = Len(stack) - 1
        /\ \A j \in 1..(Len(stack) - 1) : stack'[j] = stack[j]
    BY <1>1, <2>1, Popped
  <2>3. i \in 1..(Len(stack) - 1) /\ i \in 1..Len(stack)
    BY <2>2
  <2>4. QED
    BY <2>2, <2>3 DEF BooksOK
<1>4. CASE stack' = stack
  BY <1>4 DEF BooksOK
<1>5. QED
  BY <1>2, <1>3, <1>4 DEF Kind, Quiet, Recording, RefundOpening, WithdrawOpening

LEMMA NextBooks == IInv /\ BooksOK /\ [Next]_vars => (IInv /\ BooksOK)'
<1>1. ASSUME IInv, BooksOK, Next PROVE BooksOK'
  <2>1. TypeOK' /\ Kind
    BY <1>1, NextKind
  <2>2. Balanced(World')
    BY <1>1, <2>1, StepBooks
  <2>3. QED
    BY <1>1, <2>1, <2>2, SavedBooks DEF BooksOK
<1>2. ASSUME BooksOK, UNCHANGED vars PROVE BooksOK'
  BY <1>2 DEF BooksOK, vars, Balanced, World
<1>3. QED
  BY <1>1, <1>2, NextIInv

LEMMA InitBooks == Init => BooksOK
<1>1. SUFFICES ASSUME Init PROVE BooksOK
  OBVIOUS
<1>2. /\ payments = [c \in Commitments |-> NoPayment] /\ balance = 0 /\ surplus = 0
      /\ stack = <<>>
  BY <1>1 DEF Init
<1>3. NoPayment \in Payment
  BY DEF NoPayment, Payment
<1>4. payments \in [Commitments -> Payment]
  BY <1>2, <1>3
<1> DEFINE f == Due(payments)
<1>5. Summable(f) /\ DOMAIN f = Commitments
  BY <1>4, DueSummable
<1>6. \A c \in DOMAIN f : f[c] = 0
  BY <1>2, <1>5 DEF Due, NoPayment
<1> HIDE DEF f
<1>7. Sum(f) = 0
  BY <1>5, <1>6, SumZero
<1>8. balance = surplus + Sum(Due(payments))
  BY <1>2, <1>7 DEF f
<1>9. QED
  BY <1>2, <1>8, BalancedWorld DEF BooksOK

(* For any number of records, the contract's ether is what was deposited less
   what was withdrawn, and every payment not refunded: at every point of every
   nesting of calls, after batches of any size and after any revert. *)
THEOREM BooksKept == Spec => []BooksBalance
<1>1. Outstanding = Sum(Due(payments))
  BY DEF Outstanding, Due, Sum
<1>2. BooksOK => BooksBalance
  BY <1>1, BalancedWorld DEF BooksOK, BooksBalance
<1>3. QED
  BY <1>2, InitIInv, InitBooks, NextBooks, PTL DEF Spec

-----------------------------------------------------------------------------
(***************************************************************************)
(* The order of what happens: every state that an open call would go back  *)
(* to lies behind the ones of the calls inside it, and behind the current  *)
(* state.  From this follow the refinement of PaymentLifecycle and the     *)
(* action properties.                                                      *)
(***************************************************************************)

(* One world behind another *)

Accounted(w, c) == AccountOf(w.payments[c], w.payouts[c])

RecordsForward(w1, w2) ==
  \A c \in Commitments :
    Lifecycle!Advances(Accounted(w1, c), Accounted(w2, c))

PowersForward(w1, w2) ==
  Abandoned(w1) => /\ Abandoned(w2)
                   /\ w2.oracleAddress = w1.oracleAddress
                   /\ w2.surplus >= w1.surplus

Forward(w1, w2) == RecordsForward(w1, w2) /\ PowersForward(w1, w2)

LEMMA AdvancesTransitive ==
  ASSUME NEW a, NEW b, NEW c, Lifecycle!Advances(a, b), Lifecycle!Advances(b, c)
  PROVE  Lifecycle!Advances(a, c)
<1>1. CASE a = b \/ b = c
  BY <1>1
<1>2. CASE Lifecycle!PaidFor(a, b) /\ Lifecycle!Returned(b, c)
  BY <1>2 DEF Lifecycle!PaidFor, Lifecycle!Returned, Lifecycle!Advances
<1>3. CASE Lifecycle!PaidFor(b, c) /\ (Lifecycle!PaidFor(a, b) \/ Lifecycle!Returned(a, b))
  BY <1>3 DEF Lifecycle!PaidFor, Lifecycle!Returned
<1>4. CASE Lifecycle!Returned(a, b) /\ Lifecycle!Returned(b, c)
  BY <1>4 DEF Lifecycle!Returned
<1>5. QED
  BY <1>1, <1>2, <1>3, <1>4 DEF Lifecycle!Advances

LEMMA ForwardSame ==
  ASSUME NEW w \in Worlds
  PROVE  Forward(w, w)
<1>1. w.surplus \in Int
  BY DEF Worlds
<1>2. w.surplus >= w.surplus
  BY <1>1
<1>3. QED
  BY <1>2 DEF Forward, RecordsForward, PowersForward, Lifecycle!Advances

LEMMA ForwardTransitive ==
  ASSUME NEW w1 \in Worlds, NEW w2 \in Worlds, NEW w3 \in Worlds,
         Forward(w1, w2), Forward(w2, w3)
  PROVE  Forward(w1, w3)
<1>1. RecordsForward(w1, w3)
  BY AdvancesTransitive DEF Forward, RecordsForward
<1>2. w1.surplus \in Int /\ w2.surplus \in Int /\ w3.surplus \in Int
  BY DEF Worlds
<1>3. PowersForward(w1, w3)
  BY <1>2 DEF Forward, PowersForward
<1>4. QED
  BY <1>1, <1>3 DEF Forward

-----------------------------------------------------------------------------
(* The steps that undo nothing *)

LEMMA SameAccounted ==
  ASSUME NEW c \in Commitments, payments'[c] = payments[c],
         payouts'[c] = payouts[c]
  PROVE  Lifecycle!Advances(Accounted(World, c), Accounted(World', c))
BY WorldFields DEF Accounted, Lifecycle!Advances

(* What has been returned of a payment that is not refunded, or refunded. *)
LEMMA ReturnedNothing ==
  ASSUME NEW w \in Worlds, GoodWorld(w), NEW c \in Commitments,
         ~w.payments[c].refunded
  PROVE  w.payouts[c] = <<>> /\ Accounted(w, c).returned = <<>>
<1>1. w.payouts[c] \in Seq(Payout) /\ Len(w.payouts[c]) = 0
  BY DEF Worlds, GoodWorld, OncePerPayment
<1>2. w.payouts[c] = <<>>
  BY <1>1
<1>3. Accounted(w, c).returned =
        [i \in DOMAIN w.payouts[c] |->
           [to |-> w.payouts[c][i].to, amount |-> w.payouts[c][i].amount]]
  BY DEF Accounted, AccountOf
<1>4. DOMAIN w.payouts[c] = {}
  BY <1>2
<1>5. Accounted(w, c).returned = <<>>
  BY <1>3, <1>4
<1>6. QED
  BY <1>2, <1>5

LEMMA ReturnedOnce ==
  ASSUME NEW w \in Worlds, GoodWorld(w), NEW c \in Commitments,
         w.payments[c].refunded
  PROVE  Accounted(w, c).returned =
           <<[to |-> w.payments[c].sender, amount |-> w.payments[c].amount]>>
<1> DEFINE s == w.payouts[c]
           back == [to |-> w.payments[c].sender, amount |-> w.payments[c].amount]
<1>1. s \in Seq(Payout) /\ Len(s) = 1
  BY DEF Worlds, GoodWorld, OncePerPayment
<1>2. DOMAIN s = 1 .. 1
  BY <1>1
<1>3. s[1].to = w.payments[c].sender /\ s[1].amount = w.payments[c].amount
  BY <1>2 DEF GoodWorld, OncePerPayment, RefundOf
<1>4. Accounted(w, c).returned =
        [i \in DOMAIN s |-> [to |-> s[i].to, amount |-> s[i].amount]]
  BY DEF Accounted, AccountOf
<1> HIDE DEF s
<1>5. Accounted(w, c).returned = [i \in 1 .. 1 |-> back]
  <2>1. \A i \in 1 .. 1 : i = 1
    OBVIOUS
  <2>2. QED
    BY <1>2, <1>3, <1>4, <2>1
<1> HIDE DEF back
<1>6. [i \in 1 .. 1 |-> back] = <<back>>
  OBVIOUS
<1>7. QED
  BY <1>5, <1>6 DEF back

LEMMA RecordingForward ==
  ASSUME IInv, IInv', Recording
  PROVE  RecordsForward(World, World')
<1> SUFFICES ASSUME NEW c \in Commitments
             PROVE  Lifecycle!Advances(Accounted(World, c), Accounted(World', c))
  BY DEF RecordsForward
<1>1. CASE payments'[c] = payments[c]
  BY <1>1, SameAccounted DEF Recording
<1>2. CASE /\ payments[c].amount = 0 /\ payments'[c].amount # 0
           /\ payments'[c].sender \in Accounts /\ ~payments'[c].refunded
  <2>1. World' \in Worlds /\ GoodWorld(World')
    BY DEF IInv, TypeOK
  <2>2. Accounted(World', c).returned = <<>>
    BY <1>2, <2>1, ReturnedNothing, WorldFields
  <2>3. /\ Accounted(World, c).phase = "none"
        /\ Accounted(World', c).phase = "paid"
        /\ Accounted(World', c).payer \in Accounts
        /\ Accounted(World', c).amount # 0
    BY <1>2, WorldFields DEF Accounted, AccountOf
  <2>4. QED
    BY <2>2, <2>3 DEF Lifecycle!PaidFor, Lifecycle!Advances
<1>3. QED
  BY <1>1, <1>2 DEF Recording

LEMMA RefundForward ==
  ASSUME IInv, IInv', NEW d \in Commitments, RefundOpening(d)
  PROVE  RecordsForward(World, World')
<1> SUFFICES ASSUME NEW c \in Commitments
             PROVE  Lifecycle!Advances(Accounted(World, c), Accounted(World', c))
  BY DEF RecordsForward
<1>1. /\ payments \in [Commitments -> Payment]
      /\ payouts \in [Commitments -> Seq(Payout)]
      /\ World' \in Worlds /\ GoodWorld(World')
  BY WorldTyped DEF IInv, TypeOK
<1>2. CASE c # d
  <2>1. payments'[c] = payments[c] /\ payouts'[c] = payouts[c]
    BY <1>1, <1>2 DEF RefundOpening
  <2>2. QED
    BY <2>1, SameAccounted
<1>3. CASE c = d
  <2>1. /\ payments'[c].amount = payments[c].amount
        /\ payments'[c].sender = payments[c].sender
        /\ payments'[c].refunded
        /\ payments[c].amount # 0 /\ ~payments[c].refunded
    BY <1>1, <1>3 DEF RefundOpening, Payment
  <2>2. Accounted(World', c).returned =
          <<[to |-> payments[c].sender, amount |-> payments[c].amount]>>
    BY <1>1, <2>1, ReturnedOnce, WorldFields
  <2>3. /\ Accounted(World, c).phase = "paid"
        /\ Accounted(World', c).phase = "refunded"
        /\ Accounted(World, c).payer = payments[c].sender
        /\ Accounted(World, c).amount = payments[c].amount
        /\ Accounted(World', c).payer = payments[c].sender
        /\ Accounted(World', c).amount = payments[c].amount
    BY <2>1, WorldFields DEF Accounted, AccountOf
  <2>4. QED
    BY <2>2, <2>3 DEF Lifecycle!Returned, Lifecycle!Advances
<1>4. QED
  BY <1>2, <1>3

LEMMA StepRecords ==
  ASSUME IInv, IInv', Next, ~CallFails
  PROVE  RecordsForward(World, World')
<1>1. Kind
  BY NextKind
<1>2. CASE Recording
  BY <1>2, RecordingForward
<1>3. CASE \E c \in Commitments : RefundOpening(c)
  BY <1>3, RefundForward
<1>4. CASE UNCHANGED <<payments, payouts>>
  BY <1>4, SameAccounted DEF RecordsForward
<1>5. QED
  BY <1>1, <1>2, <1>3, <1>4 DEF Kind, Quiet, WithdrawOpening, CallReturns

(* Without members of the roles, only refunds take ether out. *)
LEMMA StepPowers ==
  ASSUME IInv, Next, ~CallFails
  PROVE  PowersForward(World, World')
<1> SUFFICES ASSUME Abandoned(World)
             PROVE  /\ Abandoned(World')
                    /\ oracleAddress' = oracleAddress
                    /\ surplus' >= surplus
  BY DEF PowersForward, World
<1>1. \A role \in Roles : roles[role] = {}
  BY DEF Abandoned, World
<1>2. surplus \in Int /\ roles \in [Roles -> SUBSET Accounts]
  BY WorldTyped DEF IInv, TypeOK
<1>3. ASSUME roles' = roles, oracleAddress' = oracleAddress, surplus' \in Int,
             surplus' >= surplus
      PROVE  /\ Abandoned(World')
             /\ oracleAddress' = oracleAddress
             /\ surplus' >= surplus
  BY <1>1, <1>3 DEF Abandoned, World
<1>4. ASSUME UNCHANGED <<roles, oracleAddress, surplus>>
      PROVE  /\ Abandoned(World')
             /\ oracleAddress' = oracleAddress
             /\ surplus' >= surplus
  BY <1>2, <1>3, <1>4
<1>5. ~ \E account : HasRole("ADMIN_ROLE", account) \/ HasRole("DEFAULT_ADMIN_ROLE", account)
  BY <1>1 DEF HasRole, Roles
<1>6. ASSUME NEW caller \in Accounts, Paying(caller)
      PROVE  UNCHANGED <<roles, oracleAddress, surplus>>
  BY <1>6 DEF Paying, Pay, BatchPay
<1>7. ASSUME NEW caller \in Accounts, Refunding(caller)
      PROVE  UNCHANGED <<roles, oracleAddress, surplus>>
  BY <1>7 DEF Refunding, Refund, ForceRefund
<1>8. ASSUME NEW caller \in Accounts, Funding(caller)
      PROVE  /\ roles' = roles /\ oracleAddress' = oracleAddress
             /\ surplus' \in Int /\ surplus' >= surplus
  <2>1. ~WithdrawAll(caller)
    BY <1>5 DEF WithdrawAll, WithdrawAllError
  <2>2. ASSUME NEW amount, NEW to
        PROVE  ~Withdraw(caller, amount) /\ ~WithdrawTo(caller, to, amount)
    BY <1>5 DEF Withdraw, WithdrawTo, WithdrawError
  <2>3. PICK amount \in Amounts : Deposit(caller, amount) \/ Receive(caller, amount)
    BY <1>8, <2>1, <2>2 DEF Funding
  <2>4. amount \in Nat
    BY BoundsAssumption, Zenon
  <2>5. PutIn(amount)
    BY <2>3 DEF Deposit, Receive
  <2>6. QED
    BY <1>2, <2>4, <2>5 DEF PutIn
<1>9. ASSUME NEW caller \in Accounts, Administering(caller)
      PROVE  /\ Abandoned(World')
             /\ oracleAddress' = oracleAddress
             /\ surplus' >= surplus
  <2>1. ASSUME NEW newOracle
        PROVE  ~SetOracleAddress(caller, newOracle)
    BY <1>5 DEF SetOracleAddress, SetOracleError
  <2>2. ASSUME NEW role, NEW account
        PROVE  ~GrantRole(caller, role, account) /\ ~RevokeRole(caller, role, account)
    BY <1>5 DEF GrantRole, RevokeRole
  <2>3. PICK role \in Roles : RenounceRole(caller, role)
    BY <1>9, <2>1, <2>2 DEF Administering
  <2>4. roles' = [roles EXCEPT ![role] = roles[role] \ {caller}]
    BY <1>2, <2>3 DEF RenounceRole, RolesBecome
  <2>5. roles' = roles
    BY <1>1, <1>2, <2>4
  <2>6. UNCHANGED <<oracleAddress, surplus>>
    BY <2>3 DEF RenounceRole, RolesBecome
  <2>7. QED
    BY <1>4, <2>5, <2>6
<1>10. CASE CallReturns \/ Tick \/ \E o \in Oracles, m \in Messages : Sign(o, m)
  BY <1>4, <1>10 DEF CallReturns, Tick, Sign
<1>11. QED
  BY <1>3, <1>4, <1>6, <1>7, <1>8, <1>9, <1>10 DEF Next

LEMMA StepForward ==
  ASSUME IInv, IInv', Next, ~CallFails
  PROVE  Forward(World, World')
BY StepRecords, StepPowers DEF Forward

-----------------------------------------------------------------------------
(* The open calls *)

HInv ==
  /\ IInv
  /\ \A i, j \in 1 .. Len(stack) :
       i <= j => Forward(stack[i].saved, stack[j].saved)
  /\ \A i \in 1 .. Len(stack) : Forward(stack[i].saved, World)

LEMMA SavedTyped ==
  ASSUME IInv, NEW i \in 1 .. Len(stack)
  PROVE  stack[i].saved \in Worlds
<1>1. stack[i] \in Frame
  BY ElementOfSeq DEF IInv, TypeOK
<1>2. QED
  BY <1>1 DEF Frame

LEMMA InitHInv == Init => HInv
BY InitIInv DEF Init, HInv

(* A step that leaves the open calls alone moves on from each of them. *)
LEMMA SameStackHInv ==
  ASSUME HInv, IInv', Forward(World, World'), stack' = stack
  PROVE  HInv'
<1>1. ASSUME NEW i \in 1 .. Len(stack)
      PROVE  Forward(stack[i].saved, World')
  <2>1. /\ Forward(stack[i].saved, World) /\ World \in Worlds
        /\ World' \in Worlds
    BY DEF HInv, IInv, TypeOK
  <2>2. stack[i].saved \in Worlds
    BY SavedTyped DEF HInv
  <2>3. QED
    BY <2>1, <2>2, ForwardTransitive
<1>2. QED
  BY <1>1 DEF HInv

(* The call that opens last would go back to where the last step began. *)
LEMMA OpeningHInv ==
  ASSUME HInv, IInv', Forward(World, World'), NEW to, NEW c, Opening(to, c)
  PROVE  HInv'
<1> DEFINE n == Len(stack)
<1>1. stack \in Seq(Frame) /\ n \in Nat
  BY DEF HInv, IInv, TypeOK
<1>2. /\ Len(stack') = n + 1
      /\ \A i \in 1 .. n : stack'[i] = stack[i]
      /\ stack'[n + 1].saved = World
  BY <1>1 DEF Opening
<1>3. World \in Worlds /\ World' \in Worlds
  BY DEF HInv, IInv, TypeOK
<1>4. \A i \in 1 .. n + 1 : i \in 1 .. n \/ i = n + 1
  BY <1>1
<1>5. ASSUME NEW i \in 1 .. n
      PROVE  Forward(stack[i].saved, World')
  <2>1. Forward(stack[i].saved, World)
    BY DEF HInv
  <2>2. stack[i].saved \in Worlds
    BY SavedTyped DEF HInv
  <2>3. QED
    BY <1>3, <2>1, <2>2, ForwardTransitive
<1>6. ASSUME NEW i \in 1 .. n + 1
      PROVE  Forward(stack'[i].saved, World')
  BY <1>2, <1>4, <1>5
<1>7. ASSUME NEW i \in 1 .. n + 1, NEW j \in 1 .. n + 1, i <= j
      PROVE  Forward(stack'[i].saved, stack'[j].saved)
  <2>1. CASE i \in 1 .. n /\ j \in 1 .. n
    BY <1>2, <1>7, <2>1 DEF HInv
  <2>2. CASE i \in 1 .. n /\ j = n + 1
    BY <1>2, <2>2 DEF HInv
  <2>3. CASE i = n + 1 /\ j = n + 1
    BY <1>2, <1>3, <2>3, ForwardSame
  <2>4. CASE i = n + 1 /\ j \in 1 .. n
    BY <1>1, <1>7, <2>4
  <2>5. QED
    BY <1>4, <2>1, <2>2, <2>3, <2>4
<1>8. QED
  BY <1>2, <1>6, <1>7 DEF HInv

(* A call that ends leaves the ones around it. *)
LEMMA PoppedHInv ==
  ASSUME HInv, stack # <<>>, stack' = SubSeq(stack, 1, Len(stack) - 1), IInv',
         \A i \in 1 .. Len(stack) - 1 : Forward(stack[i].saved, World')
  PROVE  HInv'
<1> DEFINE n == Len(stack) - 1
<1>1. /\ n \in Nat /\ Len(stack) = n + 1 /\ Len(stack') = n
      /\ \A i \in 1 .. n : stack'[i] = stack[i]
  BY Popped DEF HInv, IInv, TypeOK
<1>2. \A i \in 1 .. n : i \in 1 .. Len(stack)
  BY <1>1
<1>3. QED
  BY <1>1, <1>2 DEF HInv

LEMMA CallFailsWorld ==
  ASSUME HInv, CallFails
  PROVE  World' = stack[Len(stack)].saved
<1>1. stack[Len(stack)].saved \in Worlds
  BY TopTyped DEF HInv, IInv, CallFails
<1>2. QED
  BY <1>1 DEF World, Worlds, CallFails

LEMMA NextHInv == HInv /\ [Next]_vars => HInv'
<1> SUFFICES ASSUME HInv, [Next]_vars
             PROVE  HInv'
  OBVIOUS
<1>1. IInv'
  BY NextIInv DEF HInv
<1>2. CASE UNCHANGED vars
  <2>1. UNCHANGED stack /\ World' = World
    BY <1>2 DEF vars, World
  <2>2. QED
    BY <1>1, <2>1 DEF HInv
<1>3. CASE CallFails
  <2>1. stack # <<>> /\ stack' = SubSeq(stack, 1, Len(stack) - 1)
    BY <1>3 DEF CallFails
  <2>2. Len(stack) \in Nat \ {0}
    BY <2>1, Popped DEF HInv, IInv, TypeOK
  <2>3. ASSUME NEW i \in 1 .. Len(stack) - 1
        PROVE  Forward(stack[i].saved, World')
    <3>1. i \in 1 .. Len(stack) /\ Len(stack) \in 1 .. Len(stack) /\ i <= Len(stack)
      BY <2>2
    <3>2. QED
      BY <1>3, <3>1, CallFailsWorld DEF HInv
  <2>4. QED
    BY <1>1, <2>1, <2>3, PoppedHInv
<1>4. CASE CallReturns
  <2>1. stack # <<>> /\ stack' = SubSeq(stack, 1, Len(stack) - 1)
    BY <1>4 DEF CallReturns
  <2>2. World' = World
    BY <1>4 DEF CallReturns, World
  <2>3. Len(stack) \in Nat \ {0}
    BY <2>1, Popped DEF HInv, IInv, TypeOK
  <2>4. ASSUME NEW i \in 1 .. Len(stack) - 1
        PROVE  Forward(stack[i].saved, World')
    BY <2>2, <2>3 DEF HInv
  <2>5. QED
    BY <1>1, <2>1, <2>4, PoppedHInv
<1>5. CASE Next /\ ~CallFails /\ ~CallReturns
  <2>1. Kind
    BY <1>5, NextKind DEF HInv
  <2>2. Forward(World, World')
    BY <1>1, <1>5, StepForward DEF HInv
  <2>3. CASE stack' = stack
    BY <1>1, <2>2, <2>3, SameStackHInv
  <2>4. CASE \E to, c : Opening(to, c)
    BY <1>1, <2>2, <2>4, OpeningHInv
  <2>5. QED
    BY <1>5, <2>1, <2>3, <2>4
       DEF Kind, Quiet, Recording, RefundOpening, WithdrawOpening
<1>6. QED
  BY <1>2, <1>3, <1>4, <1>5

LEMMA InvariantHInv == Spec => []HInv
BY InitHInv, NextHInv, PTL DEF Spec

-----------------------------------------------------------------------------
(* What is committed *)

LEMMA CommittedForward ==
  ASSUME HInv, HInv', [Next]_vars
  PROVE  Forward(Committed, Committed')
<1>1. /\ World \in Worlds /\ stack \in Seq(Frame) /\ Len(stack) \in Nat
      /\ World' \in Worlds /\ stack' \in Seq(Frame)
  BY DEF HInv, IInv, TypeOK
<1>2. Committed \in Worlds
  <2>1. CASE stack = <<>>
    BY <1>1, <2>1 DEF Committed
  <2>2. CASE stack # <<>>
    <3>1. 1 \in 1 .. Len(stack)
      BY <1>1, <2>2, Popped
    <3>2. QED
      BY <2>2, <3>1, SavedTyped DEF HInv, Committed
  <2>3. QED
    BY <2>1, <2>2
<1>3. ASSUME Committed' = Committed
      PROVE  Forward(Committed, Committed')
  BY <1>2, <1>3, ForwardSame
<1>4. CASE UNCHANGED vars
  <2>1. Committed' = Committed
    BY <1>4 DEF vars, Committed, World
  <2>2. QED
    BY <1>3, <2>1
<1>5. CASE CallReturns \/ CallFails
  <2>1. stack # <<>> /\ stack' = SubSeq(stack, 1, Len(stack) - 1)
    BY <1>5 DEF CallReturns, CallFails
  <2>2. /\ Len(stack) \in Nat \ {0} /\ Len(stack') = Len(stack) - 1
        /\ \A i \in 1 .. Len(stack) - 1 : stack'[i] = stack[i]
    BY <1>1, <2>1, Popped
  <2>3. Committed = stack[1].saved
    BY <2>1 DEF Committed
  <2>4. CASE Len(stack) = 1
    <3>1. stack' = <<>>
      BY <1>1, <2>2, <2>4
    <3>2. Committed' = World'
      BY <3>1 DEF Committed
    <3>3. CASE CallReturns
      <4>1. World' = World
        BY <3>3 DEF CallReturns, World
      <4>2. Forward(stack[1].saved, World)
        BY <2>2 DEF HInv
      <4>3. QED
        BY <2>3, <3>2, <4>1, <4>2
    <3>4. CASE CallFails
      <4>1. World' = stack[1].saved
        BY <2>4, <3>4, CallFailsWorld
      <4>2. QED
        BY <1>3, <2>3, <3>2, <4>1
    <3>5. QED
      BY <1>5, <3>3, <3>4
  <2>5. CASE Len(stack) # 1
    <3>1. 1 \in 1 .. Len(stack) - 1 /\ Len(stack') # 0
      BY <2>2, <2>5
    <3>2. stack' # <<>> /\ stack'[1] = stack[1]
      BY <2>2, <3>1
    <3>3. Committed' = Committed
      BY <2>3, <3>2 DEF Committed
    <3>4. QED
      BY <1>3, <3>3
  <2>6. QED
    BY <2>4, <2>5
<1>6. CASE Next /\ ~CallFails /\ ~CallReturns
  <2>1. Kind
    BY <1>6, NextKind DEF HInv
  <2>2. Forward(World, World')
    BY <1>6, StepForward DEF HInv
  <2>3. CASE stack' = stack /\ stack = <<>>
    BY <2>2, <2>3 DEF Committed
  <2>4. CASE stack' = stack /\ stack # <<>>
    <3>1. Committed' = Committed
      BY <2>4 DEF Committed
    <3>2. QED
      BY <1>3, <3>1
  <2>5. CASE \E to, c : Opening(to, c)
    <3>1. PICK to, c : Opening(to, c)
      BY <2>5
    <3> DEFINE frame == [receiver |-> to, commitment |-> c, saved |-> World]
    <3>2. /\ stack' = Append(stack, frame) /\ frame.saved = World
      BY <3>1 DEF Opening
    <3> HIDE DEF frame
    <3>3. /\ Len(stack') = Len(stack) + 1
          /\ \A i \in 1 .. Len(stack) : stack'[i] = stack[i]
          /\ stack'[Len(stack) + 1] = frame
      BY <1>1, <3>2
    <3>4. stack' # <<>>
      BY <1>1, <3>3
    <3>5. CASE stack = <<>>
      <4>1. Len(stack) = 0
        BY <3>5
      <4>2. stack'[1].saved = World
        BY <3>2, <3>3, <4>1
      <4>3. Committed' = Committed
        BY <3>4, <3>5, <4>2 DEF Committed
      <4>4. QED
        BY <1>3, <4>3
    <3>6. CASE stack # <<>>
      <4>1. 1 \in 1 .. Len(stack)
        BY <1>1, <3>6, Popped
      <4>2. stack'[1] = stack[1]
        BY <3>3, <4>1
      <4>3. Committed' = Committed
        BY <3>4, <3>6, <4>2 DEF Committed
      <4>4. QED
        BY <1>3, <4>3
    <3>7. QED
      BY <3>5, <3>6
  <2>6. QED
    BY <1>6, <2>1, <2>3, <2>4, <2>5
       DEF Kind, Quiet, Recording, RefundOpening, WithdrawOpening
<1>7. QED
  BY <1>4, <1>5, <1>6

LEMMA InitLifecycle == Init => Lifecycle!Init
<1> SUFFICES ASSUME Init, NEW c \in Commitments
             PROVE  Lifecycle!None(AccountsOf(Committed)[c])
  BY DEF Lifecycle!Init
<1>1. /\ Committed = World /\ World.payments[c] = NoPayment
      /\ World.payouts[c] = <<>>
  BY DEF Init, Committed, World
<1>2. AccountsOf(Committed)[c] = AccountOf(NoPayment, <<>>)
  BY <1>1 DEF AccountsOf
<1>3. AccountOf(NoPayment, <<>>).returned = <<>>
  <2>1. AccountOf(NoPayment, <<>>).returned =
          [i \in DOMAIN <<>> |-> [to |-> <<>>[i].to, amount |-> <<>>[i].amount]]
    BY DEF AccountOf
  <2>2. DOMAIN <<>> = {}
    OBVIOUS
  <2>3. QED
    BY <2>1, <2>2
<1>4. /\ AccountOf(NoPayment, <<>>).phase = "none"
      /\ AccountOf(NoPayment, <<>>).payer = ZeroAddress
  BY DEF AccountOf, NoPayment
<1>5. QED
  BY <1>2, <1>3, <1>4 DEF Lifecycle!None

LEMMA TransactionStep ==
  ASSUME HInv, HInv', [Next]_vars
  PROVE  Lifecycle!Transaction
<1>1. RecordsForward(Committed, Committed')
  BY CommittedForward DEF Forward
<1>2. ASSUME NEW c \in Commitments
      PROVE  /\ AccountsOf(Committed)[c] = Accounted(Committed, c)
             /\ AccountsOf(Committed')[c] = Accounted(Committed', c)
  BY DEF AccountsOf, Accounted
<1>3. DOMAIN AccountsOf(Committed') = Commitments
  BY DEF AccountsOf
<1>4. AccountsOf(Committed)' = AccountsOf(Committed')
  BY DEF AccountsOf
<1>5. QED
  BY <1>1, <1>2, <1>3, <1>4 DEF RecordsForward, Lifecycle!Transaction

(* The contract implements PaymentLifecycle: whatever batches, callbacks and
   failures a transaction is made of, it moves each commitment on from unpaid
   to paid and from paid to refunded, to the same payer and with the same
   amount, and never back. *)
THEOREM Implements == Spec => ImplementsLifecycle
<1>1. HInv /\ HInv' /\ [Next]_vars =>
        [Lifecycle!Transaction]_(AccountsOf(Committed))
  BY TransactionStep
<1>2. QED
  BY InitLifecycle, InvariantHInv, <1>1, PTL
     DEF ImplementsLifecycle, Lifecycle!Spec, Spec

(* Once nobody has a role, nobody gets one, the oracle stays and nothing but
   refunds leaves the contract, through every call that fails. *)
THEOREM AbandonedStays == Spec => AbandonedForGood
<1>1. HInv /\ HInv' /\ [Next]_vars =>
        (Abandoned(Committed) =>
           /\ Abandoned(Committed')
           /\ Committed'.oracleAddress = Committed.oracleAddress
           /\ Committed'.surplus >= Committed.surplus)
  BY CommittedForward DEF Forward, PowersForward
<1>2. QED
  BY InvariantHInv, <1>1, PTL DEF AbandonedForGood, Spec

-----------------------------------------------------------------------------
(* Authority *)

SignedOK == \A s \in signed : s = [by |-> s.by, message |-> s.message]

LEMMA InvariantSignedOK == Spec => []SignedOK
<1>1. Init => SignedOK
  BY DEF Init, SignedOK
<1>2. SignedOK /\ [Next]_vars => SignedOK'
  <2> SUFFICES ASSUME SignedOK, [Next]_vars
               PROVE  SignedOK'
    OBVIOUS
  <2>1. \/ signed' = signed
        \/ \E o \in Oracles, m \in Messages :
             signed' = signed \cup {[by |-> o, message |-> m]}
    <3>1. ASSUME NEW caller \in Accounts,
                 \/ Paying(caller) \/ Refunding(caller)
                 \/ Funding(caller) \/ Administering(caller)
          PROVE  signed' = signed
      <4>1. CASE Paying(caller)
        BY <4>1 DEF Paying, Pay, BatchPay
      <4>2. CASE Refunding(caller)
        BY <4>2 DEF Refunding, Refund, ForceRefund
      <4>3. CASE Funding(caller)
        BY <4>3 DEF Funding, Deposit, Receive, Withdraw, WithdrawTo,
           WithdrawAll, PutIn, TakeOut
      <4>4. CASE Administering(caller)
        BY <4>4 DEF Administering, SetOracleAddress, GrantRole, RevokeRole,
           RenounceRole, RolesBecome
      <4>5. QED
        BY <3>1, <4>1, <4>2, <4>3, <4>4
    <3>2. CASE \E o \in Oracles, m \in Messages : Sign(o, m)
      BY <3>2 DEF Sign
    <3>3. CASE CallReturns \/ CallFails \/ Tick \/ UNCHANGED vars
      BY <3>3 DEF CallReturns, CallFails, Tick, vars
    <3>4. QED
      BY <3>1, <3>2, <3>3 DEF Next
  <2>2. QED
    BY <2>1 DEF SignedOK
<1>3. QED
  BY <1>1, <1>2, PTL DEF Spec

LEMMA SignerSigned ==
  ASSUME SignedOK, NEW m, NEW signer \in Signers(m), signer \in Oracles
  PROVE  SignedBy(signer, m)
<1>1. signer # NoSigner
  BY AccountsAssumption
<1>2. PICK s \in signed : s.message = m /\ s.by = signer
  BY <1>1 DEF Signers
<1>3. s = [by |-> signer, message |-> m]
  BY <1>2 DEF SignedOK
<1>4. QED
  BY <1>3 DEF SignedBy

(* A failing call brings neither a record nor a refund back. *)
LEMMA CallFailsBrings ==
  ASSUME HInv, HInv', CallFails, NEW c \in Commitments
  PROVE  ~PaidNow(c) /\ ~RefundedNow(c)
<1> DEFINE top == stack[Len(stack)].saved
<1>1. Len(stack) \in 1 .. Len(stack)
  <2>1. Len(stack) \in Nat \ {0}
    BY Popped DEF HInv, IInv, TypeOK, CallFails
  <2>2. QED
    BY <2>1
<1>2. /\ top \in Worlds /\ GoodWorld(top) /\ Forward(top, World)
      /\ World \in Worlds /\ GoodWorld(World)
  BY <1>1, SavedTyped DEF HInv, IInv, TypeOK
<1>3. payments' = top.payments /\ payouts' = top.payouts
  BY DEF CallFails
<1> HIDE DEF top
<1>4. Lifecycle!Advances(Accounted(top, c), Accounted(World, c))
  BY <1>2 DEF Forward, RecordsForward
<1>5. /\ top.payments[c].amount # 0 => payments[c].amount # 0
      /\ top.payments[c].amount # 0 /\ top.payments[c].refunded =>
           payments[c].refunded
  BY <1>4, WorldFields
     DEF Accounted, AccountOf, Lifecycle!Advances, Lifecycle!PaidFor,
         Lifecycle!Returned
<1>6. top.payments[c].refunded => top.payments[c].amount # 0
  BY <1>2 DEF GoodWorld, RecordsWhole
<1>7. /\ Len(top.payouts[c]) = (IF top.payments[c].refunded THEN 1 ELSE 0)
      /\ Len(payouts[c]) = (IF payments[c].refunded THEN 1 ELSE 0)
  BY <1>2, WorldFields DEF GoodWorld, OncePerPayment
<1>8. ~PaidNow(c)
  BY <1>3, <1>5 DEF PaidNow
<1>9. ~RefundedNow(c)
  BY <1>3, <1>5, <1>6, <1>7 DEF RefundedNow
<1>10. QED
  BY <1>8, <1>9

(* The item of pay or batchPay that a new record comes from. *)
LEMMA PaidItem ==
  ASSUME HInv, NEW caller \in Accounts, Paying(caller),
         NEW c \in Commitments, PaidNow(c)
  PROVE  \E p \in PaymentArgs :
           /\ p.commitment = c /\ PaymentError(p) = "Ok"
           /\ payments'[c] = Recorded(caller, p)
<1>0. payments \in [Commitments -> Payment]
  BY WorldTyped DEF HInv, IInv, TypeOK
<1>1. CASE \E p \in PaymentArgs : Pay(caller, p)
  <2>1. PICK p \in PaymentArgs : Pay(caller, p)
    BY <1>1
  <2>2. payments' = [payments EXCEPT ![p.commitment] = Recorded(caller, p)]
    BY <2>1 DEF Pay
  <2>3. p.commitment = c
    BY <1>0, <2>2 DEF PaidNow
  <2>4. QED
    BY <1>0, <2>1, <2>2, <2>3 DEF Pay
<1>2. CASE \E batch \in Batches, sameLengths \in BOOLEAN,
             value \in 0..MaxBalance :
               BatchPay(caller, batch, sameLengths, value)
  <2>1. PICK batch \in Batches, sameLengths \in BOOLEAN,
             value \in 0..MaxBalance :
               BatchPay(caller, batch, sameLengths, value)
    BY <1>2
  <2>2. PICK n \in 1..MaxBatch : batch \in [1..n -> PaymentArgs]
    BY DEF Batches
  <2>3. n \in Nat
    OBVIOUS
  <2>4. payments' = AfterBatch(caller, batch)
    BY <2>1 DEF BatchPay
  <2>5. \E i \in DOMAIN batch : batch[i].commitment = c
    BY <2>4 DEF AfterBatch, PaidNow
  <2> DEFINE k == CHOOSE i \in DOMAIN batch : batch[i].commitment = c
  <2>6. k \in 1..n /\ batch[k].commitment = c
    BY <2>2, <2>5
  <2>7. payments'[c] = Recorded(caller, batch[k])
    BY <2>4, <2>5 DEF AfterBatch
  <2> HIDE DEF k
  <2>8. FailingItems(batch) = {}
    BY <2>1, <2>2, <2>3, NoFailingItem
  <2>9. PaymentError(batch[k]) = "Ok"
    BY <2>2, <2>6, <2>8 DEF FailingItems, ItemError
  <2>10. batch[k] \in PaymentArgs
    BY <2>2, <2>6
  <2>11. QED
    BY <2>6, <2>7, <2>9, <2>10
<1>3. QED
  BY <1>1, <1>2 DEF Paying

PaidOnTerms(c) ==
  /\ payouts[c] = <<>>
  /\ \E ts \in 0..now :
       /\ now - ts <= PayWindow
       /\ SignedBy(oracleAddress,
                   PayMessage(payments'[c].amount, c,
                              payments'[c].service, Chain, ts))

LEMMA PaidNowOnTerms ==
  ASSUME HInv, SignedOK, NEW caller \in Accounts, Paying(caller),
         NEW c \in Commitments, PaidNow(c)
  PROVE  PaidOnTerms(c)
<1>1. /\ World \in Worlds /\ GoodWorld(World) /\ oracleAddress \in Oracles
      /\ now \in Nat
  BY WorldTyped DEF HInv, IInv, TypeOK
<1>2. ~payments[c].refunded
  BY <1>1, WorldFields DEF PaidNow, GoodWorld, RecordsWhole
<1>3. payouts[c] = <<>>
  BY <1>1, <1>2, ReturnedNothing, WorldFields
<1>4. PICK p \in PaymentArgs :
        /\ p.commitment = c /\ PaymentError(p) = "Ok"
        /\ payments'[c] = Recorded(caller, p)
  BY PaidItem
<1>5. /\ ~(p.timestamp > now) /\ ~(now - p.timestamp > PayWindow)
      /\ p.signer = oracleAddress
  BY <1>4 DEF PaymentError
<1>6. p.timestamp \in Nat
  BY ArgsTyped
<1>7. p.timestamp \in 0..now /\ now - p.timestamp <= PayWindow
  BY <1>1, <1>5, <1>6, BoundsAssumption
<1>8. payments'[c].amount = p.amount /\ payments'[c].service = p.service
  BY <1>4 DEF Recorded
<1>9. p.signer \in Signers(PayMessage(p.amount, c, p.service, Chain, p.timestamp))
  BY <1>4, Zenon DEF PaymentArgs
<1>10. SignedBy(oracleAddress,
                PayMessage(p.amount, c, p.service, Chain, p.timestamp))
  BY <1>1, <1>5, <1>9, SignerSigned
<1>11. QED
  BY <1>3, <1>7, <1>8, <1>10 DEF PaidOnTerms

(* Only pay and batchPay make records. *)
LEMMA StepPaid ==
  ASSUME HInv, HInv', SignedOK, [Next]_vars, NEW c \in Commitments, PaidNow(c)
  PROVE  PaidOnTerms(c)
<1>1. payments'[c] # payments[c]
  BY DEF PaidNow
<1>2. CASE CallFails
  BY <1>2, CallFailsBrings
<1>3. ASSUME NEW caller \in Accounts, Paying(caller)
      PROVE  PaidOnTerms(c)
  BY <1>3, PaidNowOnTerms
<1>4. ASSUME NEW caller \in Accounts, Refunding(caller)
      PROVE  FALSE
  <2>1. PICK d \in Commitments : RefundOpening(d)
    BY <1>4, RefundingSteps DEF HInv
  <2>2. payments \in [Commitments -> Payment]
    BY WorldTyped DEF HInv, IInv, TypeOK
  <2>3. payments'[c].amount = payments[c].amount
    BY <2>1, <2>2 DEF RefundOpening, Payment
  <2>4. QED
    BY <2>3 DEF PaidNow
<1>5. ASSUME NEW caller \in Accounts, Funding(caller) \/ Administering(caller)
      PROVE  FALSE
  BY <1>1, <1>5, FundingSteps, AdministeringSteps
     DEF HInv, Quiet, WithdrawOpening
<1>6. CASE CallReturns \/ Tick \/ (\E o \in Oracles, m \in Messages : Sign(o, m))
           \/ UNCHANGED vars
  BY <1>1, <1>6 DEF CallReturns, Tick, Sign, vars
<1>7. QED
  BY <1>2, <1>3, <1>4, <1>5, <1>6 DEF Next

(* Whoever calls, and in whatever batch, a record appears only for terms that
   the oracle of that moment has signed for this chain within the window, and
   never for a commitment that was refunded. *)
THEOREM PaidWhenSigned == Spec => PaymentsAuthorised
<1>1. HInv /\ HInv' /\ SignedOK /\ [Next]_vars =>
        \A c \in Commitments : PaidNow(c) =>
          /\ payouts[c] = <<>>
          /\ \E ts \in 0..now :
               /\ now - ts <= PayWindow
               /\ SignedBy(oracleAddress,
                           PayMessage(payments'[c].amount, c,
                                      payments'[c].service, Chain, ts))
  BY StepPaid DEF PaidOnTerms
<1>2. QED
  BY InvariantHInv, InvariantSignedOK, <1>1, PTL DEF PaymentsAuthorised, Spec

-----------------------------------------------------------------------------

RefundedOnTerms(c) ==
  LET payout == payouts'[c][Len(payouts'[c])]
  IN  /\ payments[c].amount # 0
      /\ \/ payout.authority = "admin" /\ roles["ADMIN_ROLE"] # {}
         \/ /\ payout.at - payout.signedAt \in 0..RefundWindow
            /\ SignedBy(oracleAddress,
                        RefundMessage(c, Chain, payout.signedAt))

(* The refund that refund and forceRefund write last. *)
LEMMA MarkedLast ==
  ASSUME HInv, NEW d \in Commitments, NEW authority, NEW ts,
         RefundableError(d) = "Ok", MarkAndSend(d, authority, ts),
         NEW c \in Commitments, RefundedNow(c)
  PROVE  /\ c = d /\ payments[c].amount # 0
         /\ payouts'[c][Len(payouts'[c])] =
              [to |-> payments[c].sender, amount |-> payments[c].amount,
               authority |-> authority, at |-> now, signedAt |-> ts]
<1> DEFINE p == [to |-> payments[d].sender, amount |-> payments[d].amount,
                 authority |-> authority, at |-> now, signedAt |-> ts]
<1>1. payouts' = [payouts EXCEPT ![d] = Append(payouts[d], p)]
  BY DEF MarkAndSend
<1> HIDE DEF p
<1>2. payouts \in [Commitments -> Seq(Payout)]
  BY WorldTyped DEF HInv, IInv, TypeOK
<1>3. c = d
  <2>1. SUFFICES ASSUME c # d PROVE FALSE
    OBVIOUS
  <2>2. payouts'[c] = payouts[c] /\ Len(payouts[c]) \in Nat
    BY <1>1, <1>2, <2>1
  <2>3. QED
    BY <2>2 DEF RefundedNow
<1>4. payments[c].amount # 0
  BY <1>3 DEF RefundableError
<1>5. payouts'[c] = Append(payouts[c], p) /\ payouts[c] \in Seq(Payout)
  BY <1>1, <1>2, <1>3
<1>6. payouts'[c][Len(payouts'[c])] = p
  <2>1. Len(Append(payouts[c], p)) = Len(payouts[c]) + 1
    BY <1>5
  <2>2. Append(payouts[c], p)[Len(payouts[c]) + 1] = p
    BY <1>5
  <2>3. QED
    BY <1>5, <2>1, <2>2
<1>7. QED
  BY <1>3, <1>4, <1>6 DEF p

LEMMA RefundedNowOnTerms ==
  ASSUME HInv, SignedOK, NEW caller \in Accounts, Refunding(caller),
         NEW c \in Commitments, RefundedNow(c)
  PROVE  RefundedOnTerms(c)
<1>0. oracleAddress \in Oracles /\ now \in Nat
  BY WorldTyped DEF HInv, IInv, TypeOK
<1>1. PICK d \in Commitments :
        \/ \E ts \in 0..MaxTime :
             \E signer \in Signers(RefundMessage(d, Chain, ts)) :
               Refund(caller, d, ts, signer)
        \/ ForceRefund(caller, d)
  BY DEF Refunding
<1>2. CASE \E ts \in 0..MaxTime :
             \E signer \in Signers(RefundMessage(d, Chain, ts)) :
               Refund(caller, d, ts, signer)
  <2>1. PICK ts \in 0..MaxTime :
          \E signer \in Signers(RefundMessage(d, Chain, ts)) :
            Refund(caller, d, ts, signer)
    BY <1>2
  <2>2. PICK signer \in Signers(RefundMessage(d, Chain, ts)) :
          Refund(caller, d, ts, signer)
    BY <2>1
  <2>3. /\ RefundableError(d) = "Ok" /\ ~(ts > now) /\ ~(now - ts > RefundWindow)
        /\ signer = oracleAddress /\ MarkAndSend(d, "oracle", ts)
    BY <2>2 DEF Refund, RefundError
  <2>4. /\ c = d /\ payments[c].amount # 0
        /\ payouts'[c][Len(payouts'[c])] =
             [to |-> payments[c].sender, amount |-> payments[c].amount,
              authority |-> "oracle", at |-> now, signedAt |-> ts]
    BY <2>3, MarkedLast
  <2>5. ts \in Nat
    OBVIOUS
  <2>6. now - ts \in 0..RefundWindow
    BY <1>0, <2>3, <2>5, BoundsAssumption
  <2>7. SignedBy(oracleAddress, RefundMessage(c, Chain, ts))
    BY <1>0, <2>3, <2>4, SignerSigned
  <2>8. QED
    BY <2>4, <2>6, <2>7 DEF RefundedOnTerms
<1>3. CASE ForceRefund(caller, d)
  <2>1. /\ HasRole("ADMIN_ROLE", caller) /\ RefundableError(d) = "Ok"
        /\ MarkAndSend(d, "admin", now)
    BY <1>3 DEF ForceRefund, ForceRefundError
  <2>2. /\ payments[c].amount # 0
        /\ payouts'[c][Len(payouts'[c])] =
             [to |-> payments[c].sender, amount |-> payments[c].amount,
              authority |-> "admin", at |-> now, signedAt |-> now]
    BY <2>1, MarkedLast
  <2>3. roles["ADMIN_ROLE"] # {}
    BY <2>1 DEF HasRole
  <2>4. QED
    BY <2>2, <2>3 DEF RefundedOnTerms
<1>4. QED
  BY <1>1, <1>2, <1>3

LEMMA StepRefunded ==
  ASSUME HInv, HInv', SignedOK, [Next]_vars, NEW c \in Commitments,
         RefundedNow(c)
  PROVE  RefundedOnTerms(c)
<1>1. payouts' # payouts
  <2>1. Len(payouts[c]) \in Nat
    BY WorldTyped DEF HInv, IInv, TypeOK
  <2>2. QED
    BY <2>1 DEF RefundedNow
<1>2. CASE CallFails
  BY <1>2, CallFailsBrings
<1>3. ASSUME NEW caller \in Accounts, Refunding(caller)
      PROVE  RefundedOnTerms(c)
  BY <1>3, RefundedNowOnTerms
<1>4. ASSUME NEW caller \in Accounts,
             Paying(caller) \/ Funding(caller) \/ Administering(caller)
      PROVE  FALSE
  BY <1>1, <1>4, PayingSteps, FundingSteps, AdministeringSteps
     DEF HInv, Quiet, Recording, WithdrawOpening
<1>5. CASE CallReturns \/ Tick \/ (\E o \in Oracles, m \in Messages : Sign(o, m))
           \/ UNCHANGED vars
  BY <1>1, <1>5 DEF CallReturns, Tick, Sign, vars
<1>6. QED
  BY <1>2, <1>3, <1>4, <1>5 DEF Next

(* Ether leaves for a refund only when an admin forces it, or when the oracle
   of that moment has signed for the commitment and this chain within the
   window of refund. *)
THEOREM RefundedWhenAllowed == Spec => RefundsAuthorised
<1>1. HInv /\ HInv' /\ SignedOK /\ [Next]_vars =>
        \A c \in Commitments : RefundedNow(c) =>
          LET payout == payouts'[c][Len(payouts'[c])]
          IN  /\ payments[c].amount # 0
              /\ \/ payout.authority = "admin" /\ roles["ADMIN_ROLE"] # {}
                 \/ /\ payout.at - payout.signedAt \in 0..RefundWindow
                    /\ SignedBy(oracleAddress,
                                RefundMessage(c, Chain, payout.signedAt))
  BY StepRefunded DEF RefundedOnTerms
<1>2. QED
  BY InvariantHInv, InvariantSignedOK, <1>1, PTL DEF RefundsAuthorised, Spec
=============================================================================
