--------------------------- MODULE PaymentLifecycle ---------------------------
(***************************************************************************)
(* What HumanIDPayments promises for each commitment, whatever calls,      *)
(* callbacks, failures and reverts its transactions are made of: the       *)
(* commitment is paid for once, by one payer, and at most once the same    *)
(* amount goes back to that payer.  One step is one transaction; it may    *)
(* move any number of commitments, each by one or two phases.              *)
(***************************************************************************)
EXTENDS Naturals, Sequences

CONSTANTS Commitments, Accounts, Nobody

VARIABLE account   \* for each commitment, its phase and what is known of it

None(acc) == acc.phase = "none" /\ acc.payer = Nobody /\ acc.returned = <<>>

(* The payer and the amount are fixed when the commitment is paid for. *)
PaidFor(acc, new) ==
  /\ acc.phase = "none"
  /\ new.payer \in Accounts
  /\ new.amount # 0
  /\ \/ new.phase = "paid" /\ new.returned = <<>>
     \/ new.phase = "refunded"
        /\ new.returned = <<[to |-> new.payer, amount |-> new.amount]>>

Returned(acc, new) ==
  /\ acc.phase = "paid" /\ new.phase = "refunded"
  /\ new.payer = acc.payer /\ new.amount = acc.amount
  /\ new.returned = <<[to |-> acc.payer, amount |-> acc.amount]>>

Advances(acc, new) == new = acc \/ PaidFor(acc, new) \/ Returned(acc, new)

Init == \A c \in Commitments : None(account[c])

Transaction ==
  /\ DOMAIN account' = Commitments
  /\ \A c \in Commitments : Advances(account[c], account'[c])

Spec == Init /\ [][Transaction]_account
=============================================================================
