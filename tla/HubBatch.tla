------------------------------- MODULE HubBatch -------------------------------
(***************************************************************************)
(* The contract HubBatch (contracts/HubBatch.sol), which mints for many    *)
(* users in one transaction, together with the Hub it calls.               *)
(*                                                                         *)
(* HubBatch keeps no state of its own: a call of it is a frame of the      *)
(* Hub's stack, with the items it was given and the outcomes of those that *)
(* have ended.  It calls Hub.setSBT for one item after the other, always   *)
(* with no ether, and each of these calls may hand control to a receiver.  *)
(***************************************************************************)
EXTENDS Hub

CONSTANTS
  BatchLimit,      \* the most items a batch may have (100 in the code)
  MaxItems         \* bound: items a caller tries to put in a batch

ASSUME BatchBounds == BatchLimit \in Nat /\ MaxItems \in Nat

(* The seven arrays of the call are one sequence: arrays of other lengths are
   refused ("Length mismatch"). *)
BatchFrame(items, strict) ==
  [kind |-> "batch", items |-> items, strict |-> strict, results |-> <<>>,
   saved |-> World]

Batches == UNION {[1 .. n -> Presented] : n \in 0 .. MaxItems}

(* Fault: a batch one item too long is accepted. *)
BatchErrorLong(items) ==
  IF Len(items) > BatchLimit + 1 THEN "Batch too large" ELSE "Ok"

BatchError(items) ==
  IF Len(items) > BatchLimit THEN "Batch too large" ELSE "Ok"

Failures(f) == {i \in DOMAIN f.results : f.results[i] # "Ok"}

Finished(f) == Len(f.results) = Len(f.items)

InBatch == stack # <<>> /\ Top.kind = "batch"

-----------------------------------------------------------------------------
(* setSBTBatch, and setSBTBatchStrict if strict. *)
StartBatch(caller, items, strict) ==
  /\ caller \in Callers
  /\ Len(stack) < MaxDepth
  /\ BatchError(items) = "Ok"
  /\ stack' = Append(stack, BatchFrame(items, strict))
  /\ UNCHANGED <<chainVars, now, signed>>

(* Fault: a strict batch goes on after a failure, as the other does. *)
GoesOnAnyway(f) == TRUE

(* A strict batch stops at the first item that fails. *)
GoesOn(f) == f.strict => Failures(f) = {}

(* The next call of setSBT.  If it reverts at once its message is caught, or,
   in a strict batch, is the last thing that happens. *)
CallItem ==
  /\ InBatch /\ GoesOn(Top) /\ ~Finished(Top)
  /\ LET item == Top.items[Len(Top.results) + 1]
         error == SetSBTError(item, 0)
     IN  \/ error = "Ok" /\ Mint(item, 0)
         \/ /\ error # "Ok"
            /\ stack' = [stack EXCEPT ![Len(stack)].results = Append(@, error)]
            /\ UNCHANGED <<chainVars, now, signed>>

BatchReturns ==
  /\ InBatch /\ GoesOn(Top) /\ Finished(Top)
  /\ stack' = Ended("Ok")
  /\ UNCHANGED <<chainVars, now, signed>>

(* The error of a strict batch's item is not caught; and any batch may run
   out of gas.  What its items did is undone. *)
BatchReverts ==
  /\ InBatch
  /\ Restore(Top.saved)
  /\ stack' = Ended("Reverted")
  /\ UNCHANGED <<now, signed>>

Batching ==
  \/ \E caller \in Accounts, items \in Batches, strict \in BOOLEAN :
       StartBatch(caller, items, strict)
  \/ CallItem
  \/ BatchReturns
  \/ BatchReverts

BatchSpec == Init /\ [][Next \/ Batching]_vars

-----------------------------------------------------------------------------
(* Properties *)

(* Besides the Hub's types: a call of HubBatch has no more results than items
   and no more items than the limit, and only a batch or a mint is ever
   open. *)
BatchTypeOK ==
  /\ TypeOK
  /\ \A i \in DOMAIN stack :
       \/ stack[i].kind = "mint"
       \/ /\ stack[i].kind = "batch"
          /\ Len(stack[i].results) <= Len(stack[i].items)
          /\ Len(stack[i].items) <= BatchLimit

MintedFor(f) == DOMAIN tokens \ DOMAIN f.saved.tokens

IsTokenOf(token, item) ==
  /\ token.to = AddressOf(item.reciever)
  /\ token.identifier = <<token.to, item.circuit>>
  /\ token.nullifier = item.nullifier
  /\ token.fee = 0
  /\ token.sbt.expiry = item.expiration /\ token.sbt.values = item.values

(* Each item reported as a success has a token of its own, minted since the
   batch began, in the order of the items; and when no item's receiver has
   code, no token but these has been minted, apart from that of the item under
   way: a failed item leaves nothing behind. *)
ResultsMatchTokens ==
  \A i \in DOMAIN stack : stack[i].kind = "batch" =>
    LET f == stack[i]
        done == DOMAIN f.results \ Failures(f)
        under == IF i < Len(stack) THEN 1 ELSE 0
    IN  /\ \E tid \in [done -> MintedFor(f)] :
             /\ \A j, k \in done : j < k => tid[j] < tid[k]
             /\ \A k \in done : IsTokenOf(tokens[tid[k]], f.items[k])
        /\ (\A k \in DOMAIN f.items :
              AddressOf(f.items[k].reciever) \notin Contracts) =>
             Cardinality(MintedFor(f)) = Cardinality(done) + under

(* A strict batch that ends has minted for every item or has changed
   nothing. *)
StrictIsAllOrNothing ==
  [][InBatch /\ Top.strict /\ Len(stack') < Len(stack) =>
       \/ World' = Top.saved
       \/ \A k \in DOMAIN Top.items : \E t \in MintedFor(Top) :
            IsTokenOf(tokens'[t], Top.items[k])]_vars
=============================================================================
