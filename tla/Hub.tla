--------------------------------- MODULE Hub ---------------------------------
(***************************************************************************)
(* The contract Hub (contracts/Hub.sol): soulbound tokens that a verifier  *)
(* has signed for, kept by (user, circuit), with a nullifier that makes an *)
(* identity prove a thing only once.                                       *)
(*                                                                         *)
(* As in Payments, a call that reverts before it hands control to anyone   *)
(* is a stuttering step.  setSBT hands control to the receiver of the      *)
(* token, in the onERC721Received callback of _safeMint: its end is an     *)
(* action of its own, and until then the call is a frame of the stack.  A  *)
(* frame of kind "batch" is a call of HubBatch, which makes calls of       *)
(* setSBT and is told how each one ended.                                  *)
(***************************************************************************)
EXTENDS Integers, Sequences, FiniteSets, Functions

CONSTANTS
  Accounts,        \* addresses
  Contracts,       \* the accounts with code
  Circuits,        \* circuit ids
  Verifiers,       \* keys that are or may become the verifier
  Nullifiers,      \* nullifiers that may be signed, NoNullifier among them
  Values,          \* the proofs' public values
  Chains,          \* chain ids a verifier may sign for
  Chain,           \* block.chainid here
  HighBits,        \* what a sbtReciever may hold above its 160 address bits
  ZeroAddress,     \* address(0)
  NoNullifier,     \* the nullifier 0
  NoIdentifier,    \* bytes32(0)
  NoValues,        \* the empty array
  NoSigner,        \* what ecrecover yields for a signature of something else
  Owners,          \* bound: addresses the contract is handed to
  Installed,       \* bound: addresses that are made verifier
  Revocable,       \* bound: addresses whose SBTs are revoked
  Expirations,     \* bound: expiry dates
  Fees,            \* bound: fees
  MaxTime,         \* bound: block.timestamp
  MaxTokens,       \* bound: tokens minted
  MaxDepth,        \* bound: calls open at once
  MaxSigned        \* bound: messages the verifiers sign

ASSUME HubAccounts ==
  /\ Contracts \subseteq Accounts
  /\ ZeroAddress \notin Accounts
  /\ NoSigner \notin Verifiers \cup {ZeroAddress}
  /\ NoNullifier \in Nullifiers
  /\ Owners \subseteq Accounts \cup {ZeroAddress}
  /\ Installed \subseteq Verifiers \cup {ZeroAddress}
  /\ Revocable \subseteq Accounts \cup {ZeroAddress}

ASSUME HubBounds ==
  /\ Expirations \subseteq Nat /\ Fees \subseteq Nat
  /\ MaxTime \in Nat /\ MaxTokens \in Nat /\ MaxDepth \in Nat
  /\ MaxSigned \in Nat
  /\ Chain \in Chains

VARIABLES
  owner, verifier,
  usedNullifiers,          \* the nullifiers whose entry is true
  sbtOwners,               \* the SBT of each (user, circuit) identifier
  nullifiersToIdentifiers,
  tokens,                  \* the ERC721 tokens, by token id
  fees,                    \* address(this).balance
  collected,               \* history: wei sent to owners by collectFees
  stack,                   \* the calls that are open, outermost first
  now,                     \* block.timestamp
  signed                   \* the messages verifiers have signed, off chain

chainVars == <<owner, verifier, usedNullifiers, sbtOwners,
               nullifiersToIdentifiers, tokens, fees, collected>>
vars == <<chainVars, stack, now, signed>>

-----------------------------------------------------------------------------
(* Data *)

Addresses == Accounts \cup {ZeroAddress}

SBTs == [expiry: Nat, values: Values \cup {NoValues}, revoked: BOOLEAN]

(* What an identifier without an entry reads as. *)
NoSBT == [expiry |-> 0, values |-> NoValues, revoked |-> FALSE]

(* getIdentifier: a hash of the pair, which stands for the pair. *)
Identifiers == Addresses \X Circuits

(* sbtReciever is a uint of 256 bits; its low 160 bits are the address. *)
Recievers == [account: Addresses, high: HighBits]
AddressOf(reciever) == reciever.account

Args == [circuit: Circuits, reciever: Recievers, expiration: Expirations,
         fee: Fees, nullifier: Nullifiers, values: Values,
         signer: Verifiers \cup {NoSigner}]

MessageOf(a, chain) ==
  [circuit |-> a.circuit, reciever |-> a.reciever,
   expiration |-> a.expiration, fee |-> a.fee, nullifier |-> a.nullifier,
   values |-> a.values, chain |-> chain]

Messages == [circuit: Circuits, reciever: Recievers, expiration: Expirations,
             fee: Fees, nullifier: Nullifiers, values: Values, chain: Chains]

(* The addresses `recover` may return for message m: whoever signed it, or
   an address that is nobody's. *)
Signers(m) == {s.by : s \in {t \in signed : t.message = m}} \cup {NoSigner}

(* The calls of setSBT anybody can make: arguments and whose signature. *)
Presented ==
  UNION {{[circuit |-> m.circuit, reciever |-> m.reciever,
           expiration |-> m.expiration, fee |-> m.fee,
           nullifier |-> m.nullifier, values |-> m.values, signer |-> o] :
            o \in Signers([m EXCEPT !.chain = Chain])} :
         m \in {s.message : s \in signed}}

(* A token keeps its owner and its URI; the other fields are history: what
   it was minted for. *)
NoURI == NoSBT
Tokens == [to: Addresses, uri: SBTs, sbt: SBTs,
           identifier: Identifiers, nullifier: Nullifiers, fee: Nat]

World == [owner |-> owner, verifier |-> verifier,
          usedNullifiers |-> usedNullifiers, sbtOwners |-> sbtOwners,
          nullifiersToIdentifiers |-> nullifiersToIdentifiers,
          tokens |-> tokens, fees |-> fees, collected |-> collected]

Worlds == [owner: Addresses, verifier: Verifiers \cup {ZeroAddress},
           usedNullifiers: SUBSET (Nullifiers \ {NoNullifier}),
           sbtOwners: [Identifiers -> SBTs],
           nullifiersToIdentifiers:
             [Nullifiers -> Identifiers \cup {NoIdentifier}],
           tokens: Seq(Tokens), fees: Nat, collected: Nat]

Restore(w) ==
  /\ owner' = w.owner /\ verifier' = w.verifier
  /\ usedNullifiers' = w.usedNullifiers
  /\ sbtOwners' = w.sbtOwners
  /\ nullifiersToIdentifiers' = w.nullifiersToIdentifiers
  /\ tokens' = w.tokens
  /\ fees' = w.fees /\ collected' = w.collected

(* The calls that are open.  A call of setSBT waits for its receiver; a call
   of HubBatch is between items, of which Len(results) have ended. *)
MintFrame(a, tid) ==
  [kind |-> "mint", reciever |-> AddressOf(a.reciever),
   identifier |-> <<AddressOf(a.reciever), a.circuit>>, tid |-> tid,
   saved |-> World]

Top == stack[Len(stack)]

(* Fault: HubBatch does not look at how the call of setSBT ended. *)
EndedUnchecked(outcome) ==
  LET below == SubSeq(stack, 1, Len(stack) - 1)
  IN  IF below # <<>> /\ below[Len(below)].kind = "batch"
      THEN [below EXCEPT ![Len(below)].results = Append(@, "Ok")]
      ELSE below

(* The call below a frame that ends learns how it ended. *)
Ended(outcome) ==
  LET below == SubSeq(stack, 1, Len(stack) - 1)
  IN  IF below # <<>> /\ below[Len(below)].kind = "batch"
      THEN [below EXCEPT ![Len(below)].results = Append(@, outcome)]
      ELSE below

(* Who may be msg.sender: anyone at the top; the accounts with code while a
   receiver with code runs; nobody else while HubBatch does. *)
Callers ==
  IF stack = <<>> THEN Accounts
  ELSE IF Top.kind = "mint" /\ Top.reciever \in Contracts THEN Contracts
  ELSE {}

-----------------------------------------------------------------------------
(* setSBT *)

(* Fault: a nullifier is good for any number of proofs. *)
SetSBTErrorReplayable(a, value) ==
  IF value # a.fee THEN "Missing Fee"
  ELSE IF a.signer # verifier THEN "The Verifier did not sign"
  ELSE IF AddressOf(a.reciever) = ZeroAddress
  THEN "ERC721: mint to the zero address"
  ELSE "Ok"

(* Fault: the signer is compared with nothing. *)
SetSBTErrorUnsigned(a, value) ==
  IF value # a.fee THEN "Missing Fee"
  ELSE IF a.nullifier # NoNullifier /\ a.nullifier \in usedNullifiers
  THEN "this is already been proven"
  ELSE IF AddressOf(a.reciever) = ZeroAddress
  THEN "ERC721: mint to the zero address"
  ELSE "Ok"

(* Fault: the fee is not asked for. *)
SetSBTErrorUnpaid(a, value) ==
  IF a.signer # verifier THEN "The Verifier did not sign"
  ELSE IF a.nullifier # NoNullifier /\ a.nullifier \in usedNullifiers
  THEN "this is already been proven"
  ELSE IF AddressOf(a.reciever) = ZeroAddress
  THEN "ERC721: mint to the zero address"
  ELSE "Ok"

SetSBTError(a, value) ==
  IF value # a.fee THEN "Missing Fee"
  ELSE IF a.signer # verifier THEN "The Verifier did not sign"
  ELSE IF a.nullifier # NoNullifier /\ a.nullifier \in usedNullifiers
  THEN "this is already been proven"
  ELSE IF AddressOf(a.reciever) = ZeroAddress
  THEN "ERC721: mint to the zero address"
  ELSE "Ok"

(* Fault: the nullifier is checked and not marked. *)
SpendForgotten(nullifier) == usedNullifiers

Spend(nullifier) == usedNullifiers \cup ({nullifier} \ {NoNullifier})

(* setSBT up to the callback of _safeMint, called from the call on top of
   the stack with `value` wei. *)
Mint(a, value) ==
  LET identifier == <<AddressOf(a.reciever), a.circuit>>
      sbt == [expiry |-> a.expiration, values |-> a.values, revoked |-> FALSE]
  IN  /\ Len(tokens) < MaxTokens /\ Len(stack) < MaxDepth
      /\ usedNullifiers' = Spend(a.nullifier)
      /\ sbtOwners' = [sbtOwners EXCEPT ![identifier] = sbt]
      /\ nullifiersToIdentifiers' =
           [nullifiersToIdentifiers EXCEPT ![a.nullifier] = identifier]
      /\ tokens' = Append(tokens,
           [to |-> AddressOf(a.reciever), uri |-> NoURI, sbt |-> sbt,
            identifier |-> identifier, nullifier |-> a.nullifier,
            fee |-> a.fee])
      /\ fees' = fees + value
      /\ stack' = Append(stack, MintFrame(a, Len(tokens) + 1))
      /\ UNCHANGED <<owner, verifier, collected, now, signed>>

SetSBT(caller, a, value) ==
  /\ caller \in Callers
  /\ SetSBTError(a, value) = "Ok"
  /\ Mint(a, value)

(* Fault: the token id is read again, after the callback. *)
MintReturnsReread ==
  /\ stack # <<>> /\ Top.kind = "mint"
  /\ tokens' = [tokens EXCEPT ![Len(tokens)].uri = sbtOwners[Top.identifier]]
  /\ stack' = Ended("Ok")
  /\ UNCHANGED <<owner, verifier, usedNullifiers, sbtOwners,
                 nullifiersToIdentifiers, fees, collected, now, signed>>

(* The receiver accepts the token: setSBT goes on with _setTokenURI, which
   encodes the identifier's SBT as it is by now. *)
MintReturns ==
  /\ stack # <<>> /\ Top.kind = "mint"
  /\ tokens' = [tokens EXCEPT ![Top.tid].uri = sbtOwners[Top.identifier]]
  /\ stack' = Ended("Ok")
  /\ UNCHANGED <<owner, verifier, usedNullifiers, sbtOwners,
                 nullifiersToIdentifiers, fees, collected, now, signed>>

(* The receiver fails or does not accept, or the call runs out of gas: setSBT
   reverts, and with it what the receiver did meanwhile. *)
MintFails ==
  /\ stack # <<>> /\ Top.kind = "mint"
  /\ Restore(Top.saved)
  /\ stack' = Ended("Reverted")
  /\ UNCHANGED <<now, signed>>

-----------------------------------------------------------------------------
(* Reading *)

SbtAt(w, identifier) ==
  IF identifier = NoIdentifier THEN NoSBT ELSE w.sbtOwners[identifier]

(* _getSBT returns and does not revert. *)
Readable(sbt) == sbt.expiry >= now /\ ~sbt.revoked

GetSBT(w, identifier) == Readable(SbtAt(w, identifier))

GetSBTByNullifier(w, nullifier) ==
  GetSBT(w, w.nullifiersToIdentifiers[nullifier])

-----------------------------------------------------------------------------
(* The owner's functions *)

ByOwner(caller) == caller \in Callers /\ caller = owner

(* It also marks an identifier that has no SBT. *)
RevokeSBT(caller, identifier) ==
  /\ ByOwner(caller)
  /\ sbtOwners' = [sbtOwners EXCEPT ![identifier].revoked = TRUE]
  /\ UNCHANGED <<owner, verifier, usedNullifiers, nullifiersToIdentifiers,
                 tokens, fees, collected, stack, now, signed>>

ChangeVerifier(caller, newVerifier) ==
  /\ ByOwner(caller)
  /\ verifier' = newVerifier
  /\ UNCHANGED <<owner, usedNullifiers, sbtOwners, nullifiersToIdentifiers,
                 tokens, fees, collected, stack, now, signed>>

(* `transfer` leaves the receiver too little gas to call back, and reverts
   if it fails. *)
CollectFees(caller) ==
  /\ ByOwner(caller)
  /\ fees' = 0
  /\ collected' = collected + fees
  /\ UNCHANGED <<owner, verifier, usedNullifiers, sbtOwners,
                 nullifiersToIdentifiers, tokens, stack, now, signed>>

(* Ownable, which the contract inherits: transferOwnership refuses the zero
   address, renounceOwnership sets it. *)
ChangeOwner(caller, newOwner) ==
  /\ ByOwner(caller)
  /\ owner' = newOwner
  /\ UNCHANGED <<verifier, usedNullifiers, sbtOwners,
                 nullifiersToIdentifiers, tokens, fees, collected, stack, now,
                 signed>>

-----------------------------------------------------------------------------
(* The world around the contract *)

Tick ==
  /\ stack = <<>> /\ now < MaxTime
  /\ now' = now + 1
  /\ UNCHANGED <<chainVars, stack, signed>>

Sign(v, m) ==
  /\ stack = <<>> /\ Cardinality(signed) < MaxSigned
  /\ signed' = signed \cup {[by |-> v, message |-> m]}
  /\ UNCHANGED <<chainVars, stack, now>>

-----------------------------------------------------------------------------
Init ==
  /\ owner \in Accounts
  /\ verifier \in Verifiers
  /\ usedNullifiers = {}
  /\ sbtOwners = [identifier \in Identifiers |-> NoSBT]
  /\ nullifiersToIdentifiers = [n \in Nullifiers |-> NoIdentifier]
  /\ tokens = <<>>
  /\ fees = 0 /\ collected = 0
  /\ stack = <<>>
  /\ now = 1
  /\ signed = {}

Owning(caller) ==
  \/ \E identifier \in Revocable \X Circuits : RevokeSBT(caller, identifier)
  \/ \E newVerifier \in Installed : ChangeVerifier(caller, newVerifier)
  \/ CollectFees(caller)
  \/ \E newOwner \in Owners : ChangeOwner(caller, newOwner)

Next ==
  \/ \E caller \in Accounts :
       \/ \E a \in Presented, value \in Fees : SetSBT(caller, a, value)
       \/ Owning(caller)
  \/ MintReturns
  \/ MintFails
  \/ Tick
  \/ \E v \in Verifiers, m \in Messages : Sign(v, m)

Spec == Init /\ [][Next]_vars

-----------------------------------------------------------------------------
(* Properties *)

(* The variables keep their types, and so does the state that each open call
   would go back to; a call of setSBT names a token that exists. *)
TypeOK ==
  /\ World \in Worlds
  /\ \A i \in DOMAIN stack :
       /\ stack[i].saved \in Worlds
       /\ stack[i].kind = "mint" =>
            /\ stack[i].identifier \in Identifiers
            /\ stack[i].tid \in DOMAIN tokens
  /\ now \in Nat
  /\ \A s \in signed : s.by \in Verifiers /\ s.message \in Messages

NullifierSpentOnce(w) ==
  /\ w.usedNullifiers =
       {w.tokens[t].nullifier : t \in DOMAIN w.tokens} \ {NoNullifier}
  /\ \A t, u \in DOMAIN w.tokens :
       w.tokens[t].nullifier = w.tokens[u].nullifier
         /\ w.tokens[t].nullifier # NoNullifier => t = u

(* A nullifier other than 0 is good for one token, and is used up exactly
   when that token exists: however receivers call setSBT again from the mint
   callback with the same signature, and whichever of the nested calls
   fail. *)
OneTokenPerNullifier == NullifierSpentOnce(World)

(* A used nullifier leads, for good, to the (user, circuit) pair of the token
   it was spent on. *)
NullifierFindsItsPair ==
  \A t \in DOMAIN tokens : tokens[t].nullifier # NoNullifier =>
    nullifiersToIdentifiers[tokens[t].nullifier] = tokens[t].identifier

(* The chain's state once the transaction that runs is undone, or as it is
   when none runs: what anybody outside reads. *)
Committed == IF stack = <<>> THEN World ELSE stack[1].saved

NewestFor(w, identifier) ==
  {t \in DOMAIN w.tokens :
     /\ w.tokens[t].identifier = identifier
     /\ \A u \in DOMAIN w.tokens : w.tokens[u].identifier = identifier => u <= t}

SameClaim(sbt1, sbt2) ==
  sbt1.expiry = sbt2.expiry /\ sbt1.values = sbt2.values

(* Between transactions the newest token of a (user, circuit) pair was minted
   with the expiry and the values that getSBT returns for the pair, and its
   URI holds them: although _setTokenURI reads the pair's entry after the
   callback, in which the receiver may have minted more. *)
NewestTokenIsCurrent ==
  \A identifier \in Identifiers : \A t \in NewestFor(Committed, identifier) :
    /\ SameClaim(Committed.tokens[t].sbt, Committed.sbtOwners[identifier])
    /\ SameClaim(Committed.tokens[t].uri, Committed.sbtOwners[identifier])

(* A token for the pair, with a nullifier that was not spent, is committed. *)
FreshlyMinted(identifier) ==
  \E t \in DOMAIN Committed'.tokens \ DOMAIN Committed.tokens :
    /\ Committed'.tokens[t].identifier = identifier
    /\ Committed'.tokens[t].nullifier \notin Committed.usedNullifiers

(* getSBT starts to succeed for a pair, after expiry or revocation too, only
   in a transaction that mints a token for it, with a nullifier that was not
   spent before or with the nullifier 0; and so does getSBTByNullifier. *)
ReadableOnlyByMint ==
  [][/\ \A identifier \in Identifiers :
          ~GetSBT(Committed, identifier) /\ GetSBT(Committed, identifier)' =>
            FreshlyMinted(identifier)
     /\ \A n \in Nullifiers :
          ~GetSBTByNullifier(Committed, n) /\ GetSBTByNullifier(Committed, n)' =>
            FreshlyMinted(Committed'.nullifiersToIdentifiers[n])]_vars

(* A token appears only for arguments that the verifier of that moment signed
   for this chain, and goes to the address in the low bits of the receiver. *)
MintedAsSigned ==
  [][Len(tokens') > Len(tokens) =>
       LET token == tokens'[Len(tokens')]
       IN  \E s \in signed :
             /\ s.by = verifier /\ s.message.chain = Chain
             /\ s.message.fee = token.fee
             /\ s.message.nullifier = token.nullifier
             /\ s.message.values = token.sbt.values
             /\ s.message.expiration = token.sbt.expiry
             /\ <<AddressOf(s.message.reciever), s.message.circuit>>
                  = token.identifier
             /\ token.to = token.identifier[1]]_vars

FeesPaid ==
  FoldFunction(LAMBDA a, b : a + b, 0,
               [t \in DOMAIN tokens |-> tokens[t].fee])

(* The ether in the contract and the ether collected are the fees of the
   tokens that exist: a mint that fails returns its fee, and a batch cannot
   mint a token without paying its fee. *)
FeesAccounted == fees + collected = FeesPaid
=============================================================================
