-------------------------------- MODULE SuiSBT --------------------------------
(***************************************************************************)
(* The Move packages human_id (contracts/sui/human-id) and sbt_verifier    *)
(* (contracts/sui/sbt-verifier): SBTs as objects of their recipients,      *)
(* minted with a capability object, and the checks that other packages     *)
(* make of an SBT.                                                         *)
(*                                                                         *)
(* A transaction may use, besides the clock, the objects that its sender   *)
(* owns.  A SoulBoundToken has `key` and not `store`, so that it stays     *)
(* with its recipient; a MinterCap has both, and its owner may hand it     *)
(* over with set_minter or without, to the same effect (sharing, freezing  *)
(* or wrapping it is something none of the packages does, and is left      *)
(* out).  A call that aborts is a stuttering step.                         *)
(***************************************************************************)
EXTENDS Integers, Sequences, FiniteSets

CONSTANTS
  Addresses,
  Circuits, Nullifiers,  \* u256 values: their sum is a key
  Actions,
  Any,                   \* "whichever", of a circuit or an action to expect
  MaxU256,               \* the largest u256
  MsPerSecond,           \* 1000
  Expirations,           \* bound: expiry dates, in seconds
  MaxMs,                 \* bound: the clock, in milliseconds
  MaxSbts                \* bound: SBTs

ASSUME SuiBounds ==
  /\ MaxU256 \in Nat
  /\ Circuits \subseteq 0 .. MaxU256 /\ Nullifiers \subseteq 0 .. MaxU256
  /\ Any \notin Circuits \cup Actions
  /\ MsPerSecond \in Nat \ {0}
  /\ Expirations \subseteq Nat /\ MaxMs \in Nat /\ MaxSbts \in Nat

VARIABLES
  capOwner,        \* who owns the MinterCap
  spent,           \* the MinterCap's dynamic fields
  sbts,            \* the SoulBoundTokens, in the order they were minted
  clockMs,         \* the Clock's timestamp_ms
  holders          \* history: everyone who has owned the MinterCap

vars == <<capOwner, spent, sbts, clockMs, holders>>

SoulBoundTokens ==
  [recipient: Addresses, expiry: Nat, circuit: Circuits, action: Actions,
   nullifier: Nullifiers, revoked: BOOLEAN, minter: Addresses]

-----------------------------------------------------------------------------
(* human_id::sbt *)

SetMinter(sender, newMinter) ==
  /\ sender = capOwner
  /\ capOwner' = newMinter
  /\ holders' = holders \cup {newMinter}
  /\ UNCHANGED <<spent, sbts, clockMs>>

(* Fault: the dynamic field is not looked up. *)
MintAbortReplayable(nullifier, circuit) ==
  IF nullifier + circuit > MaxU256 THEN "arithmetic error" ELSE "Ok"

MintAbort(nullifier, circuit) ==
  IF nullifier + circuit > MaxU256 THEN "arithmetic error"
  ELSE IF nullifier + circuit \in spent THEN "nullifier used"
  ELSE "Ok"

Minted(sender, recipient, circuit, action, nullifier, expiry) ==
  [recipient |-> recipient, expiry |-> expiry, circuit |-> circuit,
   action |-> action, nullifier |-> nullifier, revoked |-> FALSE,
   minter |-> sender]

(* Fault: the dynamic field is keyed by the nullifier alone. *)
MintKeyedByNullifier(sender, recipient, circuit, action, nullifier, expiry) ==
  /\ sender = capOwner
  /\ MintAbort(nullifier, circuit) = "Ok"
  /\ Len(sbts) < MaxSbts
  /\ spent' = spent \cup {nullifier}
  /\ sbts' = Append(sbts,
       Minted(sender, recipient, circuit, action, nullifier, expiry))
  /\ UNCHANGED <<capOwner, clockMs, holders>>

Mint(sender, recipient, circuit, action, nullifier, expiry) ==
  /\ sender = capOwner
  /\ MintAbort(nullifier, circuit) = "Ok"
  /\ Len(sbts) < MaxSbts
  /\ spent' = spent \cup {nullifier + circuit}
  /\ sbts' = Append(sbts,
       Minted(sender, recipient, circuit, action, nullifier, expiry))
  /\ UNCHANGED <<capOwner, clockMs, holders>>

(* Both objects are inputs of the sender's transaction. *)
MayUse(sender, sbt) == sender = capOwner /\ sender = sbt.recipient

(* Fault: revoking again takes the revocation back. *)
RevokeToggling(sender, i) ==
  /\ MayUse(sender, sbts[i])
  /\ sbts' = [sbts EXCEPT ![i].revoked = ~@]
  /\ UNCHANGED <<capOwner, spent, clockMs, holders>>

(* Fault: the capability is not asked for. *)
RevokeUncapped(sender, i) ==
  /\ sender = sbts[i].recipient
  /\ sbts' = [sbts EXCEPT ![i].revoked = TRUE]
  /\ UNCHANGED <<capOwner, spent, clockMs, holders>>

Revoke(sender, i) ==
  /\ MayUse(sender, sbts[i])
  /\ sbts' = [sbts EXCEPT ![i].revoked = TRUE]
  /\ UNCHANGED <<capOwner, spent, clockMs, holders>>

(* The clock moves on between transactions. *)
Tick ==
  /\ clockMs < MaxMs
  /\ clockMs' = clockMs + 1
  /\ UNCHANGED <<capOwner, spent, sbts, holders>>

(* init gives the MinterCap to the publisher. *)
Init ==
  /\ capOwner \in Addresses
  /\ spent = {} /\ sbts = <<>>
  /\ clockMs = 0
  /\ holders = {capOwner}

Next ==
  \/ \E sender \in Addresses :
       \/ \E newMinter \in Addresses : SetMinter(sender, newMinter)
       \/ \E recipient \in Addresses, circuit \in Circuits, action \in Actions,
             nullifier \in Nullifiers, expiry \in Expirations :
            Mint(sender, recipient, circuit, action, nullifier, expiry)
       \/ \E i \in DOMAIN sbts : Revoke(sender, i)
  \/ Tick

Spec == Init /\ [][Next]_vars

-----------------------------------------------------------------------------
(* sbt_verifier::sbt_verifier *)

Seconds == clockMs \div MsPerSecond

(* Fault: an SBT expires as the second of its expiry begins. *)
IsExpiredEarly(sbt) == Seconds >= sbt.expiry

IsExpired(sbt) == Seconds > sbt.expiry

(* Fault: milliseconds are compared with seconds. *)
IsValidMs(sbt) == ~(clockMs > sbt.expiry) /\ ~sbt.revoked

(* is_valid of verify_sbt, which looks at the clock for itself. *)
IsValid(sbt) == ~(Seconds > sbt.expiry) /\ ~sbt.revoked

(* verify_sbt_for_circuit, _action and _circuit_and_action, and is_sbt_valid
   if neither is given. *)
VerifySbt(sbt, circuit, action) ==
  /\ IsValid(sbt)
  /\ circuit \in {Any, sbt.circuit} /\ action \in {Any, sbt.action}

(* The assert functions of the same names. *)
AssertAbort(sbt, circuit, action) ==
  IF IsExpired(sbt) THEN "ESBTExpired"
  ELSE IF sbt.revoked THEN "ESBTRevoked"
  ELSE IF circuit \notin {Any, sbt.circuit} THEN "EInvalidCircuit"
  ELSE IF action \notin {Any, sbt.action} THEN "EInvalidAction"
  ELSE "Ok"

-----------------------------------------------------------------------------
(* Properties *)

(* Every object has its type, and the capability's dynamic fields are the keys
   of the SBTs minted, none of them beyond a u256. *)
TypeOK ==
  /\ capOwner \in holders /\ holders \subseteq Addresses
  /\ spent = {sbts[i].nullifier + sbts[i].circuit : i \in DOMAIN sbts}
  /\ spent \subseteq 0 .. MaxU256
  /\ \A i \in DOMAIN sbts : sbts[i] \in SoulBoundTokens
  /\ clockMs \in Nat

(* A nullifier is good for one SBT of a circuit, whoever holds the capability
   meanwhile and whatever expires or is revoked. *)
NullifierOncePerCircuit ==
  \A i, j \in DOMAIN sbts :
    sbts[i].nullifier = sbts[j].nullifier /\ sbts[i].circuit = sbts[j].circuit
      => i = j

(* An SBT that has become invalid, by expiry or by revocation, never passes
   is_sbt_valid again, and is not touched by later mints. *)
InvalidForGood ==
  [][\A i \in DOMAIN sbts :
       /\ ~IsValid(sbts[i]) => ~IsValid(sbts[i])'
       /\ [sbts[i] EXCEPT !.revoked = FALSE]
            = [sbts'[i] EXCEPT !.revoked = FALSE]]_vars

(* No SBT is revoked unless its own recipient has held the capability: the
   minter cannot name an object of somebody else's as an input. *)
RevokedOnlyByHolders ==
  \A i \in DOMAIN sbts : sbts[i].revoked => sbts[i].recipient \in holders

(* The functions that abort and the functions that return a Boolean decide
   alike, for every expectation and at every time, although each family looks
   at the clock and at the SBT for itself. *)
ChecksAgree ==
  \A i \in DOMAIN sbts, circuit \in Circuits \cup {Any},
     action \in Actions \cup {Any} :
    VerifySbt(sbts[i], circuit, action)
      <=> AssertAbort(sbts[i], circuit, action) = "Ok"
=============================================================================
