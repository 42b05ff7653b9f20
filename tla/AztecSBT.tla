------------------------------- MODULE AztecSBT -------------------------------
(***************************************************************************)
(* The Noir contract CleanHandsSBTContract                                 *)
(* (contracts/aztec/clean_hands_sbt_contract): SBTs numbered from 0, found *)
(* by recipient and by nullifier.  All its functions are public, so that   *)
(* they run one at a time; a failed assertion leaves everything as it was. *)
(*                                                                         *)
(* Storage that nobody has written reads as zeros.                         *)
(***************************************************************************)
EXTENDS Integers

CONSTANTS
  Addresses,       \* addresses, the zero address among them
  Zero,            \* the zero address
  Nullifiers,      \* action nullifiers, which may be 0 as any Field may
  Claims,          \* pairs of an action_id and an expiry
  NoClaim,         \* the pair of zeros
  MaxSbts          \* bound: SBTs

ASSUME AztecBounds ==
  /\ Zero \in Addresses
  /\ Nullifiers \subseteq Nat /\ 0 \in Nullifiers
  /\ MaxSbts \in Nat

VARIABLES
  owner,               \* the only one who mints and revokes
  sbtCount,            \* sbt_count
  sbts,                \* what has been written at which id
  addressToSbtId,      \* a PublicImmutable of each address: those initialized
  nullifierToSbtId     \* likewise of each nullifier

vars == <<owner, sbtCount, sbts, addressToSbtId, nullifierToSbtId>>

-----------------------------------------------------------------------------
(* Storage *)

(* The ids that revoke may be called with: any Field, minted or not. *)
Ids == 0..MaxSbts

SBTs == [recipient: Addresses, claim: Claims \cup {NoClaim},
         nullifier: Nullifiers, revoked: BOOLEAN, minter: Addresses]

EmptySBT == [recipient |-> Zero, claim |-> NoClaim, nullifier |-> 0,
             revoked |-> FALSE, minter |-> Zero]

Read(map, key, zero) == IF key \in DOMAIN map THEN map[key] ELSE zero

Write(map, key, value) ==
  [k \in DOMAIN map \cup {key} |-> IF k = key THEN value ELSE map[k]]

GetSbtById(id) == Read(sbts, id, EmptySBT)

GetSbtByAddress(a) == GetSbtById(Read(addressToSbtId, a, 0))

GetSbtByNullifier(n) == GetSbtById(Read(nullifierToSbtId, n, 0))

-----------------------------------------------------------------------------
(* The contract's functions *)

Senders == Addresses \ {Zero}

SetOwner(sender, newOwner) ==
  /\ sender = owner
  /\ owner' = newOwner
  /\ UNCHANGED <<sbtCount, sbts, addressToSbtId, nullifierToSbtId>>

(* Fault: the ids are kept as PublicMutable and written, not initialized. *)
MintAssertMutable(recipient, n) ==
  IF Read(addressToSbtId, recipient, 0) # 0 THEN "recipient already has an SBT"
  ELSE IF Read(nullifierToSbtId, n, 0) # 0 THEN "nullifier already exists"
  ELSE "Ok"

(* The two assertions cannot tell the id 0 from no id; that `initialize`
   refuses a second time makes up for it. *)
MintAssert(recipient, n) ==
  IF Read(addressToSbtId, recipient, 0) # 0 THEN "recipient already has an SBT"
  ELSE IF Read(nullifierToSbtId, n, 0) # 0 THEN "nullifier already exists"
  ELSE IF recipient \in DOMAIN addressToSbtId \/ n \in DOMAIN nullifierToSbtId
       THEN "PublicImmutable already initialized"
  ELSE "Ok"

Minted(sender, recipient, n, claim) ==
  [recipient |-> recipient, claim |-> claim, nullifier |-> n,
   revoked |-> FALSE, minter |-> sender]

(* Fault: the counter is not written. *)
MintUncounted(sender, recipient, n, claim) ==
  /\ sender = owner
  /\ MintAssert(recipient, n) = "Ok" /\ sbtCount < MaxSbts
  /\ sbts' = Write(sbts, sbtCount, Minted(sender, recipient, n, claim))
  /\ addressToSbtId' = Write(addressToSbtId, recipient, sbtCount)
  /\ nullifierToSbtId' = Write(nullifierToSbtId, n, sbtCount)
  /\ UNCHANGED <<owner, sbtCount>>

(* Fault: the nullifier's id is read after the counter is written. *)
MintMisfiled(sender, recipient, n, claim) ==
  /\ sender = owner
  /\ MintAssert(recipient, n) = "Ok" /\ sbtCount < MaxSbts
  /\ sbts' = Write(sbts, sbtCount, Minted(sender, recipient, n, claim))
  /\ addressToSbtId' = Write(addressToSbtId, recipient, sbtCount)
  /\ sbtCount' = sbtCount + 1
  /\ nullifierToSbtId' = Write(nullifierToSbtId, n, sbtCount')
  /\ UNCHANGED owner

Mint(sender, recipient, n, claim) ==
  /\ sender = owner
  /\ MintAssert(recipient, n) = "Ok" /\ sbtCount < MaxSbts
  /\ sbts' = Write(sbts, sbtCount, Minted(sender, recipient, n, claim))
  /\ addressToSbtId' = Write(addressToSbtId, recipient, sbtCount)
  /\ nullifierToSbtId' = Write(nullifierToSbtId, n, sbtCount)
  /\ sbtCount' = sbtCount + 1
  /\ UNCHANGED owner

(* Fault: the record that is written back names the caller as its minter. *)
RevokeReminted(sender, id) ==
  /\ sender = owner
  /\ sbts' = Write(sbts, id, [GetSbtById(id) EXCEPT !.revoked = TRUE,
                                                    !.minter = sender])
  /\ UNCHANGED <<owner, sbtCount, addressToSbtId, nullifierToSbtId>>

(* Also of an id that is not minted yet: mint will write over it. *)
Revoke(sender, id) ==
  /\ sender = owner
  /\ sbts' = Write(sbts, id, [GetSbtById(id) EXCEPT !.revoked = TRUE])
  /\ UNCHANGED <<owner, sbtCount, addressToSbtId, nullifierToSbtId>>

-----------------------------------------------------------------------------
Init ==
  /\ owner \in Addresses \ {Zero}
  /\ sbtCount = 0
  /\ sbts = [id \in {} |-> EmptySBT]
  /\ addressToSbtId = [a \in {} |-> 0]
  /\ nullifierToSbtId = [n \in {} |-> 0]

Next ==
  \E sender \in Senders :
    \/ \E newOwner \in Addresses : SetOwner(sender, newOwner)
    \/ \E recipient \in Addresses, n \in Nullifiers, claim \in Claims :
         Mint(sender, recipient, n, claim)
    \/ \E id \in Ids : Revoke(sender, id)

Spec == Init /\ [][Next]_vars

-----------------------------------------------------------------------------
(* Properties *)

MintedIds == {id \in Ids : id < sbtCount}

(* Every variable has its type; what is minted is stored, and whatever else
   is stored comes from revoking an id too early. *)
TypeOK ==
  /\ owner \in Addresses
  /\ sbtCount \in Ids
  /\ DOMAIN sbts \subseteq Ids /\ MintedIds \subseteq DOMAIN sbts
  /\ \A id \in DOMAIN sbts :
       /\ sbts[id] \in SBTs
       /\ id \notin MintedIds => sbts[id] = [EmptySBT EXCEPT !.revoked = TRUE]
  /\ DOMAIN addressToSbtId \subseteq Addresses
  /\ DOMAIN nullifierToSbtId \subseteq Nullifiers
  /\ \A a \in DOMAIN addressToSbtId : addressToSbtId[a] \in MintedIds
  /\ \A n \in DOMAIN nullifierToSbtId : nullifierToSbtId[n] \in MintedIds

(* No recipient and no nullifier ever gets a second SBT: not even those of
   SBT 0, whom both of mint's assertions (main.nr:50-51) let pass. *)
OneSbtEach ==
  \A i, j \in MintedIds : i # j =>
    /\ sbts[i].recipient # sbts[j].recipient
    /\ sbts[i].nullifier # sbts[j].nullifier

(* get_sbt_by_address and get_sbt_by_nullifier return the SBT of whom they are
   asked for, and for those who have none an SBT that names somebody else: SBT
   0, whoever has it, or the empty one, which names zero. *)
LookupsNameTheirOwner ==
  /\ \A i \in MintedIds :
       /\ GetSbtByAddress(sbts[i].recipient) = sbts[i]
       /\ GetSbtByNullifier(sbts[i].nullifier) = sbts[i]
  /\ \A a \in Addresses \ {Zero} : GetSbtByAddress(a).recipient = a =>
       \E i \in MintedIds : sbts[i].recipient = a
  /\ \A n \in Nullifiers \ {0} : GetSbtByNullifier(n).nullifier = n =>
       \E i \in MintedIds : sbts[i].nullifier = n

(* An SBT keeps what it was minted with, the minter too (sbt.nr:18: "in case
   we change it and need to revoke all SBTs minted by a specific minter"), and
   a revoked one stays revoked: no mint writes over it, and no owner takes the
   revocation back. *)
SbtsOnlyRevoked ==
  [][\A i \in MintedIds :
       /\ sbts[i].revoked => sbts'[i].revoked
       /\ [sbts[i] EXCEPT !.revoked = FALSE]
            = [sbts'[i] EXCEPT !.revoked = FALSE]]_vars
=============================================================================
