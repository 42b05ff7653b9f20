---------------------------- MODULE AztecSBTProofs ----------------------------
(***************************************************************************)
(* Theorems about AztecSBT.  The invariant says that the two indexes and   *)
(* the SBTs agree in both directions; that a key is not initialized twice  *)
(* then gives every recipient and nullifier one SBT.                       *)
(***************************************************************************)
EXTENDS AztecSBT, TLAPS

IndexesAgree ==
  /\ \A i \in MintedIds :
       /\ sbts[i].recipient \in DOMAIN addressToSbtId
       /\ addressToSbtId[sbts[i].recipient] = i
       /\ sbts[i].nullifier \in DOMAIN nullifierToSbtId
       /\ nullifierToSbtId[sbts[i].nullifier] = i
  /\ \A a \in DOMAIN addressToSbtId : sbts[addressToSbtId[a]].recipient = a
  /\ \A n \in DOMAIN nullifierToSbtId : sbts[nullifierToSbtId[n]].nullifier = n

IInv == TypeOK /\ IndexesAgree

(* A mint changes no SBT that was minted and adds one under a new id, whose
   recipient and nullifier were in neither index. *)
MintEffect(sender, recipient, n, claim) ==
  /\ sbtCount \in Ids /\ sbtCount + 1 \in Ids
  /\ MintedIds' = MintedIds \cup {sbtCount} /\ sbtCount \notin MintedIds
  /\ owner' = owner /\ sbtCount' = sbtCount + 1
  /\ DOMAIN sbts' = DOMAIN sbts \cup {sbtCount}
  /\ sbts'[sbtCount] = Minted(sender, recipient, n, claim)
  /\ \A i \in DOMAIN sbts : i # sbtCount => sbts'[i] = sbts[i]
  /\ recipient \notin DOMAIN addressToSbtId
  /\ DOMAIN addressToSbtId' = DOMAIN addressToSbtId \cup {recipient}
  /\ addressToSbtId'[recipient] = sbtCount
  /\ \A a \in DOMAIN addressToSbtId : addressToSbtId'[a] = addressToSbtId[a]
  /\ n \notin DOMAIN nullifierToSbtId
  /\ DOMAIN nullifierToSbtId' = DOMAIN nullifierToSbtId \cup {n}
  /\ nullifierToSbtId'[n] = sbtCount
  /\ \A m \in DOMAIN nullifierToSbtId :
       nullifierToSbtId'[m] = nullifierToSbtId[m]

LEMMA MintFacts ==
  ASSUME IInv, NEW sender \in Senders, NEW recipient \in Addresses,
         NEW n \in Nullifiers, NEW claim \in Claims,
         Mint(sender, recipient, n, claim)
  PROVE  MintEffect(sender, recipient, n, claim)
<1>1. /\ sbtCount \in Ids /\ sbtCount < MaxSbts /\ sbtCount' = sbtCount + 1
      /\ owner' = owner
  BY DEF IInv, TypeOK, Mint
<1>2. /\ sbtCount + 1 \in Ids
      /\ MintedIds' = MintedIds \cup {sbtCount} /\ sbtCount \notin MintedIds
  BY <1>1, AztecBounds DEF Ids, MintedIds
<1>3. recipient \notin DOMAIN addressToSbtId /\ n \notin DOMAIN nullifierToSbtId
  BY DEF Mint, MintAssert
<1>4. /\ sbts' = Write(sbts, sbtCount, Minted(sender, recipient, n, claim))
      /\ addressToSbtId' = Write(addressToSbtId, recipient, sbtCount)
      /\ nullifierToSbtId' = Write(nullifierToSbtId, n, sbtCount)
  BY DEF Mint
<1>5. /\ DOMAIN sbts' = DOMAIN sbts \cup {sbtCount}
      /\ sbts'[sbtCount] = Minted(sender, recipient, n, claim)
      /\ \A i \in DOMAIN sbts : i # sbtCount => sbts'[i] = sbts[i]
  BY <1>4 DEF Write
<1>6. /\ DOMAIN addressToSbtId' = DOMAIN addressToSbtId \cup {recipient}
      /\ addressToSbtId'[recipient] = sbtCount
      /\ \A a \in DOMAIN addressToSbtId : addressToSbtId'[a] = addressToSbtId[a]
  BY <1>3, <1>4 DEF Write
<1>7. /\ DOMAIN nullifierToSbtId' = DOMAIN nullifierToSbtId \cup {n}
      /\ nullifierToSbtId'[n] = sbtCount
      /\ \A m \in DOMAIN nullifierToSbtId :
           nullifierToSbtId'[m] = nullifierToSbtId[m]
  BY <1>3, <1>4 DEF Write
<1>8. QED
  BY <1>1, <1>2, <1>3, <1>5, <1>6, <1>7 DEF MintEffect

LEMMA MintStep ==
  ASSUME IInv, NEW sender \in Senders, NEW recipient \in Addresses,
         NEW n \in Nullifiers, NEW claim \in Claims,
         Mint(sender, recipient, n, claim)
  PROVE  IInv'
<1> DEFINE sbt == Minted(sender, recipient, n, claim)
<1>0. MintEffect(sender, recipient, n, claim)
  BY MintFacts
<1>1. sbt \in SBTs /\ sbt.recipient = recipient /\ sbt.nullifier = n
  BY DEF Minted, SBTs, Senders
<1> HIDE DEF sbt
<1>2. TypeOK'
  <2>1. owner' \in Addresses /\ sbtCount' \in Ids
    BY <1>0 DEF MintEffect, IInv, TypeOK
  <2>2. DOMAIN sbts' \subseteq Ids /\ MintedIds' \subseteq DOMAIN sbts'
    BY <1>0 DEF MintEffect, IInv, TypeOK
  <2>3. ASSUME NEW id \in DOMAIN sbts'
        PROVE  /\ sbts'[id] \in SBTs
               /\ id \notin MintedIds' =>
                    sbts'[id] = [EmptySBT EXCEPT !.revoked = TRUE]
    BY <1>0, <1>1 DEF MintEffect, IInv, TypeOK, sbt
  <2>4. /\ DOMAIN addressToSbtId' \subseteq Addresses
        /\ \A a \in DOMAIN addressToSbtId' : addressToSbtId'[a] \in MintedIds'
    BY <1>0 DEF MintEffect, IInv, TypeOK
  <2>5. /\ DOMAIN nullifierToSbtId' \subseteq Nullifiers
        /\ \A m \in DOMAIN nullifierToSbtId' :
             nullifierToSbtId'[m] \in MintedIds'
    BY <1>0 DEF MintEffect, IInv, TypeOK
  <2>6. QED
    BY <2>1, <2>2, <2>3, <2>4, <2>5 DEF TypeOK
<1>3. \A i \in MintedIds : i \in DOMAIN sbts /\ i # sbtCount /\ sbts'[i] = sbts[i]
  BY <1>0 DEF MintEffect, IInv, TypeOK
<1>4. sbts'[sbtCount] = sbt
  BY <1>0 DEF MintEffect, sbt
<1>5. ASSUME NEW i \in MintedIds'
      PROVE  /\ sbts'[i].recipient \in DOMAIN addressToSbtId'
             /\ addressToSbtId'[sbts'[i].recipient] = i
             /\ sbts'[i].nullifier \in DOMAIN nullifierToSbtId'
             /\ nullifierToSbtId'[sbts'[i].nullifier] = i
  <2>1. CASE i = sbtCount
    BY <1>0, <1>1, <1>4, <2>1 DEF MintEffect
  <2>2. CASE i \in MintedIds
    BY <1>0, <1>3, <2>2 DEF MintEffect, IInv, IndexesAgree
  <2>3. QED
    BY <1>0, <2>1, <2>2 DEF MintEffect
<1>6. \A a \in DOMAIN addressToSbtId' : sbts'[addressToSbtId'[a]].recipient = a
  BY <1>0, <1>1, <1>3, <1>4 DEF MintEffect, IInv, TypeOK, IndexesAgree
<1>7. \A m \in DOMAIN nullifierToSbtId' :
        sbts'[nullifierToSbtId'[m]].nullifier = m
  BY <1>0, <1>1, <1>3, <1>4 DEF MintEffect, IInv, TypeOK, IndexesAgree
<1>8. QED
  BY <1>2, <1>5, <1>6, <1>7 DEF IInv, IndexesAgree

(* A revocation sets one flag: of an SBT, or of zeros that no index leads
   to. *)
RevokeEffect(id) ==
  /\ UNCHANGED <<owner, sbtCount, addressToSbtId, nullifierToSbtId>>
  /\ MintedIds' = MintedIds
  /\ DOMAIN sbts' = DOMAIN sbts \cup {id}
  /\ sbts'[id] = [GetSbtById(id) EXCEPT !.revoked = TRUE]
  /\ \A i \in DOMAIN sbts : i # id => sbts'[i] = sbts[i]
  /\ id \in MintedIds => GetSbtById(id) = sbts[id] /\ sbts[id] \in SBTs
  /\ id \notin MintedIds => sbts'[id] = [EmptySBT EXCEPT !.revoked = TRUE]

LEMMA RevokeFacts ==
  ASSUME IInv, NEW sender \in Senders, NEW id \in Ids, Revoke(sender, id)
  PROVE  RevokeEffect(id)
<1>1. /\ UNCHANGED <<owner, sbtCount, addressToSbtId, nullifierToSbtId>>
      /\ sbts' = Write(sbts, id, [GetSbtById(id) EXCEPT !.revoked = TRUE])
  BY DEF Revoke
<1>2. MintedIds' = MintedIds
  BY <1>1 DEF MintedIds
<1>3. /\ DOMAIN sbts' = DOMAIN sbts \cup {id}
      /\ sbts'[id] = [GetSbtById(id) EXCEPT !.revoked = TRUE]
      /\ \A i \in DOMAIN sbts : i # id => sbts'[i] = sbts[i]
  BY <1>1 DEF Write
<1>4. id \in MintedIds => GetSbtById(id) = sbts[id] /\ sbts[id] \in SBTs
  BY DEF IInv, TypeOK, GetSbtById, Read
<1>5. id \notin MintedIds => sbts'[id] = [EmptySBT EXCEPT !.revoked = TRUE]
  <2>1. CASE id \in DOMAIN sbts
    BY <1>3, <2>1 DEF IInv, TypeOK, GetSbtById, Read, EmptySBT
  <2>2. CASE id \notin DOMAIN sbts
    BY <1>3, <2>2 DEF GetSbtById, Read
  <2>3. QED
    BY <2>1, <2>2
<1>6. QED
  BY <1>1, <1>2, <1>3, <1>4, <1>5 DEF RevokeEffect

LEMMA RevokeKeeps ==
  ASSUME IInv, NEW id \in Ids, RevokeEffect(id), NEW i \in MintedIds
  PROVE  /\ sbts'[i].recipient = sbts[i].recipient
         /\ sbts'[i].nullifier = sbts[i].nullifier
         /\ sbts'[i] \in SBTs
         /\ sbts[i].revoked => sbts'[i].revoked
         /\ [sbts[i] EXCEPT !.revoked = FALSE] = [sbts'[i] EXCEPT !.revoked = FALSE]
<1>1. i \in DOMAIN sbts /\ sbts[i] \in SBTs
  BY DEF IInv, TypeOK
<1>2. CASE i # id
  BY <1>1, <1>2 DEF RevokeEffect
<1>3. CASE i = id
  <2>1. sbts'[i] = [sbts[i] EXCEPT !.revoked = TRUE]
    BY <1>3 DEF RevokeEffect
  <2>2. QED
    BY <1>1, <2>1 DEF SBTs
<1>4. QED
  BY <1>2, <1>3

LEMMA RevokeStep ==
  ASSUME IInv, NEW id \in Ids, RevokeEffect(id)
  PROVE  IInv'
<1>1. [EmptySBT EXCEPT !.revoked = TRUE] \in SBTs
  BY AztecBounds DEF EmptySBT, SBTs
<1>2. \A i \in MintedIds :
        /\ sbts'[i].recipient = sbts[i].recipient
        /\ sbts'[i].nullifier = sbts[i].nullifier
        /\ sbts'[i] \in SBTs
  BY RevokeKeeps
<1>3. ASSUME NEW j \in DOMAIN sbts'
      PROVE  /\ sbts'[j] \in SBTs
             /\ j \notin MintedIds' =>
                  sbts'[j] = [EmptySBT EXCEPT !.revoked = TRUE]
  <2>1. CASE j \in MintedIds
    BY <1>2, <2>1 DEF RevokeEffect
  <2>2. CASE j \notin MintedIds
    BY <1>1, <2>2 DEF IInv, TypeOK, RevokeEffect
  <2>3. QED
    BY <2>1, <2>2
<1>4. TypeOK'
  BY <1>3 DEF IInv, TypeOK, RevokeEffect
<1>5. IndexesAgree'
  BY <1>2 DEF IInv, TypeOK, IndexesAgree, RevokeEffect
<1>6. QED
  BY <1>4, <1>5 DEF IInv

LEMMA IInvStep == IInv /\ [Next]_vars => IInv'
<1> SUFFICES ASSUME IInv, [Next]_vars PROVE IInv'
  OBVIOUS
<1>1. ASSUME NEW sender \in Senders, NEW newOwner \in Addresses,
             SetOwner(sender, newOwner)
      PROVE  IInv'
  BY <1>1 DEF IInv, TypeOK, IndexesAgree, MintedIds, SetOwner
<1>2. CASE UNCHANGED vars
  BY <1>2 DEF IInv, TypeOK, IndexesAgree, MintedIds, vars
<1>3. QED
  BY <1>1, <1>2, MintStep, RevokeFacts, RevokeStep DEF Next

LEMMA IInvInit == Init => IInv
BY AztecBounds DEF Init, IInv, TypeOK, IndexesAgree, MintedIds, Ids

(* The inductive invariant holds in every reachable state. *)
THEOREM Inductive == Spec => []IInv
BY IInvInit, IInvStep, PTL DEF Spec

(* The storage is well typed: what is minted is stored, and each id in an
   index is a minted one. *)
THEOREM TypeCorrect == Spec => []TypeOK
<1>1. IInv => TypeOK
  BY DEF IInv
<1>2. QED
  BY <1>1, Inductive, PTL

(* `mint` gives no recipient and no nullifier a second SBT, although its own
   assertions do not see that SBT 0 is there. *)
THEOREM OneEach == Spec => []OneSbtEach
<1>1. IInv => OneSbtEach
  BY DEF IInv, IndexesAgree, OneSbtEach
<1>2. QED
  BY <1>1, Inductive, PTL

(* The getters return the SBT of whom they are asked for, or one that names
   somebody else. *)
THEOREM LookupsRight == Spec => []LookupsNameTheirOwner
<1>1. IInv => LookupsNameTheirOwner
  <2> SUFFICES ASSUME IInv PROVE LookupsNameTheirOwner
    OBVIOUS
  <2>1. ASSUME NEW i \in MintedIds
        PROVE  /\ GetSbtByAddress(sbts[i].recipient) = sbts[i]
               /\ GetSbtByNullifier(sbts[i].nullifier) = sbts[i]
    BY DEF IInv, TypeOK, IndexesAgree, GetSbtByAddress, GetSbtByNullifier,
           GetSbtById, Read
  <2>2. GetSbtById(0) # EmptySBT =>
          0 \in MintedIds \/ GetSbtById(0) = [EmptySBT EXCEPT !.revoked = TRUE]
    BY DEF IInv, TypeOK, GetSbtById, Read
  <2>3. 0 \in MintedIds => GetSbtById(0) = sbts[0]
    BY DEF IInv, TypeOK, GetSbtById, Read
  <2>4. 0 \notin MintedIds =>
          GetSbtById(0).recipient = Zero /\ GetSbtById(0).nullifier = 0
    BY <2>2 DEF EmptySBT
  <2>5. ASSUME NEW a \in Addresses \ {Zero}, GetSbtByAddress(a).recipient = a
        PROVE  \E i \in MintedIds : sbts[i].recipient = a
    <3>1. CASE a \in DOMAIN addressToSbtId
      BY <3>1 DEF IInv, TypeOK, IndexesAgree
    <3>2. CASE a \notin DOMAIN addressToSbtId
      BY <2>3, <2>4, <2>5, <3>2 DEF GetSbtByAddress, Read
    <3>3. QED
      BY <3>1, <3>2
  <2>6. ASSUME NEW n \in Nullifiers \ {0}, GetSbtByNullifier(n).nullifier = n
        PROVE  \E i \in MintedIds : sbts[i].nullifier = n
    <3>1. CASE n \in DOMAIN nullifierToSbtId
      BY <3>1 DEF IInv, TypeOK, IndexesAgree
    <3>2. CASE n \notin DOMAIN nullifierToSbtId
      BY <2>3, <2>4, <2>6, <3>2 DEF GetSbtByNullifier, Read
    <3>3. QED
      BY <3>1, <3>2
  <2>7. QED
    BY <2>1, <2>5, <2>6 DEF LookupsNameTheirOwner
<1>2. QED
  BY <1>1, Inductive, PTL

(* No step takes a revocation back, or changes anything else in an SBT that
   is minted. *)
THEOREM OnlyRevoked == Spec => SbtsOnlyRevoked
<1> DEFINE Kept ==
      \A i \in MintedIds :
        /\ sbts[i].revoked => sbts'[i].revoked
        /\ [sbts[i] EXCEPT !.revoked = FALSE]
             = [sbts'[i] EXCEPT !.revoked = FALSE]
<1>1. IInv /\ [Next]_vars => [Kept]_vars
  <2> SUFFICES ASSUME IInv, Next PROVE Kept
    OBVIOUS
  <2>1. ASSUME NEW sender \in Senders, NEW newOwner \in Addresses,
               SetOwner(sender, newOwner)
        PROVE  Kept
    BY <2>1 DEF SetOwner
  <2>2. ASSUME NEW sender \in Senders, NEW recipient \in Addresses,
               NEW n \in Nullifiers, NEW claim \in Claims,
               Mint(sender, recipient, n, claim)
        PROVE  Kept
    <3>1. MintEffect(sender, recipient, n, claim)
      BY <2>2, MintFacts
    <3>2. \A i \in MintedIds : sbts'[i] = sbts[i]
      BY <3>1 DEF IInv, TypeOK, MintEffect
    <3>3. QED
      BY <3>2
  <2>3. ASSUME NEW sender \in Senders, NEW id \in Ids, Revoke(sender, id)
        PROVE  Kept
    BY <2>3, RevokeFacts, RevokeKeeps
  <2>4. QED
    BY <2>1, <2>2, <2>3 DEF Next
<1>2. QED
  BY <1>1, Inductive, PTL DEF Spec, SbtsOnlyRevoked
=============================================================================
