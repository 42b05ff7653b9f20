--------------------------- MODULE StellarSBTProofs ---------------------------
(***************************************************************************)
(* Theorems about StellarSBT.  What keeps a nullifier spent is that its    *)
(* entry is written again by revoke_sbt with the id that it has already:   *)
(* the invariant says that the nullifier stored with an SBT leads to the   *)
(* SBT's own id.  The last parts are about times to live, and rest on the  *)
(* arithmetic of whole days.                                               *)
(***************************************************************************)
EXTENDS StellarSBT, TLAPS

Mints == [id: Ids, nullifier: Nullifiers, at: Nat, expiry: Expirations]

(* The entries for a nullifier and for the SBT that was minted with it. *)
EntriesAgree ==
  \A id \in Ids : sbts[id] # NoSBT => ids[sbts[id].nullifier] = id

IInv ==
  /\ admin \in Accounts
  /\ sbts \in [Ids -> SBTs \cup {NoSBT}]
  /\ ids \in [Nullifiers -> Ids \cup {NoId}]
  /\ seq \in Nat
  /\ minted \subseteq Mints
  /\ EntriesAgree
  /\ NullifierSpentOnce

(* A mint spends a nullifier that no mint has spent: an entry for it would
   exist. *)
LEMMA MintStep ==
  ASSUME IInv, NEW auths \in SUBSET Accounts, NEW claimed \in Accounts,
         NEW id \in Ids, NEW expiration \in Expirations, NEW n \in Nullifiers,
         NEW values \in Values,
         MintSbt(auths, claimed, id, expiration, n, values)
  PROVE  IInv'
<1> DEFINE sbt == [expiry |-> expiration, nullifier |-> n, values |-> values,
                   revoked |-> FALSE, minter |-> claimed]
           mint == [id |-> id, nullifier |-> n, at |-> seq,
                    expiry |-> expiration]
<1>1. /\ sbts' = [sbts EXCEPT ![id] = sbt] /\ ids' = [ids EXCEPT ![n] = id]
      /\ minted' = minted \cup {mint} /\ admin' = admin /\ seq' = seq
  BY DEF MintSbt
<1>2. ids[n] = NoId
  BY DEF MintSbt, MintError
<1>3. sbt \in SBTs /\ sbt.nullifier = n
  BY DEF SBTs
<1>4. mint \in Mints /\ mint.nullifier = n /\ mint.id = id
  BY DEF Mints, IInv
<1> HIDE DEF sbt, mint
<1>5. /\ sbts' \in [Ids -> SBTs \cup {NoSBT}]
      /\ ids' \in [Nullifiers -> Ids \cup {NoId}]
      /\ minted' \subseteq Mints
  BY <1>1, <1>3, <1>4 DEF IInv
<1>6. \A m \in minted : m.id \in Ids /\ m.nullifier \in Nullifiers
  BY DEF IInv, Mints
<1>7. \A m \in minted : m.nullifier # n
  BY <1>2, <1>6, StellarEmpty DEF IInv, NullifierSpentOnce
<1>8. NullifierSpentOnce'
  <2>1. \A m \in minted' : ids'[m.nullifier] = m.id
    BY <1>1, <1>4, <1>6, <1>7 DEF IInv, NullifierSpentOnce
  <2>2. \A m1, m2 \in minted' : m1.nullifier = m2.nullifier => m1 = m2
    BY <1>1, <1>4, <1>7 DEF IInv, NullifierSpentOnce
  <2>3. QED
    BY <2>1, <2>2 DEF NullifierSpentOnce
<1>9. EntriesAgree'
  <2>1. \A i \in Ids : sbts[i] # NoSBT =>
          sbts[i].nullifier \in Nullifiers /\ sbts[i].nullifier # n
    <3>1. \A i \in Ids : sbts[i] # NoSBT => sbts[i].nullifier \in Nullifiers
      BY DEF IInv, SBTs
    <3>2. QED
      BY <1>2, <3>1, StellarEmpty DEF IInv, EntriesAgree
  <2>2. \A i \in Ids \ {id} : sbts'[i] = sbts[i]
    BY <1>1 DEF IInv
  <2>3. \A i \in Ids \ {id} : sbts[i] # NoSBT =>
          ids'[sbts[i].nullifier] = ids[sbts[i].nullifier]
    BY <1>1, <2>1 DEF IInv
  <2>4. sbts'[id] = sbt /\ ids'[n] = id
    BY <1>1 DEF IInv
  <2>5. QED
    BY <1>3, <2>2, <2>3, <2>4 DEF IInv, EntriesAgree
<1>10. QED
  BY <1>1, <1>5, <1>8, <1>9 DEF IInv

(* A revocation writes the id that the nullifier's entry has already. *)
LEMMA RevokeStep ==
  ASSUME IInv, NEW auths \in SUBSET Accounts, NEW claimed \in Accounts,
         NEW id \in Ids, RevokeSbt(auths, claimed, id)
  PROVE  IInv'
<1> DEFINE sbt == [sbts[id] EXCEPT !.revoked = TRUE]
<1>1. sbts[id] # NoSBT
  BY DEF RevokeSbt, RevokeError, GetSbtError
<1>2. sbts[id] \in SBTs /\ ids[sbts[id].nullifier] = id
  BY <1>1 DEF IInv, EntriesAgree
<1>3. /\ sbt \in SBTs /\ sbt.nullifier = sbts[id].nullifier
      /\ sbt.nullifier \in Nullifiers
  BY <1>2 DEF SBTs
<1>4. /\ sbts' = [sbts EXCEPT ![id] = sbt]
      /\ ids' = [ids EXCEPT ![sbts[id].nullifier] = id]
      /\ admin' = admin /\ seq' = seq /\ minted' = minted
  BY DEF RevokeSbt
<1> HIDE DEF sbt
<1>5. ids' = ids
  BY <1>2, <1>3, <1>4 DEF IInv
<1>6. /\ sbts' \in [Ids -> SBTs \cup {NoSBT}]
      /\ \A i \in Ids : sbts'[i] = IF i = id THEN sbt ELSE sbts[i]
  BY <1>3, <1>4 DEF IInv
<1>7. EntriesAgree'
  BY <1>2, <1>3, <1>5, <1>6 DEF IInv, EntriesAgree
<1>8. NullifierSpentOnce'
  BY <1>4, <1>5 DEF IInv, NullifierSpentOnce
<1>9. QED
  BY <1>4, <1>5, <1>6, <1>7, <1>8 DEF IInv

(* The steps that write no SBT and no nullifier. *)
LEMMA QuietStep ==
  ASSUME IInv, UNCHANGED <<sbts, ids, minted>>, admin' \in Accounts, seq' \in Nat
  PROVE  IInv'
BY DEF IInv, EntriesAgree, NullifierSpentOnce

LEMMA IInvStep == IInv /\ [Next]_vars => IInv'
<1> SUFFICES ASSUME IInv, [Next]_vars PROVE IInv'
  OBVIOUS
<1>1. ASSUME NEW auths \in SUBSET Accounts, NEW claimed \in Accounts,
             NEW new \in Accounts, SetAdmin(auths, claimed, new)
      PROVE  IInv'
  BY <1>1, QuietStep DEF SetAdmin, IInv
<1>2. CASE CloseLedger
  BY <1>2, QuietStep DEF CloseLedger, IInv
<1>3. ASSUME NEW key \in Keys, Restore(key) PROVE IInv'
  BY <1>3, QuietStep DEF Restore, IInv
<1>4. CASE UNCHANGED vars
  BY <1>4, QuietStep DEF vars, IInv
<1>5. QED
  BY <1>1, <1>2, <1>3, <1>4, MintStep, RevokeStep DEF Next

LEMMA IInvInit == Init => IInv
BY DEF Init, IInv, EntriesAgree, NullifierSpentOnce

(* The inductive invariant holds in every reachable state. *)
THEOREM Inductive == Spec => []IInv
BY IInvInit, IInvStep, PTL DEF Spec

(* A nullifier that mint_sbt has stored is spent for good, whatever is
   revoked, archived and restored. *)
THEOREM SpentOnce == Spec => []NullifierSpentOnce
<1>1. IInv => NullifierSpentOnce
  BY DEF IInv
<1>2. QED
  BY <1>1, Inductive, PTL

-----------------------------------------------------------------------------
(* Times to live *)

TtlOK ==
  /\ liveUntil \in [Keys -> Nat]
  /\ \A key \in Keys : liveUntil[key] > 0 => Stored(key)

TInv == IInv /\ TtlOK

(* The time that _calc_sbt_ttl_params extends an entry to is a number. *)
LEMMA BumpTyped ==
  ASSUME seq \in Nat, NEW expiration \in Expirations
  PROVE  SbtBumpAmount(expiration) \in Int
<1>1. /\ DayInLedgers \in Nat \ {0} /\ LedgerSeconds \in Nat \ {0}
      /\ expiration \in Nat
  BY StellarBounds
<1>2. seq * LedgerSeconds \in Nat
  BY <1>1
<1>3. DayInLedgers * LedgerSeconds \in Nat /\ DayInLedgers * LedgerSeconds > 0
  BY <1>1
<1>4. DaysUntilExpiry(expiration) \in Int
  <2> DEFINE d == DayInLedgers * LedgerSeconds
             t == seq * LedgerSeconds
  <2>1. d \in Nat /\ d > 0 /\ t \in Nat
    BY <1>2, <1>3
  <2>2. DaysUntilExpiry(expiration) = (expiration - t) \div d
    BY DEF DaysUntilExpiry, Timestamp, SecondsInDay
  <2> HIDE DEF d, t
  <2>3. QED
    BY <1>1, <2>1, <2>2
<1>5. QED
  BY <1>1, <1>4 DEF SbtBumpAmount

LEMMA ExtendedTyped ==
  ASSUME seq \in Nat, NEW until \in Nat, NEW threshold, NEW extendTo \in Int
  PROVE  Extended(until, threshold, extendTo) \in Nat
BY StellarBounds DEF Extended, AtMost

(* What exists goes on existing. *)
LEMMA StoredGrows ==
  ASSUME \A id \in Ids : sbts[id] # NoSBT => sbts'[id] # NoSBT,
         \A n \in Nullifiers : ids[n] # NoId => ids'[n] # NoId,
         NEW key, Stored(key)
  PROVE  Stored(key)'
BY DEF Stored, Instance, SBTKey, NullifierKey

(* Storing and extending the two entries of an SBT. *)
LEMMA SbtTtlsStep ==
  ASSUME TInv, NEW id \in Ids, NEW n \in Nullifiers,
         NEW expiration \in Expirations,
         liveUntil' = SbtTtls(id, n, expiration),
         \A i \in Ids : sbts[i] # NoSBT => sbts'[i] # NoSBT,
         \A m \in Nullifiers : ids[m] # NoId => ids'[m] # NoId,
         sbts'[id] # NoSBT, ids'[n] # NoId
  PROVE  TtlOK'
<1>1. seq \in Nat /\ liveUntil \in [Keys -> Nat]
      /\ \A key \in Keys : liveUntil[key] > 0 => Stored(key)
  BY DEF TInv, IInv, TtlOK
<1>2. \A key \in Keys : Until(key) \in Nat
  BY <1>1, StellarBounds DEF Until
<1>3. SbtBumpAmount(expiration) \in Int
  BY <1>1, BumpTyped
<1>4. \A key \in Keys :
        Extended(Until(key), SbtLifetimeThreshold(expiration),
                 SbtBumpAmount(expiration)) \in Nat
  BY <1>1, <1>2, <1>3, ExtendedTyped
<1>5. liveUntil' \in [Keys -> Nat]
  BY <1>1, <1>4 DEF SbtTtls
<1>6. ASSUME NEW key \in Keys, liveUntil'[key] > 0
      PROVE  Stored(key)'
  <2>1. CASE key \in {SBTKey(id), NullifierKey(n)}
    BY <2>1 DEF Stored, SBTKey, NullifierKey
  <2>2. CASE key \notin {SBTKey(id), NullifierKey(n)}
    <3>1. liveUntil'[key] = liveUntil[key]
      BY <2>2 DEF SbtTtls
    <3>2. Stored(key)
      BY <1>1, <1>6, <3>1
    <3>3. QED
      BY <3>2, StoredGrows
  <2>3. QED
    BY <2>1, <2>2
<1>7. QED
  BY <1>5, <1>6 DEF TtlOK

LEMMA MintTtl ==
  ASSUME TInv, NEW auths \in SUBSET Accounts, NEW claimed \in Accounts,
         NEW id \in Ids, NEW expiration \in Expirations, NEW n \in Nullifiers,
         NEW values \in Values,
         MintSbt(auths, claimed, id, expiration, n, values)
  PROVE  TtlOK'
<1> DEFINE sbt == [expiry |-> expiration, nullifier |-> n, values |-> values,
                   revoked |-> FALSE, minter |-> claimed]
<1>1. /\ sbts' = [sbts EXCEPT ![id] = sbt] /\ ids' = [ids EXCEPT ![n] = id]
      /\ liveUntil' = SbtTtls(id, n, expiration)
  BY DEF MintSbt
<1>2. sbt \in SBTs
  BY DEF SBTs
<1> HIDE DEF sbt
<1>3. sbt # NoSBT /\ id # NoId
  BY <1>2, StellarEmpty
<1>4. /\ \A i \in Ids : sbts'[i] = IF i = id THEN sbt ELSE sbts[i]
      /\ \A m \in Nullifiers : ids'[m] = IF m = n THEN id ELSE ids[m]
  BY <1>1 DEF TInv, IInv
<1>5. QED
  BY <1>1, <1>3, <1>4, SbtTtlsStep

LEMMA RevokeTtl ==
  ASSUME TInv, NEW auths \in SUBSET Accounts, NEW claimed \in Accounts,
         NEW id \in Ids, RevokeSbt(auths, claimed, id)
  PROVE  TtlOK'
<1> DEFINE sbt == [sbts[id] EXCEPT !.revoked = TRUE]
           n == sbts[id].nullifier
           expiration == sbts[id].expiry
<1>1. sbts[id] # NoSBT
  BY DEF RevokeSbt, RevokeError, GetSbtError
<1>2. sbts[id] \in SBTs
  BY <1>1 DEF TInv, IInv
<1>3. sbt \in SBTs /\ n \in Nullifiers /\ expiration \in Expirations
  BY <1>2 DEF SBTs
<1>4. /\ sbts' = [sbts EXCEPT ![id] = sbt] /\ ids' = [ids EXCEPT ![n] = id]
      /\ liveUntil' = SbtTtls(id, n, expiration)
  BY DEF RevokeSbt
<1> HIDE DEF sbt, n, expiration
<1>5. sbt # NoSBT /\ id # NoId
  BY <1>3, StellarEmpty
<1>6. /\ \A i \in Ids : sbts'[i] = IF i = id THEN sbt ELSE sbts[i]
      /\ \A m \in Nullifiers : ids'[m] = IF m = n THEN id ELSE ids[m]
  BY <1>4 DEF TInv, IInv
<1>7. QED
  BY <1>3, <1>4, <1>5, <1>6, SbtTtlsStep

(* Extending or restoring one entry that exists. *)
LEMMA OneTtl ==
  ASSUME TInv, NEW key \in Keys, Stored(key), NEW until \in Nat,
         liveUntil' = [liveUntil EXCEPT ![key] = until],
         UNCHANGED <<sbts, ids>>
  PROVE  TtlOK'
<1>1. \A k \in Keys : Stored(k) => Stored(k)'
  BY DEF Stored
<1>2. \A k \in Keys : liveUntil'[k] = IF k = key THEN until ELSE liveUntil[k]
  BY DEF TInv, TtlOK
<1>3. QED
  BY <1>1, <1>2 DEF TInv, TtlOK

LEMMA TInvStep == TInv /\ [Next]_vars => TInv'
<1> SUFFICES ASSUME TInv, [Next]_vars PROVE TtlOK'
  BY IInvStep DEF TInv
<1>1. ASSUME NEW auths \in SUBSET Accounts, NEW claimed \in Accounts,
             NEW new \in Accounts, SetAdmin(auths, claimed, new)
      PROVE  TtlOK'
  <2> DEFINE until == Extended(liveUntil[Instance], YearInLedgers, YearInLedgers)
  <2>1. Instance \in Keys /\ Stored(Instance)
    BY DEF Keys, Stored
  <2>2. seq \in Nat /\ liveUntil[Instance] \in Nat /\ YearInLedgers \in Int
    BY <2>1, StellarBounds DEF TInv, IInv, TtlOK
  <2>3. until \in Nat
    BY <2>2, ExtendedTyped
  <2>4. liveUntil' = [liveUntil EXCEPT ![Instance] = until]
        /\ UNCHANGED <<sbts, ids>>
    BY <1>1 DEF SetAdmin, InstanceTtl
  <2>5. QED
    BY <2>1, <2>3, <2>4, OneTtl
<1>2. ASSUME UNCHANGED <<sbts, ids, liveUntil>> PROVE TtlOK'
  BY <1>2 DEF TInv, TtlOK, Stored
<1>3. ASSUME NEW key \in Keys, Restore(key) PROVE TtlOK'
  <2>1. seq + MinTTL - 1 \in Nat
    BY StellarBounds DEF TInv, IInv
  <2>2. QED
    BY <1>3, <2>1, OneTtl DEF Restore, Archived
<1>4. QED
  BY <1>1, <1>2, <1>3, MintTtl, RevokeTtl DEF Next, CloseLedger, vars

LEMMA TInvInit == Init => TInv
<1> SUFFICES ASSUME Init PROVE TtlOK
  BY IInvInit DEF TInv
<1>1. /\ MinTTL - 1 \in Nat /\ YearInLedgers \in Int /\ seq \in Nat
  BY StellarBounds DEF Init
<1>2. Extended(MinTTL - 1, YearInLedgers, YearInLedgers) \in Nat
  BY <1>1, ExtendedTyped
<1>3. QED
  BY <1>2 DEF Init, TtlOK, Stored

(* The contract's entries are well typed, and only entries that were stored
   have any time to live. *)
THEOREM TypeCorrect == Spec => []TypeOK
<1>1. TInv => TypeOK
  BY DEF TInv, IInv, TtlOK, TypeOK
<1>2. QED
  BY <1>1, TInvInit, TInvStep, PTL DEF Spec

-----------------------------------------------------------------------------
(* Revocation until the last day *)

LEMMA Quotient ==
  ASSUME NEW d \in Nat \ {0}, NEW a \in Int
  PROVE  /\ a \div d \in Int /\ d * (a \div d) \in Int
         /\ d * (a \div d) <= a /\ a < d * (a \div d) + d
<1> DEFINE q == a \div d
<1>1. q \in Int /\ a = d * q + (a % d) /\ a % d \in 0 .. d - 1
  OBVIOUS
<1> HIDE DEF q
<1>2. d * q \in Int
  BY <1>1
<1>3. d * q <= a /\ a < d * q + d
  BY <1>1, <1>2
<1>4. QED
  BY <1>1, <1>2, <1>3 DEF q

LEMMA DivMonotone ==
  ASSUME NEW d \in Nat \ {0}, NEW a \in Int, NEW b \in Int, a <= b
  PROVE  a \div d <= b \div d
<1> DEFINE q == a \div d
           p == b \div d
<1>1. q \in Int /\ p \in Int /\ d * q <= a /\ b < d * p + d
  BY Quotient
<1> HIDE DEF q, p
<1>2. d * q < d * (p + 1)
  BY <1>1
<1>3. q < p + 1
  BY <1>1, <1>2
<1>4. QED
  BY <1>1, <1>3 DEF q, p

LEMMA SecondsInDayPositive == SecondsInDay \in Nat \ {0}
BY StellarBounds DEF SecondsInDay

LEMMA TimesMonotone ==
  ASSUME NEW a \in Int, NEW b \in Int, NEW c \in Nat, a <= b
  PROVE  a * c <= b * c
<1> DEFINE k == b - a
<1>1. k \in Nat /\ b = a + k
  OBVIOUS
<1> HIDE DEF k
<1>2. b * c = a * c + k * c /\ k * c \in Nat /\ a * c \in Int
  BY <1>1
<1>3. QED
  BY <1>2

LEMMA TimestampTyped == ASSUME NEW s \in Nat PROVE s * LedgerSeconds \in Nat
BY StellarBounds

LEMMA BumpTypedNext ==
  ASSUME seq' \in Nat, NEW expiration \in Expirations
  PROVE  SbtBumpAmount(expiration)' \in Int
<1> DEFINE t == seq' * LedgerSeconds
<1>1. t \in Nat /\ expiration \in Nat /\ DayInLedgers \in Nat
  BY TimestampTyped, StellarBounds
<1>2. SbtBumpAmount(expiration)'
        = ((expiration - t) \div SecondsInDay) * DayInLedgers
  BY DEF SbtBumpAmount, DaysUntilExpiry, Timestamp
<1> HIDE DEF t
<1>3. (expiration - t) \div SecondsInDay \in Int
  BY <1>1, SecondsInDayPositive, Quotient
<1>4. QED
  BY <1>1, <1>2, <1>3

(* At a later time there are fewer whole days left. *)
LEMMA BumpShrinks ==
  ASSUME seq \in Nat, seq' \in Nat, seq <= seq', NEW expiration \in Expirations
  PROVE  SbtBumpAmount(expiration)' <= SbtBumpAmount(expiration)
<1>1. /\ DayInLedgers \in Nat /\ LedgerSeconds \in Nat /\ expiration \in Nat
  BY StellarBounds
<1> DEFINE now == seq * LedgerSeconds
           later == seq' * LedgerSeconds
           d == SecondsInDay
           few == (expiration - later) \div d
           many == (expiration - now) \div d
<1>2. now \in Nat /\ later \in Nat
  BY TimestampTyped
<1>3. now <= later
  <2>1. seq \in Int /\ seq' \in Int /\ seq <= seq'
    OBVIOUS
  <2>2. QED
    BY <1>1, <2>1, TimesMonotone
<1>4. d \in Nat \ {0}
  BY SecondsInDayPositive
<1>5. /\ SbtBumpAmount(expiration) = many * DayInLedgers
      /\ SbtBumpAmount(expiration)' = few * DayInLedgers
  BY DEF SbtBumpAmount, DaysUntilExpiry, Timestamp
<1> HIDE DEF now, later, d
<1>6. expiration - later \in Int /\ expiration - now \in Int
      /\ expiration - later <= expiration - now
  BY <1>1, <1>2, <1>3
<1>7. few \in Int /\ many \in Int /\ few <= many
  BY <1>4, <1>6, Quotient, DivMonotone
<1> HIDE DEF few, many
<1>8. QED
  BY <1>1, <1>5, <1>7

(* A whole day before the expiry the threshold does not underflow. *)
LEMMA DayLeft ==
  ASSUME seq \in Nat, NEW expiration \in Expirations,
         expiration - Timestamp >= SecondsInDay
  PROVE  SbtLifetimeThreshold(expiration) >= 0 /\ ~(expiration < Timestamp)
<1>1. DayInLedgers \in Nat /\ expiration \in Nat
  BY StellarBounds
<1>2. Timestamp \in Nat
  BY TimestampTyped DEF Timestamp
<1>3. SecondsInDay \in Nat \ {0}
  BY SecondsInDayPositive
<1> DEFINE left == expiration - Timestamp
           days == left \div SecondsInDay
<1>4. left \in Int /\ SecondsInDay <= left
  BY <1>1, <1>2, <1>3
<1> HIDE DEF left
<1>5. SecondsInDay \div SecondsInDay = 1
  BY <1>3
<1>6. days \in Int /\ 1 <= days
  BY <1>3, <1>4, <1>5, Quotient, DivMonotone
<1>7. SbtLifetimeThreshold(expiration) = days * DayInLedgers - DayInLedgers
  BY DEF SbtLifetimeThreshold, SbtBumpAmount, DaysUntilExpiry, left
<1> HIDE DEF days
<1>8. days * DayInLedgers >= DayInLedgers
  BY <1>1, <1>6
<1>9. QED
  BY <1>1, <1>2, <1>3, <1>6, <1>7, <1>8

(* No stored SBT's time to live has left u32. *)
BumpsFit ==
  \A id \in Ids : sbts[id] # NoSBT => SbtBumpAmount(sbts[id].expiry) <= MaxU32

RInv == IInv /\ BumpsFit

LEMMA RInvStep == RInv /\ [Next]_vars => RInv'
<1> SUFFICES ASSUME RInv, [Next]_vars PROVE BumpsFit'
  BY IInvStep DEF RInv
<1>1. IInv /\ IInv' /\ BumpsFit
  BY IInvStep DEF RInv
<1>2. \A id \in Ids : sbts[id] # NoSBT =>
        sbts[id] \in SBTs /\ sbts[id].expiry \in Expirations
  BY <1>1 DEF IInv, SBTs
<1>3. ASSUME NEW auths \in SUBSET Accounts, NEW claimed \in Accounts,
             NEW id \in Ids, NEW expiration \in Expirations,
             NEW n \in Nullifiers, NEW values \in Values,
             MintSbt(auths, claimed, id, expiration, n, values)
      PROVE  BumpsFit'
  <2>1. /\ seq' = seq
        /\ \A i \in Ids \ {id} : sbts'[i] = sbts[i]
        /\ sbts'[id].expiry = expiration
    BY <1>1, <1>3 DEF MintSbt, IInv
  <2>2. SbtBumpAmount(expiration) <= MaxU32
    <3>1. SbtBumpAmount(expiration) \in Int /\ MaxU32 \in Nat
      BY <1>1, BumpTyped, StellarBounds DEF IInv
    <3>2. ~(SbtBumpAmount(expiration) > MaxU32)
      BY <1>3 DEF MintSbt, MintError, TtlError
    <3>3. QED
      BY <3>1, <3>2
  <2>3. \A e : SbtBumpAmount(e)' = SbtBumpAmount(e)
    BY <2>1 DEF SbtBumpAmount, DaysUntilExpiry, Timestamp
  <2>4. ASSUME NEW i \in Ids, sbts'[i] # NoSBT
        PROVE  SbtBumpAmount(sbts'[i].expiry) <= MaxU32
    BY <1>1, <2>1, <2>2, <2>4 DEF BumpsFit
  <2>5. QED
    BY <2>1, <2>4 DEF BumpsFit, SbtBumpAmount, DaysUntilExpiry, Timestamp
<1>4. ASSUME NEW auths \in SUBSET Accounts, NEW claimed \in Accounts,
             NEW id \in Ids, RevokeSbt(auths, claimed, id)
      PROVE  BumpsFit'
  <2>1. sbts[id] # NoSBT
    BY <1>4 DEF RevokeSbt, RevokeError, GetSbtError
  <2>2. /\ seq' = seq
        /\ \A i \in Ids \ {id} : sbts'[i] = sbts[i]
        /\ sbts'[id].expiry = sbts[id].expiry
    BY <1>1, <1>2, <1>4, <2>1 DEF RevokeSbt, IInv, SBTs
  <2>3. QED
    BY <1>1, <2>1, <2>2 DEF BumpsFit, SbtBumpAmount, DaysUntilExpiry, Timestamp
<1>5. ASSUME UNCHANGED <<sbts, seq>> PROVE BumpsFit'
  BY <1>1, <1>5 DEF BumpsFit, SbtBumpAmount, DaysUntilExpiry, Timestamp
<1>6. CASE CloseLedger
  <2>1. sbts' = sbts /\ seq \in Nat /\ seq' \in Nat /\ seq <= seq'
    BY <1>1, <1>6 DEF CloseLedger, IInv
  <2>2. ASSUME NEW e \in Expirations, SbtBumpAmount(e) <= MaxU32
        PROVE  SbtBumpAmount(e)' <= MaxU32
    <3>1. SbtBumpAmount(e)' <= SbtBumpAmount(e)
      BY <2>1, BumpShrinks
    <3>2. SbtBumpAmount(e) \in Int /\ SbtBumpAmount(e)' \in Int /\ MaxU32 \in Nat
      BY <2>1, BumpTyped, BumpTypedNext, StellarBounds
    <3>3. QED
      BY <2>2, <3>1, <3>2
  <2>3. ASSUME NEW i \in Ids, sbts'[i] # NoSBT
        PROVE  \A e \in Expirations : e = sbts'[i].expiry =>
                 SbtBumpAmount(e)' <= MaxU32
    BY <1>1, <2>1, <2>2, <2>3 DEF BumpsFit
  <2>4. \A i \in Ids : sbts'[i] # NoSBT => sbts'[i].expiry \in Expirations
    BY <1>2, <2>1
  <2>5. QED
    BY <2>3, <2>4 DEF BumpsFit, SbtBumpAmount, DaysUntilExpiry, Timestamp
<1>7. QED
  BY <1>3, <1>4, <1>5, <1>6 DEF Next, SetAdmin, Restore, vars

(* get_sbt's answer tells what revoke_sbt will do, until a day before the
   expiry. *)
THEOREM Revocable == Spec => []RevocableUntilLastDay
<1>1. Init => RInv
  BY IInvInit DEF RInv, BumpsFit, Init
<1>2. RInv => RevocableUntilLastDay
  <2> SUFFICES ASSUME RInv, NEW id \in Ids, GetSbtError(id) = "Ok",
                      ~Archived(NullifierKey(sbts[id].nullifier)),
                      sbts[id].expiry - Timestamp >= SecondsInDay
               PROVE  TtlError(sbts[id].expiry) = "Ok"
    BY DEF RevocableUntilLastDay, RevokeError
  <2> DEFINE e == sbts[id].expiry
  <2>1. sbts[id] # NoSBT
    BY DEF GetSbtError
  <2>2. e \in Expirations /\ seq \in Nat /\ SbtBumpAmount(e) <= MaxU32
    BY <2>1 DEF RInv, IInv, BumpsFit, SBTs
  <2>3. e - Timestamp >= SecondsInDay
    OBVIOUS
  <2> HIDE DEF e
  <2>4. SbtLifetimeThreshold(e) >= 0 /\ ~(e < Timestamp)
    BY <2>2, <2>3, DayLeft
  <2>5. SbtBumpAmount(e) \in Int /\ MaxU32 \in Nat /\ DayInLedgers \in Nat
    BY <2>2, BumpTyped, StellarBounds
  <2>6. SbtLifetimeThreshold(e) \in Int
    BY <2>5 DEF SbtLifetimeThreshold
  <2>7. ~(SbtBumpAmount(e) > MaxU32) /\ ~(SbtLifetimeThreshold(e) < 0)
    BY <2>2, <2>4, <2>5, <2>6
  <2>8. TtlError(e) = "Ok"
    BY <2>4, <2>7 DEF TtlError
  <2>9. QED
    BY <2>8 DEF e
<1>3. QED
  BY <1>1, <1>2, RInvStep, PTL DEF Spec

-----------------------------------------------------------------------------
(* Only a mint makes an SBT valid *)

(* A step that is no mint leaves an SBT as it is, or revokes it, and turns no
   clock back. *)
NoMint ==
  /\ seq \in Nat /\ seq' \in Nat /\ seq <= seq'
  /\ ids' = ids
  /\ \A id \in Ids :
       sbts'[id] = sbts[id] \/ (sbts'[id] # NoSBT /\ sbts'[id].revoked)

LEMMA NoMintSteps ==
  ASSUME IInv, [Next]_vars
  PROVE  \/ NoMint
         \/ \E auths \in SUBSET Accounts, claimed \in Accounts, id \in Ids,
               expiration \in Expirations, n \in Nullifiers, values \in Values :
              MintSbt(auths, claimed, id, expiration, n, values)
<1>0. seq \in Nat
  BY DEF IInv
<1>1. ASSUME NEW auths \in SUBSET Accounts, NEW claimed \in Accounts,
             NEW id \in Ids, RevokeSbt(auths, claimed, id)
      PROVE  NoMint
  <2> DEFINE sbt == [sbts[id] EXCEPT !.revoked = TRUE]
  <2>1. sbts[id] # NoSBT
    BY <1>1 DEF RevokeSbt, RevokeError, GetSbtError
  <2>2. sbts[id] \in SBTs /\ ids[sbts[id].nullifier] = id
    BY <2>1 DEF IInv, EntriesAgree
  <2>3. sbt \in SBTs /\ sbt.revoked /\ sbts[id].nullifier \in Nullifiers
    BY <2>2 DEF SBTs
  <2>4. sbts' = [sbts EXCEPT ![id] = sbt]
        /\ ids' = [ids EXCEPT ![sbts[id].nullifier] = id] /\ seq' = seq
    BY <1>1 DEF RevokeSbt
  <2> HIDE DEF sbt
  <2>5. ids' = ids
    BY <2>2, <2>3, <2>4 DEF IInv
  <2>6. \A i \in Ids : sbts'[i] = IF i = id THEN sbt ELSE sbts[i]
    BY <2>4 DEF IInv
  <2>7. sbt # NoSBT
    BY <2>3, StellarEmpty
  <2>8. QED
    BY <1>0, <2>3, <2>4, <2>5, <2>6, <2>7 DEF NoMint
<1>2. ASSUME UNCHANGED <<sbts, ids, seq>> PROVE NoMint
  BY <1>0, <1>2 DEF NoMint
<1>3. CASE CloseLedger
  BY <1>0, <1>3 DEF CloseLedger, NoMint
<1>4. CASE \E auths \in SUBSET Accounts, claimed \in Accounts, id \in Ids :
             RevokeSbt(auths, claimed, id)
  BY <1>1, <1>4
<1>5. CASE \/ \E auths \in SUBSET Accounts, claimed \in Accounts,
                 new \in Accounts : SetAdmin(auths, claimed, new)
           \/ \E key \in Keys : Restore(key)
           \/ UNCHANGED vars
  BY <1>2, <1>5 DEF SetAdmin, Restore, vars
<1>6. QED
  BY <1>3, <1>4, <1>5 DEF Next

(* Without a mint, what is refused stays refused. *)
LEMMA RefusedStays ==
  ASSUME IInv, NoMint, NEW id \in Ids, GetSbtError(id) \in Refused
  PROVE  GetSbtError(id)' # "Ok"
<1> SUFFICES ASSUME GetSbtError(id)' = "Ok" PROVE FALSE
  OBVIOUS
<1>1. sbts'[id] # NoSBT /\ ~sbts'[id].revoked /\ ~(sbts'[id].expiry < Timestamp')
  BY DEF GetSbtError
<1>2. sbts'[id] = sbts[id]
  BY <1>1 DEF NoMint
<1>3. sbts[id].expiry < Timestamp
  BY <1>1, <1>2 DEF GetSbtError, Refused
<1>4. sbts[id].expiry \in Nat
  BY <1>1, <1>2, StellarBounds DEF IInv, SBTs
<1>5. /\ seq \in Nat /\ seq' \in Nat /\ seq <= seq' /\ LedgerSeconds \in Nat
  BY StellarBounds DEF NoMint
<1>6. seq * LedgerSeconds <= seq' * LedgerSeconds
  <2>1. seq \in Int /\ seq' \in Int
    BY <1>5
  <2>2. QED
    BY <1>5, <2>1, TimesMonotone
<1>7. seq * LedgerSeconds \in Nat /\ seq' * LedgerSeconds \in Nat
  BY <1>5, TimestampTyped
<1>8. QED
  BY <1>1, <1>2, <1>3, <1>4, <1>6, <1>7 DEF Timestamp

(* A mint changes one SBT, and is in `minted` from then on. *)
LEMMA MintServes ==
  ASSUME IInv, NEW auths \in SUBSET Accounts, NEW claimed \in Accounts,
         NEW id \in Ids, NEW expiration \in Expirations, NEW n \in Nullifiers,
         NEW values \in Values,
         MintSbt(auths, claimed, id, expiration, n, values)
  PROVE  /\ FreshlyMinted(id)
         /\ seq' = seq
         /\ \A i \in Ids \ {id} : sbts'[i] = sbts[i]
         /\ ids'[n] = id /\ \A m \in Nullifiers \ {n} : ids'[m] = ids[m]
<1> DEFINE mint == [id |-> id, nullifier |-> n, at |-> seq,
                    expiry |-> expiration]
<1>1. ids[n] = NoId
  BY DEF MintSbt, MintError
<1>2. mint \notin minted
  <2>1. mint.nullifier = n /\ mint.id = id
    OBVIOUS
  <2>2. id # NoId
    BY StellarEmpty
  <2>3. QED
    BY <1>1, <2>1, <2>2 DEF IInv, NullifierSpentOnce
<1>3. minted' = minted \cup {mint} /\ mint.nullifier = n /\ mint.id = id
  BY DEF MintSbt
<1> HIDE DEF mint
<1>4. FreshlyMinted(id)
  BY <1>1, <1>2, <1>3 DEF FreshlyMinted
<1>5. QED
  BY <1>4 DEF MintSbt, IInv

(* revoke_sbt, set_admin and whoever restores entries make no SBT valid that
   the getters have refused. *)
THEOREM ServedByMint == Spec => ServedOnlyByMint
<1>1. ASSUME IInv, [Next]_vars, NEW id \in Ids,
             GetSbtError(id) \in Refused, GetSbtError(id)' = "Ok"
      PROVE  FreshlyMinted(id)
  <2>1. CASE NoMint
    BY <1>1, <2>1, RefusedStays
  <2>2. ASSUME NEW auths \in SUBSET Accounts, NEW claimed \in Accounts,
               NEW i \in Ids, NEW expiration \in Expirations,
               NEW n \in Nullifiers, NEW values \in Values,
               MintSbt(auths, claimed, i, expiration, n, values)
        PROVE  FreshlyMinted(id)
    <3>0. /\ FreshlyMinted(i) /\ seq' = seq
          /\ \A j \in Ids \ {i} : sbts'[j] = sbts[j]
      BY <1>1, <2>2, MintServes
    <3>1. CASE i = id
      BY <3>0, <3>1
    <3>2. CASE i # id
      <4>1. sbts'[id] = sbts[id] /\ seq' = seq
        BY <3>0, <3>2
      <4>2. GetSbtError(id)' \in {"archived", GetSbtError(id)}
        BY <1>1, <4>1 DEF GetSbtError, Refused, Timestamp
      <4>3. QED
        BY <1>1, <4>2 DEF Refused
    <3>3. QED
      BY <3>1, <3>2
  <2>3. QED
    BY <1>1, <2>1, <2>2, NoMintSteps
<1>2. ASSUME IInv, [Next]_vars, NEW n \in Nullifiers,
             GetSbtByNullifierError(n) \in Refused,
             GetSbtByNullifierError(n)' = "Ok"
      PROVE  FreshlyMinted(ids'[n])
  <2>1. PICK id \in Ids : ids'[n] = id /\ GetSbtError(id)' = "Ok"
    <3>1. ids'[n] # NoId
      BY <1>2 DEF GetSbtByNullifierError
    <3>2. ids'[n] \in Ids
      BY <1>2, <3>1, IInvStep DEF IInv
    <3>3. \A id \in Ids : id = ids'[n] =>
            GetSbtByNullifierError(n)' \in {"archived", GetSbtError(id)'}
      BY <3>1 DEF GetSbtByNullifierError, GetSbtError, Timestamp
    <3>4. QED
      BY <1>2, <3>2, <3>3
  <2>2. CASE ids[n] = id
    <3>1. GetSbtError(id) \in Refused
      BY <1>2, <2>1, <2>2, StellarEmpty DEF GetSbtByNullifierError, Refused
    <3>2. FreshlyMinted(id)
      BY <1>1, <1>2, <2>1, <3>1
    <3>3. QED
      BY <2>1, <3>2 DEF FreshlyMinted
  <2>3. CASE ids[n] # id
    <3>1. ~NoMint
      BY <2>1, <2>3 DEF NoMint
    <3>2. QED
      BY <1>2, <2>1, <2>3, <3>1, NoMintSteps, MintServes DEF FreshlyMinted
  <2>4. QED
    BY <2>2, <2>3
<1>3. IInv /\ [Next]_vars =>
        [/\ \A id \in Ids :
              GetSbtError(id) \in Refused /\ GetSbtError(id)' = "Ok" =>
                FreshlyMinted(id)
         /\ \A n \in Nullifiers :
              GetSbtByNullifierError(n) \in Refused
                /\ GetSbtByNullifierError(n)' = "Ok" => FreshlyMinted(ids'[n])]_vars
  BY <1>1, <1>2
<1>4. QED
  BY <1>3, Inductive, PTL DEF Spec, ServedOnlyByMint

-----------------------------------------------------------------------------
(* How early an entry may be archived *)

(* What is extended to whole days until the expiry lives until less than two
   days before it. *)
LEMMA LongEnough ==
  ASSUME seq \in Nat, NEW e \in Expirations, NEW until \in Nat, seq <= until,
         e <= (seq + MaxTTL - 1) * LedgerSeconds
  PROVE  e < Extended(until, SbtLifetimeThreshold(e), SbtBumpAmount(e))
                 * LedgerSeconds + 2 * SecondsInDay
<1> DEFINE L == LedgerSeconds
           D == DayInLedgers
           M == MaxTTL - 1
           S == SecondsInDay
           t == seq * L
           left == e - t
           q == left \div S
           b == q * D
           r == Extended(until, SbtLifetimeThreshold(e), SbtBumpAmount(e))
<1>1. /\ L \in Nat \ {0} /\ D \in Nat \ {0} /\ M \in Int /\ e \in Nat
      /\ S \in Nat \ {0} /\ S = D * L /\ t \in Nat /\ left \in Int
  BY StellarBounds, SecondsInDayPositive, TimestampTyped DEF SecondsInDay
<1>2. SbtBumpAmount(e) = b /\ SbtLifetimeThreshold(e) = b - D
  BY DEF SbtLifetimeThreshold, SbtBumpAmount, DaysUntilExpiry, Timestamp
<1>3. e <= (seq + M) * L
  BY <1>1, StellarBounds
<1>4. (seq + M) * L = t + M * L
  BY <1>1
<1>5. r = Extended(until, b - D, b)
  BY <1>2
<1>6. Extended(until, b - D, b)
        = LET new == seq + AtMost(b, M)
          IN  IF until - seq <= b - D /\ new > until THEN new ELSE until
  BY DEF Extended
<1> HIDE DEF L, D, M, S, t, r
<1>7. q \in Int /\ S * q \in Int /\ S * q <= left /\ left < S * q + S
  BY <1>1, Quotient
<1>8. left = e - t
  OBVIOUS
<1> HIDE DEF q, left
<1>9. b \in Int /\ b * L = S * q /\ b * L \in Int
  BY <1>1, <1>7
<1> HIDE DEF b
<1>10. b <= M
  <2>1. b * L <= M * L
    <3>1. M * L \in Int
      BY <1>1
    <3>2. QED
      BY <1>1, <1>3, <1>4, <1>7, <1>8, <1>9, <3>1
  <2>2. SUFFICES ASSUME M + 1 <= b PROVE FALSE
    BY <1>1, <1>9
  <2>3. (M + 1) * L <= b * L
    BY <1>1, <1>9, <2>2, TimesMonotone
  <2>4. (M + 1) * L = M * L + L /\ M * L \in Int
    BY <1>1
  <2>5. QED
    BY <1>1, <1>9, <2>1, <2>3, <2>4
<1>11. r \in Int /\ seq + b - D + 1 <= r
  BY <1>1, <1>5, <1>6, <1>9, <1>10 DEF AtMost
<1>12. (seq + b - D + 1) * L <= r * L
  BY <1>1, <1>9, <1>11, TimesMonotone
<1>13. (seq + b - D + 1) * L = t + b * L - S + L
  <2>1. (seq + b - D + 1) * L = seq * L + b * L - D * L + L
    BY <1>1, <1>9
  <2>2. QED
    BY <1>1, <2>1 DEF t
<1>14. r * L \in Int
  BY <1>1, <1>11
<1>15. e < r * L + 2 * S
  BY <1>1, <1>7, <1>8, <1>9, <1>12, <1>13, <1>14
<1>16. QED
  BY <1>15 DEF r, L, S

(* Where the life of an SBT is within the network's limit, its entries live
   until less than two days before it expires. *)
LivesLong ==
  \A id \in Ids : sbts[id] # NoSBT /\ WithinLimit(id) =>
    \A key \in {SBTKey(id), NullifierKey(sbts[id].nullifier)} :
      sbts[id].expiry < liveUntil[key] * LedgerSeconds + 2 * SecondsInDay

LInv == TInv /\ LivesLong

LEMMA KeysTyped ==
  ASSUME IInv, NEW id \in Ids, sbts[id] # NoSBT
  PROVE  /\ sbts[id] \in SBTs
         /\ sbts[id].nullifier \in Nullifiers /\ sbts[id].expiry \in Nat
         /\ SBTKey(id) \in Keys /\ NullifierKey(sbts[id].nullifier) \in Keys
         /\ Stored(SBTKey(id)) /\ Stored(NullifierKey(sbts[id].nullifier))
<1>1. sbts[id] \in SBTs /\ ids[sbts[id].nullifier] = id
  BY DEF IInv, EntriesAgree
<1>2. sbts[id].nullifier \in Nullifiers /\ sbts[id].expiry \in Nat
  BY <1>1, StellarBounds DEF SBTs
<1>3. SBTKey(id) \in Keys /\ NullifierKey(sbts[id].nullifier) \in Keys
  BY <1>2 DEF Keys
<1>4. Stored(SBTKey(id)) /\ Stored(NullifierKey(sbts[id].nullifier))
  BY <1>1, <1>2, StellarEmpty DEF Stored
<1>5. QED
  BY <1>1, <1>2, <1>3, <1>4

(* No step that leaves an SBT's dates alone shortens the life of an entry. *)
LEMMA LongerLives ==
  ASSUME LInv, TInv', UNCHANGED minted,
         \A id \in Ids : sbts'[id] # NoSBT =>
           /\ sbts[id] # NoSBT
           /\ sbts'[id].nullifier = sbts[id].nullifier
           /\ sbts'[id].expiry = sbts[id].expiry,
         \A key \in Keys : Stored(key) => liveUntil[key] <= liveUntil'[key]
  PROVE  LivesLong'
<1> SUFFICES ASSUME NEW id \in Ids, sbts'[id] # NoSBT, WithinLimit(id)',
                    NEW key \in {SBTKey(id), NullifierKey(sbts[id].nullifier)}
             PROVE  sbts[id].expiry
                      < liveUntil'[key] * LedgerSeconds + 2 * SecondsInDay
  BY DEF LivesLong
<1>1. sbts[id] # NoSBT /\ WithinLimit(id)
  BY DEF WithinLimit
<1>2. sbts[id].expiry < liveUntil[key] * LedgerSeconds + 2 * SecondsInDay
  BY <1>1 DEF LInv, LivesLong
<1>3. key \in Keys /\ Stored(key) /\ sbts[id].expiry \in Nat
  BY <1>1, KeysTyped DEF LInv, TInv
<1>4. liveUntil[key] \in Nat /\ liveUntil'[key] \in Nat
      /\ liveUntil[key] <= liveUntil'[key]
  BY <1>3 DEF LInv, TInv, TtlOK
<1>5. LedgerSeconds \in Nat /\ SecondsInDay \in Nat
  BY StellarBounds, SecondsInDayPositive
<1>6. liveUntil[key] * LedgerSeconds <= liveUntil'[key] * LedgerSeconds
  BY <1>4, <1>5, TimesMonotone
<1>7. liveUntil[key] * LedgerSeconds \in Nat /\ liveUntil'[key] * LedgerSeconds \in Nat
  BY <1>4, TimestampTyped
<1>8. QED
  BY <1>2, <1>3, <1>5, <1>6, <1>7

(* extend_ttl never shortens. *)
LEMMA ExtendedLonger ==
  ASSUME seq \in Nat, NEW until \in Nat, NEW threshold, NEW extendTo \in Int
  PROVE  until <= Extended(until, threshold, extendTo)
BY StellarBounds DEF Extended, AtMost

LEMMA SbtTtlsLonger ==
  ASSUME TInv, NEW id \in Ids, NEW n \in Nullifiers,
         NEW expiration \in Expirations, NEW key \in Keys, Stored(key)
  PROVE  liveUntil[key] <= SbtTtls(id, n, expiration)[key]
<1>1. liveUntil[key] \in Nat /\ seq \in Nat
  BY DEF TInv, IInv, TtlOK
<1>2. SbtBumpAmount(expiration) \in Int
  BY <1>1, BumpTyped
<1>3. Until(key) = liveUntil[key]
  BY DEF Until
<1>4. liveUntil[key] <= Extended(liveUntil[key],
         SbtLifetimeThreshold(expiration), SbtBumpAmount(expiration))
  BY <1>1, <1>2, ExtendedLonger
<1>5. QED
  BY <1>1, <1>3, <1>4 DEF SbtTtls

LEMMA MintLives ==
  ASSUME LInv, TInv', NEW auths \in SUBSET Accounts, NEW claimed \in Accounts,
         NEW id \in Ids, NEW expiration \in Expirations, NEW n \in Nullifiers,
         NEW values \in Values,
         MintSbt(auths, claimed, id, expiration, n, values)
  PROVE  LivesLong'
<1> DEFINE sbt == [expiry |-> expiration, nullifier |-> n, values |-> values,
                   revoked |-> FALSE, minter |-> claimed]
           mint == [id |-> id, nullifier |-> n, at |-> seq,
                    expiry |-> expiration]
<1>1. /\ sbts' = [sbts EXCEPT ![id] = sbt] /\ ids[n] = NoId
      /\ minted' = minted \cup {mint} /\ seq' = seq
      /\ liveUntil' = SbtTtls(id, n, expiration)
      /\ ~Archived(SBTKey(id)) /\ ~Archived(NullifierKey(n))
  BY DEF MintSbt, MintError
<1>2. mint.nullifier = n /\ mint.expiry = expiration /\ mint.at = seq
      /\ sbt.nullifier = n /\ sbt.expiry = expiration
  OBVIOUS
<1> HIDE DEF sbt, mint
<1>3. TInv /\ IInv /\ seq \in Nat /\ liveUntil \in [Keys -> Nat]
  BY DEF LInv, TInv, IInv, TtlOK
<1>4. \A m \in minted : m.nullifier \in Nullifiers /\ m.nullifier # n
  <2>1. \A m \in minted : m.id \in Ids /\ m.nullifier \in Nullifiers
    BY <1>3 DEF IInv, Mints
  <2>2. QED
    BY <1>1, <1>3, <2>1, StellarEmpty DEF IInv, NullifierSpentOnce
<1>5. sbts'[id] = sbt /\ \A i \in Ids \ {id} : sbts'[i] = sbts[i]
  BY <1>1, <1>3 DEF IInv
<1>6. ASSUME WithinLimit(id)', NEW key \in {SBTKey(id), NullifierKey(n)}
      PROVE  expiration < liveUntil'[key] * LedgerSeconds + 2 * SecondsInDay
  <2>1. expiration <= (seq + MaxTTL - 1) * LedgerSeconds
    BY <1>1, <1>2, <1>4, <1>5, <1>6 DEF WithinLimit
  <2>2. key \in Keys /\ ~Archived(key)
    BY <1>1 DEF Keys
  <2>3. liveUntil[key] \in Nat
    BY <1>3, <2>2
  <2>4. Until(key) \in Nat /\ seq <= Until(key)
    <3>1. CASE Stored(key)
      BY <1>3, <2>2, <2>3, <3>1 DEF Until, Archived
    <3>2. CASE ~Stored(key)
      BY <1>3, <3>2, StellarBounds DEF Until
    <3>3. QED
      BY <3>1, <3>2
  <2>5. liveUntil'[key] = Extended(Until(key), SbtLifetimeThreshold(expiration),
                                   SbtBumpAmount(expiration))
    BY <1>1, <2>2 DEF SbtTtls
  <2>6. QED
    BY <1>3, <2>1, <2>4, <2>5, LongEnough
<1>7. ASSUME NEW i \in Ids \ {id}, sbts[i] # NoSBT, WithinLimit(i)',
             NEW key \in {SBTKey(i), NullifierKey(sbts[i].nullifier)}
      PROVE  sbts[i].expiry < liveUntil'[key] * LedgerSeconds + 2 * SecondsInDay
  <2>1. /\ sbts[i].nullifier \in Nullifiers /\ ids[sbts[i].nullifier] = i
        /\ key \in Keys
    BY <1>3, <1>7, KeysTyped DEF IInv, EntriesAgree
  <2>2. sbts[i].nullifier # n
    BY <1>1, <2>1, StellarEmpty
  <2>3. WithinLimit(i)
    BY <1>1, <1>2, <1>5, <1>7, <2>2 DEF WithinLimit
  <2>4. key \notin {SBTKey(id), NullifierKey(n)}
    BY <1>7, <2>2 DEF SBTKey, NullifierKey
  <2>5. liveUntil'[key] = liveUntil[key]
    BY <1>1, <2>1, <2>4 DEF SbtTtls
  <2>6. QED
    BY <1>7, <2>3, <2>5 DEF LInv, LivesLong
<1>8. QED
  BY <1>2, <1>5, <1>6, <1>7 DEF LivesLong

LEMMA LInvStep == LInv /\ [Next]_vars => LInv'
<1> SUFFICES ASSUME LInv, [Next]_vars PROVE LivesLong'
  BY TInvStep DEF LInv
<1>1. TInv /\ TInv' /\ IInv
  BY TInvStep DEF LInv, TInv
<1>2. seq \in Nat /\ liveUntil \in [Keys -> Nat]
  BY <1>1 DEF IInv, TInv, TtlOK
<1>3. ASSUME NEW auths \in SUBSET Accounts, NEW claimed \in Accounts,
             NEW id \in Ids, RevokeSbt(auths, claimed, id)
      PROVE  LivesLong'
  <2> DEFINE n == sbts[id].nullifier
             e == sbts[id].expiry
  <2>1. sbts[id] # NoSBT
    BY <1>3 DEF RevokeSbt, RevokeError, GetSbtError
  <2>2. sbts[id] \in SBTs /\ n \in Nullifiers /\ e \in Expirations
    BY <1>1, <2>1, KeysTyped DEF SBTs
  <2>3. /\ sbts' = [sbts EXCEPT ![id] = [sbts[id] EXCEPT !.revoked = TRUE]]
        /\ liveUntil' = SbtTtls(id, n, e) /\ minted' = minted
    BY <1>3 DEF RevokeSbt
  <2>4. \A i \in Ids : sbts'[i] # NoSBT =>
           /\ sbts[i] # NoSBT
           /\ sbts'[i].nullifier = sbts[i].nullifier
           /\ sbts'[i].expiry = sbts[i].expiry
    BY <1>1, <2>1, <2>2, <2>3 DEF IInv, SBTs
  <2>5. \A key \in Keys : Stored(key) => liveUntil[key] <= liveUntil'[key]
    BY <1>1, <2>2, <2>3, SbtTtlsLonger
  <2>6. QED
    BY <1>1, <2>3, <2>4, <2>5, LongerLives
<1>4. ASSUME UNCHANGED <<sbts, minted>>,
             \A key \in Keys : liveUntil[key] <= liveUntil'[key]
      PROVE  LivesLong'
  BY <1>1, <1>4, LongerLives
<1>5. ASSUME NEW auths \in SUBSET Accounts, NEW claimed \in Accounts,
             NEW new \in Accounts, SetAdmin(auths, claimed, new)
      PROVE  LivesLong'
  <2>1. liveUntil' = InstanceTtl /\ UNCHANGED <<sbts, minted>>
    BY <1>5 DEF SetAdmin
  <2>2. Instance \in Keys /\ YearInLedgers \in Int
    BY StellarBounds DEF Keys
  <2>3. liveUntil[Instance]
          <= Extended(liveUntil[Instance], YearInLedgers, YearInLedgers)
    BY <1>2, <2>2, ExtendedLonger
  <2>4. \A key \in Keys : liveUntil[key] <= liveUntil'[key]
    BY <1>2, <2>1, <2>3 DEF InstanceTtl
  <2>5. QED
    BY <1>4, <2>1, <2>4
<1>6. ASSUME NEW key \in Keys, Restore(key) PROVE LivesLong'
  <2>1. /\ liveUntil[key] < seq
        /\ liveUntil' = [liveUntil EXCEPT ![key] = seq + MinTTL - 1]
        /\ UNCHANGED <<sbts, minted>>
    BY <1>6 DEF Restore, Archived
  <2>2. \A k \in Keys : liveUntil[k] <= liveUntil'[k]
    BY <1>2, <2>1, StellarBounds
  <2>3. QED
    BY <1>4, <2>1, <2>2
<1>7. ASSUME UNCHANGED <<sbts, minted, liveUntil>> PROVE LivesLong'
  BY <1>2, <1>4, <1>7
<1>8. QED
  BY <1>1, <1>3, <1>5, <1>6, <1>7, MintLives DEF Next, CloseLedger, vars, LInv

(* mint_sbt's whole days, the network's limit, and the entries of one
   nullifier and of one id that many mints share: none of them has an SBT
   archived two days before its expiry. *)
THEOREM LongLived == Spec => []LiveUntilLastTwoDays
<1>1. Init => LInv
  <2>1. Init => LivesLong
    BY DEF Init, LivesLong
  <2>2. QED
    BY <2>1, TInvInit DEF LInv
<1>2. LInv => LiveUntilLastTwoDays
  <2> SUFFICES ASSUME LInv, NEW id \in Ids, sbts[id] # NoSBT, WithinLimit(id),
                      NEW key \in {SBTKey(id), NullifierKey(sbts[id].nullifier)},
                      Archived(key)
               PROVE  sbts[id].expiry < Timestamp + 2 * SecondsInDay
    BY DEF LiveUntilLastTwoDays
  <2>1. sbts[id].expiry < liveUntil[key] * LedgerSeconds + 2 * SecondsInDay
    BY DEF LInv, LivesLong
  <2>2. key \in Keys /\ sbts[id].expiry \in Nat
    BY KeysTyped DEF LInv, TInv
  <2>3. liveUntil[key] \in Nat /\ seq \in Nat /\ liveUntil[key] <= seq
    BY <2>2 DEF LInv, TInv, IInv, TtlOK, Archived
  <2>4. LedgerSeconds \in Nat /\ SecondsInDay \in Nat
    BY StellarBounds, SecondsInDayPositive
  <2>5. liveUntil[key] * LedgerSeconds <= seq * LedgerSeconds
    BY <2>3, <2>4, TimesMonotone
  <2>6. liveUntil[key] * LedgerSeconds \in Nat /\ seq * LedgerSeconds \in Nat
    BY <2>3, TimestampTyped
  <2>7. QED
    BY <2>1, <2>2, <2>4, <2>5, <2>6 DEF Timestamp
<1>3. QED
  BY <1>1, <1>2, LInvStep, PTL DEF Spec
=============================================================================
