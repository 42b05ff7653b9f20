------------------------------ MODULE StellarSBT ------------------------------
(***************************************************************************)
(* The Soroban contract SBTContract (contracts/stellar/human-id/contracts/ *)
(* sbt): the SBTs of the Hub on Stellar, where the admin mints and where   *)
(* every storage entry has a time to live in ledgers.                      *)
(*                                                                         *)
(* An entry whose time to live has passed is archived: a transaction that  *)
(* touches it fails until somebody restores it.  A call that returns an    *)
(* Err, panics (the release profile checks overflows, Cargo.toml) or       *)
(* touches an archived entry leaves everything as it was, so it is a       *)
(* stuttering step.                                                        *)
(***************************************************************************)
EXTENDS Integers, FiniteSets

CONSTANTS
  Accounts,        \* addresses
  Circuits,        \* circuit ids
  Nullifiers,      \* action nullifiers
  Values,          \* the proofs' public values
  NoSBT, NoId,     \* what an entry that does not exist reads as
  LedgerSeconds,   \* seconds from one ledger to the next
  DayInLedgers,    \* DAY_IN_LEDGERS
  YearInLedgers,   \* YEAR_IN_LEDGERS
  MaxU32,          \* the largest u32
  MinTTL,          \* the network's time to live of a new or restored entry
  MaxTTL,          \* the network's longest time to live
  Expirations,     \* bound: expiry dates, in seconds
  MaxSeq           \* bound: ledgers

ASSUME StellarBounds ==
  /\ LedgerSeconds \in Nat \ {0}
  /\ DayInLedgers \in Nat \ {0} /\ YearInLedgers \in Nat \ {0}
  /\ MaxU32 \in Nat /\ MinTTL \in Nat \ {0} /\ MaxTTL \in Nat
  /\ MaxSeq \in Nat /\ Expirations \subseteq Nat

(* _get_sbt_id: a hash of the pair, which stands for the pair. *)
Ids == Accounts \X Circuits

SBTs == [expiry: Expirations, nullifier: Nullifiers, values: Values,
         revoked: BOOLEAN, minter: Accounts]

ASSUME StellarEmpty == NoSBT \notin SBTs /\ NoId \notin Ids

(* DAY_IN_LEDGERS (17280) takes a day to be that many ledgers. *)
SecondsInDay == DayInLedgers * LedgerSeconds

VARIABLES
  admin,           \* DataKey::Admin, in the instance storage
  sbts,            \* DataKey::SBTID: the SBT of each id
  ids,             \* DataKey::Nullifier: the id a nullifier was spent on
  liveUntil,       \* the last ledger in which each entry is live
  seq,             \* the ledger's sequence number
  minted           \* history: the mints that succeeded, and when

vars == <<admin, sbts, ids, liveUntil, seq, minted>>

-----------------------------------------------------------------------------
(* Data *)

Instance == <<"Instance">>
SBTKey(id) == <<"SBTID", id>>
NullifierKey(n) == <<"Nullifier", n>>
Keys == {Instance} \cup {SBTKey(id) : id \in Ids}
          \cup {NullifierKey(n) : n \in Nullifiers}

Stored(key) ==
  \/ key = Instance
  \/ \E id \in Ids : key = SBTKey(id) /\ sbts[id] # NoSBT
  \/ \E n \in Nullifiers : key = NullifierKey(n) /\ ids[n] # NoId

Archived(key) == Stored(key) /\ liveUntil[key] < seq

(* env.ledger().timestamp() *)
Timestamp == seq * LedgerSeconds

-----------------------------------------------------------------------------
(* Time to live *)

DaysUntilExpiry(expiration) == (expiration - Timestamp) \div SecondsInDay

SbtBumpAmount(expiration) == DaysUntilExpiry(expiration) * DayInLedgers

SbtLifetimeThreshold(expiration) == SbtBumpAmount(expiration) - DayInLedgers

(* Fault: the threshold is two days below the bump. *)
TtlErrorTwoDays(expiration) ==
  IF expiration < Timestamp THEN "underflow of expiration - now"
  ELSE IF SbtBumpAmount(expiration) > MaxU32 THEN "overflow of the bump"
  ELSE IF SbtBumpAmount(expiration) < 2 * DayInLedgers THEN "underflow of the threshold"
  ELSE "Ok"

(* _calc_sbt_ttl_params panics where u64 or u32 arithmetic leaves its range:
   in the last day before the expiry, too, when there are 0 days left. *)
TtlError(expiration) ==
  IF expiration < Timestamp THEN "underflow of expiration - now"
  ELSE IF SbtBumpAmount(expiration) > MaxU32 THEN "overflow of the bump"
  ELSE IF SbtLifetimeThreshold(expiration) < 0 THEN "underflow of the threshold"
  ELSE "Ok"

(* A new entry lives for the least time to live; one that is stored again
   keeps the time it has. *)
Until(key) == IF Stored(key) THEN liveUntil[key] ELSE seq + MinTTL - 1

AtMost(a, b) == IF a <= b THEN a ELSE b

(* extend_ttl: nothing happens while more than `threshold` ledgers are left;
   a persistent entry never gets more than the network's limit. *)
Extended(until, threshold, extendTo) ==
  LET new == seq + AtMost(extendTo, MaxTTL - 1)
  IN  IF until - seq <= threshold /\ new > until THEN new ELSE until

(* Fault: only the SBT's time to live is extended. *)
SbtTtlsOfSbtOnly(id, n, expiration) ==
  [liveUntil EXCEPT
     ![SBTKey(id)] = Extended(Until(SBTKey(id)),
        SbtLifetimeThreshold(expiration), SbtBumpAmount(expiration)),
     ![NullifierKey(n)] = Until(NullifierKey(n))]

SbtTtls(id, n, expiration) ==
  [key \in Keys |->
     IF key \in {SBTKey(id), NullifierKey(n)}
     THEN Extended(Until(key), SbtLifetimeThreshold(expiration),
                   SbtBumpAmount(expiration))
     ELSE liveUntil[key]]

InstanceTtl ==
  [liveUntil EXCEPT ![Instance] = Extended(@, YearInLedgers, YearInLedgers)]

-----------------------------------------------------------------------------
(* The contract's functions.  auths: who has authorised the call. *)

ByAdmin(auths, claimed) ==
  /\ ~Archived(Instance)
  /\ claimed = admin /\ claimed \in auths

(* Fault: the nullifier is not looked up. *)
MintErrorReplayable(id, n, expiration) ==
  IF Archived(SBTKey(id)) \/ Archived(NullifierKey(n)) THEN "archived"
  ELSE TtlError(expiration)

MintError(id, n, expiration) ==
  IF Archived(SBTKey(id)) \/ Archived(NullifierKey(n)) THEN "archived"
  ELSE IF ids[n] # NoId THEN "NullifierAlreadyUsed"
  ELSE TtlError(expiration)

MintSbt(auths, claimed, id, expiration, n, values) ==
  /\ ByAdmin(auths, claimed)
  /\ MintError(id, n, expiration) = "Ok"
  /\ sbts' = [sbts EXCEPT ![id] =
                [expiry |-> expiration, nullifier |-> n, values |-> values,
                 revoked |-> FALSE, minter |-> claimed]]
  /\ ids' = [ids EXCEPT ![n] = id]
  /\ liveUntil' = SbtTtls(id, n, expiration)
  /\ minted' = minted \cup {[id |-> id, nullifier |-> n, at |-> seq,
                             expiry |-> expiration]}
  /\ UNCHANGED <<admin, seq>>

(* _get_sbt_by_id *)
GetSbtError(id) ==
  IF Archived(Instance) \/ Archived(SBTKey(id)) THEN "archived"
  ELSE IF sbts[id] = NoSBT THEN "NotFound"
  ELSE IF sbts[id].revoked THEN "Revoked"
  ELSE IF sbts[id].expiry < Timestamp THEN "Expired"
  ELSE "Ok"

GetSbtByNullifierError(n) ==
  IF Archived(Instance) \/ Archived(NullifierKey(n)) THEN "archived"
  ELSE IF ids[n] = NoId THEN "NotFound"
  ELSE GetSbtError(ids[n])

(* What _get_sbt_by_id refuses cannot be revoked. *)
RevokeError(id) ==
  IF GetSbtError(id) # "Ok" THEN GetSbtError(id)
  ELSE IF Archived(NullifierKey(sbts[id].nullifier)) THEN "archived"
  ELSE TtlError(sbts[id].expiry)

(* Fault: revoking gives the nullifier back. *)
RevokeSbtFreeing(auths, claimed, id) ==
  /\ ByAdmin(auths, claimed)
  /\ RevokeError(id) = "Ok"
  /\ sbts' = [sbts EXCEPT ![id].revoked = TRUE]
  /\ ids' = [ids EXCEPT ![sbts[id].nullifier] = NoId]
  /\ liveUntil' = SbtTtls(id, sbts[id].nullifier, sbts[id].expiry)
  /\ UNCHANGED <<admin, seq, minted>>

RevokeSbt(auths, claimed, id) ==
  /\ ByAdmin(auths, claimed)
  /\ RevokeError(id) = "Ok"
  /\ sbts' = [sbts EXCEPT ![id].revoked = TRUE]
  /\ ids' = [ids EXCEPT ![sbts[id].nullifier] = id]
  /\ liveUntil' = SbtTtls(id, sbts[id].nullifier, sbts[id].expiry)
  /\ UNCHANGED <<admin, seq, minted>>

SetAdmin(auths, current, new) ==
  /\ ByAdmin(auths, current) /\ new \in auths
  /\ admin' = new
  /\ liveUntil' = InstanceTtl
  /\ UNCHANGED <<sbts, ids, seq, minted>>

-----------------------------------------------------------------------------
(* The network *)

CloseLedger ==
  /\ seq < MaxSeq
  /\ seq' = seq + 1
  /\ UNCHANGED <<admin, sbts, ids, liveUntil, minted>>

(* Anybody may pay for the return of an archived entry. *)
Restore(key) ==
  /\ Archived(key)
  /\ liveUntil' = [liveUntil EXCEPT ![key] = seq + MinTTL - 1]
  /\ UNCHANGED <<admin, sbts, ids, seq, minted>>

-----------------------------------------------------------------------------
(* __constructor sets the admin and extends the new instance's time to
   live. *)
Init ==
  /\ admin \in Accounts
  /\ sbts = [id \in Ids |-> NoSBT]
  /\ ids = [n \in Nullifiers |-> NoId]
  /\ seq = 0
  /\ liveUntil = [key \in Keys |->
       IF key = Instance
       THEN Extended(MinTTL - 1, YearInLedgers, YearInLedgers) ELSE 0]
  /\ minted = {}

Next ==
  \/ \E auths \in SUBSET Accounts, claimed \in Accounts :
       \/ \E id \in Ids, expiration \in Expirations, n \in Nullifiers,
             values \in Values :
            MintSbt(auths, claimed, id, expiration, n, values)
       \/ \E id \in Ids : RevokeSbt(auths, claimed, id)
       \/ \E new \in Accounts : SetAdmin(auths, claimed, new)
  \/ CloseLedger
  \/ \E key \in Keys : Restore(key)

Spec == Init /\ [][Next]_vars

-----------------------------------------------------------------------------
(* Properties *)

(* Every entry has its type, and only entries that exist are ever live. *)
TypeOK ==
  /\ admin \in Accounts
  /\ sbts \in [Ids -> SBTs \cup {NoSBT}]
  /\ ids \in [Nullifiers -> Ids \cup {NoId}]
  /\ liveUntil \in [Keys -> Nat]
  /\ \A key \in Keys : liveUntil[key] > 0 => Stored(key)

(* A nullifier is spent by one mint, and leads to that mint's id for good: the
   revocation of a later SBT of the same id, which writes a nullifier's entry
   too, and the archival and restoration of entries do not free it. *)
NullifierSpentOnce ==
  /\ \A m1, m2 \in minted : m1.nullifier = m2.nullifier => m1 = m2
  /\ \A m \in minted : ids[m.nullifier] = m.id

Refused == {"NotFound", "Revoked", "Expired"}

(* The SBT of the id is minted, with a nullifier that had no entry. *)
FreshlyMinted(id) ==
  \E m \in minted' \ minted : m.id = id /\ ids[m.nullifier] = NoId

(* An SBT that the getters refuse is served again only after a mint with a
   nullifier that was not spent: not by revoking, handing over the contract or
   restoring entries. *)
ServedOnlyByMint ==
  [][/\ \A id \in Ids :
          GetSbtError(id) \in Refused /\ GetSbtError(id)' = "Ok" =>
            FreshlyMinted(id)
     /\ \A n \in Nullifiers :
          GetSbtByNullifierError(n) \in Refused
            /\ GetSbtByNullifierError(n)' = "Ok" => FreshlyMinted(ids'[n])]_vars

(* The admin can revoke any SBT that get_sbt serves, unless it expires within
   a day: then _calc_sbt_ttl_params panics. *)
RevocableUntilLastDay ==
  \A id \in Ids :
    /\ GetSbtError(id) = "Ok"
    /\ ~Archived(NullifierKey(sbts[id].nullifier))
    /\ sbts[id].expiry - Timestamp >= SecondsInDay
    => RevokeError(id) = "Ok"

(* The SBTs whose whole life the network lets an entry live. *)
WithinLimit(id) ==
  \E m \in minted : m.nullifier = sbts[id].nullifier
    /\ m.expiry <= (m.at + MaxTTL - 1) * LedgerSeconds

(* An SBT and its nullifier are archived no earlier than two days before the
   SBT expires, if the network lets an entry live as long as that: whole days
   are counted, and an entry that would live a day less is left alone. *)
LiveUntilLastTwoDays ==
  \A id \in Ids : sbts[id] # NoSBT /\ WithinLimit(id) =>
    \A key \in {SBTKey(id), NullifierKey(sbts[id].nullifier)} :
      Archived(key) => sbts[id].expiry < Timestamp + 2 * SecondsInDay

(* What mint_sbt's comment wants: "We want to make sure it is not archived
   before it expires" (lib.rs:144). *)
NotArchivedBeforeExpiry ==
  \A id \in Ids : sbts[id] # NoSBT /\ WithinLimit(id) =>
    (Archived(SBTKey(id)) => sbts[id].expiry < Timestamp)
=============================================================================
