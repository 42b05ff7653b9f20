# Verification of the Human ID contracts

TLA+ models of the contracts in this repository, TLC configurations that check
them on small instances, and theorems that TLAPS checks for every value of the
constants. Paths below are relative to the repository's root.

## 1. The system

Human ID proves facts about a person (a government ID, a phone, "clean hands")
without showing the person's data. A proof ends up as a *soulbound token*
(SBT) on some chain, bound to an address and to the circuit that was proved,
with an expiry and a *nullifier* that stops one ID from being used twice. A
backend (the verifier, or the chain's minter) checks the zero-knowledge proof
off chain and signs or mints. A separate contract takes the payments.

| Component | State it keeps | Operations | Model |
|---|---|---|---|
| `contracts/HumanIDPayments.sol` | records by commitment, the oracle, roles, ether | pay, batchPay, refund, forceRefund, deposit, receive, withdraw, withdrawTo, withdrawAll, setOracleAddress, inherited grant/revoke/renounceRole | `Payments` |
| `contracts/Hub.sol` | SBTs by (user, circuit), used nullifiers, identifiers by nullifier, ERC721 tokens, verifier, owner, fees | setSBT, getSBT, getSBTByNullifier, revokeSBT, changeVerifier, collectFees, inherited ownership | `Hub` |
| `contracts/HubBatch.sol` | none of its own | setSBTBatch, setSBTBatchStrict | `HubBatch` |
| `contracts/stellar/human-id/contracts/sbt` | admin, SBTs by id, ids by nullifier, a time to live for each entry | constructor, mint_sbt, revoke_sbt, set_admin, getters | `StellarSBT` |
| `contracts/sui/human-id` | MinterCap with nullifiers as dynamic fields, SBT objects | init, set_minter, mint, revoke | `SuiSBT` |
| `contracts/sui/sbt-verifier` | none | Boolean and aborting checks of an SBT | `SuiSBT`, second part |
| `contracts/sui/human-id/ts-project` | what each script has been told | two verifier scripts, which inspect an SBT block by block; a pager of events | `SuiClients` |
| `contracts/sui/payment_memo` | none | emits an event | not modelled |
| `contracts/aztec/clean_hands_sbt_contract` | owner, counter, SBTs, two maps to ids | mint, revoke, set_owner, getters | `AztecSBT` |
| `utils/threshold.js` | keys of two key holders | init, which nobody awaits; pubkey, encryptToAuditLayer, decryptFromAuditLayer | `AuditLayer` |
| `zk/circuits/circom`: V3, V3CleanHands, V3NameDOB and `test-script.js` | none; the script's credentials | what the circuits constrain of the expiry and of the points that are encrypted, and show of the encryption; the script that proves and reads it | `CleanHands` |
| `utils/packages/zk-escrow/main.ts` | a session's messages, points, nonces, answers | processInput, encryptAndProve, serializeSignals | `ZkEscrow` |
| `utils/packages/zk-escrow/zk/daEncrypt_js` | a WebAssembly instance | calculateWitness, calculateBinWitness, calculateWTNSBin, overlapping | `WitnessCalculator` |
| other circuits (Merkle paths, curve and hash gadgets) | none | constraint systems | not modelled |
| `contracts/sandbox/Hub.sol` | as Hub, without verifier and fee | as Hub | not modelled |
| `contracts/verax`, `contracts/eas` | one target attester (EAS) | hooks of attestation registries | not modelled |
| `zk/circuits/ZoKrates`, `zk/verifier-contracts`, keys | none | previous version, generated code | not modelled |
| other `utils`, Aztec client, deployment scripts | none | pure helpers and I/O | not modelled |

How they interact:

- The oracle and the verifier sign messages off chain; anyone may bring a
  signature to a contract, at any time, any number of times.
- Both Solidity contracts call accounts that may have code: HumanIDPayments
  sends ether with `call`, Hub mints with `_safeMint`, which calls
  `onERC721Received`. The callee may call any function again before it
  returns, and may fail.
- HubBatch calls `Hub.setSBT` in a loop; one version catches failures, the
  other lets them revert everything.
- On Stellar the network archives entries whose time to live has passed;
  anybody may restore them. On Sui a transaction may use only objects that its
  sender owns. The verifier package reads SBTs and the clock. The TypeScript
  clients send one request after the other to a full node, between which the
  chain goes on.
- Users prove with the V3 circuits that an unexpired ID was issued to them, and
  with V3CleanHands that its names are encrypted to a public key they give.
- The audit layer is an auditor and a Lit node, who hold a key together. Its
  simulator starts its key generation in the constructor and again in each
  call. No code here passes it what a V3CleanHands proof shows: its callers are
  tests of earlier circuits.
- A session of zk-escrow makes points of messages, asks a PRF server for each
  of them, and proves that commitments and encryptions are of the same
  messages. Everything in it is `Promise.all` over rows. A witness calculator
  keeps its inputs in one instance, which overlapping calls share.

What is hard here is: reentrancy with rollback at any depth, replays of
signatures, boundaries of validity windows, overwriting of SBTs while old
nullifiers still lead to them, partial failure of batches, times to live that
are computed in whole days, and, off the chains, steps of clients and
libraries between two awaits. `PROJECT.json` lists each hazard at its line
with the properties about it.

What makes each component correct:

- **Payments**: each commitment is paid for once and refunded at most once, to
  its payer, with its amount; ether is accounted for; only signatures of the
  oracle in office and within their window count; nobody regains an abandoned
  contract.
- **Hub**: a nullifier (other than 0) buys one token; it leads to that token's
  pair; tokens are minted as signed; nothing expired or revoked becomes
  readable without a new proof; fees are accounted for.
- **HubBatch**: the results say what was minted; a strict batch is all or
  nothing.
- **StellarSBT**: the nullifier is spent for good in spite of archival; what
  may be revoked and read, and for how long.
- **SuiSBT**: a nullifier is spent once for each circuit; an SBT that is
  invalid stays so; the two kinds of checks agree.
- **SuiClients**: what a script has found invalid is invalid for good, however
  old the fields it compares with; each event that there was when the paging
  began is counted once, and in the end.
- **AuditLayer**: whatever initialisations overlap, calls return.
- **CleanHands**: a verified proof shows an expiry within the year after
  issuance, and encryptions that decrypt to the messages, in the coordinates
  in which the points were given.
- **ZkEscrow and WitnessCalculator**: what a session returns fits row by row,
  in whichever order its promises settle, and every session ends; a call
  returns, in each format, the witness of the inputs that were set last.
- **AztecSBT**: a recipient and a nullifier have one SBT, though the id 0 reads
  as none; lookups never pass another's SBT off as one's own; a minted SBT
  changes by revocation only.

## 2. How the code is modelled

**Transactions and calls.** On the EVM a call that reverts before handing
control to anybody leaves no trace, so it is a stuttering step. The operators
`...Error` return the first error that the function meets, in the code's
order, and an action happens when it is `"Ok"`. A call that hands over control
is split there: the first step pushes a frame on `stack` with the state
(`World`) to go back to, and a second one returns (`CallReturns`,
`MintReturns`, `BatchReturns`) or reverts (`CallFails`, `MintFails`,
`BatchReverts`). In between the callee may do anything that `Callers` lets it
do. This is the whole interleaving there is on a chain, as transactions run
one at a time. Time and signatures change only between transactions.

**Promises.** Off the chains, a step is what JavaScript runs between two
awaits. A promise settles, in any order, or fails; a request is answered in one
state of the chain.

**Cryptography.** `signed` is the set of messages that keys have signed;
`Signers(m)` is what `ecrecover` may return for exactly the message `m`.
Hashes stand for what they hash, and commitments and zk-escrow's ciphertexts for
what they are made of. In `CleanHands` the encryption is computed: BabyJubJub is
taken as the cyclic group it is, a point being a number modulo the curve's
order, so that adding and multiplying points, the subgroup's check and ElGamal
are arithmetic, and decryption has to be proved.

**History variables** (`payouts`, `surplus`, the fields of `tokens` beyond the
owner, `collected`, `minted`, `holders`) record what happened and are never
read by a guard.

**Faults.** Definitions commented `Fault:` are variants of the definition
after them with a plausible bug in it. No specification uses them; each shows
that some property of some run would notice.

| Module | Models |
|---|---|
| `Payments` | HumanIDPayments: an action per function, `CallReturns`/`CallFails`, AccessControl, `Tick`, `Sign` |
| `PaymentLifecycle` | what HumanIDPayments promises, with a transaction as one step |
| `Hub` | Hub: `SetSBT`, `MintReturns`/`MintFails`, `RevokeSBT`, `ChangeVerifier`, `CollectFees`, `ChangeOwner`, `Tick`, `Sign` |
| `HubBatch` | extends `Hub`: `StartBatch`, `CallItem`, `BatchReturns`, `BatchReverts`; `BatchSpec` is the composition |
| `StellarSBT` | `MintSbt`, `RevokeSbt`, `SetAdmin`; the network's `CloseLedger` and `Restore` |
| `SuiSBT` | `SetMinter`, `Mint`, `Revoke`, `Tick`; the verifier package as operators |
| `AztecSBT` | `SetOwner`, `Mint`, `Revoke`; the getters as operators |
| `MC...` | for TLC: symmetry, and constants that a `.cfg` cannot write |
| `SuiClients` | extends `SuiSBT`: `ChainStep` with the events it emits, `Details`/`Inspect`/`Throw` of the scripts, `Query`/`QueryFails` of the pager |
| `AuditLayer` | `InitStep` of the constructor and of each call, the calls, `Pubkey`, `EncryptToAuditLayer`, `DecryptFromAuditLayer` |
| `CleanHands` | provers (`Script`, `Proves`), the circuits' `WithinYear`, `Accepted`, `Encryption` and `PublicSignals`, and how the script reads them |
| `WitnessCalculator` | `StartWitness`, up to the await, and `FinishWitness`, the microtask behind it |
| `ZkEscrow` | extends `WitnessCalculator`: sessions, `MessagePoint`, `Answer`, `AnswerPoint`, `Prove`, `Reject` |
| `...Proofs` | theorems (section 4) |

Choices worth knowing:

- A Hub identifier is the pair (address, circuit) that the code hashes. A
  receiver is a pair (address, high bits): `uint160(...)` drops the high bits,
  which are signed all the same.
- The nullifier 0 means "none" (`Hub.sol:87`); that it works any number of
  times is intended (`test/contracts/HubV3.js`, "Nullifier set to 0 can be
  used 2x"), and the properties exempt it.
- Any mint may fail after it has begun, also for a receiver without code: the
  caller may have given too little gas.
- HubBatch passes no ether, so that items which ask for a fee fail with
  "Missing Fee".
- A day is `DayInLedgers` ledgers of `LedgerSeconds` seconds on Stellar, as
  `constants.rs` takes it to be. The release profile checks overflows
  (`contracts/stellar/human-id/Cargo.toml`), so leaving a u32 or u64 is a
  panic, which undoes the call.
- The owner of Sui's MinterCap could also share, freeze or wrap it, as it has
  `store`; no package here does, and the model leaves it out.
- aztec-nr is external: storage that was never written reads as zeros, as
  `main.nr:50-51` expects, and a `PublicImmutable` is initialized once.
- The scripts' SBT is the first one minted, which may not exist yet when they
  start. `queryEvents` is given no order (`index.ts:103`), and the library then
  asks for the newest events first: a page goes backwards from its cursor, which
  is the place of the oldest event already seen. The pager's loop compares two
  objects with `!=` (`index.ts:117`), so that only null ends it.
- threshold-eg-babyjub is external, and what it computes is left out: of a
  field of the simulator the model knows whether it is still undefined.
- The curve has two forms, whose x-coordinates differ by a factor; `scale`
  counts the factors by which a point's coordinates are off the twisted form.
  The points that carry the messages come in untwisted coordinates, are
  converted before the encryption, and both points of a ciphertext back behind
  it (`V3CleanHands.circom:121-138`). The key to encrypt to is given in twisted
  coordinates and not converted; the model's keys are multiples of BASE8, as the
  script's is, which the circuit does not ask. A point in the wrong coordinates is on the
  curve only if its x is 0.
- `V3CleanHands.circom:118` computes the 24 bytes of a point that are compared
  with its message by `<--`, so that what the model says of that comparison is
  about proofs made by the circuit's witness generator, as the script's are.
  Which point stands for which message (`PointMessage`) is a constant.
- The circuit of a witness calculator is external: it has input signals, checks
  one assertion when the last of them is set, and computes one output. The
  PRF server and the prover of zk-escrow are external too; that the prover
  refuses inputs of wrong sizes is taken from the package's own calculator,
  which is not shared between sessions.
- `daEncrypt.circom` proves that each row's signature is of its PRF input and
  output, and shows commitment and encryption of its message.

## 3. Runs

**Fairness.** The contracts have no liveness property: every step on a chain
is somebody's free decision (to pay, sign, mint, restore), the code schedules
nothing, and so no fairness would be justified. Off the chains it is:

- `EventsCountedAtLast` assumes that each request of a client that runs is
  answered or fails (`WF` of `PagerStep`, and of `ScriptStep` for each script).
  Failing is one way to go on.
- `SessionsSettle` assumes the same of the promises of a session: node's `fetch`
  gives up in the end, and the library computes. A session that has not begun
  need not begin.
- `CallsReturn` assumes that the promises of the audit layer's key generation
  and decryption settle, those of the constructor's init and of each call. It
  assumes nothing of callers.

`CHECK_DEADLOCK FALSE` stands where the bounds stop the model: all tokens
minted, time at its end and no owner left to act (an owner may renounce the
Hub, or hand the Aztec contract to the zero address), scripts completed, all
calls made.

| Run | Shows |
|---|---|
| `payments_calls` | the payer's code re-enters up to three calls deep, batches of up to two items with duplicates, wrong sums and unsigned items included, and fails anywhere: payments are authorised, refunds happen once, the books balance, and between transactions `Payments` implements `PaymentLifecycle` |
| `payments_authority` | two oracles, two chains, amounts, time, and roles granted, revoked and renounced: a payment or refund needs a fresh signature of the oracle in office for exactly these arguments, and an abandoned contract stays abandoned |
| `payments_year` | *violation*: a refund signature is not accepted within the last year |
| `hub_reentry` | the receiver mints again in the callback, three deep, with and without a fee, while an owner who may be a receiver himself collects: one token per nullifier, lookups, the newest token's URI and the fees stay right |
| `hub_attested` | two verifiers, two chains, dirty high bits, expiry, revocation: what may become readable, and what may be minted |
| `batch_reentry` | batches within callbacks of batches, four calls deep, with items that fail for every reason, at the limit and above it |
| `stellar_sbt` | minting and revoking between archival and restoration, with expiries on and off day boundaries: nullifiers stay spent, how early archival may come, and until when revocation works |
| `stellar_comment` | *violation*: an SBT may be archived before it expires |
| `sui_sbt` | the capability changes hands, keys collide and overflow; the verifier's two kinds of checks agree; beside it one of the three clients runs, whose requests fail anywhere: no negative verdict is ever wrong, also for fields read long before, and of the events that there were when the paging began each is counted once and, at last, all |
| `aztec_sbt` | the contract changes hands, recipients and nullifiers, zero among them, come back, and ids are revoked before and after they are minted |
| `zk_escrow` | three calls of one calculator overlap, in every format, with inputs in any order, negative, beyond the field, missing, of wrong sizes or refused; sessions of fewer, as many and more than the circuit's rows, with promises that settle in any order or fail |
| `clean_hands` | the script and other provers, who choose any field element as expiry, and points of the wrong message, order, subgroup or coordinates: a verified proof shows an expiry within the year and encryptions of its messages; apart from it, calls of the audit layer before and while any of its initialisations runs return |

**Bounds.** Two commitments, nullifiers or addresses suffice to confuse one
with another, and three tokens or calls for an outer, an inner and one between
them; depth four leaves room for a batch, its item, a batch in the item's
callback, and that one's item. The windows of signatures are shrunk to one
time unit for paying and none for refunding in `payments_authority`, with a
clock that runs to two: a signature may be of the future, of now, at the
limit, and beyond it. That run has no reentry (`MaxDepth = 1`: refunds and
withdrawals still call their receiver, which may fail), and `payments_calls`
has no time: the windows and the stack meet in no condition of the code. In
`hub_reentry` and `batch_reentry` there is one circuit, as the nullifier and
its pair are confused by the two receivers already; `hub_attested` has what
signatures are told apart by, with one signature at a time (`MaxSigned = 1`), so
that an old nullifier whose pair holds a later SBT occurs in `hub_reentry` only;
for `ReadableOnlyByMint` that case rests on the theorem. Stellar's days of two ledgers leave an expiry on
a day's boundary or between two; the network's limit lies above every life, as
`LiveUntilLastTwoDays` asks. Sui's numbers stop at 3, so that 1+2 and 2+1 collide and 2+2
overflows; a second has two milliseconds. Two events in pages of one are paged
through, emitted before the first page, between two and behind the last; each script has one SBT
to look at; one client runs at a time, as they only read and share nothing.
The calculator's circuit has two input signals, one of two elements; three
calls are one that overlaps with two. A session's circuit has two rows (the one
that is committed has one, for which no order could go wrong), and a session
one or two messages, of three. In `clean_hands` the prime is 61, a year 4
and the range check 8 (2^25 in the code): the assumptions on the constants,
`CircuitBounds`, hold of both, and the theorem is for all of them. The curve's
subgroup has 5 elements and the curve 40, with secrets and ephemeral keys
within the subgroup's order and beyond it; one message has two points in the
subgroup and one outside. The two modules of that run share nothing, and TLC looks
at each without steps of the other. Three Aztec SBTs are SBT 0,
one that is told apart from it, and the id of a third that is revoked before
it exists. The constants `Max...`, `Owners`,
`Installed`, `Revocable`, `RoleTargets`, `Expirations`, `Amounts`, `Fees`,
`Callers`, `Calls`, `Inputs`, `Sessions`, `Users`, `Iats`, `Expiries`,
`PointLists`, `Secrets` and `EphemeralKeys` are bounds; each is commented where it is declared. `BatchLimit` stands for
the code's 100. Symmetry is used in `hub_reentry` only, whose properties are
all invariants and where no definition tells the values apart.

**Divergences** between the documentation and the code are recorded under
"findings" in `PROJECT.json`, one for each violation run:

1. `refund` accepts signatures for ten minutes; its comment says a year, and a
   test expects it (`HumanIDPayments.sol:210-212`).
2. `mint_sbt` wants the SBT not to be archived before it expires, and counts
   whole days (`lib.rs:144-146`). What does hold is `LiveUntilLastTwoDays`.

Others were met on the way, without a run of their own:

- Sui's test shows the minter revoking a recipient's SBT; outside the test
  scenario nobody but its owner can bring it into a transaction
  (`sbt.move:110`, `204`). What does hold is `RevokedOnlyByHolders`.
- `simple-verifier-test.ts` compares return values, which are pairs of bytes and
  a type, with 1: it prints `false` whatever a block has returned. Both scripts
  go on, and print that they completed, also after a block that has failed.
- `index.ts` gives no order and so pages from the newest event backwards: events
  that are emitted after its first request are never counted. It stops only when
  the node names no next cursor; a node that names the last event again after it
  keeps it asking. A date beyond JavaScript's last
  one throws in `toISOString` and ends a script.
- `secureExpiryOffset` (`test-script.js:111`) draws two offsets that
  `V3.circom` refuses, a year and one or two seconds.
- `V3CleanHands.circom:144` makes `encryptedTo` public, which the committed key,
  with 17 public signals, does not have; the model has the signals that the
  script reads and the key has.
- `V3CleanHands.circom` does not compare the birthdate with the credential's
  custom fields, as it does the name (`V3CleanHands.circom:87-91`); the property
  is about the messages as they are given.
- The test that decrypts with `AuditLayerSimulator` (`test/circuits/audit-layer.js`)
  is commented out, and `auditable-proof.js` is of a circuit whose ciphertexts are
  not converted between the curve's forms.
- `daEncrypt.circom:61` says that it adds p to all messages; what is encrypted is
  `msgAsPoint` itself, and the adders' output is used nowhere.

Also on Sui, `mint` says that it checks the nullifier and checks the sum of
nullifier and circuit (`sbt.move:78-80`): an unused nullifier may be refused
because another pair has the same sum. Nullifiers are hashes, which makes this
unlikely; what matters, that no pair is accepted twice, is
`NullifierOncePerCircuit`. On Aztec, the assertion "recipient already has an
SBT" (`main.nr:50`) does not fail for the recipient of SBT 0; the mint fails
all the same, when the id is initialized a second time, and `OneSbtEach` holds.
A reader of `get_sbt_by_address` must compare the recipient: who has no SBT
reads SBT 0.

## 4. Theorems

TLAPS proves them for every value of the constants that satisfies the named
assumptions of the modules: `AccountsAssumption`, `BoundsAssumption`,
`ChainAssumption`, `CommitmentsAssumption`, `HubAccounts`, `HubBounds`, `BatchBounds`, `StellarBounds`,
`StellarEmpty`, `SuiBounds`, `ClientBounds`, `AztecBounds`, `LayerBounds`, `CircuitBounds`, `CurveBounds`,
`EscrowBounds`, `CalculatorBounds`, `DeclaredAssumption`, `InputsAssumption` and
`ElementsFit`. They
say that bounds are natural numbers, that contracts are accounts, that
the marks for "nobody" and "nothing" are not what they mark the absence of,
that there are finitely many payment commitments (as there are of 32 bytes),
in `CircuitBounds`, that a year fits into the range check and four times
its range into the field, and that times of issuance are far from the prime,
in `CurveBounds`, that the subgroup is not empty and lists of points are points;
and, of the witness calculator, that a circuit's input signals have different
names, that an input is an object, with one value for a key, and that a field
element fits into the number of words the circuit reports (`getFieldNumLen32`).

| Module | Theorem | For |
|---|---|---|
| `PaymentsProofs` | `TypeCorrect`, `RefundOnce` | `TypeOK`, `RefundedExactlyOnce` |
| `PaymentsProofs` | `BooksKept` | `BooksBalance` |
| `PaymentsProofs` | `Implements` | `ImplementsLifecycle`, the refinement |
| `PaymentsProofs` | `PaidWhenSigned`, `RefundedWhenAllowed`, `AbandonedStays` | `PaymentsAuthorised`, `RefundsAuthorised`, `AbandonedForGood` |
| `HubProofs` | `TypeCorrect` | `BatchTypeOK` |
| `HubProofs` | `OneToken`, `OneTokenAlone` | `OneTokenPerNullifier`, with and without batches |
| `HubProofs` | `FindsPair` | `NullifierFindsItsPair` |
| `HubProofs` | `ReadableByMint`, `ReadableByMintAlone` | `ReadableOnlyByMint`, with and without batches |
| `HubProofs` | `MintsSigned` | `MintedAsSigned` |
| `HubProofs` | `NewestCurrent`, `NewestCurrentAlone` | `NewestTokenIsCurrent`, with and without batches |
| `HubProofs` | `FeesAccountedFor`, `FeesAccountedForAlone` | `FeesAccounted`, with and without batches |
| `HubProofs` | `ResultsMatch`, `StrictAllOrNothing` | `ResultsMatchTokens`, `StrictIsAllOrNothing` |
| `StellarSBTProofs` | `TypeCorrect`, `SpentOnce` | `TypeOK`, `NullifierSpentOnce` |
| `StellarSBTProofs` | `Revocable`, `ServedByMint`, `LongLived` | `RevocableUntilLastDay`, `ServedOnlyByMint`, `LiveUntilLastTwoDays` |
| `SuiProofs` | `TypeCorrect`, `OncePerCircuit`, `RevokedByHolders`, `InvalidStaysInvalid` | `TypeOK`, `NullifierOncePerCircuit`, `RevokedOnlyByHolders`, `InvalidForGood` |
| `SuiProofs` | `VerifierAgrees`, `VerdictsStand` | `ChecksAgree`, `NegativeVerdictsStand` |
| `SuiProofs` | `ImplementsChain`, `ChainBesideClients` | the chain beside the clients is `SuiSBT`'s, and what is proved of it holds |
| `SuiProofs` | `CountedOnce` | `EventsCountedOnce` |
| `CleanHandsProofs` | `ProvedWithin`, `EncryptsRight` | `ProvedWithinTheYear`, `EncryptsItsMessages` |
| `AztecSBTProofs` | `TypeCorrect`, `OneEach`, `LookupsRight`, `OnlyRevoked` | `TypeOK`, `OneSbtEach`, `LookupsNameTheirOwner`, `SbtsOnlyRevoked` |
| `ZkEscrowProofs` | `TagsOpen`, `LastStartReturned` | `CommitmentsOpen`, `WitnessOfTheLastStart` |

**Sums.** `SumTheorems` proves what the other modules need of a sum: it is the
sum of the parts, changes by as much as one summand does, and does not depend
on the order in which the fold takes the elements. Induction is over a set (of
the numbers, or of the subsets, that have no counterexample below them), as
the library's induction theorems, which take a predicate, cannot be used. The same
way, `Recursion` shows that a fold over 1 .. n has the values of a sequence that goes
one step at a time.

**Payments.** The property must survive `CallFails`, which brings back a state
saved earlier, so it has to hold of every saved state too. The inductive
invariant says of the current world and of each frame's world that it is well
typed and that every payment is refunded once. A step then either changes the
current world alone, pushes it, pops a frame, or restores one.

The refinement and the action properties are about the order of worlds, not
about one of them. `HInv` adds that every state an open call would go back to
lies behind (`Forward`) those of the calls inside it and the current one: no
account of `PaymentLifecycle` goes back, and what is abandoned stays so. A
transaction that ends then maps from the state before it to the state behind
it as one step of `PaymentLifecycle`, whatever was undone in between.
`PaidWhenSigned` and `RefundedWhenAllowed` follow a new record or payout
to the signature that its step has checked.

`BooksKept` says of the current state and of every saved one that the ether is the
surplus and the sum over the records not refunded. A payment adds its amount
to both, a refund takes one record out of the sum, and a batch adds as much as
its amounts add up to, which is the value sent with it.

**Hub.** The same shape, for one more reason: `setSBT` goes on after the
callback with the token id that it had before. The invariant therefore also
says that a frame's token exists in the current world and in every world saved
above the frame, so that a revert of an inner call cannot take the outer
call's token away. For batches it says that a batch never has more results
than items, and fewer while one is under way. `StackOK` is that part;
`Opened`, `Closed` and `Refused` are its lemmas for pushing, popping and
noting a result.

For `ReadableOnlyByMint`, `SinceOK` says of each pair of saved states, and of each
saved state and the current one, that the later one keeps tokens and used
nullifiers of the earlier one, and that each SBT and each nullifier's entry
is as it was, revoked, or the work of a token that is new since (`Since`).
When the last frame is popped or restored, the state between transactions
differs from the one before by such a `Since` step.

`NewestTokenIsCurrent` is false while a mint waits for its receiver: the newest
token has no URI yet. `CurrentOK` excepts the tokens of the mints under way
(`Opens`), in the current world and, for each saved world, of the mints below
its frame. A mint that returns writes the entry as it is by then; if its token
is the newest of the pair, no later mint has changed that entry.

`FeesOK` says of the current state and of every saved one that the ether held and
collected is the sum of the tokens' fees; a mint that fails goes back to a state
in which neither its token nor its ether was there.

For `ResultsMatchTokens`, `MatchedOK` says of each batch, in the current state and
in each one saved above its frame, that an order-preserving function leads from
the items it claims to tokens for them; an item is claimed when its result is
a success, or when it is under way. Undoing a call inside thus cannot take an
earlier item's token away. The number of tokens is known only when no receiver
has code: then nothing is open above the batch but the mint of its own item
(`QuietOK`), so that nobody else mints. `StrictIsAllOrNothing` follows, as a strict
batch that returns claims every item.

**StellarSBT.** `revoke_sbt` writes the nullifier's entry again. That this
frees nothing needs `EntriesAgree`: the nullifier stored with an SBT leads to
the SBT's own id. Types of times to live need that `_calc_sbt_ttl_params`
yields numbers, although it divides. `Revocable` is arithmetic: with a whole day
left, the bump is at least a day and fits into a u32 (`BumpsFit`, which holds
because `mint_sbt` did the same conversion with more days left). `LongLived` needs
the invariant `LivesLong`: each extension leaves the entry alive until less than two
days before the expiry, as it counts whole days and skips an extension by one
at most; `Restore` and later extensions never shorten a life.

**SuiSBT.** `KeysDistinct`: the capability's dynamic fields are the keys of
the SBTs, and no two SBTs share a key. Equal nullifier and circuit give equal
keys; the converse fails (section 3), and is not needed. Beside the clients the chain takes the
same steps, which the refinement `ImplementsChain` says. `VerdictsStand` rests on
`ScriptsOK`: the fields that a script keeps are the SBT's for good, and a block
that it saw refused means that the SBT is revoked or expired, as neither goes back. That `index.ts` has
counted each event once needs that its cursor is the oldest event it has counted
(`CursorAtTheOldest`): the next page ends just before it (`PageIs`), and the mints
of two adjoining parts add up (`MintsOfParts`).

**CleanHands.** `RangeCheck` is the arithmetic of V3: an expiry before the time of
issuance makes a difference of nearly the prime, which does not fit into the
range, and without that check `LessThan` would accept it. The rest is that the
script reads the expiry where the circuit shows it. For the encryption,
`Decrypts` is the arithmetic of ElGamal modulo the curve's order: the shared
secret, reduced at each step on the one side and on the other, is the same
number (`Quotient`, `RemainderIs`). `EncryptionIs` adds the conversions, one before
and one behind, and the invariant that a proof's points were accepted.

**AztecSBT.** `IndexesAgree`: the two indexes and the minted SBTs agree in both
directions. A key that is initialized twice would break it, and the assertions
on the id 0 would not prevent that; records written by revoking an id too early
do not, as no index leads to them.

**zk-escrow.** `SessionOK` says of each stage of a session what its arrays hold: a
place is empty or has the value for its own index, whichever promises have
settled, and a stage begins when all of the one before have. `Prove` then reads
full arrays. That the order of the signals gives each of the tag's rows its own
commitment, encryption and PRF input is a lemma on concatenated arrays (`Layout`).

**Witness calculator.** `CalculatorOK` says of each call that waits that the instance
holds the witness of the call that was begun last, whatever it was, and of each
call that has returned that its output decodes to the witness of the last call
begun before. A microtask changes no signals, so all that waits stays right; a
call that begins overtakes all that wait, and is then their last one. What
makes it hard is that the code is loops. Each is a fold, unfolded by `Recursion` as
a function of the prefix:

- `fromArray32` undoes `toArray32` (`RestsAre`, `ElementOfShared`): after k words the
  remainder is what the words ahead stand for, and `ElementsFit` says that nothing is
  left after the last. Readers of the three formats then find each element in
  its own block (`Blocks`), WTNS behind its two headers.
- `normalize` yields the one representative in 0 .. prime - 1 (`NormalizeChooses`),
  of negative numbers and of those beyond the field.
- The loop of `_doCalculateWitness` (`Looped`): the inputs of the keys so far are in
  their signals, and no others are marked. The check that the sizes add up leaves
  no signal unset: keys differ, each has its signal's size, and a missing one
  would make the sum less. So nothing of an earlier input remains.

**Only model-checked:** the liveness properties (`EventsCountedAtLast`,
`SessionsSettle`, `CallsReturn`), which are out of the prover's reach, and the two
runs that expect a violation.

## 5. Plan

Done: (1) Payments with its lifecycle; (2) Hub and HubBatch; (3) Stellar, Sui and
Aztec; (4) what surrounds them off chain: the audit layer, the provers of the V3
circuits, zk-escrow with its witness calculator, the Sui clients. The
proofs cover every safety property that a run checks.

Next, in this order:

1. An abstract specification of "an SBT registry" (a nullifier is spent once,
   a revoked SBT needs a new proof) that Hub, StellarSBT, SuiSBT and AztecSBT
   each implement.
2. The Merkle path of `merkleproof.circom` and the leaf update of
   `onAddLeaf.circom` against a reference definition of the tree.

**Not modelled**, and why:

- `contracts/sandbox/Hub.sol`: Hub without the verifier, its signatures and the
  fee, for testnets, where anybody mints. Nothing happens in it that does not
  in Hub.
- The Verax portals and the EAS resolver: stateless hooks, which compare the
  sender, a schema or an attester with a constant or one variable. Handing
  the role of EAS's attester to a wrong address cannot be undone
  (`AttesterResolver.sol:35`); that is so by design, and no property could
  tell a wrong address from a right one.
- The Sui payment memo, which emits an event; the Aztec client and the
  deployment scripts, which await one transaction after the other.
- Merkle, curve and hash gadgets of the circuits, generated verifiers and
  keys, the ZoKrates circuits that no contract here uses any more, and the
  second, identical copy of the witness calculator (`subOrderCheck_js`).
- `proofs.js`, `issuer.js`, `leaves.js` and the other utilities: pure helpers
  around provers, hashes and keys.
- Of what is modelled: token metadata encoding, events but Sui's, the texts of
  errors and of what scripts print, the hashes of signal names, and witnesses
  of more than 2^32 bytes.

## 6. Running

    tlc -config HubReentry.cfg MCHub.tla
    tlapm HubProofs.tla

Each run's configuration is its name in CamelCase; `PROJECT.json` names module
and configuration of every run, the faults that each property detects
("mutants"), the source lines of every definition ("map"), and the hazards.
