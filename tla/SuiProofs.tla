------------------------------- MODULE SuiProofs -------------------------------
(***************************************************************************)
(* Theorems about SuiSBT and SuiClients.                                   *)
(*                                                                         *)
(* The chain's invariant ties the capability's dynamic fields to the SBTs: *)
(* each SBT has a key of its own among them, so that a mint whose key is   *)
(* not there repeats neither nullifier nor circuit.                        *)
(*                                                                         *)
(* The clients leave the chain alone, so that what is proved of it holds   *)
(* beside them; what a verifier script was told stays true, because an SBT *)
(* once invalid stays so; and index.ts counts from the newest event that   *)
(* its first request met down to the oldest: a page and the part behind it *)
(* that has been counted have the mints of both together.                  *)
(***************************************************************************)
EXTENDS SuiClients, FiniteSetTheorems, FunctionTheorems, TLAPS

-----------------------------------------------------------------------------
(* The keys and the holders *)

Key(sbt) == sbt.nullifier + sbt.circuit

(* The keys are those of the SBTs, and no two SBTs share one. *)
KeysDistinct ==
  /\ spent = {Key(sbts[i]) : i \in DOMAIN sbts}
  /\ \A i, j \in DOMAIN sbts : Key(sbts[i]) = Key(sbts[j]) => i = j

IInv ==
  /\ capOwner \in holders /\ holders \subseteq Addresses
  /\ sbts \in Seq(SoulBoundTokens)
  /\ clockMs \in Nat
  /\ spent \subseteq 0 .. MaxU256
  /\ KeysDistinct
  /\ RevokedOnlyByHolders

(* An SBT's key is a number. *)
LEMMA KeyTyped ==
  ASSUME NEW nullifier \in Nullifiers, NEW circuit \in Circuits
  PROVE  nullifier + circuit \in Nat
BY SuiBounds

(* A mint adds one SBT at the end, whose key was not spent. *)
LEMMA MintStep ==
  ASSUME IInv, NEW sender \in Addresses, NEW recipient \in Addresses,
         NEW circuit \in Circuits, NEW action \in Actions,
         NEW nullifier \in Nullifiers, NEW expiry \in Expirations,
         Mint(sender, recipient, circuit, action, nullifier, expiry)
  PROVE  IInv'
<1> DEFINE key == nullifier + circuit
           n == Len(sbts)
           sbt == Minted(sender, recipient, circuit, action, nullifier, expiry)
<1>1. /\ key \in Nat /\ ~(key > MaxU256) /\ key \notin spent
      /\ spent' = spent \cup {key} /\ sbts' = Append(sbts, sbt)
      /\ UNCHANGED <<capOwner, clockMs, holders>>
  BY KeyTyped DEF Mint, MintAbort
<1>2. sbt \in SoulBoundTokens /\ Key(sbt) = key /\ sbt.revoked = FALSE
  BY SuiBounds DEF Minted, SoulBoundTokens, Key
<1> HIDE DEF sbt
<1>3. /\ sbts \in Seq(SoulBoundTokens) /\ n \in Nat /\ DOMAIN sbts = 1 .. n
      /\ sbts' \in Seq(SoulBoundTokens) /\ DOMAIN sbts' = 1 .. (n + 1)
      /\ \A i \in 1 .. n : sbts'[i] = sbts[i]
      /\ sbts'[n + 1] = sbt
  BY <1>1, <1>2 DEF IInv
<1> HIDE DEF n, key
<1>4. KeysDistinct'
  <2>1. spent' = {Key(sbts'[i]) : i \in 1 .. (n + 1)}
    <3>1. spent = {Key(sbts[i]) : i \in 1 .. n}
      BY <1>3 DEF IInv, KeysDistinct
    <3>2. spent = {Key(sbts'[i]) : i \in 1 .. n}
      BY <1>3, <3>1
    <3>3. {Key(sbts'[i]) : i \in 1 .. (n + 1)}
            = {Key(sbts'[i]) : i \in 1 .. n} \cup {Key(sbts'[n + 1])}
      BY <1>3
    <3>4. QED
      BY <1>1, <1>2, <1>3, <3>2, <3>3
  <2>2. ASSUME NEW i \in 1 .. (n + 1), NEW j \in 1 .. (n + 1),
               Key(sbts'[i]) = Key(sbts'[j])
        PROVE  i = j
    <3>1. \A k \in 1 .. n : Key(sbts'[k]) # key
      BY <1>1, <1>3 DEF IInv, KeysDistinct
    <3>2. CASE i \in 1 .. n /\ j \in 1 .. n
      BY <1>3, <2>2, <3>2 DEF IInv, KeysDistinct
    <3>3. CASE i = n + 1 \/ j = n + 1
      BY <1>2, <1>3, <2>2, <3>1, <3>3
    <3>4. QED
      BY <1>3, <3>2, <3>3
  <2>3. QED
    BY <1>3, <2>1, <2>2 DEF KeysDistinct
<1>5. RevokedOnlyByHolders'
  BY <1>1, <1>2, <1>3 DEF IInv, RevokedOnlyByHolders
<1>6. spent' \subseteq 0 .. MaxU256
  BY <1>1, SuiBounds DEF IInv
<1>7. QED
  BY <1>1, <1>3, <1>4, <1>5, <1>6 DEF IInv

(* A revocation changes one flag, for a sender who holds the capability. *)
LEMMA RevokeStep ==
  ASSUME IInv, NEW sender \in Addresses, NEW i \in DOMAIN sbts, Revoke(sender, i)
  PROVE  IInv'
<1> DEFINE sbt == [sbts[i] EXCEPT !.revoked = TRUE]
<1>1. /\ sender = capOwner /\ sender = sbts[i].recipient
      /\ sbts' = [sbts EXCEPT ![i] = sbt]
      /\ UNCHANGED <<capOwner, spent, clockMs, holders>>
  BY DEF Revoke, MayUse
<1>2. sbts[i] \in SoulBoundTokens
  BY DEF IInv
<1>3. /\ sbt \in SoulBoundTokens /\ Key(sbt) = Key(sbts[i])
      /\ sbt.recipient = sbts[i].recipient
  BY <1>2 DEF SoulBoundTokens, Key
<1> HIDE DEF sbt
<1>4. /\ sbts' \in Seq(SoulBoundTokens) /\ DOMAIN sbts' = DOMAIN sbts
      /\ \A k \in DOMAIN sbts : sbts'[k] = IF k = i THEN sbt ELSE sbts[k]
  BY <1>1, <1>3 DEF IInv
<1>5. \A k \in DOMAIN sbts : Key(sbts'[k]) = Key(sbts[k])
  BY <1>3, <1>4
<1>6. KeysDistinct'
  <2>1. {Key(sbts'[k]) : k \in DOMAIN sbts'} = {Key(sbts[k]) : k \in DOMAIN sbts}
    BY <1>4, <1>5
  <2>2. QED
    BY <1>1, <1>4, <1>5, <2>1 DEF IInv, KeysDistinct
<1>7. RevokedOnlyByHolders'
  BY <1>1, <1>3, <1>4 DEF IInv, RevokedOnlyByHolders
<1>8. QED
  BY <1>1, <1>4, <1>6, <1>7 DEF IInv

(* Handing the capability over makes a holder of the new owner. *)
LEMMA SetMinterStep ==
  ASSUME IInv, NEW sender \in Addresses, NEW newMinter \in Addresses,
         SetMinter(sender, newMinter)
  PROVE  IInv'
BY DEF IInv, SetMinter, KeysDistinct, RevokedOnlyByHolders

LEMMA IInvStep == IInv /\ [Next]_vars => IInv'
<1> SUFFICES ASSUME IInv, [Next]_vars PROVE IInv'
  OBVIOUS
<1>1. CASE Tick
  BY <1>1 DEF IInv, Tick, KeysDistinct, RevokedOnlyByHolders
<1>2. CASE UNCHANGED vars
  BY <1>2 DEF IInv, vars, KeysDistinct, RevokedOnlyByHolders
<1>3. QED
  BY <1>1, <1>2, MintStep, RevokeStep, SetMinterStep DEF Next

LEMMA IInvInit == Init => IInv
BY DEF Init, IInv, KeysDistinct, RevokedOnlyByHolders

(* The inductive invariant holds in every reachable state. *)
THEOREM Inductive == Spec => []IInv
BY IInvInit, IInvStep, PTL DEF Spec

(* Every SBT has its type and the capability's dynamic fields are exactly the
   keys that `mint` added for them. *)
THEOREM TypeCorrect == Spec => []TypeOK
<1>1. IInv => TypeOK
  <2> SUFFICES ASSUME IInv PROVE TypeOK
    OBVIOUS
  <2>1. \A i \in DOMAIN sbts : sbts[i] \in SoulBoundTokens
    BY DEF IInv
  <2>2. QED
    BY <2>1 DEF IInv, TypeOK, KeysDistinct, Key
<1>2. QED
  BY <1>1, Inductive, PTL

(* The lookup of `mint` lets a nullifier be used for one SBT of a circuit. *)
THEOREM OncePerCircuit == Spec => []NullifierOncePerCircuit
<1>1. IInv => NullifierOncePerCircuit
  BY DEF IInv, KeysDistinct, NullifierOncePerCircuit, Key
<1>2. QED
  BY <1>1, Inductive, PTL

(* `revoke` reaches the SBTs of those who have held the capability, no
   others. *)
THEOREM RevokedByHolders == Spec => []RevokedOnlyByHolders
<1>1. IInv => RevokedOnlyByHolders
  BY DEF IInv
<1>2. QED
  BY <1>1, Inductive, PTL

(* Each of verify_sbt_for_circuit, _action and _circuit_and_action returns true
   where the assert function of its name does not abort. *)
THEOREM VerifierAgrees == Spec => []ChecksAgree
<1>1. ChecksAgree
  BY DEF ChecksAgree, VerifySbt, AssertAbort, IsValid, IsExpired
<1>2. QED
  BY <1>1, PTL

(* Whole seconds do not go back. *)
LEMMA DivMonotone ==
  ASSUME NEW d \in Nat \ {0}, NEW a \in Nat, NEW b \in Nat, a <= b
  PROVE  /\ a \div d \in Int /\ b \div d \in Int
         /\ a \div d <= b \div d
<1> DEFINE q == a \div d
           p == b \div d
<1>1. /\ q \in Int /\ a = d * q + (a % d) /\ a % d \in 0 .. d - 1
      /\ p \in Int /\ b = d * p + (b % d) /\ b % d \in 0 .. d - 1
  OBVIOUS
<1> HIDE DEF q, p
<1>2. d * q < d * (p + 1)
  BY <1>1
<1>3. q < p + 1
  BY <1>1, <1>2
<1>4. QED
  BY <1>1, <1>3 DEF q, p

(* A step takes nothing away from an SBT but its validity, and turns no clock
   back. *)
LEMMA SbtStep ==
  ASSUME IInv, [Next]_vars, NEW i \in DOMAIN sbts
  PROVE  /\ clockMs' \in Nat /\ clockMs <= clockMs' /\ i \in DOMAIN sbts'
         /\ sbts'[i] = sbts[i] \/ sbts'[i] = [sbts[i] EXCEPT !.revoked = TRUE]
<1>0. sbts \in Seq(SoulBoundTokens) /\ clockMs \in Nat
  BY DEF IInv
<1>1. CASE Tick
  BY <1>0, <1>1 DEF Tick
<1>2. ASSUME NEW sender \in Addresses, NEW newMinter \in Addresses,
             SetMinter(sender, newMinter)
      PROVE  clockMs' = clockMs /\ sbts' = sbts
  BY <1>2 DEF SetMinter
<1>3. ASSUME NEW sender \in Addresses, NEW recipient \in Addresses,
             NEW circuit \in Circuits, NEW action \in Actions,
             NEW nullifier \in Nullifiers, NEW expiry \in Expirations,
             Mint(sender, recipient, circuit, action, nullifier, expiry)
      PROVE  clockMs' = clockMs /\ i \in DOMAIN sbts' /\ sbts'[i] = sbts[i]
  <2> DEFINE sbt == Minted(sender, recipient, circuit, action, nullifier, expiry)
  <2>1. sbts' = Append(sbts, sbt) /\ sbts' \in Seq(SoulBoundTokens)
    BY <1>3, MintStep DEF Mint, IInv
  <2> HIDE DEF sbt
  <2>2. Len(sbts') = Len(sbts) + 1 /\ sbts'[i] = sbts[i]
    BY <1>0, <2>1
  <2>3. QED
    BY <1>0, <1>3, <2>1, <2>2 DEF Mint
<1>4. ASSUME NEW sender \in Addresses, NEW k \in DOMAIN sbts, Revoke(sender, k)
      PROVE  /\ clockMs' = clockMs /\ i \in DOMAIN sbts'
             /\ \/ sbts'[i] = sbts[i]
                \/ sbts'[i] = [sbts[i] EXCEPT !.revoked = TRUE]
  BY <1>0, <1>4 DEF Revoke
<1>5. CASE UNCHANGED vars
  BY <1>0, <1>5 DEF vars
<1>6. CASE Next /\ ~Tick
  <2>1. /\ clockMs' = clockMs /\ i \in DOMAIN sbts'
        /\ \/ sbts'[i] = sbts[i]
           \/ sbts'[i] = [sbts[i] EXCEPT !.revoked = TRUE]
    BY <1>2, <1>3, <1>4, <1>6 DEF Next
  <2>2. QED
    BY <1>0, <2>1
<1>7. QED
  BY <1>1, <1>5, <1>6

(* What `is_sbt_valid` has refused once it refuses for good, and all else that
   `mint` wrote into an SBT stays. *)
THEOREM InvalidStaysInvalid == Spec => InvalidForGood
<1>1. IInv /\ [Next]_vars =>
        [\A i \in DOMAIN sbts :
           /\ ~IsValid(sbts[i]) => ~IsValid(sbts[i])'
           /\ [sbts[i] EXCEPT !.revoked = FALSE]
                = [sbts'[i] EXCEPT !.revoked = FALSE]]_vars
  <2> SUFFICES ASSUME IInv, [Next]_vars, NEW i \in DOMAIN sbts
               PROVE  /\ ~IsValid(sbts[i]) => ~IsValid(sbts[i])'
                      /\ [sbts[i] EXCEPT !.revoked = FALSE]
                           = [sbts'[i] EXCEPT !.revoked = FALSE]
    OBVIOUS
  <2> DEFINE sbt == sbts[i]
             next == sbts'[i]
  <2>1. sbt \in SoulBoundTokens
    BY DEF IInv
  <2>2. next = sbt \/ next = [sbt EXCEPT !.revoked = TRUE]
    BY SbtStep
  <2>3. /\ next.expiry = sbt.expiry /\ sbt.expiry \in Nat
        /\ sbt.revoked => next.revoked
        /\ [sbt EXCEPT !.revoked = FALSE] = [next EXCEPT !.revoked = FALSE]
    BY <2>1, <2>2 DEF SoulBoundTokens
  <2>4. clockMs \in Nat /\ clockMs' \in Nat /\ clockMs <= clockMs'
    BY SbtStep DEF IInv
  <2>5. /\ clockMs \div MsPerSecond \in Int /\ clockMs' \div MsPerSecond \in Int
        /\ clockMs \div MsPerSecond <= clockMs' \div MsPerSecond
    BY <2>4, DivMonotone, SuiBounds
  <2>6. Seconds > sbt.expiry => (Seconds > sbt.expiry)'
    BY <2>3, <2>5 DEF Seconds
  <2>7. QED
    BY <2>3, <2>6 DEF IsValid
<1>2. QED
  BY <1>1, Inductive, PTL DEF Spec, InvalidForGood

-----------------------------------------------------------------------------
(* The chain beside the clients *)

(* A step of the clients is a step of the chain, or none. *)
LEMMA ClientsStep == [ClientsNext]_clientVars => [Next]_vars
<1> SUFFICES ASSUME [ClientsNext]_clientVars PROVE [Next]_vars
  OBVIOUS
<1>1. CASE ChainStep
  BY <1>1 DEF ChainStep, Next
<1>2. ASSUME NEW s \in Scripts, ScriptStep(s) PROVE UNCHANGED vars
  BY <1>2 DEF ScriptStep
<1>3. CASE PagerStep
  BY <1>3 DEF PagerStep, Query, QueryFails
<1>4. CASE UNCHANGED clientVars
  BY <1>4 DEF clientVars
<1>5. QED
  BY <1>1, <1>2, <1>3, <1>4 DEF ClientsNext

(* With the clients at work, the chain behaves as module SuiSBT says: none of
   their blocks, which are inspected only, changes an object. *)
THEOREM ImplementsChain == ClientsSpec => Spec
<1>1. ClientsInit => Init
  BY DEF ClientsInit
<1>2. QED
  BY <1>1, ClientsStep, PTL DEF ClientsSpec, Spec

(* What is proved of the chain alone holds beside the clients. *)
THEOREM ChainBesideClients ==
  ClientsSpec => /\ []TypeOK
                 /\ []NullifierOncePerCircuit
                 /\ []RevokedOnlyByHolders
                 /\ []ChecksAgree
                 /\ InvalidForGood
BY ImplementsChain, TypeCorrect, OncePerCircuit, RevokedByHolders,
   VerifierAgrees, InvalidStaysInvalid

-----------------------------------------------------------------------------
(* The verifier scripts *)

(* The condition in which NegativeVerdictsStand says that the SBT is. *)
Dead ==
  \/ TheSbt.revoked
  \/ clockMs >= (TheSbt.expiry + 1) * MsPerSecond

(* The flag of a block in which a script sees the SBT refused. *)
Refused(s, test, block) ==
  \/ s = VerifierTest /\ test \in {"basic", "detailed"} /\ block["valid"] = FALSE
  \/ s = SimpleTest /\ test = "time" /\ block["valid"] = FALSE
  \/ s = SimpleTest /\ test \in {"circuit", "action"} /\ block["right"] = FALSE

Negative(s, j) ==
  /\ scripts[s].seen[j] /= NoFields
  /\ Refused(s, Tests[s][j], scripts[s].seen[j])

Verdicts(seen) == \E S : seen \in Seq(S)

(* A script has seen the results of its first tests, the fields that it keeps
   are those of the SBT, and what it saw refused is dead. *)
ScriptOK(s) ==
  /\ scripts[s] = [seen |-> scripts[s].seen, fields |-> scripts[s].fields,
                   status |-> scripts[s].status]
  /\ Verdicts(scripts[s].seen)
  /\ \/ scripts[s].fields = NoFields
     \/ /\ Exists
        /\ scripts[s].fields.circuit = TheSbt.circuit
        /\ scripts[s].fields.action = TheSbt.action
  /\ \A j \in DOMAIN scripts[s].seen : Negative(s, j) => Exists /\ Dead

ScriptsOK ==
  /\ scripts = [s \in Scripts |-> scripts[s]]
  /\ \A s \in Scripts : ScriptOK(s)

(* A date before the end of its second is not past it. *)
LEMMA SecondOver ==
  ASSUME NEW d \in Nat \ {0}, NEW a \in Nat, NEW e \in Nat, a \div d > e
  PROVE  a >= (e + 1) * d
<1> DEFINE q == a \div d
<1>1. q \in Int /\ a = d * q + (a % d) /\ a % d \in 0 .. d - 1
  OBVIOUS
<1>2. q >= e + 1
  BY <1>1
<1> HIDE DEF q
<1>3. d * q >= d * (e + 1)
  BY <1>1, <1>2
<1>4. d * (e + 1) = (e + 1) * d /\ (e + 1) * d \in Int
  OBVIOUS
<1>5. QED
  BY <1>1, <1>3, <1>4

(* What the verifier finds invalid is revoked or past its expiry's second. *)
LEMMA InvalidIsDead ==
  ASSUME IInv, Exists, ~IsValid(TheSbt)
  PROVE  Dead
<1>1. TheSbt \in SoulBoundTokens /\ clockMs \in Nat
  BY DEF IInv, Exists, TheSbt
<1>2. TheSbt.expiry \in Nat
  BY <1>1 DEF SoulBoundTokens
<1>3. CASE Seconds > TheSbt.expiry
  <2>1. clockMs \div MsPerSecond > TheSbt.expiry
    BY <1>3 DEF Seconds
  <2>2. clockMs >= (TheSbt.expiry + 1) * MsPerSecond
    BY <1>1, <1>2, <2>1, SecondOver, SuiBounds
  <2>3. QED
    BY <2>2 DEF Dead
<1>4. CASE TheSbt.revoked
  BY <1>4 DEF Dead
<1>5. QED
  BY <1>3, <1>4 DEF IsValid

(* The SBT that the scripts ask about stays where it is, and stays dead. *)
LEMMA DeadStays ==
  ASSUME IInv, [Next]_vars, Exists
  PROVE  /\ Exists'
         /\ TheSbt'.circuit = TheSbt.circuit /\ TheSbt'.action = TheSbt.action
         /\ Dead => Dead'
<1> DEFINE sbt == sbts[1]
           next == sbts'[1]
<1>1. /\ sbts \in Seq(SoulBoundTokens) /\ sbts' \in Seq(SoulBoundTokens)
      /\ 1 \in DOMAIN sbts
  BY IInvStep DEF IInv, Exists
<1>2. /\ 1 \in DOMAIN sbts' /\ clockMs' \in Nat /\ clockMs <= clockMs'
      /\ next = sbt \/ next = [sbt EXCEPT !.revoked = TRUE]
  BY <1>1, SbtStep
<1>3. Exists'
  BY <1>1, <1>2 DEF Exists
<1>4. sbt \in SoulBoundTokens
  BY <1>1
<1>5. /\ next.circuit = sbt.circuit /\ next.action = sbt.action
      /\ next.expiry = sbt.expiry /\ sbt.expiry \in Nat
      /\ sbt.revoked => next.revoked
  BY <1>2, <1>4 DEF SoulBoundTokens
<1>6. (sbt.expiry + 1) * MsPerSecond \in Int /\ clockMs \in Int
  BY <1>5, SuiBounds DEF IInv
<1> HIDE DEF sbt, next
<1>7. Dead => Dead'
  <2>1. CASE sbt.revoked
    BY <1>5, <2>1 DEF Dead, TheSbt, sbt, next
  <2>2. CASE clockMs >= (sbt.expiry + 1) * MsPerSecond
    <3>1. clockMs' >= (next.expiry + 1) * MsPerSecond
      BY <1>2, <1>5, <1>6, <2>2
    <3>2. QED
      BY <3>1 DEF Dead, TheSbt, next
  <2>3. QED
    BY <2>1, <2>2 DEF Dead, TheSbt, sbt
<1>8. QED
  BY <1>3, <1>5, <1>7 DEF TheSbt, sbt, next

(* The chain goes on: what a script has seen is as right as it was. *)
LEMMA ChainKeepsScripts ==
  ASSUME IInv, ScriptsOK, [Next]_vars, UNCHANGED scripts
  PROVE  ScriptsOK'
<1> SUFFICES ASSUME NEW s \in Scripts PROVE ScriptOK(s)'
  BY DEF ScriptsOK, Scripts
<1>1. ScriptOK(s)
  BY DEF ScriptsOK
<1>2. scripts' = scripts
  OBVIOUS
<1>3. \A j \in DOMAIN scripts[s].seen : Negative(s, j)' => Negative(s, j)
  BY <1>2 DEF Negative
<1>4. CASE Exists
  <2>1. /\ Exists' /\ (Dead => Dead')
        /\ TheSbt'.circuit = TheSbt.circuit /\ TheSbt'.action = TheSbt.action
    BY <1>4, DeadStays
  <2>2. QED
    BY <1>1, <1>2, <1>3, <2>1 DEF ScriptOK, Verdicts
<1>5. CASE ~Exists
  BY <1>1, <1>2, <1>3, <1>5 DEF ScriptOK, Verdicts
<1>6. QED
  BY <1>4, <1>5

(* A script sees one more result, of the SBT as it is. *)
LEMMA SeesStep ==
  ASSUME ScriptsOK, NEW s \in Scripts, NEW result, NEW fields,
         Sees(s, result, fields), UNCHANGED vars,
         \/ fields = NoFields
         \/ /\ Exists
            /\ fields.circuit = TheSbt.circuit /\ fields.action = TheSbt.action,
         result /= NoFields /\ Refused(s, NextTest(s), result)
           => Exists /\ Dead
  PROVE  ScriptsOK'
<1> DEFINE old == scripts[s].seen
           seen == Append(old, result)
           status == IF Len(seen) = Len(Tests[s]) THEN "completed" ELSE "running"
           script == [seen |-> seen, fields |-> fields, status |-> status]
<1>1. scripts' = [scripts EXCEPT ![s] = script]
  BY DEF Sees
<1>2. (Exists' <=> Exists) /\ TheSbt' = TheSbt /\ (Dead' <=> Dead)
  BY DEF vars, Exists, TheSbt, Dead
<1>3. PICK S : old \in Seq(S)
  BY DEF ScriptsOK, ScriptOK, Verdicts
<1>4. /\ seen \in Seq(S \cup {result}) /\ Len(old) \in Nat
      /\ DOMAIN old = 1 .. Len(old) /\ DOMAIN seen = 1 .. Len(old) + 1
      /\ \A j \in 1 .. Len(old) : seen[j] = old[j]
      /\ seen[Len(old) + 1] = result
  <2>1. old \in Seq(S \cup {result})
    BY <1>3
  <2>2. QED
    BY <2>1
<1> HIDE DEF seen, status
<1>5. /\ scripts = [t \in Scripts |-> scripts[t]]
      /\ scripts' = [t \in Scripts |-> scripts'[t]]
      /\ scripts'[s] = script
      /\ \A t \in Scripts : t /= s => scripts'[t] = scripts[t]
  <2>1. scripts = [t \in Scripts |-> scripts[t]]
    BY DEF ScriptsOK
  <2> HIDE DEF script
  <2>2. DOMAIN scripts = Scripts
    BY <2>1
  <2>3. QED
    BY <1>1, <2>1, <2>2
<1>6. ASSUME NEW t \in Scripts, t /= s PROVE ScriptOK(t)'
  <2>1. ScriptOK(t) /\ scripts'[t] = scripts[t]
    BY <1>5, <1>6 DEF ScriptsOK
  <2>2. QED
    BY <1>2, <2>1 DEF ScriptOK, Verdicts, Negative
<1>7. ScriptOK(s)'
  <2>1. /\ scripts'[s].seen = seen /\ scripts'[s].fields = fields
        /\ scripts'[s] = [seen |-> scripts'[s].seen, fields |-> scripts'[s].fields,
                          status |-> scripts'[s].status]
    BY <1>5
  <2>2. Verdicts(seen)
    BY <1>4 DEF Verdicts
  <2>3. ASSUME NEW j \in DOMAIN seen, Negative(s, j)'
        PROVE  Exists /\ Dead
    <3>1. CASE j \in 1 .. Len(old)
      <4>1. Negative(s, j)
        BY <1>4, <2>1, <2>3, <3>1 DEF Negative
      <4>2. QED
        BY <1>4, <3>1, <4>1 DEF ScriptsOK, ScriptOK
    <3>2. CASE j = Len(old) + 1
      BY <1>4, <2>1, <2>3, <3>2 DEF Negative, NextTest
    <3>3. QED
      BY <1>4, <3>1, <3>2
  <2>4. QED
    BY <1>2, <2>1, <2>2, <2>3 DEF ScriptOK
<1>8. QED
  BY <1>5, <1>6, <1>7 DEF ScriptsOK

(* A step of a script: the fields are those of the SBT when they are read, and
   no block refuses a valid SBT for them. *)
LEMMA ScriptStepOK ==
  ASSUME IInv, ScriptsOK, NEW s \in Scripts, ScriptStep(s)
  PROVE  ScriptsOK'
<1>0. ScriptOK(s) /\ UNCHANGED vars
  BY DEF ScriptsOK, ScriptStep
<1>1. CASE Details(s)
  <2> DEFINE fields == IF s = VerifierTest THEN VerifierDetails ELSE SimpleDetails
  <2>1. Sees(s, fields, fields) /\ NextTest(s) = "details"
    BY <1>1 DEF Details
  <2>2. fields = NoFields \/ (Exists /\ fields = TheSbt)
    BY DEF VerifierDetails, SimpleDetails
  <2>3. ~Refused(s, "details", fields)
    BY DEF Refused
  <2> HIDE DEF fields
  <2>4. QED
    BY <1>0, <2>1, <2>2, <2>3, SeesStep
<1>2. CASE Inspect(s)
  <2> DEFINE test == NextTest(s)
             fields == scripts[s].fields
             result == IF s = VerifierTest THEN VerifierResult(test, TheSbt)
                       ELSE SimpleResult(test, TheSbt, fields)
  <2>1. Sees(s, result, fields) /\ (Exists \/ Skipped(s))
    BY <1>2 DEF Inspect
  <2>2. \/ fields = NoFields
        \/ /\ Exists
           /\ fields.circuit = TheSbt.circuit /\ fields.action = TheSbt.action
    BY <1>0 DEF ScriptOK
  <2>3. ASSUME result /= NoFields, Refused(s, test, result)
        PROVE  Exists /\ ~IsValid(TheSbt)
    <3>1. Exists
      <4>1. CASE Skipped(s)
        <5>1. s = SimpleTest /\ fields = NoFields /\ test \in {"circuit", "action"}
          BY <4>1 DEF Skipped
        <5>2. result = NoFields
          BY <5>1 DEF SimpleResult, CircuitBlock, ActionBlock, SimpleTest,
                      VerifierTest
        <5>3. QED
          BY <2>3, <5>2
      <4>2. QED
        BY <2>1, <4>1
    <3>2. ASSUME result.valid = IsValid(TheSbt), test \in {"basic", "detailed", "time"}
          PROVE  ~IsValid(TheSbt)
      BY <2>3, <3>2, Zenon DEF Refused
    <3>3. CASE s = VerifierTest /\ test \in {"basic", "detailed"}
      <4>1. result.valid = IsValid(TheSbt)
        BY <3>3 DEF VerifierResult, BasicBlock, DetailedBlock
      <4>2. QED
        BY <3>1, <3>2, <3>3, <4>1
    <3>4. CASE s = SimpleTest /\ test = "time"
      <4>1. result.valid = IsValid(TheSbt)
        BY <3>4 DEF SimpleResult, TimeBlock, SimpleTest, VerifierTest
      <4>2. QED
        BY <3>1, <3>2, <3>4, <4>1
    <3>5. CASE s = SimpleTest /\ test = "circuit"
      <4>1. result = CircuitBlock(TheSbt, fields)
        BY <3>5 DEF SimpleResult, SimpleTest, VerifierTest
      <4>2. fields /= NoFields /\ result.right = VerifySbt(TheSbt, fields.circuit, Any)
        BY <2>3, <4>1 DEF CircuitBlock
      <4>3. ~VerifySbt(TheSbt, fields.circuit, Any)
        BY <2>3, <3>5, <4>2 DEF Refused, SimpleTest, VerifierTest
      <4>4. QED
        BY <2>2, <3>1, <4>2, <4>3 DEF VerifySbt
    <3>6. CASE s = SimpleTest /\ test = "action"
      <4>1. result = ActionBlock(TheSbt, fields)
        BY <3>6 DEF SimpleResult, SimpleTest, VerifierTest
      <4>2. fields /= NoFields /\ result.right = VerifySbt(TheSbt, Any, fields.action)
        BY <2>3, <4>1 DEF ActionBlock
      <4>3. ~VerifySbt(TheSbt, Any, fields.action)
        BY <2>3, <3>6, <4>2 DEF Refused, SimpleTest, VerifierTest
      <4>4. QED
        BY <2>2, <3>1, <4>2, <4>3 DEF VerifySbt
    <3>7. QED
      BY <2>3, <3>3, <3>4, <3>5, <3>6 DEF Refused
  <2> HIDE DEF result, test, fields
  <2>4. result /= NoFields /\ Refused(s, NextTest(s), result) => Exists /\ Dead
    BY <2>3, InvalidIsDead DEF test
  <2>5. QED
    BY <1>0, <2>1, <2>2, <2>4, SeesStep
<1>3. CASE Throw(s)
  <2> DEFINE script == [scripts[s] EXCEPT !.status = "failed"]
  <2>1. scripts' = [scripts EXCEPT ![s] = script]
    BY <1>3 DEF Throw
  <2>2. /\ script.seen = scripts[s].seen /\ script.fields = scripts[s].fields
        /\ script = [seen |-> script.seen, fields |-> script.fields,
                     status |-> script.status]
    BY <1>0 DEF ScriptOK
  <2> HIDE DEF script
  <2>3. scripts = [t \in Scripts |-> scripts[t]]
    BY DEF ScriptsOK
  <2>4. /\ scripts' = [t \in Scripts |-> scripts'[t]]
        /\ scripts'[s] = script
        /\ \A t \in Scripts : t /= s => scripts'[t] = scripts[t]
    <3>1. DOMAIN scripts = Scripts
      BY <2>3
    <3>2. QED
      BY <2>1, <2>3, <3>1
  <2>5. (Exists' <=> Exists) /\ TheSbt' = TheSbt /\ (Dead' <=> Dead)
    BY <1>0 DEF vars, Exists, TheSbt, Dead
  <2>6. ASSUME NEW t \in Scripts PROVE ScriptOK(t)'
    <3>1. ScriptOK(t)
      BY DEF ScriptsOK
    <3>2. /\ scripts'[t].seen = scripts[t].seen
          /\ scripts'[t].fields = scripts[t].fields
          /\ scripts'[t] = [seen |-> scripts'[t].seen, fields |-> scripts'[t].fields,
                            status |-> scripts'[t].status]
      BY <2>2, <2>4, <3>1 DEF ScriptOK
    <3>3. QED
      BY <2>5, <3>1, <3>2 DEF ScriptOK, Verdicts, Negative
  <2>7. QED
    BY <2>4, <2>6 DEF ScriptsOK
<1>4. QED
  BY <1>1, <1>2, <1>3 DEF ScriptStep

LEMMA ScriptsStep == IInv /\ ScriptsOK /\ [ClientsNext]_clientVars => ScriptsOK'
<1> SUFFICES ASSUME IInv, ScriptsOK, [ClientsNext]_clientVars PROVE ScriptsOK'
  OBVIOUS
<1>1. [Next]_vars
  BY ClientsStep
<1>2. CASE ChainStep
  BY <1>1, <1>2, ChainKeepsScripts DEF ChainStep
<1>3. CASE PagerStep
  BY <1>1, <1>3, ChainKeepsScripts DEF PagerStep, Query, QueryFails
<1>4. CASE UNCHANGED clientVars
  BY <1>1, <1>4, ChainKeepsScripts DEF clientVars, clients
<1>5. QED
  BY <1>2, <1>3, <1>4, ScriptStepOK DEF ClientsNext

LEMMA ScriptsInit == ClientsInit => ScriptsOK
<1> SUFFICES ASSUME ClientsInit, NEW s \in Scripts PROVE ScriptOK(s)
  BY Zenon DEF ClientsInit, ScriptsOK
<1>1. PICK running : scripts = [t \in Scripts |->
            [seen |-> <<>>, fields |-> NoFields,
             status |-> IF t = running THEN "running" ELSE "not started"]]
  BY Zenon DEF ClientsInit
<1>2. /\ scripts[s].seen = <<>> /\ scripts[s].fields = NoFields
      /\ scripts[s] = [seen |-> scripts[s].seen, fields |-> scripts[s].fields,
                       status |-> scripts[s].status]
  BY <1>1
<1>3. <<>> \in Seq({}) /\ DOMAIN <<>> = {}
  OBVIOUS
<1>4. QED
  BY <1>2, <1>3 DEF ScriptOK, Verdicts

(* A script that has seen a FALSE among its verdicts has seen a refusal. *)
LEMMA VerdictsRefuse ==
  ASSUME NEW s \in Scripts, NEW test, NEW flag, FALSE \in Verdict(s, test, flag),
         \A block : block[flag] = FALSE => Refused(s, test, block)
  PROVE  \E j \in DOMAIN scripts[s].seen : Negative(s, j)
BY DEF Verdict, Negative

(* What either script was told of an SBT refused is true when it is told and
   stays true, although the clock and the chain go on between its requests and
   the circuit and the action that it compares with were read before. *)
THEOREM VerdictsStand == ClientsSpec => []NegativeVerdictsStand
<1>1. ScriptsOK => NegativeVerdictsStand
  <2> SUFFICES ASSUME ScriptsOK,
                      \/ FALSE \in Verdict(VerifierTest, "basic", "valid")
                      \/ FALSE \in Verdict(VerifierTest, "detailed", "valid")
                      \/ FALSE \in Verdict(SimpleTest, "time", "valid")
                      \/ FALSE \in Verdict(SimpleTest, "circuit", "right")
                      \/ FALSE \in Verdict(SimpleTest, "action", "right")
               PROVE  Dead
    BY Zenon DEF NegativeVerdictsStand, Dead
  <2>1. \A block :
          /\ block["valid"] = FALSE => /\ Refused(VerifierTest, "basic", block)
                                       /\ Refused(VerifierTest, "detailed", block)
                                       /\ Refused(SimpleTest, "time", block)
          /\ block["right"] = FALSE => /\ Refused(SimpleTest, "circuit", block)
                                       /\ Refused(SimpleTest, "action", block)
    BY DEF Refused
  <2>2. VerifierTest \in Scripts /\ SimpleTest \in Scripts
    BY DEF Scripts
  <2>3. \E s \in Scripts : \E j \in DOMAIN scripts[s].seen : Negative(s, j)
    BY <2>1, <2>2, VerdictsRefuse
  <2>4. QED
    BY <2>3 DEF ScriptsOK, ScriptOK
<1>2. ClientsSpec => []IInv
  BY ImplementsChain, Inductive
<1>3. QED
  BY <1>1, <1>2, ScriptsInit, ScriptsStep, PTL DEF ClientsSpec

-----------------------------------------------------------------------------
(* index.ts *)

EventTypes == {"MinterChanged", "SBTMinted", "SBTRevoked"}
PagerStatuses == {"not started", "running", "completed", "failed"}

MintedAt(page) == {i \in DOMAIN page : page[i] = "SBTMinted"}

LEMMA MintsFinite ==
  ASSUME NEW page \in Seq(EventTypes)
  PROVE  /\ IsFiniteSet(MintedAt(page))
         /\ Mints(page) = Cardinality(MintedAt(page)) /\ Mints(page) \in Nat
<1>1. IsFiniteSet(DOMAIN page)
  BY FS_Interval
<1>2. IsFiniteSet(MintedAt(page))
  BY <1>1, FS_Subset DEF MintedAt
<1>3. QED
  BY <1>2, FS_CardinalityType DEF MintedAt, Mints

(* A page and the part behind it have the mints of both together. *)
LEMMA MintsOfParts ==
  ASSUME NEW s \in Seq(EventTypes), NEW o \in Nat \ {0},
         NEW l \in o - 1 .. Len(s), NEW u \in l .. Len(s)
  PROVE  Mints(SubSeq(s, o, u))
           = Mints(SubSeq(s, o, l)) + Mints(SubSeq(s, l + 1, u))
<1> DEFINE page == SubSeq(s, o, l)
           part == SubSeq(s, l + 1, u)
           both == SubSeq(s, o, u)
           t == (l - o) + 1
           n == (u - o) + 1
           shifted == {i \in t + 1 .. n : both[i] = "SBTMinted"}
<1>1. o \in Nat /\ o >= 1 /\ l \in Nat /\ u \in Nat /\ o - 1 <= l /\ l <= u
  OBVIOUS
<1>2. t \in Nat /\ n \in Nat /\ t <= n /\ n - t = u - l
  BY <1>1
<1>3. /\ page \in Seq(EventTypes) /\ DOMAIN page = 1 .. t
      /\ \A i \in 1 .. t : page[i] = s[(o + i) - 1]
  BY <1>1
<1>4. /\ part \in Seq(EventTypes) /\ DOMAIN part = 1 .. u - l
      /\ \A i \in 1 .. u - l : part[i] = s[l + i]
  BY <1>1
<1>5. /\ both \in Seq(EventTypes) /\ DOMAIN both = 1 .. n
      /\ \A i \in 1 .. n : both[i] = s[(o + i) - 1]
  BY <1>1
<1>6. \A i \in 1 .. t : page[i] = both[i]
  BY <1>2, <1>3, <1>5
<1>7. \A i \in 1 .. n - t : part[i] = both[t + i]
  <2> SUFFICES ASSUME NEW i \in 1 .. n - t PROVE part[i] = both[t + i]
    OBVIOUS
  <2>1. t + i \in 1 .. n /\ (o + (t + i)) - 1 = l + i
    BY <1>1, <1>2
  <2>2. QED
    BY <1>2, <1>4, <1>5, <2>1
<1>8. DOMAIN part = 1 .. n - t
  BY <1>2, <1>4
<1> HIDE DEF page, part, both, t, n
<1>9. Cardinality(shifted) = Cardinality(MintedAt(part)) /\ IsFiniteSet(shifted)
  <2> DEFINE shift == [i \in MintedAt(part) |-> t + i]
  <2>1. shift \in Bijection(MintedAt(part), shifted)
    <3>1. shift \in [MintedAt(part) -> shifted]
      BY <1>2, <1>7, <1>8 DEF MintedAt
    <3>2. \A i, j \in MintedAt(part) : shift[i] = shift[j] => i = j
      BY <1>2, <1>8 DEF MintedAt
    <3>3. ASSUME NEW k \in shifted PROVE \E i \in MintedAt(part) : shift[i] = k
      <4>1. k - t \in MintedAt(part) /\ t + (k - t) = k
        BY <1>2, <1>7, <1>8 DEF MintedAt
      <4>2. QED
        BY <4>1
    <3>4. QED
      BY <3>1, <3>2, <3>3, Fun_IsBij
  <2>2. QED
    BY <1>4, <2>1, MintsFinite, FS_Bijection DEF ExistsBijection
<1>10. /\ MintedAt(both) = MintedAt(page) \cup shifted
       /\ MintedAt(page) \cap shifted = {}
  BY <1>2, <1>3, <1>5, <1>6 DEF MintedAt
<1>11. Cardinality(MintedAt(both))
         = Cardinality(MintedAt(page)) + Cardinality(shifted)
  <2>1. IsFiniteSet(MintedAt(page)) /\ Cardinality(MintedAt(page)) \in Nat
    BY <1>3, MintsFinite
  <2>2. Cardinality(shifted) \in Nat
    BY <1>9, FS_CardinalityType
  <2> HIDE DEF shifted
  <2>3. Cardinality(MintedAt(page) \cup shifted)
          = Cardinality(MintedAt(page)) + Cardinality(shifted)
              - Cardinality(MintedAt(page) \cap shifted)
    BY <1>9, <2>1, FS_Union
  <2>4. Cardinality(MintedAt(page) \cap shifted) = 0
    BY <1>10, FS_EmptySet
  <2>5. QED
    BY <1>10, <2>1, <2>2, <2>3, <2>4
<1>12. QED
  BY <1>3, <1>4, <1>5, <1>9, <1>11, MintsFinite DEF page, part, both

LEMMA NothingMinted ==
  ASSUME NEW s \in Seq(EventTypes), NEW m \in Nat, NEW n \in Nat, n < m
  PROVE  Mints(SubSeq(s, m, n)) = 0
<1>1. MintedAt(SubSeq(s, m, n)) = {}
  BY DEF MintedAt
<1>2. QED
  BY <1>1, FS_EmptySet DEF MintedAt, Mints

PagerRecords ==
  [cursor: Nat, asked: Nat, total: Nat, minted: Nat, status: PagerStatuses]

(* The cursor names the oldest event that has been counted. *)
CursorAtTheOldest ==
  pager.status = "running" =>
    IF pager.cursor = 0 THEN pager.total = 0
    ELSE pager.cursor = (pager.asked - pager.total) + 1

PagerInv ==
  /\ events \in Seq(EventTypes)
  /\ pager \in PagerRecords
  /\ EventsCountedOnce /\ CursorAtTheOldest

(* What is emitted is added behind all that has been asked for. *)
LEMMA EmitStep ==
  ASSUME PagerInv, NEW sender, NEW type \in EventTypes, Emit(sender, type),
         UNCHANGED pager
  PROVE  PagerInv'
<1> DEFINE n == pager.asked
           m == (pager.asked - pager.total) + 1
<1>1. /\ events \in Seq(EventTypes) /\ n \in Nat /\ n <= Len(events)
      /\ pager \in PagerRecords
  BY DEF PagerInv, PagerRecords, EventsCountedOnce
<1>2. m \in Nat /\ m >= 1
  BY <1>1 DEF PagerInv, PagerRecords, EventsCountedOnce
<1> HIDE DEF m, n
<1>3. /\ events' \in Seq(EventTypes) /\ Len(events) <= Len(events')
      /\ SubSeq(events', m, n) = SubSeq(events, m, n)
  <2>1. CASE events' = events
    BY <1>1, <2>1
  <2>2. CASE events' = Append(events, type)
    BY <1>1, <1>2, <2>2
  <2>3. QED
    BY <2>1, <2>2 DEF Emit
<1>4. n <= Len(events')
  BY <1>1, <1>3
<1>5. pager.minted = Mints(SubSeq(events', m, n))
  BY <1>3 DEF PagerInv, EventsCountedOnce, m, n
<1>6. EventsCountedOnce' /\ CursorAtTheOldest'
  BY <1>4, <1>5 DEF PagerInv, EventsCountedOnce, CursorAtTheOldest, m, n
<1>7. QED
  BY <1>1, <1>3, <1>6 DEF PagerInv

(* A page reaches from its oldest event to the one before the cursor, and is
   empty only if there is none. *)
LEMMA PageIs ==
  ASSUME NEW cursor \in Nat, events \in Seq(EventTypes),
         Latest(cursor) \in 0 .. Len(events)
  PROVE  /\ Oldest(cursor) \in Nat \ {0}
         /\ Latest(cursor) \in Oldest(cursor) - 1 .. Len(events)
         /\ Page(cursor) \in Seq(EventTypes)
         /\ Len(Page(cursor)) = (Latest(cursor) - Oldest(cursor)) + 1
         /\ Page(cursor) = <<>> => Latest(cursor) = 0 /\ Oldest(cursor) = 1
<1> DEFINE l == Latest(cursor)
           o == Oldest(cursor)
<1>1. PageLimit \in Nat \ {0} /\ l \in Nat /\ l <= Len(events)
  BY ClientBounds
<1>2. o = IF l > PageLimit THEN (l - PageLimit) + 1 ELSE 1
  BY DEF Oldest
<1>3. Page(cursor) = SubSeq(events, o, l)
  BY DEF Page
<1>4. Len(events) \in Nat
  OBVIOUS
<1> HIDE DEF l, o
<1>5. o \in Nat /\ o >= 1 /\ o <= l + 1 /\ (l >= 1 => o <= l)
  BY <1>1, <1>2
<1>6. Page(cursor) \in Seq(EventTypes) /\ Len(Page(cursor)) = (l - o) + 1
  BY <1>1, <1>3, <1>5
<1>7. l \in o - 1 .. Len(events)
  BY <1>1, <1>4, <1>5
<1>8. Page(cursor) = <<>> => l = 0 /\ o = 1
  BY <1>1, <1>5, <1>6
<1>9. QED
  BY <1>5, <1>6, <1>7, <1>8 DEF l, o

(* A page adds to the totals what lies between it and what has been counted. *)
LEMMA QueryStep ==
  ASSUME PagerInv, Query
  PROVE  PagerInv'
<1> DEFINE c == pager.cursor
           l == Latest(c)
           o == Oldest(c)
           A == Asked
           N == Len(events)
           added == Len(Page(c))
<1>1. /\ events \in Seq(EventTypes) /\ N \in Nat /\ events' = events
      /\ pager \in PagerRecords /\ c \in Nat
      /\ pager.total \in Nat /\ pager.asked \in Nat
      /\ pager.total <= pager.asked /\ pager.asked <= N
  BY DEF PagerInv, PagerRecords, EventsCountedOnce, Query
<1>2. IF c = 0 THEN pager.total = 0
      ELSE c = (pager.asked - pager.total) + 1
  BY DEF PagerInv, CursorAtTheOldest, Query
<1>3. /\ A = IF c = 0 THEN N ELSE pager.asked
      /\ l = IF c = 0 THEN N ELSE c - 1
  BY DEF Asked, Latest
<1>4. pager.minted
        = Mints(SubSeq(events, (pager.asked - pager.total) + 1, pager.asked))
  BY DEF PagerInv, EventsCountedOnce
<1> HIDE DEF A, l, N
<1>5. /\ A \in Nat /\ l \in Nat /\ l = A - pager.total
      /\ pager.total <= A /\ l <= A /\ A <= N /\ l \in 0 .. N /\ A \in l .. N
  <2>1. CASE c = 0
    BY <1>1, <1>2, <1>3, <2>1
  <2>2. CASE c # 0
    <3>1. /\ A = pager.asked /\ l = pager.asked - pager.total
          /\ pager.total <= pager.asked /\ pager.asked <= N
      BY <1>1, <1>2, <1>3, <2>2
    <3>2. QED
      BY <1>1, <3>1
  <2>3. QED
    BY <2>1, <2>2
<1>6. pager.minted = Mints(SubSeq(events, l + 1, A))
  <2>1. CASE c = 0
    <3>1. pager.minted = 0
      <4> DEFINE m == (pager.asked - pager.total) + 1
      <4>1. m \in Nat /\ pager.asked < m
        BY <1>1, <1>2, <2>1
      <4> HIDE DEF m
      <4>2. QED
        BY <1>1, <1>4, <4>1, NothingMinted DEF m
    <3>2. l + 1 \in Nat /\ A < l + 1
      BY <1>3, <1>5, <2>1
    <3>3. QED
      BY <1>1, <1>5, <3>1, <3>2, NothingMinted
  <2>2. CASE c # 0
    <3>1. A = pager.asked /\ (pager.asked - pager.total) + 1 = l + 1
      BY <1>1, <1>3, <1>5, <2>2
    <3>2. QED
      BY <1>4, <3>1
  <2>3. QED
    BY <2>1, <2>2
<1>7. /\ o \in Nat \ {0} /\ l \in o - 1 .. N
      /\ Page(c) \in Seq(EventTypes) /\ added = (l - o) + 1
      /\ Page(c) = <<>> => l = 0 /\ o = 1
  <2>1. Latest(c) \in 0 .. Len(events)
    BY <1>5 DEF l, N
  <2>2. QED
    BY <1>1, <2>1, PageIs DEF l, N
<1>8. Mints(SubSeq(events, o, A)) = pager.minted + Mints(Page(c))
  <2>1. Mints(SubSeq(events, o, A))
          = Mints(SubSeq(events, o, l)) + Mints(SubSeq(events, l + 1, A))
    BY <1>1, <1>5, <1>7, MintsOfParts DEF N
  <2>2. Page(c) = SubSeq(events, o, l)
    BY DEF Page, l
  <2>3. Mints(Page(c)) \in Nat /\ pager.minted \in Nat
    BY <1>1, <1>7, MintsFinite DEF PagerRecords
  <2>4. QED
    BY <1>6, <2>1, <2>2, <2>3
<1>9. PICK next \in NextCursors(c) : pager' = Turn(next)
  BY DEF Query
<1>10. \/ Page(c) # <<>> /\ next = o
       \/ Page(c) = <<>> /\ (next = c \/ next = 0)
  BY DEF NextCursors
<1> DEFINE total == pager.total + added
           minted == pager.minted + Mints(Page(c))
           status == IF next = 0 THEN "completed" ELSE "running"
<1>11. pager' = [cursor |-> next, asked |-> A, total |-> total,
                 minted |-> minted, status |-> status]
  BY <1>9 DEF Turn, A
<1>12. minted \in Nat
  BY <1>1, <1>7, MintsFinite DEF PagerRecords
<1>13. minted = Mints(SubSeq(events, o, A))
  BY <1>8
<1>14. status \in PagerStatuses /\ (status = "completed" <=> next = 0)
       /\ (status = "running" <=> next # 0)
  BY DEF PagerStatuses
<1> HIDE DEF o, added, minted, status
<1>15. total \in Nat /\ total = (A - o) + 1 /\ o >= 1 /\ o = (A - total) + 1
       /\ total <= A
  <2>1. o \in Nat /\ o >= 1 /\ o - 1 <= l /\ added = (l - o) + 1
    BY <1>5, <1>7
  <2>2. total = pager.total + added
    OBVIOUS
  <2> DEFINE before == pager.total
  <2>3. /\ before \in Nat /\ A \in Nat /\ l \in Nat /\ l = A - before
        /\ total = before + added
    BY <1>1, <1>5, <2>2
  <2> HIDE DEF total, before
  <2>4. total = (A - o) + 1
    BY <2>1, <2>3
  <2>5. QED
    BY <2>1, <2>3, <2>4
<1> HIDE DEF c, total
<1>16. next \in Nat
  BY <1>1, <1>7, <1>10
<1>17. next = 0 => total = A
  <2> SUFFICES ASSUME next = 0 PROVE total = A
    OBVIOUS
  <2>1. Page(c) = <<>>
    BY <1>7, <1>10
  <2>2. o = 1
    BY <1>7, <2>1
  <2>3. QED
    BY <1>5, <1>15, <2>2
<1>18. next # 0 => next = (A - total) + 1
  <2>1. CASE Page(c) # <<>>
    BY <1>10, <1>15, <2>1
  <2>2. CASE Page(c) = <<>> /\ next = c /\ next # 0
    <3>1. l = 0 /\ o = 1
      BY <1>7, <2>2
    <3>2. c = 1
      BY <1>1, <1>3, <2>2, <3>1
    <3>3. QED
      BY <1>15, <2>2, <3>1, <3>2
  <2>3. QED
    BY <1>10, <2>1, <2>2
<1>19. /\ pager'.cursor = next /\ pager'.asked = A /\ pager'.total = total
       /\ pager'.minted = minted /\ pager'.status = status
       /\ pager' \in PagerRecords
  BY <1>5, <1>11, <1>12, <1>14, <1>15, <1>16 DEF PagerRecords
<1>20. CursorAtTheOldest'
  BY <1>14, <1>18, <1>19 DEF CursorAtTheOldest
<1>21. EventsCountedOnce'
  <2>1. pager'.total <= pager'.asked /\ pager'.asked <= Len(events')
    BY <1>1, <1>5, <1>15, <1>19 DEF N
  <2>2. pager'.minted
          = Mints(SubSeq(events', (pager'.asked - pager'.total) + 1, pager'.asked))
    BY <1>1, <1>13, <1>15, <1>19
  <2>3. pager'.status = "completed" => pager'.total = pager'.asked
    BY <1>14, <1>17, <1>19
  <2>4. QED
    BY <2>1, <2>2, <2>3 DEF EventsCountedOnce
<1>22. QED
  BY <1>1, <1>19, <1>20, <1>21 DEF PagerInv

LEMMA PagerInvStep == PagerInv /\ [ClientsNext]_clientVars => PagerInv'
<1> SUFFICES ASSUME PagerInv, [ClientsNext]_clientVars PROVE PagerInv'
  OBVIOUS
<1>1. CASE ChainStep
  <2>1. UNCHANGED pager
    BY <1>1 DEF ChainStep
  <2>2. \/ UNCHANGED events
        \/ \E sender \in Addresses : \/ Emit(sender, "MinterChanged")
                                     \/ Emit(sender, "SBTMinted")
                                     \/ Emit(sender, "SBTRevoked")
    BY <1>1, Zenon DEF ChainStep
  <2>3. CASE UNCHANGED events
    BY <2>1, <2>3 DEF PagerInv, EventsCountedOnce, CursorAtTheOldest
  <2>4. ASSUME NEW sender \in Addresses, NEW type \in EventTypes, Emit(sender, type)
        PROVE  PagerInv'
    BY <2>1, <2>4, EmitStep
  <2>5. QED
    BY <2>2, <2>3, <2>4 DEF EventTypes
<1>2. ASSUME NEW s \in Scripts, ScriptStep(s) PROVE PagerInv'
  BY <1>2 DEF ScriptStep, PagerInv, EventsCountedOnce, CursorAtTheOldest
<1>3. CASE QueryFails
  <2>1. events' = events /\ pager' = [pager EXCEPT !.status = "failed"]
    BY <1>3 DEF QueryFails
  <2>2. pager \in PagerRecords
    BY DEF PagerInv
  <2>3. /\ pager' \in PagerRecords
        /\ pager'.total = pager.total /\ pager'.minted = pager.minted
        /\ pager'.asked = pager.asked /\ pager'.status = "failed"
    BY <2>1, <2>2 DEF PagerStatuses, PagerRecords
  <2>4. EventsCountedOnce' /\ CursorAtTheOldest'
    BY <2>1, <2>3 DEF PagerInv, EventsCountedOnce, CursorAtTheOldest
  <2>5. QED
    BY <2>1, <2>3, <2>4 DEF PagerInv
<1>4. CASE UNCHANGED clientVars
  BY <1>4 DEF clientVars, clients, PagerInv, EventsCountedOnce,
                 CursorAtTheOldest
<1>5. QED
  BY <1>1, <1>2, <1>3, <1>4, QueryStep DEF ClientsNext, PagerStep

LEMMA PagerInvInit == ClientsInit => PagerInv
<1> SUFFICES ASSUME ClientsInit PROVE PagerInv
  OBVIOUS
<1>1. /\ events = <<>> /\ pager.cursor = 0 /\ pager.asked = 0
      /\ pager.total = 0 /\ pager.minted = 0 /\ pager.status # "completed"
      /\ pager \in PagerRecords
  <2>1. events = <<>>
    BY DEF ClientsInit
  <2>2. PICK status \in {"running", "not started"} :
          pager = [cursor |-> 0, asked |-> 0, total |-> 0, minted |-> 0,
                   status |-> status]
    BY Zenon DEF ClientsInit
  <2>3. QED
    BY <2>1, <2>2 DEF PagerStatuses, PagerRecords
<1>2. events \in Seq(EventTypes) /\ Len(events) = 0
  BY <1>1
<1>3. Mints(SubSeq(events, 1, 0)) = 0
  <2> DEFINE m == 1
             n == 0
  <2>1. m \in Nat /\ n \in Nat /\ n < m
    OBVIOUS
  <2> HIDE DEF m, n
  <2>2. Mints(SubSeq(events, m, n)) = 0
    BY <1>2, <2>1, NothingMinted
  <2>3. QED
    BY <2>2 DEF m, n
<1>4. (pager.asked - pager.total) + 1 = 1
  BY <1>1
<1>5. EventsCountedOnce
  <2>1. Mints(SubSeq(events, (pager.asked - pager.total) + 1, pager.asked)) = 0
    BY <1>1, <1>3, <1>4
  <2>2. QED
    BY <1>1, <1>2, <2>1 DEF EventsCountedOnce
<1>6. QED
  BY <1>1, <1>2, <1>5 DEF PagerInv, CursorAtTheOldest

(* index.ts counts the newest of the events that its first request met, each
   once, and reports all of them when it is done, however many events there
   are, whatever the size of the node's pages and whatever is emitted
   meanwhile. *)
THEOREM CountedOnce == ClientsSpec => []EventsCountedOnce
<1>1. PagerInv => EventsCountedOnce
  BY DEF PagerInv
<1>2. QED
  BY <1>1, PagerInvInit, PagerInvStep, PTL DEF ClientsSpec
==============================================================================
