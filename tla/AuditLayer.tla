------------------------------- MODULE AuditLayer -------------------------------
(***************************************************************************)
(* AuditLayerSimulator (utils/threshold.js): an auditor and a Lit node     *)
(* whose keys together make the key that messages are encrypted to.        *)
(*                                                                         *)
(* The constructor starts init and does not wait for it; init sets         *)
(* `initalized`, while the methods look at `initialized`, so that each of  *)
(* them runs init again.  A step is what runs between two awaits.          *)
(*                                                                         *)
(* The library (threshold-eg-babyjub) is external: its promises settle.    *)
(* What it computes is left out, as is what a field holds; which fields    *)
(* are still undefined is not.                                             *)
(***************************************************************************)
EXTENDS Integers

CONSTANTS
  Callers,             \* bound: calls of the methods
  MaxEncryptions       \* bound: encrypted messages of a call

Constructor == "constructor"

ASSUME LayerBounds == Constructor \notin Callers /\ MaxEncryptions \in Nat

VARIABLES
  fields,              \* the fields of the simulator that are defined
  awaits,              \* awaits of init that are over, for each run of it
  calls

layer == <<fields, awaits, calls>>

InitAwaits == 4

-----------------------------------------------------------------------------
(* init *)

(* Fault: the flag is spelled as the methods spell it, and set at once. *)
AssignedEarly(n) ==
  CASE n = 1 -> {"auditorKeygenForLit", "initialized"}
    [] n = 2 -> {"litKeygenForAuditor"}
    [] n = 3 -> {"auditorPubkey"}
    [] n = 4 -> {"litPubkey", "encryption"}

(* What init assigns after its nth await. *)
Assigned(n) ==
  CASE n = 1 -> {"auditorKeygenForLit"}
    [] n = 2 -> {"litKeygenForAuditor"}
    [] n = 3 -> {"auditorPubkey"}
    [] n = 4 -> {"litPubkey", "encryption", "initalized"}

Initialized == "initialized" \in fields

InitStep(p) ==
  /\ awaits[p] < InitAwaits
  /\ awaits' = [awaits EXCEPT ![p] = @ + 1]
  /\ fields' = fields \cup Assigned(awaits[p] + 1)
  /\ UNCHANGED calls

-----------------------------------------------------------------------------
(* The methods *)

(* `encrypted` counts the messages to decrypt, `decrypted` those that are;
   `partial` tells whether the Lit node's part of the next one is there. *)
NotCalled ==
  [method |-> "none", encrypted |-> 0, decrypted |-> 0, partial |-> FALSE,
   status |-> "none"]

Call(c, method, encrypted) ==
  /\ calls[c].status = "none"
  /\ calls' = [calls EXCEPT ![c] =
       [NotCalled EXCEPT !.method = method, !.encrypted = encrypted,
                         !.status = "running"]]
  /\ awaits' = IF Initialized THEN awaits ELSE [awaits EXCEPT ![c] = 0]
  /\ UNCHANGED fields

CallPubkey(c) == Call(c, "pubkey", 0)
CallEncrypt(c) == Call(c, "encryptToAuditLayer", 0)
CallDecrypt(c) ==
  \E n \in 0 .. MaxEncryptions : Call(c, "decryptFromAuditLayer", n)

(* The method goes on when its own init is over; a field that is undefined
   throws. *)
Proceeds(c, method) ==
  /\ calls[c].method = method
  /\ calls[c].status = "running"
  /\ awaits[c] = InitAwaits
  /\ UNCHANGED <<fields, awaits>>

Reads(c, needed, next) ==
  calls' = [calls EXCEPT ![c] =
    IF needed \subseteq fields THEN next ELSE [@ EXCEPT !.status = "threw"]]

Pubkey(c) ==
  /\ Proceeds(c, "pubkey")
  /\ Reads(c, {"encryption"}, [calls[c] EXCEPT !.status = "returned"])

EncryptToAuditLayer(c) ==
  /\ Proceeds(c, "encryptToAuditLayer")
  /\ Reads(c, {"encryption"}, [calls[c] EXCEPT !.status = "returned"])

(* Two awaits for each message. *)
DecryptFromAuditLayer(c) ==
  LET call == calls[c]
  IN /\ Proceeds(c, "decryptFromAuditLayer")
     /\ IF call.decrypted = call.encrypted
        THEN calls' = [calls EXCEPT ![c].status = "returned"]
        ELSE IF ~call.partial
        THEN Reads(c, {"auditorKeygenForLit"}, [call EXCEPT !.partial = TRUE])
        ELSE Reads(c, {"litKeygenForAuditor"},
                   [call EXCEPT !.partial = FALSE, !.decrypted = @ + 1])

CallStep(c) ==
  InitStep(c) \/ Pubkey(c) \/ EncryptToAuditLayer(c) \/ DecryptFromAuditLayer(c)

-----------------------------------------------------------------------------
LayerInit ==
  /\ fields = {}
  /\ awaits = [p \in Callers \cup {Constructor} |->
                 IF p = Constructor THEN 0 ELSE InitAwaits]
  /\ calls = [c \in Callers |-> NotCalled]

LayerNext ==
  \/ InitStep(Constructor)
  \/ \E c \in Callers :
       CallPubkey(c) \/ CallEncrypt(c) \/ CallDecrypt(c) \/ CallStep(c)

(* The promises settle; nobody has to call. *)
LayerSpec ==
  /\ LayerInit /\ [][LayerNext]_layer
  /\ WF_layer(InitStep(Constructor))
  /\ \A c \in Callers : WF_layer(CallStep(c))

-----------------------------------------------------------------------------
(* Properties *)

(* Every call returns, the ones made before the constructor's init is over as
   well: none reads a field that is still undefined, whichever runs of init
   overlap with it. *)
CallsReturn ==
  \A c \in Callers : calls[c].status = "running" ~> calls[c].status = "returned"
=============================================================================
