-------------------------------- MODULE ZkEscrow --------------------------------
(***************************************************************************)
(* The package zk-escrow (utils/packages/zk-escrow/main.ts): sessions of   *)
(* encryptAndProve, beside calls of the witness calculator that the        *)
(* package ships.                                                          *)
(*                                                                         *)
(* processInput makes a point of each message, then asks the PRF server    *)
(* once for each message, then makes a point of each answer: three         *)
(* Promise.all, whose promises settle in any order, or fail.  fullProve    *)
(* (snarkjs) is external: it refuses inputs of wrong sizes as module       *)
(* WitnessCalculator does, in an instance of its own, and then proves what *)
(* daEncrypt.circom says.  A point is one element here, and what a         *)
(* commitment, an encryption or a signature is made of can be read off it. *)
(***************************************************************************)
EXTENDS WitnessCalculator

CONSTANTS
  Sessions,
  NumMsgs,                 \* of the circuit: 1 in the one that is committed
  Messages, TooLarge,      \* messages, and those that no point stands for
  AccessLogics,
  Randoms,                 \* elements that randFr may draw
  PrfKey,                  \* of the server whose signatures the circuit takes
  MaxMessages              \* bound: messages of a session

ASSUME EscrowBounds ==
  /\ NumMsgs \in Nat \ {0} /\ MaxMessages \in Nat \ {0}
  /\ TooLarge \subseteq Messages

VARIABLES sessions

escrowVars == <<calculator, sessions>>

NoAnswer == <<>>

Idle ==
  [status |-> "idle", acl |-> "none", msgs |-> <<>>, points |-> <<>>,
   nonces |-> <<>>, rnd |-> <<>>, prf |-> <<>>, prfPoints |-> <<>>,
   tag |-> <<>>]

-----------------------------------------------------------------------------
(* Libraries and servers *)

MsgToPoint(msg) == <<"point", msg>>

(* The preimages are random, so that no two requests are alike: requests are
   numbered by their message. *)
PrfAnswer(k) ==
  [prfIn |-> <<"digest", k>>, prfOut |-> <<"prf", k>>,
   sig |-> <<PrfKey, <<"digest", k>>, <<"prf", k>>>>]

Commitment(msg, r) == <<"commitment", msg, r>>
Encryption(point, nonce) == <<"encryption", point, nonce>>

-----------------------------------------------------------------------------
(* processInput *)

Begin(s, acl, msgs) ==
  /\ sessions[s].status = "idle"
  /\ sessions' = [sessions EXCEPT ![s] =
       [Idle EXCEPT !.status = "points", !.acl = acl, !.msgs = msgs,
                    !.points = [k \in DOMAIN msgs |-> NoAnswer]]]

(* Fault: the results are kept in the order in which they arrive. *)
SettledInOrderOfArrival(answers, k, answer) ==
  [answers EXCEPT ![CHOOSE j \in DOMAIN answers :
     /\ answers[j] = NoAnswer
     /\ \A i \in 1 .. j - 1 : answers[i] /= NoAnswer] = answer]

(* Promise.all keeps the result of each promise at the promise's index. *)
Settled(answers, k, answer) == [answers EXCEPT ![k] = answer]

All(answers) == NoAnswer \notin ToSet(answers)

(* A step of a session whose promise k is pending. *)
Pending(s, status, answers, k) ==
  /\ sessions[s].status = status
  /\ k \in DOMAIN answers
  /\ answers[k] = NoAnswer

(* The random elements are drawn, and the PRF server is asked, as soon as the
   last message has its point. *)
MessagePoint(s, k) ==
  LET session == sessions[s]
      points == Settled(session.points, k, MsgToPoint(session.msgs[k]))
      n == DOMAIN session.msgs
  IN /\ Pending(s, "points", session.points, k)
     /\ session.msgs[k] \notin TooLarge
     /\ IF ~All(points)
        THEN sessions' = [sessions EXCEPT ![s].points = points]
        ELSE \E nonces, rnd \in [n -> Randoms] :
               sessions' = [sessions EXCEPT ![s] =
                 [session EXCEPT !.status = "prf", !.points = points,
                    !.nonces = nonces, !.rnd = rnd,
                    !.prf = [j \in n |-> NoAnswer]]]

(* getPRF *)
Answer(s, k) ==
  LET session == sessions[s]
      prf == Settled(session.prf, k, PrfAnswer(k))
  IN /\ Pending(s, "prf", session.prf, k)
     /\ sessions' = [sessions EXCEPT ![s] =
          IF All(prf)
          THEN [session EXCEPT !.status = "prfPoints", !.prf = prf,
                  !.prfPoints = [j \in DOMAIN prf |-> NoAnswer]]
          ELSE [session EXCEPT !.prf = prf]]

(* The last point of an answer completes the inputs. *)
AnswerPoint(s, k) ==
  LET session == sessions[s]
      prfPoints == Settled(session.prfPoints, k,
                           MsgToPoint(session.prf[k].prfOut))
  IN /\ Pending(s, "prfPoints", session.prfPoints, k)
     /\ sessions' = [sessions EXCEPT ![s] =
          [session EXCEPT !.prfPoints = prfPoints,
             !.status = IF All(prfPoints) THEN "proving" ELSE "prfPoints"]]

(* circuitInputs and commitmentInputs *)
CircuitInputs(s) ==
  LET session == sessions[s]
  IN [accessControlLogic |-> <<session.acl>>,
      msgAsPoint |-> session.points,
      encryptWithNonce |-> session.nonces,
      prfIn |-> [k \in DOMAIN session.prf |-> session.prf[k].prfIn],
      prfOutAsPoint |-> session.prfPoints,
      sig |-> [k \in DOMAIN session.prf |-> session.prf[k].sig],
      rnd |-> session.rnd]

CommitmentInputs(s) ==
  [data |-> sessions[s].msgs, randomness |-> sessions[s].rnd]

-----------------------------------------------------------------------------
(* encryptAndProve *)

DAEncryptSizes ==
  [key \in {"accessControlLogic", "msgAsPoint", "encryptWithNonce", "prfIn",
            "prfOutAsPoint", "sig", "rnd"} |->
     IF key = "accessControlLogic" THEN 1 ELSE NumMsgs]

(* daEncrypt.circom: each signature is of the PRF's input and output. *)
Provable(inputs) ==
  /\ \A key \in DOMAIN inputs :
       InputError(DAEncryptSizes, key, Len(inputs[key])) = "none"
  /\ \A k \in 1 .. NumMsgs :
       inputs.sig[k] = <<PrfKey, inputs.prfIn[k], inputs.prfOutAsPoint[k][2]>>

(* The outputs come first, then the public inputs. *)
PublicSignals(inputs) ==
  [k \in 1 .. NumMsgs |->
     Encryption(inputs.msgAsPoint[k], inputs.encryptWithNonce[k])]
  \o [k \in 1 .. NumMsgs |->
        Commitment(inputs.msgAsPoint[k][2], inputs.rnd[k])]
  \o inputs.accessControlLogic \o inputs.prfIn

(* signalOrder.json *)
SignalOrder ==
  [k \in 1 .. NumMsgs |-> <<"encryptions", k>>]
  \o [k \in 1 .. NumMsgs |-> <<"commitments", k>>]
  \o <<<<"accessControlLogic", 1>>>>
  \o [k \in 1 .. NumMsgs |-> <<"prfIn", k>>]

SerializeSignals(signals) ==
  [name \in ToSet(SignalOrder) |->
     signals[CHOOSE k \in DOMAIN SignalOrder : SignalOrder[k] = name]]

Prove(s) ==
  /\ sessions[s].status = "proving"
  /\ Provable(CircuitInputs(s))
  /\ sessions' = [sessions EXCEPT
       ![s].status = "proved",
       ![s].tag = SerializeSignals(PublicSignals(CircuitInputs(s)))]

(* Fault: a request that fails is caught, and nothing is returned. *)
RejectProofOnly(s) ==
  /\ sessions[s].status = "proving"
  /\ sessions' = [sessions EXCEPT ![s].status = "failed"]

(* The first promise that fails rejects the session: a message without a
   point, a request, an answer of no use, a wrong size, a missing file. The
   others settle without effect. *)
Reject(s) ==
  /\ sessions[s].status \in {"points", "prf", "prfPoints", "proving"}
  /\ sessions' = [sessions EXCEPT ![s].status = "failed"]

SessionStep(s) ==
  /\ \/ \E k \in DOMAIN sessions[s].msgs :
          MessagePoint(s, k) \/ Answer(s, k) \/ AnswerPoint(s, k)
     \/ Prove(s)
     \/ Reject(s)
  /\ UNCHANGED calculator

-----------------------------------------------------------------------------
(* Sessions and calculator share nothing: what one of them has begun is looked
   at without the other. *)
EscrowInit == CalculatorInit /\ sessions = [s \in Sessions |-> Idle]

EscrowNext ==
  \/ /\ \A s \in Sessions : sessions[s].status = "idle"
     /\ CalculatorNext
     /\ UNCHANGED sessions
  \/ /\ wasm = Instance
     /\ \E s \in Sessions, acl \in AccessLogics,
           msgs \in UNION {[1 .. n -> Messages] : n \in 1 .. MaxMessages} :
          Begin(s, acl, msgs)
     /\ UNCHANGED calculator
  \/ \E s \in Sessions : SessionStep(s)

(* Node's fetch gives up in the end, and the library computes. *)
EscrowSpec ==
  /\ EscrowInit /\ [][EscrowNext]_escrowVars
  /\ \A s \in Sessions : WF_escrowVars(SessionStep(s))

-----------------------------------------------------------------------------
(* Properties *)

(* The tag of a proof and the commitment inputs returned with it fit, row by
   row, whatever order the promises settled in: each commitment in the tag
   opens to the message and the randomness of its row, beside the encryption
   of that message under that row's nonce and the PRF input of that row. *)
CommitmentsOpen ==
  \A s \in Sessions :
    sessions[s].status = "proved" =>
      LET tag == sessions[s].tag
          opening == CommitmentInputs(s)
      IN /\ Len(opening.data) = NumMsgs
         /\ tag[<<"accessControlLogic", 1>>] = sessions[s].acl
         /\ \A k \in 1 .. NumMsgs :
              /\ tag[<<"commitments", k>>]
                   = Commitment(opening.data[k], opening.randomness[k])
              /\ tag[<<"encryptions", k>>]
                   = Encryption(MsgToPoint(opening.data[k]),
                                sessions[s].nonces[k])
              /\ tag[<<"prfIn", k>>] = sessions[s].prf[k].prfIn

(* Every session ends, with a proof or rejected, whichever of its promises
   fails and whatever is still pending then. *)
SessionsSettle ==
  \A s \in Sessions :
    sessions[s].status = "points" ~> sessions[s].status \in {"proved", "failed"}
=============================================================================
