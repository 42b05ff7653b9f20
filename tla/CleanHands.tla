------------------------------- MODULE CleanHands -------------------------------
(***************************************************************************)
(* Provers of the V3 circuits: zk/circuits/circom/test-script.js, and      *)
(* anybody else with the same credentials.                                 *)
(*                                                                         *)
(* The prover library is external: its witness generator refuses what the  *)
(* circuits V3.circom, V3CleanHands.circom and V3NameDOB.circom do not     *)
(* allow of the expiry and of the points that carry the messages, and it   *)
(* gives the public signals in the order of the keys that are committed.   *)
(* The credentials and the messages are the script's, which satisfy the    *)
(* other constraints.                                                      *)
(*                                                                         *)
(* BabyJubJub's points are the multiples of one of them: a point is the    *)
(* number of times it is taken, modulo the order of the curve, and adding  *)
(* points is adding numbers.  The curve has two forms, whose x-coordinates *)
(* differ by the factor sqrt(a): `scale` is the power of it by which the x *)
(* that is meant differs from the point's x in the twisted form.           *)
(***************************************************************************)
EXTENDS Integers, Sequences

CONSTANTS
  Users,
  FieldPrime,
  Year, Month,                 \* in seconds: 31536000 and 2592000
  Range25,                     \* 2^25, more than a year
  Iats,                        \* bound: times of issuance
  Expiries,                    \* bound: expiries that other provers choose
  SubOrder,                    \* the prime order of the curve's subgroup
  PointMessage,                \* the 24 low bytes of each point's y
  ScriptPoints,                \* msgsAsPoints of test-script.js
  PointLists,                  \* bound: those of other provers
  Secrets,                     \* bound: secret keys behind encryptedTo
  EphemeralKeys                \* bound: ephemeral secret keys

Names == <<"firstName", "lastName", "birthdate">>

(* Of the curve, whose cofactor is 8. *)
Order == 8 * SubOrder

ASSUME CircuitBounds ==
  /\ FieldPrime \in Nat \ {0}
  /\ Year \in Nat /\ Month \in 1 .. Year /\ Range25 \in Nat
  /\ Year + 1 < Range25 /\ 4 * Range25 < FieldPrime
  /\ Iats \subseteq 0 .. FieldPrime - 2 * Year
  /\ Expiries \subseteq 0 .. FieldPrime - 1

ASSUME CurveBounds ==
  /\ SubOrder \in Nat \ {0}
  /\ Secrets \subseteq Nat /\ EphemeralKeys \subseteq Nat
  /\ PointLists \cup {ScriptPoints}
       \subseteq [DOMAIN Names -> [n: 0 .. Order - 1, scale: Int]]

VARIABLES users

Circuits == {"V3CleanHands", "V3NameDOB"}

-----------------------------------------------------------------------------
(* The range of the expiry *)

InField(n) == n % FieldPrime

(* circomlib: a + 2^n - b has n + 1 bits, and the highest of them is not set. *)
LessThan(range, a, b) == InField(a + range - b) < range

(* Fault: expiry - iat is not decomposed into bits first. *)
WithinYearUnchecked(iat, expiry) ==
  LessThan(Range25, InField(expiry - iat), Year + 1)

(* V3: Num2Bits and LessThan, with one second more than a year. *)
WithinYear(iat, expiry) ==
  /\ InField(expiry - iat) < Range25
  /\ LessThan(Range25, InField(expiry - iat), Year + 1)

-----------------------------------------------------------------------------
(* The encryption *)

Multiple(n) == [n |-> n % Order, scale |-> 0]

TwistedToUntwisted(point) == [point EXCEPT !.scale = @ + 1]
UntwistedToTwisted(point) == [point EXCEPT !.scale = @ - 1]

(* BabyCheck: of the twisted form; the two points with x = 0 are of both. *)
OnCurve(point) == point.scale = 0 \/ (2 * point.n) % Order = 0

(* SubOrderCheck *)
InSubgroup(point) == (SubOrder * point.n) % Order = 0

(* Fault: the message is not compared with the point. *)
AcceptedUncompared(point, message) ==
  OnCurve(UntwistedToTwisted(point)) /\ InSubgroup(point)

Accepted(point, message) ==
  /\ PointMessage[point.n] = message
  /\ OnCurve(UntwistedToTwisted(point)) /\ InSubgroup(point)

(* BASE8 is eight times the point that is counted in. *)
PublicKey(secret) == Multiple(8 * secret)

EncryptElGamal(pubkey, y, messageAsPoint) ==
  [c1 |-> Multiple(8 * y), c2 |-> Multiple(messageAsPoint.n + y * pubkey.n)]

(* The encryption of the kth message, as it is shown. *)
Encryption(user, k) ==
  LET c == EncryptElGamal(PublicKey(user.secret), user.ephemeralKeys[k],
                          UntwistedToTwisted(user.points[k]))
  IN <<TwistedToUntwisted(c.c1), TwistedToUntwisted(c.c2)>>

X(point) == <<point, "x">>
Y(point) == <<point, "y">>

(* Outputs, then public inputs. *)
PublicSignals(u) ==
  LET user == users[u]
      c(k, i) == Encryption(user, k)[i]
  IN IF user.circuit = "V3NameDOB"
     THEN <<"issuerAddress", user.expiry, Names[1], Names[2], Names[3]>>
     ELSE <<"actionNullifier", "issuerAddress",
            X(c(1, 1)), Y(c(1, 1)), X(c(1, 2)), Y(c(1, 2)),
            X(c(2, 1)), Y(c(2, 1)), X(c(2, 2)), Y(c(2, 2)),
            X(c(3, 1)), Y(c(3, 1)), X(c(3, 2)), Y(c(3, 2)),
            user.expiry, "recipient", "actionId">>

-----------------------------------------------------------------------------
(* test-script.js *)

(* From a year and two seconds down, by less than a month: the largest two are
   more than the circuit takes. *)
SecureExpiryOffset(random) == (Year + 2) - (random % Month)

NoProof == [expiry |-> -1, encryptions |-> <<>>]

Idle == [status |-> "idle", read |-> NoProof]

(* `secret` remembers whose key the prover encrypts to. *)
Proves(u, circuit, iat, expiry, secret, points, ephemeralKeys) ==
  users' = [users EXCEPT ![u] =
    [status |-> "proving", circuit |-> circuit, iat |-> iat, expiry |-> expiry,
     secret |-> secret, points |-> points, ephemeralKeys |-> ephemeralKeys,
     read |-> NoProof]]

(* V3NameDOB and V3CleanHands, whose credentials, key and points are literals,
   and one ephemeral key three times. *)
Script(u, circuit, iat, random, secret, y) ==
  Proves(u, circuit, iat, iat + SecureExpiryOffset(random), secret,
         ScriptPoints, [k \in DOMAIN Names |-> y])

(* The coordinates of two points for each message, behind the first two. *)
ReadEncryption(signals, k) ==
  [c1 |-> <<signals[4 * k - 1], signals[4 * k]>>,
   c2 |-> <<signals[4 * k + 1], signals[4 * k + 2]>>]

ReadSignals(u) ==
  LET signals == PublicSignals(u)
  IN IF users[u].circuit = "V3NameDOB"
     THEN [expiry |-> signals[2], encryptions |-> <<>>]
     ELSE [expiry |-> signals[15],
           encryptions |-> [k \in DOMAIN Names |-> ReadEncryption(signals, k)]]

(* What the two circuits ask of the inputs; V3NameDOB has no points. *)
Constraints(user) ==
  /\ WithinYear(user.iat, user.expiry)
  /\ user.circuit = "V3CleanHands" =>
       \A k \in DOMAIN Names : Accepted(user.points[k], Names[k])

(* fullProve has a proof, and its signals are read before the next await. *)
Proved(u) ==
  /\ users[u].status = "proving"
  /\ Constraints(users[u])
  /\ users' = [users EXCEPT ![u].status = "verifying",
                            ![u].read = ReadSignals(u)]

(* fullProve throws if a constraint does not hold: exit code 1. *)
Refused(u) ==
  /\ users[u].status = "proving"
  /\ ~Constraints(users[u])
  /\ users' = [users EXCEPT ![u].status = "failed"]

Verified(u) ==
  /\ users[u].status = "verifying"
  /\ users' = [users EXCEPT ![u].status = "verified"]

Starts(u) ==
  /\ users[u].status = "idle"
  /\ \E circuit \in Circuits, iat \in Iats, secret \in Secrets :
       \/ \E random \in 0 .. Month - 1, y \in EphemeralKeys :
            Script(u, circuit, iat, random, secret, y)
       \/ \E expiry \in Expiries, points \in PointLists,
             ephemeralKeys \in [DOMAIN Names -> EphemeralKeys] :
            Proves(u, circuit, iat, expiry, secret, points, ephemeralKeys)

UserStep(u) == Starts(u) \/ Proved(u) \/ Refused(u) \/ Verified(u)

CleanHandsInit == users = [u \in Users |-> Idle]

CleanHandsNext == \E u \in Users : UserStep(u)

CleanHandsSpec == CleanHandsInit /\ [][CleanHandsNext]_users

-----------------------------------------------------------------------------
(* Properties *)

(* Whoever proves, and whatever field element is given for the expiry, the
   expiry that a verified proof shows lies within the year that begins with
   the time of issuance: expiry - iat does not wrap around the field. *)
ProvedWithinTheYear ==
  \A u \in Users :
    users[u].status \in {"verifying", "verified"} =>
      users[u].read.expiry \in users[u].iat .. users[u].iat + Year

(* ElGamal's decryption: the second point less the secret times the first. *)
DecryptedBy(secret, encryption) ==
  LET c1 == encryption.c1[1][1]
      c2 == encryption.c2[1][1]
  IN (c2.n - secret * c1.n) % Order

(* What is read of a V3CleanHands proof as the kth encryption are two points in
   untwisted coordinates that the secret key behind encryptedTo turns into a
   point of the kth message, whichever points, keys and ephemeral keys the
   prover gave: neither conversion nor the order of the signals loses it. *)
EncryptsItsMessages ==
  \A u \in Users :
    users[u].status \in {"verifying", "verified"}
    /\ users[u].circuit = "V3CleanHands" =>
         \A k \in DOMAIN Names :
           LET encryption == users[u].read.encryptions[k]
           IN /\ \A c \in {encryption.c1, encryption.c2} :
                   /\ c = <<X(c[1][1]), Y(c[1][1])>>
                   /\ c[1][1].scale = 1
              /\ PointMessage[DecryptedBy(users[u].secret, encryption)]
                   = Names[k]
=============================================================================
