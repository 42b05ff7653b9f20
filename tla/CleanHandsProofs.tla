--------------------------- MODULE CleanHandsProofs ---------------------------
(***************************************************************************)
(* Theorems about CleanHands.  What a verified proof shows is what was     *)
(* proved (the script reads the right signals), and what was proved        *)
(* satisfies the circuits' constraints: from V3's range check the bound on *)
(* the expiry follows by arithmetic in the field, and from V3CleanHands's  *)
(* comparison of message and point that its encryptions decrypt to the     *)
(* messages, by arithmetic modulo the order of the curve.                  *)
(***************************************************************************)
EXTENDS CleanHands, TLAPS

-----------------------------------------------------------------------------
(* The range check *)

(* A number above minus the prime is its own remainder, or the prime more. *)
LEMMA Remainder ==
  ASSUME NEW p \in Nat \ {0}, NEW n \in Int, - p < n, n < p
  PROVE  n % p = IF n < 0 THEN n + p ELSE n
<1> DEFINE q == n \div p
           r == n % p
<1>1. q \in Int /\ r \in 0 .. p - 1 /\ n = p * q + r
  OBVIOUS
<1> HIDE DEF q, r
<1>2. p * q < p /\ - 2 * p < p * q
  BY <1>1
<1>3. q < 1 /\ - 2 < q
  BY <1>1, <1>2
<1>4. q = 0 \/ q = -1
  BY <1>1, <1>3
<1>5. r = IF n < 0 THEN n + p ELSE n
  BY <1>1, <1>4
<1>6. QED
  BY <1>5 DEF r

LEMMA InFieldIs ==
  ASSUME NEW n \in Int, - FieldPrime < n, n < FieldPrime
  PROVE  InField(n) = IF n < 0 THEN n + FieldPrime ELSE n
<1>1. FieldPrime \in Nat \ {0}
  BY CircuitBounds
<1>2. QED
  BY <1>1, Remainder DEF InField

(* The check passes for no expiry that is earlier than the time of issuance,
   although expiry - iat is taken in the field, and for none later than a
   year. *)
LEMMA RangeCheck ==
  ASSUME NEW iat \in Iats, NEW expiry \in Int,
         - FieldPrime < expiry - iat, expiry - iat < FieldPrime, expiry >= 0,
         WithinYear(iat, expiry)
  PROVE  expiry \in iat .. iat + Year
<1> DEFINE d == InField(expiry - iat)
<1>1. /\ FieldPrime \in Nat \ {0} /\ Year \in Nat \ {0} /\ Range25 \in Nat
      /\ Year + 1 < Range25 /\ 4 * Range25 < FieldPrime
      /\ iat \in Int /\ 0 <= iat /\ iat <= FieldPrime - 2 * Year
  BY CircuitBounds
<1>2. d = IF expiry - iat < 0 THEN expiry - iat + FieldPrime ELSE expiry - iat
  <2>1. expiry - iat \in Int
    BY <1>1
  <2>2. QED
    BY <2>1, InFieldIs
<1>3. d < Range25 /\ InField(d + Range25 - (Year + 1)) < Range25
  BY DEF WithinYear, LessThan
<1> HIDE DEF d
<1>4. d \in Int /\ 0 <= d
  BY <1>1, <1>2
<1>5. InField(d + Range25 - (Year + 1)) = d + Range25 - (Year + 1)
  <2> DEFINE n == d + Range25 - (Year + 1)
  <2>1. n \in Int /\ 0 <= n /\ n < FieldPrime /\ - FieldPrime < n
    BY <1>1, <1>3, <1>4
  <2> HIDE DEF n
  <2>2. InField(n) = n
    BY <2>1, InFieldIs
  <2>3. QED
    BY <2>2 DEF n
<1>6. d <= Year
  BY <1>1, <1>3, <1>4, <1>5
<1>7. QED
  BY <1>1, <1>2, <1>6

-----------------------------------------------------------------------------
(* ElGamal *)

LEMMA Quotient ==
  ASSUME NEW d \in Nat \ {0}, NEW n \in Int
  PROVE  \E q \in Int : n % d = n - d * q /\ n % d \in 0 .. d - 1
<1> DEFINE q == n \div d
<1>1. q \in Int /\ n = d * q + (n % d) /\ n % d \in 0 .. d - 1
  OBVIOUS
<1> HIDE DEF q
<1>2. n % d = n - d * q
  BY <1>1
<1>3. QED
  BY <1>1, <1>2

(* A multiple of d and a number below d have that number as their remainder. *)
LEMMA RemainderIs ==
  ASSUME NEW d \in Nat \ {0}, NEW z \in Int, NEW m \in 0 .. d - 1,
         NEW n \in Int, n = m + d * z
  PROVE  n % d = m
<1>1. PICK q \in Int : n % d = n - d * q /\ n % d \in 0 .. d - 1
  BY Quotient
<1> DEFINE e == z - q
           r == n % d
<1>2. e \in Int /\ d * e = d * z - d * q
  OBVIOUS
<1>3. r = m + d * e /\ r \in 0 .. d - 1
  <2> DEFINE x == d * z
             y == d * q
             w == d * e
  <2>1. x \in Int /\ y \in Int /\ w = x - y /\ n = m + x /\ r = n - y
        /\ r \in 0 .. d - 1
    BY <1>1, <1>2
  <2> HIDE DEF x, y, w, r, e
  <2>2. r = m + w
    BY <2>1
  <2>3. QED
    BY <2>1, <2>2 DEF w
<1> HIDE DEF e, r
<1>4. ASSUME e >= 1 PROVE FALSE
  <2>1. d * e >= d * 1
    BY <1>2, <1>4
  <2>2. QED
    BY <1>2, <1>3, <2>1
<1>5. ASSUME e <= -1 PROVE FALSE
  <2>1. d * e <= d * (-1)
    BY <1>2, <1>5
  <2>2. QED
    BY <1>2, <1>3, <2>1
<1>6. e = 0
  BY <1>2, <1>4, <1>5
<1>7. r = m
  BY <1>3, <1>6
<1>8. QED
  BY <1>7 DEF r

(* The same of eight times a number: BASE8 is eight times the generator. *)
LEMMA EightTimes ==
  ASSUME NEW d \in Nat \ {0}, NEW x \in Nat
  PROVE  \E q \in Int : (8 * x) % d = 8 * x - d * q
                         /\ (8 * x) % d \in 0 .. d - 1
<1> DEFINE a == 8 * x
<1>1. a \in Int
  OBVIOUS
<1> HIDE DEF a
<1>2. \E q \in Int : a % d = a - d * q /\ a % d \in 0 .. d - 1
  BY <1>1, Quotient
<1>3. QED
  BY <1>2 DEF a

(* The shared secret is y times the public key and x times the first point:
   taking it from the second leaves the point of the message. *)
LEMMA Decrypts ==
  ASSUME NEW d \in Nat \ {0}, NEW m \in 0 .. d - 1, NEW x \in Nat, NEW y \in Nat
  PROVE  (((m + y * ((8 * x) % d)) % d) - x * ((8 * y) % d)) % d = m
<1>1. PICK q1 \in Int : (8 * x) % d = 8 * x - d * q1
                         /\ (8 * x) % d \in 0 .. d - 1
  BY EightTimes
<1>2. PICK q2 \in Int : (8 * y) % d = 8 * y - d * q2
                         /\ (8 * y) % d \in 0 .. d - 1
  BY EightTimes
<1> DEFINE k == (8 * x) % d
           c1 == (8 * y) % d
           s == m + y * k
<1>3. k \in Int /\ c1 \in Int /\ y * k \in Int /\ s \in Int /\ x * c1 \in Int
  BY <1>1, <1>2
<1> HIDE DEF k, c1
<1>4. PICK q3 \in Int : s % d = s - d * q3 /\ s % d \in 0 .. d - 1
  BY <1>3, Quotient
<1>5. y * k = y * (8 * x) - y * (d * q1)
  BY <1>1, <1>3 DEF k
<1>6. x * c1 = x * (8 * y) - x * (d * q2)
  BY <1>2, <1>3 DEF c1
<1> DEFINE z == (x * q2 - y * q1) - q3
           c2 == s % d
           n == c2 - x * c1
<1>7. z \in Int /\ d * z = (x * (d * q2) - y * (d * q1)) - d * q3
  OBVIOUS
<1>8. y * (8 * x) = x * (8 * y)
  OBVIOUS
<1>9. n \in Int /\ n = m + d * z
  <2> DEFINE A == y * (8 * x)
             B == y * (d * q1)
             C == x * (d * q2)
             D == d * q3
             S == y * k
             T == x * c1
             Z == d * z
  <2>1. A \in Int /\ B \in Int /\ C \in Int /\ D \in Int
    OBVIOUS
  <2>2. S = A - B /\ T = A - C /\ Z = (C - B) - D
    BY <1>5, <1>6, <1>7, <1>8
  <2>3. c2 = (m + S) - D /\ n = c2 - T
    BY <1>4
  <2> HIDE DEF A, B, C, D, S, T, Z, c2, n, z
  <2>4. n \in Int /\ n = m + Z
    BY <2>1, <2>2, <2>3
  <2>5. QED
    BY <2>4 DEF Z
<1> HIDE DEF z, n
<1>10. n % d = m
  BY <1>7, <1>9, RemainderIs
<1>11. QED
  BY <1>10 DEF n, c2, s, k, c1

CurvePoints == [n: 0 .. Order - 1, scale: Int]

LEMMA OrderIs == Order \in Nat \ {0}
BY CurveBounds DEF Order

(* The two points that are shown are points of the twisted form, in untwisted
   coordinates, and decrypt to the point they were made of. *)
LEMMA EncryptionIs ==
  ASSUME NEW user, NEW k, user.secret \in Nat, user.ephemeralKeys[k] \in Nat,
         user.points[k] \in CurvePoints
  PROVE  LET c == Encryption(user, k)
         IN /\ c[1].scale = 1 /\ c[2].scale = 1
            /\ (c[2].n - user.secret * c[1].n) % Order = user.points[k].n
<1> DEFINE x == user.secret
           y == user.ephemeralKeys[k]
           point == user.points[k]
           c == Encryption(user, k)
<1>1. point.n \in 0 .. Order - 1 /\ UntwistedToTwisted(point).n = point.n
  BY DEF CurvePoints, UntwistedToTwisted
<1>2. PublicKey(x).n = (8 * x) % Order
  BY DEF PublicKey, Multiple
<1> DEFINE e == EncryptElGamal(PublicKey(x), y, UntwistedToTwisted(point))
<1>3. /\ e.c1 = Multiple(8 * y)
      /\ e.c2 = Multiple(point.n + y * ((8 * x) % Order))
  BY <1>1, <1>2 DEF EncryptElGamal
<1>4. c = <<TwistedToUntwisted(e.c1), TwistedToUntwisted(e.c2)>>
  BY DEF Encryption
<1> HIDE DEF e, c
<1>5. \A n : /\ TwistedToUntwisted(Multiple(n)).n = n % Order
             /\ TwistedToUntwisted(Multiple(n)).scale = 1
  BY DEF TwistedToUntwisted, Multiple
<1>6. /\ c[1].n = (8 * y) % Order /\ c[1].scale = 1
      /\ c[2].n = (point.n + y * ((8 * x) % Order)) % Order /\ c[2].scale = 1
  BY <1>3, <1>4, <1>5
<1>7. ((((point.n + y * ((8 * x) % Order)) % Order)
          - x * ((8 * y) % Order)) % Order) = point.n
  BY <1>1, OrderIs, Decrypts
<1>8. (c[2].n - x * c[1].n) % Order = point.n
  BY <1>6, <1>7
<1>9. QED
  BY <1>6, <1>8 DEF c

-----------------------------------------------------------------------------
(* The signals *)

(* The script finds the expiry where the circuits put it. *)
LEMMA ExpiryRead ==
  ASSUME NEW u \in Users, users[u].circuit \in Circuits
  PROVE  ReadSignals(u).expiry = users[u].expiry
<1>1. CASE users[u].circuit = "V3NameDOB"
  <2>1. PublicSignals(u)[2] = users[u].expiry
    BY <1>1 DEF PublicSignals
  <2>2. QED
    BY <1>1, <2>1 DEF ReadSignals
<1>2. CASE users[u].circuit = "V3CleanHands"
  <2>1. PublicSignals(u)[15] = users[u].expiry
    BY <1>2 DEF PublicSignals
  <2>2. QED
    BY <1>2, <2>1 DEF ReadSignals
<1>3. QED
  BY <1>1, <1>2 DEF Circuits

(* And the coordinates of the two points of each message's encryption. *)
Shown(user, k) ==
  LET c == Encryption(user, k)
  IN [c1 |-> <<X(c[1]), Y(c[1])>>, c2 |-> <<X(c[2]), Y(c[2])>>]

LEMMA EncryptionsRead ==
  ASSUME NEW u \in Users, users[u].circuit = "V3CleanHands"
  PROVE  ReadSignals(u).encryptions = [k \in 1 .. 3 |-> Shown(users[u], k)]
<1> DEFINE signals == PublicSignals(u)
           c(k, i) == Encryption(users[u], k)[i]
<1>1. /\ signals[3] = X(c(1, 1)) /\ signals[4] = Y(c(1, 1))
      /\ signals[5] = X(c(1, 2)) /\ signals[6] = Y(c(1, 2))
      /\ signals[7] = X(c(2, 1)) /\ signals[8] = Y(c(2, 1))
      /\ signals[9] = X(c(2, 2)) /\ signals[10] = Y(c(2, 2))
      /\ signals[11] = X(c(3, 1)) /\ signals[12] = Y(c(3, 1))
      /\ signals[13] = X(c(3, 2)) /\ signals[14] = Y(c(3, 2))
  BY DEF PublicSignals
<1>2. ReadSignals(u).encryptions =
        [k \in DOMAIN Names |-> ReadEncryption(signals, k)]
  BY DEF ReadSignals
<1>3. DOMAIN Names = 1 .. 3
  BY DEF Names
<1> HIDE DEF signals
<1>4. ASSUME NEW k \in 1 .. 3
      PROVE  ReadEncryption(signals, k) = Shown(users[u], k)
  <2>1. k = 1 \/ k = 2 \/ k = 3
    OBVIOUS
  <2>2. ReadEncryption(signals, k) = [c1 |-> <<X(c(k, 1)), Y(c(k, 1))>>,
                                      c2 |-> <<X(c(k, 2)), Y(c(k, 2))>>]
    BY <1>1, <2>1 DEF ReadEncryption
  <2>3. QED
    BY <2>2 DEF Shown
<1>5. QED
  BY <1>2, <1>3, <1>4

-----------------------------------------------------------------------------
(* The provers *)

UserFields == {"status", "circuit", "iat", "expiry", "secret", "points",
               "ephemeralKeys", "read"}

(* What a prover has chosen is in the field and on the curve or beside it, and
   what it has read of a proof is what the circuits let through. *)
Chosen(user) ==
  /\ DOMAIN user = UserFields
  /\ user.circuit \in Circuits
  /\ user.iat \in Iats
  /\ user.expiry \in Int /\ user.expiry >= 0
  /\ - FieldPrime < user.expiry - user.iat
  /\ user.expiry - user.iat < FieldPrime
  /\ user.secret \in Nat
  /\ user.points \in [1 .. 3 -> CurvePoints]
  /\ user.ephemeralKeys \in [1 .. 3 -> Nat]

HasRead(user) ==
  /\ WithinYear(user.iat, user.expiry)
  /\ user.read.expiry = user.expiry
  /\ user.circuit = "V3CleanHands" =>
       /\ user.read.encryptions = [k \in 1 .. 3 |-> Shown(user, k)]
       /\ \A k \in 1 .. 3 : PointMessage[user.points[k].n] = Names[k]

UserOK(user) ==
  /\ user.status \in {"idle", "proving", "failed", "verifying", "verified"}
  /\ user.status # "idle" => Chosen(user)
  /\ user.status \in {"verifying", "verified"} => HasRead(user)

UsersOK == DOMAIN users = Users /\ \A u \in Users : UserOK(users[u])

LEMMA UsersInit == CleanHandsInit => UsersOK
BY DEF CleanHandsInit, UsersOK, UserOK, Idle

(* What changes one prover leaves the others as they are. *)
LEMMA OneUser ==
  ASSUME UsersOK, NEW u \in Users, NEW user, UserOK(user),
         users' = [users EXCEPT ![u] = user]
  PROVE  UsersOK'
<1>1. DOMAIN users' = Users
  BY DEF UsersOK
<1>2. ASSUME NEW w \in Users
      PROVE  UserOK(users'[w])
  <2>1. CASE w = u
    <3>1. users'[w] = user
      BY <2>1 DEF UsersOK
    <3>2. QED
      BY <3>1
  <2>2. CASE w # u
    <3>1. users'[w] = users[w]
      BY <2>2 DEF UsersOK
    <3>2. QED
      BY <3>1 DEF UsersOK
  <2>3. QED
    BY <2>1, <2>2
<1>3. QED
  BY <1>1, <1>2 DEF UsersOK, UserOK, Chosen, HasRead

LEMMA ProvesStep ==
  ASSUME UsersOK, NEW u \in Users, NEW circuit \in Circuits, NEW iat \in Iats,
         NEW expiry \in Int, expiry >= 0,
         - FieldPrime < expiry - iat, expiry - iat < FieldPrime,
         NEW secret \in Nat, NEW points \in [1 .. 3 -> CurvePoints],
         NEW ephemeralKeys \in [1 .. 3 -> Nat],
         Proves(u, circuit, iat, expiry, secret, points, ephemeralKeys)
  PROVE  UsersOK'
<1> DEFINE user == [status |-> "proving", circuit |-> circuit, iat |-> iat,
                    expiry |-> expiry, secret |-> secret, points |-> points,
                    ephemeralKeys |-> ephemeralKeys, read |-> NoProof]
<1>1. users' = [users EXCEPT ![u] = user]
  BY DEF Proves
<1>2. DOMAIN user = UserFields /\ user.status = "proving"
  BY DEF UserFields
<1>3. /\ user.circuit = circuit /\ user.iat = iat /\ user.expiry = expiry
      /\ user.secret = secret /\ user.points = points
      /\ user.ephemeralKeys = ephemeralKeys
  OBVIOUS
<1> HIDE DEF user
<1>4. Chosen(user)
  BY <1>2, <1>3 DEF Chosen
<1>5. UserOK(user)
  BY <1>2, <1>4 DEF UserOK
<1>6. QED
  BY <1>1, <1>5, OneUser

LEMMA PointsAre ==
  /\ DOMAIN Names = 1 .. 3
  /\ PointLists \subseteq [1 .. 3 -> CurvePoints]
  /\ ScriptPoints \in [1 .. 3 -> CurvePoints]
<1>1. DOMAIN Names = 1 .. 3
  BY DEF Names
<1>2. PointLists \cup {ScriptPoints} \subseteq [DOMAIN Names -> CurvePoints]
  BY CurveBounds DEF CurvePoints
<1>3. QED
  BY <1>1, <1>2

LEMMA ScriptStep ==
  ASSUME UsersOK, NEW u \in Users, NEW circuit \in Circuits, NEW iat \in Iats,
         NEW random \in 0 .. Month - 1, NEW secret \in Secrets,
         NEW y \in EphemeralKeys, Script(u, circuit, iat, random, secret, y)
  PROVE  UsersOK'
<1> DEFINE offset == SecureExpiryOffset(random)
           keys == [k \in DOMAIN Names |-> y]
<1>1. /\ FieldPrime \in Nat \ {0} /\ Year \in Nat /\ Month \in Nat \ {0}
      /\ Month <= Year /\ Range25 \in Nat /\ Year + 1 < Range25
      /\ 4 * Range25 < FieldPrime /\ iat \in Int /\ 0 <= iat
  BY CircuitBounds
<1>2. random \in Int
  BY <1>1
<1>3. random % Month \in 0 .. Month - 1
  BY <1>1, <1>2
<1>4. offset \in Int /\ 0 <= offset /\ offset <= Year + 2
  BY <1>1, <1>3 DEF SecureExpiryOffset
<1>5. secret \in Nat /\ keys \in [1 .. 3 -> Nat]
  BY CurveBounds, PointsAre
<1> HIDE DEF offset, keys
<1>6. Proves(u, circuit, iat, iat + offset, secret, ScriptPoints, keys)
  BY DEF Script, offset, keys
<1> DEFINE expiry == iat + offset
<1>7. /\ expiry \in Int /\ expiry >= 0
      /\ - FieldPrime < expiry - iat /\ expiry - iat < FieldPrime
  BY <1>1, <1>4
<1>8. Proves(u, circuit, iat, expiry, secret, ScriptPoints, keys)
  BY <1>6
<1> HIDE DEF expiry
<1>9. QED
  BY <1>5, <1>7, <1>8, PointsAre, ProvesStep

LEMMA StartStep ==
  ASSUME UsersOK, NEW u \in Users, Starts(u)
  PROVE  UsersOK'
<1>1. PICK circuit \in Circuits, iat \in Iats, secret \in Secrets :
        \/ \E random \in 0 .. Month - 1, y \in EphemeralKeys :
             Script(u, circuit, iat, random, secret, y)
        \/ \E expiry \in Expiries, points \in PointLists,
              keys \in [DOMAIN Names -> EphemeralKeys] :
             Proves(u, circuit, iat, expiry, secret, points, keys)
  BY DEF Starts
<1>2. ASSUME NEW random \in 0 .. Month - 1, NEW y \in EphemeralKeys,
             Script(u, circuit, iat, random, secret, y)
      PROVE  UsersOK'
  BY <1>2, ScriptStep
<1>3. ASSUME NEW expiry \in Expiries, NEW points \in PointLists,
             NEW keys \in [DOMAIN Names -> EphemeralKeys],
             Proves(u, circuit, iat, expiry, secret, points, keys)
      PROVE  UsersOK'
  <2>1. FieldPrime \in Nat /\ Year \in Nat
        /\ iat \in 0 .. FieldPrime - 2 * Year /\ expiry \in 0 .. FieldPrime - 1
    BY CircuitBounds
  <2>2. /\ expiry \in Int /\ expiry >= 0
        /\ - FieldPrime < expiry - iat /\ expiry - iat < FieldPrime
    BY <1>3, <2>1, CircuitBounds
  <2>3. /\ secret \in Nat /\ points \in [1 .. 3 -> CurvePoints]
        /\ keys \in [1 .. 3 -> Nat]
    BY CurveBounds, PointsAre
  <2>4. QED
    BY <1>3, <2>2, <2>3, ProvesStep
<1>4. QED
  BY <1>1, <1>2, <1>3

(* A field that does not matter to what is shown may change. *)
LEMMA SameChoices ==
  ASSUME NEW old, NEW user, Chosen(old), DOMAIN user = UserFields,
         user.circuit = old.circuit, user.iat = old.iat,
         user.expiry = old.expiry, user.secret = old.secret,
         user.points = old.points, user.ephemeralKeys = old.ephemeralKeys
  PROVE  Chosen(user) /\ \A k : Shown(user, k) = Shown(old, k)
<1>1. Chosen(user)
  BY DEF Chosen
<1>2. \A k : Encryption(user, k) = Encryption(old, k)
  BY DEF Encryption
<1>3. QED
  BY <1>1, <1>2 DEF Shown

LEMMA ProvedStep ==
  ASSUME UsersOK, NEW u \in Users, Proved(u)
  PROVE  UsersOK'
<1> DEFINE old == users[u]
           user == [old EXCEPT !.status = "verifying", !.read = ReadSignals(u)]
<1>1. UserOK(old) /\ old.status = "proving" /\ Constraints(old)
  BY DEF UsersOK, Proved
<1>2. users' = [users EXCEPT ![u] = user]
  BY DEF Proved, UsersOK
<1>3. Chosen(old)
  BY <1>1 DEF UserOK
<1>4. old.circuit \in Circuits
  BY <1>3 DEF Chosen
<1>5. ReadSignals(u).expiry = old.expiry
  BY <1>4, ExpiryRead
<1>6. old.circuit = "V3CleanHands" =>
        ReadSignals(u).encryptions = [k \in 1 .. 3 |-> Shown(old, k)]
  BY EncryptionsRead
<1>7. /\ WithinYear(old.iat, old.expiry)
      /\ old.circuit = "V3CleanHands" =>
           \A k \in 1 .. 3 : PointMessage[old.points[k].n] = Names[k]
  BY <1>1, PointsAre DEF Constraints, Accepted
<1> HIDE DEF old
<1>8. /\ DOMAIN user = UserFields /\ user.status = "verifying"
      /\ user.circuit = old.circuit /\ user.iat = old.iat
      /\ user.expiry = old.expiry /\ user.secret = old.secret
      /\ user.points = old.points /\ user.ephemeralKeys = old.ephemeralKeys
      /\ user.read = ReadSignals(u)
  BY <1>3 DEF Chosen, UserFields
<1> HIDE DEF user
<1>9. Chosen(user) /\ \A k : Shown(user, k) = Shown(old, k)
  BY <1>3, <1>8, SameChoices
<1>10. HasRead(user)
  <2>1. user.circuit = "V3CleanHands" =>
          user.read.encryptions = [k \in 1 .. 3 |-> Shown(user, k)]
    BY <1>6, <1>8, <1>9
  <2>2. QED
    BY <1>5, <1>7, <1>8, <2>1 DEF HasRead
<1>11. UserOK(user)
  BY <1>8, <1>9, <1>10 DEF UserOK
<1>12. QED
  BY <1>2, <1>11, OneUser

LEMMA StatusStep ==
  ASSUME UsersOK, NEW u \in Users, Refused(u) \/ Verified(u)
  PROVE  UsersOK'
<1> DEFINE old == users[u]
<1>1. UserOK(old)
  BY DEF UsersOK
<1>2. PICK s \in {"failed", "verified"} :
        /\ users' = [users EXCEPT ![u] = [old EXCEPT !.status = s]]
        /\ s = "failed" => old.status = "proving"
        /\ s = "verified" => old.status = "verifying"
  BY DEF Refused, Verified, UsersOK
<1> DEFINE user == [old EXCEPT !.status = s]
<1> HIDE DEF old
<1>3. Chosen(old) /\ (s = "verified" => HasRead(old))
  BY <1>1, <1>2 DEF UserOK
<1>4. /\ DOMAIN user = UserFields /\ user.status = s
      /\ user.circuit = old.circuit /\ user.iat = old.iat
      /\ user.expiry = old.expiry /\ user.secret = old.secret
      /\ user.points = old.points /\ user.ephemeralKeys = old.ephemeralKeys
      /\ user.read = old.read
  BY <1>3 DEF Chosen, UserFields
<1>5. users' = [users EXCEPT ![u] = user]
  BY <1>2
<1> HIDE DEF user
<1>6. Chosen(user) /\ \A k : Shown(user, k) = Shown(old, k)
  BY <1>3, <1>4, SameChoices
<1>7. s = "verified" => HasRead(user)
  BY <1>3, <1>4, <1>6 DEF HasRead
<1>8. UserOK(user)
  BY <1>2, <1>4, <1>6, <1>7 DEF UserOK
<1>9. QED
  BY <1>5, <1>8, OneUser

LEMMA UsersNext == UsersOK /\ [CleanHandsNext]_users => UsersOK'
<1> SUFFICES ASSUME UsersOK, [CleanHandsNext]_users
             PROVE  UsersOK'
  OBVIOUS
<1>1. ASSUME NEW u \in Users, UserStep(u)
      PROVE  UsersOK'
  BY <1>1, StartStep, ProvedStep, StatusStep DEF UserStep
<1>2. CASE UNCHANGED users
  BY <1>2 DEF UsersOK, UserOK, Chosen, HasRead
<1>3. QED
  BY <1>1, <1>2 DEF CleanHandsNext

(* The expiry that a verified proof shows (test-script.js reads it from the
   public signals) lies within the year that begins with the time of issuance,
   whatever field element its prover gave: V3.circom's range check leaves no
   room for expiry - iat to wrap around the field. *)
THEOREM ProvedWithin == CleanHandsSpec => []ProvedWithinTheYear
<1>1. UsersOK => ProvedWithinTheYear
  <2> SUFFICES ASSUME UsersOK, NEW u \in Users,
                      users[u].status \in {"verifying", "verified"}
               PROVE  users[u].read.expiry \in users[u].iat .. users[u].iat + Year
    BY DEF ProvedWithinTheYear
  <2>1. Chosen(users[u]) /\ HasRead(users[u])
    BY DEF UsersOK, UserOK
  <2>2. users[u].expiry \in users[u].iat .. users[u].iat + Year
    BY <2>1, RangeCheck DEF Chosen, HasRead
  <2>3. QED
    BY <2>1, <2>2 DEF HasRead
<1>2. QED
  BY UsersInit, UsersNext, <1>1, PTL DEF CleanHandsSpec

(* For every curve, key and ephemeral keys, each of the three encryptions that
   test-script.js reads of a V3CleanHands proof consists of two points in
   untwisted coordinates, and the owner of the key decrypts it to a point of
   the message that the prover gave beside it. *)
THEOREM EncryptsRight == CleanHandsSpec => []EncryptsItsMessages
<1>1. UsersOK => EncryptsItsMessages
  <2> SUFFICES ASSUME UsersOK, NEW u \in Users,
                      users[u].status \in {"verifying", "verified"},
                      users[u].circuit = "V3CleanHands",
                      NEW k \in DOMAIN Names
               PROVE  LET encryption == users[u].read.encryptions[k]
                      IN /\ \A c \in {encryption.c1, encryption.c2} :
                              /\ c = <<X(c[1][1]), Y(c[1][1])>>
                              /\ c[1][1].scale = 1
                         /\ PointMessage[DecryptedBy(users[u].secret, encryption)]
                              = Names[k]
    BY DEF EncryptsItsMessages
  <2> DEFINE user == users[u]
             c == Encryption(user, k)
             encryption == user.read.encryptions[k]
  <2>1. Chosen(user) /\ HasRead(user) /\ k \in 1 .. 3
    BY PointsAre DEF UsersOK, UserOK
  <2>2. encryption = Shown(user, k) /\ PointMessage[user.points[k].n] = Names[k]
    BY <2>1 DEF HasRead
  <2>3. /\ user.secret \in Nat /\ user.ephemeralKeys[k] \in Nat
        /\ user.points[k] \in CurvePoints
    BY <2>1 DEF Chosen
  <2> HIDE DEF user
  <2>4. /\ c[1].scale = 1 /\ c[2].scale = 1
        /\ (c[2].n - user.secret * c[1].n) % Order = user.points[k].n
    BY <2>3, EncryptionIs
  <2>5. /\ encryption.c1 = <<X(c[1]), Y(c[1])>>
        /\ encryption.c2 = <<X(c[2]), Y(c[2])>>
    BY <2>2 DEF Shown
  <2> HIDE DEF c, encryption
  <2>6. encryption.c1[1][1] = c[1] /\ encryption.c2[1][1] = c[2]
    BY <2>5 DEF X
  <2>7. DecryptedBy(user.secret, encryption) = user.points[k].n
    BY <2>4, <2>6 DEF DecryptedBy
  <2>8. \A d \in {encryption.c1, encryption.c2} :
          d = <<X(d[1][1]), Y(d[1][1])>> /\ d[1][1].scale = 1
    BY <2>4, <2>5, <2>6
  <2>9. PointMessage[DecryptedBy(user.secret, encryption)] = Names[k]
    BY <2>2, <2>7
  <2>10. QED
    BY <2>8, <2>9 DEF user, encryption
<1>2. QED
  BY UsersInit, UsersNext, <1>1, PTL DEF CleanHandsSpec
=============================================================================
