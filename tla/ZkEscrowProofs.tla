---------------------------- MODULE ZkEscrowProofs ----------------------------
(***************************************************************************)
(* Theorems about ZkEscrow and the WitnessCalculator it extends.           *)
(*                                                                         *)
(* TagsOpen: the invariant says of each stage of a session what its arrays *)
(* hold: a promise that has settled has put its answer at its own index,   *)
(* and a stage begins when those of the one before have all settled.  What *)
(* is proved then has a row for each message.                              *)
(*                                                                         *)
(* LastStartReturned: the folds of the calculator are unfolded as          *)
(* recursive functions over the prefixes of their sequences; a reader of   *)
(* each format is shown to undo its encoding, and the loop that sets the   *)
(* inputs to leave in the instance the representatives of the last inputs  *)
(* given.  The invariant of the calls, CalculatorOK, says that the         *)
(* instance holds the witness of the call that was begun last.             *)
(***************************************************************************)
EXTENDS ZkEscrow, SumTheorems, SequenceTheorems, TLAPS

-----------------------------------------------------------------------------
(* Sessions *)

Fields == DOMAIN Idle

IsSession(x) == x = [field \in Fields |-> x[field]]

LEMMA FieldsAre ==
  Fields = {"status", "acl", "msgs", "points", "nonces", "rnd", "prf",
            "prfPoints", "tag"}
BY DEF Fields, Idle

(* An array with a place for each message. *)
PerMessage(x, answers) ==
  answers = [k \in DOMAIN x.msgs |-> answers[k]]

(* An array in which each promise that has settled has put its answer at its
   index; in the end it is the array of the answers. *)
Settling(answers, all) ==
  /\ answers = [k \in DOMAIN all |-> answers[k]]
  /\ \A k \in DOMAIN all : answers[k] \in {NoAnswer, all[k]}

MsgsOK(x) ==
  \E n \in Nat \ {0} : x.msgs \in [1 .. n -> Messages]

(* The commitment, the encryption and the PRF input of each row. *)
TagOK(x) ==
  /\ Len(x.msgs) = NumMsgs
  /\ x.tag[<<"accessControlLogic", 1>>] = x.acl
  /\ \A k \in 1 .. NumMsgs :
       /\ x.tag[<<"commitments", k>>] = Commitment(x.msgs[k], x.rnd[k])
       /\ x.tag[<<"encryptions", k>>]
            = Encryption(MsgToPoint(x.msgs[k]), x.nonces[k])
       /\ x.tag[<<"prfIn", k>>] = x.prf[k].prfIn

(* The points, the answers and the answers' points, when all have settled. *)
Points(x) == [k \in DOMAIN x.msgs |-> MsgToPoint(x.msgs[k])]
Answers(x) == [k \in DOMAIN x.msgs |-> PrfAnswer(k)]
AnswerPoints(x) == [k \in DOMAIN x.msgs |-> MsgToPoint(PrfAnswer(k).prfOut)]

(* Each stage with the arrays that the stages before it have filled. *)
SessionOK(x) ==
  /\ IsSession(x)
  /\ x.status \in {"points", "prf", "prfPoints", "proving"} => MsgsOK(x)
  /\ x.status = "points" => Settling(x.points, Points(x))
  /\ x.status \in {"prf", "prfPoints", "proving"} =>
       /\ x.points = Points(x)
       /\ PerMessage(x, x.nonces) /\ PerMessage(x, x.rnd)
  /\ x.status = "prf" => Settling(x.prf, Answers(x))
  /\ x.status \in {"prfPoints", "proving"} => x.prf = Answers(x)
  /\ x.status = "prfPoints" => Settling(x.prfPoints, AnswerPoints(x))
  /\ x.status = "proving" => x.prfPoints = AnswerPoints(x)
  /\ x.status = "proved" => TagOK(x)

SessionsOK ==
  /\ sessions = [s \in Sessions |-> sessions[s]]
  /\ \A s \in Sessions : SessionOK(sessions[s])

(* One session goes on. *)
LEMMA SessionChanges ==
  ASSUME SessionsOK, NEW s \in Sessions, NEW x, SessionOK(x),
         sessions' = [sessions EXCEPT ![s] = x]
  PROVE  SessionsOK'
<1>1. sessions = [t \in Sessions |-> sessions[t]]
  BY DEF SessionsOK
<1>2. DOMAIN sessions = Sessions
  BY <1>1
<1>3. /\ sessions' = [t \in Sessions |-> sessions'[t]]
      /\ \A t \in Sessions : sessions'[t] = IF t = s THEN x ELSE sessions[t]
  BY <1>1, <1>2
<1>4. \A t \in Sessions : SessionOK(sessions'[t])
  <2> TAKE t \in Sessions
  <2>1. CASE t = s
    BY <1>3, <2>1
  <2>2. CASE t /= s
    BY <1>3, <2>2 DEF SessionsOK
  <2>3. QED
    BY <2>1, <2>2
<1>5. QED
  BY <1>3, <1>4 DEF SessionsOK

(* A promise settles at its index, and when none is pending all are there. *)
LEMMA Settles ==
  ASSUME NEW all, NEW answers, NEW k \in DOMAIN all, Settling(answers, all)
  PROVE  LET next == Settled(answers, k, all[k])
         IN  /\ Settling(next, all)
             /\ All(next) => next = [j \in DOMAIN all |-> all[j]]
<1> DEFINE next == Settled(answers, k, all[k])
<1>1. /\ answers = [j \in DOMAIN all |-> answers[j]]
      /\ \A j \in DOMAIN all : answers[j] \in {NoAnswer, all[j]}
  BY DEF Settling
<1>2. /\ next = [j \in DOMAIN all |-> next[j]]
      /\ \A j \in DOMAIN all : next[j] = IF j = k THEN all[k] ELSE answers[j]
  BY <1>1 DEF Settled
<1> HIDE DEF next
<1>3. \A j \in DOMAIN all : next[j] \in {NoAnswer, all[j]}
  BY <1>1, <1>2
<1>4. ASSUME All(next) PROVE next = [j \in DOMAIN all |-> all[j]]
  <2>1. \A j \in DOMAIN all : next[j] /= NoAnswer
    BY <1>2, <1>4 DEF All, ToSet
  <2>2. \A j \in DOMAIN all : next[j] = all[j]
    BY <1>3, <2>1
  <2>3. QED
    BY <1>2, <2>2
<1>5. QED
  BY <1>2, <1>3, <1>4 DEF Settling, next

(* Before anything has settled, all of it may. *)
LEMMA NothingSettled ==
  ASSUME NEW all
  PROVE  Settling([k \in DOMAIN all |-> NoAnswer], all)
BY DEF Settling

-----------------------------------------------------------------------------
(* The steps *)

LEMMA BeginStep ==
  ASSUME SessionsOK, NEW s \in Sessions, NEW acl,
         NEW msgs \in UNION {[1 .. n -> Messages] : n \in 1 .. MaxMessages},
         Begin(s, acl, msgs)
  PROVE  SessionsOK'
<1> DEFINE points == [k \in DOMAIN msgs |-> NoAnswer]
           x == [Idle EXCEPT !.status = "points", !.acl = acl, !.msgs = msgs,
                             !.points = points]
<1>1. sessions' = [sessions EXCEPT ![s] = x]
  BY DEF Begin
<1>2. /\ IsSession(x) /\ x.status = "points" /\ x.msgs = msgs
      /\ x.points = points
  BY FieldsAre DEF Idle, IsSession
<1> HIDE DEF x
<1>3. MsgsOK(x)
  <2>1. PICK n \in 1 .. MaxMessages : msgs \in [1 .. n -> Messages]
    OBVIOUS
  <2>2. n \in Nat \ {0}
    BY <2>1
  <2>3. QED
    BY <1>2, <2>1, <2>2 DEF MsgsOK
<1>4. Settling(x.points, Points(x))
  <2>1. DOMAIN Points(x) = DOMAIN msgs
    BY <1>2 DEF Points
  <2>2. QED
    BY <1>2, <2>1, NothingSettled
<1>5. SessionOK(x)
  BY <1>2, <1>3, <1>4 DEF SessionOK
<1>6. QED
  BY <1>1, <1>5, SessionChanges

LEMMA MessagePointStep ==
  ASSUME SessionsOK, NEW s \in Sessions, NEW k, MessagePoint(s, k)
  PROVE  SessionsOK'
<1> DEFINE old == sessions[s]
           n == DOMAIN old.msgs
           points == Settled(old.points, k, MsgToPoint(old.msgs[k]))
<1>1. /\ SessionOK(old) /\ old.status = "points" /\ k \in DOMAIN old.points
  BY DEF SessionsOK, MessagePoint, Pending
<1>2. /\ IsSession(old) /\ MsgsOK(old) /\ Settling(old.points, Points(old))
  BY <1>1 DEF SessionOK
<1>3. /\ DOMAIN Points(old) = n /\ k \in n
      /\ Points(old)[k] = MsgToPoint(old.msgs[k])
      /\ Points(old) = [j \in n |-> Points(old)[j]]
  <2>1. DOMAIN Points(old) = n
    BY DEF Points
  <2>2. DOMAIN old.points = n
    BY <1>2, <2>1 DEF Settling
  <2>3. QED
    BY <1>1, <2>1, <2>2 DEF Points
<1>4. /\ Settling(points, Points(old))
      /\ All(points) => points = Points(old)
  BY <1>2, <1>3, Settles
<1> HIDE DEF points
<1>5. CASE ~All(points)
  <2> DEFINE x == [old EXCEPT !.points = points]
  <2>1. sessions' = [sessions EXCEPT ![s] = x]
    BY <1>5 DEF MessagePoint, points
  <2>2. /\ IsSession(x) /\ x.status = "points" /\ x.msgs = old.msgs
        /\ x.points = points
    BY <1>1, <1>2, FieldsAre DEF IsSession
  <2> HIDE DEF x
  <2>3. SessionOK(x)
    BY <1>2, <1>4, <2>2 DEF SessionOK, MsgsOK, Points
  <2>4. QED
    BY <2>1, <2>3, SessionChanges
<1>6. CASE All(points)
  <2>1. PICK nonces \in [n -> Randoms], rnd \in [n -> Randoms] :
          sessions' = [sessions EXCEPT ![s] =
            [old EXCEPT !.status = "prf", !.points = points,
               !.nonces = nonces, !.rnd = rnd,
               !.prf = [j \in n |-> NoAnswer]]]
    BY <1>6 DEF MessagePoint, points
  <2> DEFINE x == [old EXCEPT !.status = "prf", !.points = points,
                     !.nonces = nonces, !.rnd = rnd,
                     !.prf = [j \in n |-> NoAnswer]]
  <2>2. /\ IsSession(x) /\ x.status = "prf" /\ x.msgs = old.msgs
        /\ x.points = points /\ x.nonces = nonces /\ x.rnd = rnd
        /\ x.prf = [j \in n |-> NoAnswer]
    BY <1>2, FieldsAre DEF IsSession
  <2>3. sessions' = [sessions EXCEPT ![s] = x]
    BY <2>1
  <2> HIDE DEF x
  <2>4. Settling(x.prf, Answers(x))
    <3>1. DOMAIN Answers(x) = n
      BY <2>2 DEF Answers
    <3>2. QED
      BY <2>2, <3>1, NothingSettled
  <2>5. PerMessage(x, x.nonces) /\ PerMessage(x, x.rnd)
    BY <2>1, <2>2 DEF PerMessage
  <2>6. MsgsOK(x) /\ x.points = Points(x)
    BY <1>2, <1>4, <1>6, <2>2 DEF MsgsOK, Points
  <2>7. SessionOK(x)
    BY <2>2, <2>4, <2>5, <2>6 DEF SessionOK
  <2>8. QED
    BY <2>3, <2>7, SessionChanges
<1>7. QED
  BY <1>5, <1>6

LEMMA AnswerStep ==
  ASSUME SessionsOK, NEW s \in Sessions, NEW k, Answer(s, k)
  PROVE  SessionsOK'
<1> DEFINE old == sessions[s]
           n == DOMAIN old.msgs
           prf == Settled(old.prf, k, PrfAnswer(k))
<1>1. /\ SessionOK(old) /\ old.status = "prf" /\ k \in DOMAIN old.prf
  BY DEF SessionsOK, Answer, Pending
<1>2. /\ IsSession(old) /\ MsgsOK(old) /\ old.points = Points(old)
      /\ PerMessage(old, old.nonces) /\ PerMessage(old, old.rnd)
      /\ Settling(old.prf, Answers(old))
  BY <1>1 DEF SessionOK
<1>3. /\ DOMAIN Answers(old) = n /\ k \in n
      /\ Answers(old)[k] = PrfAnswer(k)
      /\ Answers(old) = [j \in n |-> Answers(old)[j]]
  <2>1. DOMAIN Answers(old) = n
    BY DEF Answers
  <2>2. DOMAIN old.prf = n
    BY <1>2, <2>1 DEF Settling
  <2>3. QED
    BY <1>1, <2>1, <2>2 DEF Answers
<1>4. /\ Settling(prf, Answers(old))
      /\ All(prf) => prf = Answers(old)
  BY <1>2, <1>3, Settles
<1> HIDE DEF prf
<1>5. CASE ~All(prf)
  <2> DEFINE x == [old EXCEPT !.prf = prf]
  <2>1. sessions' = [sessions EXCEPT ![s] = x]
    BY <1>5 DEF Answer, prf
  <2>2. /\ IsSession(x) /\ x.status = "prf" /\ x.msgs = old.msgs
        /\ x.points = old.points /\ x.nonces = old.nonces /\ x.rnd = old.rnd
        /\ x.prf = prf
    BY <1>1, <1>2, FieldsAre DEF IsSession
  <2> HIDE DEF x
  <2>3. /\ MsgsOK(x) /\ x.points = Points(x)
        /\ PerMessage(x, x.nonces) /\ PerMessage(x, x.rnd)
        /\ Settling(x.prf, Answers(x))
    BY <1>2, <1>4, <2>2 DEF MsgsOK, Points, PerMessage, Answers
  <2>4. SessionOK(x)
    BY <2>2, <2>3 DEF SessionOK
  <2>5. QED
    BY <2>1, <2>4, SessionChanges
<1>6. CASE All(prf)
  <2> DEFINE prfPoints == [j \in DOMAIN prf |-> NoAnswer]
             x == [old EXCEPT !.status = "prfPoints", !.prf = prf,
                              !.prfPoints = prfPoints]
  <2>1. sessions' = [sessions EXCEPT ![s] = x]
    BY <1>6 DEF Answer, prf
  <2>2. /\ IsSession(x) /\ x.status = "prfPoints" /\ x.msgs = old.msgs
        /\ x.points = old.points /\ x.nonces = old.nonces /\ x.rnd = old.rnd
        /\ x.prf = prf /\ x.prfPoints = prfPoints
    BY <1>2, FieldsAre DEF IsSession
  <2> HIDE DEF x
  <2>3. /\ MsgsOK(x) /\ x.points = Points(x)
        /\ PerMessage(x, x.nonces) /\ PerMessage(x, x.rnd)
        /\ x.prf = Answers(x)
    BY <1>2, <1>4, <1>6, <2>2 DEF MsgsOK, Points, PerMessage, Answers
  <2>4. Settling(x.prfPoints, AnswerPoints(x))
    <3>1. DOMAIN AnswerPoints(x) = n /\ DOMAIN prf = n
      BY <1>3, <1>4, <1>6, <2>2 DEF AnswerPoints
    <3>2. QED
      BY <2>2, <3>1, NothingSettled
  <2>5. SessionOK(x)
    BY <2>2, <2>3, <2>4 DEF SessionOK
  <2>6. QED
    BY <2>1, <2>5, SessionChanges
<1>7. QED
  BY <1>5, <1>6

LEMMA AnswerPointStep ==
  ASSUME SessionsOK, NEW s \in Sessions, NEW k, AnswerPoint(s, k)
  PROVE  SessionsOK'
<1> DEFINE old == sessions[s]
           n == DOMAIN old.msgs
           points == Settled(old.prfPoints, k, MsgToPoint(old.prf[k].prfOut))
           status == IF All(points) THEN "proving" ELSE "prfPoints"
           x == [old EXCEPT !.prfPoints = points, !.status = status]
<1>1. /\ SessionOK(old) /\ old.status = "prfPoints" /\ k \in DOMAIN old.prfPoints
      /\ sessions' = [sessions EXCEPT ![s] = x]
  BY DEF SessionsOK, AnswerPoint, Pending
<1>2. /\ IsSession(old) /\ MsgsOK(old) /\ old.points = Points(old)
      /\ PerMessage(old, old.nonces) /\ PerMessage(old, old.rnd)
      /\ old.prf = Answers(old)
      /\ Settling(old.prfPoints, AnswerPoints(old))
  BY <1>1 DEF SessionOK
<1>3. /\ DOMAIN AnswerPoints(old) = n /\ k \in n
      /\ AnswerPoints(old)[k] = MsgToPoint(old.prf[k].prfOut)
      /\ AnswerPoints(old) = [j \in n |-> AnswerPoints(old)[j]]
  <2>1. DOMAIN AnswerPoints(old) = n
    BY DEF AnswerPoints
  <2>2. k \in n
    BY <1>1, <1>2, <2>1 DEF Settling
  <2>3. old.prf[k] = PrfAnswer(k)
    BY <1>2, <2>2 DEF Answers
  <2>4. QED
    BY <2>1, <2>2, <2>3 DEF AnswerPoints
<1>4. /\ Settling(points, AnswerPoints(old))
      /\ All(points) => points = AnswerPoints(old)
  BY <1>2, <1>3, Settles
<1> HIDE DEF points, status
<1>5. /\ IsSession(x) /\ x.status = status /\ x.msgs = old.msgs
      /\ x.points = old.points /\ x.nonces = old.nonces /\ x.rnd = old.rnd
      /\ x.prf = old.prf /\ x.prfPoints = points
  BY <1>2, FieldsAre DEF IsSession
<1> HIDE DEF x
<1>6. /\ MsgsOK(x) /\ x.points = Points(x)
      /\ PerMessage(x, x.nonces) /\ PerMessage(x, x.rnd)
      /\ x.prf = Answers(x)
      /\ Settling(x.prfPoints, AnswerPoints(x))
      /\ All(points) => x.prfPoints = AnswerPoints(x)
  BY <1>2, <1>4, <1>5 DEF MsgsOK, Points, PerMessage, Answers, AnswerPoints
<1>7. SessionOK(x)
  BY <1>5, <1>6 DEF SessionOK, status
<1>8. QED
  BY <1>1, <1>7, SessionChanges

-----------------------------------------------------------------------------
(* The signals *)

Joins(u, s, t) == u = s \o t

(* What that says of u, row by row. *)
Behind(u, s, t) ==
  /\ Len(u) = Len(s) + Len(t)
  /\ \A k \in 1 .. Len(s) : u[k] = s[k]
  /\ \A k \in 1 .. Len(t) : u[Len(s) + k] = t[k]

LEMMA Joined ==
  ASSUME NEW S, NEW s \in Seq(S), NEW t \in Seq(S), NEW u, Joins(u, s, t)
  PROVE  u \in Seq(S) /\ Behind(u, s, t)
<1>1. /\ u \in Seq(S) /\ Len(u) = Len(s) + Len(t)
      /\ \A k \in 1 .. Len(s) + Len(t) :
           u[k] = IF k <= Len(s) THEN s[k] ELSE t[k - Len(s)]
  BY ConcatProperties DEF Joins
<1>2. Len(s) \in Nat /\ Len(t) \in Nat
  OBVIOUS
<1>3. ASSUME NEW k \in 1 .. Len(t)
      PROVE  u[Len(s) + k] = t[k]
  <2>1. /\ Len(s) + k \in 1 .. Len(s) + Len(t) /\ ~(Len(s) + k <= Len(s))
        /\ Len(s) + k - Len(s) = k
    BY <1>2
  <2>2. QED
    BY <1>1, <2>1
<1>4. QED
  BY <1>1, <1>2, <1>3 DEF Behind

(* An array of N rows. *)
Rows(N, a) == a = [k \in 1 .. N |-> a[k]]

LEMMA RowsSeq ==
  ASSUME NEW N \in Nat, NEW a, Rows(N, a), NEW S, \A k \in 1 .. N : a[k] \in S
  PROVE  a \in Seq(S) /\ Len(a) = N
<1>1. a \in [1 .. N -> S]
  BY DEF Rows
<1>2. QED
  BY <1>1

(* Three arrays of N rows with one of a single row before the last. *)
Layout(N, all, a, b, c, d) ==
  /\ DOMAIN all = 1 .. 3 * N + 1
  /\ \A k \in 1 .. N : /\ all[k] = a[k]
                       /\ all[N + k] = b[k]
                       /\ all[2 * N + 1 + k] = d[k]
  /\ all[2 * N + 1] = c[1]

LEMMA Concatenated ==
  ASSUME NEW N \in Nat, NEW a, NEW b, NEW c, NEW d,
         Rows(N, a), Rows(N, b), Rows(1, c), Rows(N, d),
         NEW ab, Joins(ab, a, b), NEW abc, Joins(abc, ab, c),
         NEW all, Joins(all, abc, d)
  PROVE  Layout(N, all, a, b, c, d)
<1> DEFINE S == {a[k] : k \in 1 .. N} \cup {b[k] : k \in 1 .. N}
                  \cup {c[k] : k \in 1 .. 1} \cup {d[k] : k \in 1 .. N}
<1>1. /\ a \in Seq(S) /\ Len(a) = N /\ b \in Seq(S) /\ Len(b) = N
      /\ c \in Seq(S) /\ Len(c) = 1 /\ d \in Seq(S) /\ Len(d) = N
  <2>1. /\ \A k \in 1 .. N : a[k] \in S /\ b[k] \in S /\ d[k] \in S
        /\ \A k \in 1 .. 1 : c[k] \in S
    OBVIOUS
  <2> HIDE DEF S
  <2>2. QED
    BY <2>1, RowsSeq
<1> HIDE DEF S
<1> DEFINE N2 == 2 * N
           N3 == 2 * N + 1
<1>0. N + N = N2 /\ N2 + 1 = N3 /\ N3 + N = 3 * N + 1 /\ N2 \in Nat /\ N3 \in Nat
  OBVIOUS
<1> HIDE DEF N2, N3
<1>3. /\ ab \in Seq(S) /\ Len(ab) = N2
      /\ \A k \in 1 .. N : ab[k] = a[k] /\ ab[N + k] = b[k]
  <2>1. ab \in Seq(S) /\ Behind(ab, a, b)
    BY <1>1, Joined
  <2>2. QED
    BY <1>0, <1>1, <2>1 DEF Behind
<1>4. /\ abc \in Seq(S) /\ Len(abc) = N3
      /\ \A k \in 1 .. N2 : abc[k] = ab[k]
      /\ abc[N3] = c[1]
  <2>1. abc \in Seq(S) /\ Behind(abc, ab, c)
    BY <1>1, <1>3, Joined
  <2>2. 1 \in 1 .. 1
    OBVIOUS
  <2>3. QED
    BY <1>0, <1>1, <1>3, <2>1, <2>2 DEF Behind
<1>5. /\ all \in Seq(S) /\ Len(all) = N3 + N
      /\ \A k \in 1 .. N3 : all[k] = abc[k]
      /\ \A k \in 1 .. N : all[N3 + k] = d[k]
  <2>1. all \in Seq(S) /\ Behind(all, abc, d)
    BY <1>1, <1>4, Joined
  <2>2. QED
    BY <1>1, <1>4, <2>1 DEF Behind
<1>6. DOMAIN all = 1 .. 3 * N + 1
  BY <1>0, <1>5
<1>7. ASSUME NEW k \in 1 .. N
      PROVE  /\ all[k] = a[k] /\ all[N + k] = b[k]
             /\ all[2 * N + 1 + k] = d[k]
  <2>1. /\ k \in 1 .. N2 /\ k \in 1 .. N3
        /\ N + k \in 1 .. N2 /\ N + k \in 1 .. N3
    BY DEF N2, N3
  <2>2. all[k] = a[k] /\ all[N + k] = b[k] /\ all[N3 + k] = d[k]
    BY <1>3, <1>4, <1>5, <2>1
  <2>3. QED
    BY <2>2 DEF N3
<1>8. all[2 * N + 1] = c[1]
  <2>1. N3 \in 1 .. N3
    BY DEF N3
  <2>2. QED
    BY <1>4, <1>5, <2>1 DEF N3
<1>9. QED
  BY <1>6, <1>7, <1>8 DEF Layout

(* What stands where in signalOrder.json. *)
LEMMA Order ==
  /\ DOMAIN SignalOrder = 1 .. 3 * NumMsgs + 1
  /\ \A k \in 1 .. NumMsgs :
       /\ SignalOrder[k] = <<"encryptions", k>>
       /\ SignalOrder[NumMsgs + k] = <<"commitments", k>>
       /\ SignalOrder[2 * NumMsgs + 1 + k] = <<"prfIn", k>>
  /\ SignalOrder[2 * NumMsgs + 1] = <<"accessControlLogic", 1>>
<1> DEFINE a == [k \in 1 .. NumMsgs |-> <<"encryptions", k>>]
           b == [k \in 1 .. NumMsgs |-> <<"commitments", k>>]
           c == <<<<"accessControlLogic", 1>>>>
           d == [k \in 1 .. NumMsgs |-> <<"prfIn", k>>]
<1>1. Rows(NumMsgs, a) /\ Rows(NumMsgs, b) /\ Rows(1, c) /\ Rows(NumMsgs, d)
  BY DEF Rows
<1>5. /\ c[1] = <<"accessControlLogic", 1>>
      /\ \A k \in 1 .. NumMsgs : /\ a[k] = <<"encryptions", k>>
                                 /\ b[k] = <<"commitments", k>>
                                 /\ d[k] = <<"prfIn", k>>
  OBVIOUS
<1>2. PICK ab, abc : /\ Joins(ab, a, b) /\ Joins(abc, ab, c)
                     /\ Joins(SignalOrder, abc, d)
  BY DEF SignalOrder, Joins
<1> HIDE DEF a, b, c, d
<1>3. NumMsgs \in Nat
  BY EscrowBounds
<1>4. Layout(NumMsgs, SignalOrder, a, b, c, d)
  BY <1>1, <1>2, <1>3, Concatenated
<1>6. QED
  BY <1>4, <1>5 DEF Layout

(* No name stands there twice. *)
LEMMA OrderInjective ==
  ASSUME NEW i \in DOMAIN SignalOrder, NEW j \in DOMAIN SignalOrder,
         SignalOrder[i] = SignalOrder[j]
  PROVE  i = j
<1> DEFINE N == NumMsgs
           named(k) ==
             \/ SignalOrder[k] = <<"encryptions", k>>
             \/ SignalOrder[k] = <<"commitments", k - N>>
             \/ k = 2 * N + 1 /\ SignalOrder[k] = <<"accessControlLogic", 1>>
             \/ SignalOrder[k] = <<"prfIn", k - (2 * N + 1)>>
<1>1. N \in Nat
  BY EscrowBounds
<1> HIDE DEF N
<1>2. ASSUME NEW k \in 1 .. 3 * N + 1
      PROVE  named(k)
  <2>1. \/ k \in 1 .. N \/ k - N \in 1 .. N \/ k = 2 * N + 1
        \/ k - (2 * N + 1) \in 1 .. N
    BY <1>1
  <2>2. k \in Int /\ N + (k - N) = k /\ 2 * N + 1 + (k - (2 * N + 1)) = k
    BY <1>1
  <2>3. QED
    BY <2>1, <2>2, Order DEF N
<1>3. /\ i \in 1 .. 3 * N + 1 /\ j \in 1 .. 3 * N + 1
      /\ i \in Int /\ j \in Int
  BY <1>1, Order DEF N
<1>4. named(i) /\ named(j)
  BY <1>2, <1>3
<1> DEFINE name == SignalOrder[i]
<1>5. name = SignalOrder[j]
  OBVIOUS
<1> HIDE DEF name
<1>6. CASE name[1] = "encryptions"
  BY <1>4, <1>5, <1>6 DEF name
<1>7. CASE name[1] = "commitments"
  <2>1. i - N = j - N
    BY <1>4, <1>5, <1>7 DEF name
  <2>2. QED
    BY <1>1, <1>3, <2>1
<1>8. CASE name[1] = "accessControlLogic"
  BY <1>4, <1>5, <1>8 DEF name
<1>9. CASE name[1] = "prfIn"
  <2>1. i - (2 * N + 1) = j - (2 * N + 1)
    BY <1>4, <1>5, <1>9 DEF name
  <2>2. QED
    BY <1>1, <1>3, <2>1
<1>10. QED
  BY <1>4, <1>6, <1>7, <1>8, <1>9 DEF name

(* The tag has the signal of a position under the position's name. *)
LEMMA Serialized ==
  ASSUME NEW signals, NEW i \in DOMAIN SignalOrder
  PROVE  SerializeSignals(signals)[SignalOrder[i]] = signals[i]
<1> DEFINE name == SignalOrder[i]
           at == CHOOSE k \in DOMAIN SignalOrder : SignalOrder[k] = name
<1>1. at \in DOMAIN SignalOrder /\ SignalOrder[at] = name
  OBVIOUS
<1>2. at = i
  BY <1>1, OrderInjective
<1>3. name \in ToSet(SignalOrder)
  BY DEF ToSet
<1>4. SerializeSignals(signals)[name] = signals[at]
  BY <1>3 DEF SerializeSignals
<1>5. QED
  BY <1>2, <1>4

(* The circuit takes no more and no fewer messages than it has rows for. *)
LEMMA SizesFit ==
  ASSUME NEW inputs, Provable(inputs), "msgAsPoint" \in DOMAIN inputs,
         Len(inputs["msgAsPoint"]) \in Nat
  PROVE  Len(inputs["msgAsPoint"]) = NumMsgs
<1>1. InputError(DAEncryptSizes, "msgAsPoint", Len(inputs["msgAsPoint"])) = "none"
  BY DEF Provable
<1>2. /\ "msgAsPoint" \in DOMAIN DAEncryptSizes
      /\ DAEncryptSizes["msgAsPoint"] = NumMsgs
  BY DEF DAEncryptSizes
<1>3. QED
  BY <1>1, <1>2, EscrowBounds DEF InputError

LEMMA ProveStep ==
  ASSUME SessionsOK, NEW s \in Sessions, Prove(s)
  PROVE  SessionsOK'
<1> DEFINE old == sessions[s]
           inputs == CircuitInputs(s)
           signals == PublicSignals(inputs)
           tag == SerializeSignals(signals)
           x == [old EXCEPT !.status = "proved", !.tag = tag]
           N == NumMsgs
<1>1. SessionOK(old) /\ old.status = "proving" /\ Provable(inputs)
  BY DEF SessionsOK, Prove
<1>2. /\ IsSession(old) /\ MsgsOK(old) /\ old.points = Points(old)
      /\ PerMessage(old, old.nonces) /\ PerMessage(old, old.rnd)
      /\ old.prf = Answers(old)
  BY <1>1 DEF SessionOK
<1>3. sessions' = [sessions EXCEPT ![s] = x]
  <2> HIDE DEF tag
  <2>1. sessions' = [[sessions EXCEPT ![s] = [old EXCEPT !.status = "proved"]]
                       EXCEPT ![s] = [@ EXCEPT !.tag = tag]]
    BY DEF Prove, tag
  <2>2. s \in DOMAIN sessions
    BY DEF SessionsOK
  <2>3. QED
    BY <2>1, <2>2
<1>4. PICK n \in Nat \ {0} : old.msgs \in [1 .. n -> Messages]
  BY <1>2 DEF MsgsOK
<1>5. n = N /\ Len(old.msgs) = N /\ DOMAIN old.msgs = 1 .. N
  <2>1. Points(old) \in [1 .. n -> {MsgToPoint(m) : m \in Messages}]
    BY <1>4 DEF Points
  <2>2. Len(Points(old)) = n /\ Len(old.msgs) = n
    BY <1>4, <2>1
  <2>3. "msgAsPoint" \in DOMAIN inputs /\ inputs["msgAsPoint"] = Points(old)
    BY <1>2 DEF CircuitInputs
  <2>4. QED
    BY <1>1, <1>4, <2>2, <2>3, SizesFit
<1> DEFINE a == [k \in 1 .. N |->
                   Encryption(inputs.msgAsPoint[k], inputs.encryptWithNonce[k])]
           b == [k \in 1 .. N |->
                   Commitment(inputs.msgAsPoint[k][2], inputs.rnd[k])]
           c == inputs.accessControlLogic
           d == inputs.prfIn
<1>6. /\ Rows(1, c) /\ c[1] = old.acl /\ Rows(N, d)
      /\ \A k \in 1 .. N : d[k] = old.prf[k].prfIn
  <2>1. c = <<old.acl>> /\ d = [k \in DOMAIN old.prf |-> old.prf[k].prfIn]
    BY DEF CircuitInputs
  <2>2. DOMAIN old.prf = 1 .. N
    BY <1>2, <1>5 DEF Answers
  <2> HIDE DEF c, d
  <2>3. QED
    BY <2>1, <2>2 DEF Rows
<1>7. ASSUME NEW k \in 1 .. N
      PROVE  /\ a[k] = Encryption(MsgToPoint(old.msgs[k]), old.nonces[k])
             /\ b[k] = Commitment(old.msgs[k], old.rnd[k])
  <2>1. /\ inputs.msgAsPoint = old.points
        /\ inputs.encryptWithNonce = old.nonces /\ inputs.rnd = old.rnd
    BY DEF CircuitInputs
  <2>2. old.points[k] = MsgToPoint(old.msgs[k])
    BY <1>2, <1>5 DEF Points
  <2>3. MsgToPoint(old.msgs[k])[2] = old.msgs[k]
    BY DEF MsgToPoint
  <2> HIDE DEF inputs
  <2>4. QED
    BY <2>1, <2>2, <2>3
<1>8. PICK ab, abc : /\ Joins(ab, a, b) /\ Joins(abc, ab, c)
                     /\ Joins(signals, abc, d)
  BY DEF PublicSignals, Joins
<1>9. N \in Nat
  BY EscrowBounds
<1>10. Rows(N, a) /\ Rows(N, b)
  BY DEF Rows
<1> HIDE DEF a, b, c, d, inputs, signals
<1>11. /\ \A k \in 1 .. N : /\ signals[k] = a[k]
                            /\ signals[N + k] = b[k]
                            /\ signals[2 * N + 1 + k] = d[k]
       /\ signals[2 * N + 1] = c[1]
  <2>1. Layout(N, signals, a, b, c, d)
    BY <1>6, <1>8, <1>9, <1>10, Concatenated
  <2>2. QED
    BY <2>1 DEF Layout
<1>12. ASSUME NEW k \in 1 .. N
       PROVE  /\ tag[<<"encryptions", k>>] = a[k]
              /\ tag[<<"commitments", k>>] = b[k]
              /\ tag[<<"prfIn", k>>] = d[k]
  <2>1. /\ k \in DOMAIN SignalOrder /\ N + k \in DOMAIN SignalOrder
        /\ 2 * N + 1 + k \in DOMAIN SignalOrder
    BY <1>9, Order
  <2>2. /\ SignalOrder[k] = <<"encryptions", k>>
        /\ SignalOrder[N + k] = <<"commitments", k>>
        /\ SignalOrder[2 * N + 1 + k] = <<"prfIn", k>>
    BY Order
  <2>3. /\ tag[SignalOrder[k]] = signals[k]
        /\ tag[SignalOrder[N + k]] = signals[N + k]
        /\ tag[SignalOrder[2 * N + 1 + k]] = signals[2 * N + 1 + k]
    BY <2>1, Serialized
  <2> HIDE DEF tag
  <2>4. QED
    BY <1>11, <2>2, <2>3
<1>13. tag[<<"accessControlLogic", 1>>] = old.acl
  <2>1. 2 * N + 1 \in DOMAIN SignalOrder
    BY <1>9, Order
  <2>2. tag[SignalOrder[2 * N + 1]] = signals[2 * N + 1]
    BY <2>1, Serialized
  <2>3. SignalOrder[2 * N + 1] = <<"accessControlLogic", 1>>
    BY Order
  <2> HIDE DEF tag
  <2>4. QED
    BY <1>6, <1>11, <2>2, <2>3
<1> HIDE DEF tag
<1>14. /\ IsSession(x) /\ x.status = "proved" /\ x.tag = tag
       /\ x.acl = old.acl /\ x.msgs = old.msgs /\ x.nonces = old.nonces
       /\ x.rnd = old.rnd /\ x.prf = old.prf
  BY <1>2, FieldsAre DEF IsSession
<1> HIDE DEF x
<1>15. TagOK(x)
  BY <1>5, <1>6, <1>7, <1>12, <1>13, <1>14 DEF TagOK
<1>16. SessionOK(x)
  BY <1>14, <1>15 DEF SessionOK
<1>17. QED
  BY <1>3, <1>16, SessionChanges

LEMMA RejectStep ==
  ASSUME SessionsOK, NEW s \in Sessions, Reject(s)
  PROVE  SessionsOK'
<1> DEFINE old == sessions[s]
           x == [old EXCEPT !.status = "failed"]
<1>1. IsSession(old)
  BY DEF SessionsOK, SessionOK
<1>2. IsSession(x) /\ x.status = "failed"
  BY <1>1, FieldsAre DEF IsSession
<1>3. sessions' = [sessions EXCEPT ![s] = x]
  BY DEF Reject
<1> HIDE DEF x
<1>4. SessionOK(x)
  BY <1>2 DEF SessionOK
<1>5. QED
  BY <1>3, <1>4, SessionChanges

LEMMA SessionsStep == SessionsOK /\ [EscrowNext]_escrowVars => SessionsOK'
<1> SUFFICES ASSUME SessionsOK, [EscrowNext]_escrowVars PROVE SessionsOK'
  OBVIOUS
<1>1. CASE UNCHANGED sessions
  BY <1>1 DEF SessionsOK
<1>2. ASSUME NEW s \in Sessions, SessionStep(s) PROVE SessionsOK'
  BY <1>2, MessagePointStep, AnswerStep, AnswerPointStep, ProveStep, RejectStep
     DEF SessionStep
<1>3. QED
  BY <1>1, <1>2, BeginStep DEF EscrowNext, escrowVars

LEMMA SessionsInit == EscrowInit => SessionsOK
<1> SUFFICES ASSUME EscrowInit PROVE SessionsOK
  OBVIOUS
<1>1. IsSession(Idle) /\ Idle.status = "idle"
  BY DEF IsSession, Fields, Idle
<1>2. SessionOK(Idle)
  BY <1>1 DEF SessionOK
<1>3. QED
  BY <1>2 DEF EscrowInit, SessionsOK

(* Whatever order the promises of encryptAndProve settle in, for any number of
   messages and sessions, the commitments of a tag open with the inputs that
   are returned beside it, row by row. *)
THEOREM TagsOpen == EscrowSpec => []CommitmentsOpen
<1>1. SessionsOK => CommitmentsOpen
  BY DEF SessionsOK, SessionOK, TagOK, CommitmentsOpen, CommitmentInputs
<1>2. QED
  BY <1>1, SessionsInit, SessionsStep, PTL DEF EscrowSpec

-----------------------------------------------------------------------------
(* Folds of sequences *)

LEMMA MaxIn ==
  ASSUME NEW n \in Nat, NEW S \in SUBSET (1 .. n), S # {}
  PROVE  Max(S) \in S /\ \A y \in S : y <= Max(S)
<1> DEFINE T == {n - y : y \in S}
<1>1. \A y \in S : y \in Int /\ n - y \in Nat
  OBVIOUS
<1>2. T \subseteq Nat /\ T # {}
  BY <1>1
<1> HIDE DEF T
<1>3. PICK t \in T : \A u \in T : t <= u
  BY <1>2, LeastNat
<1>4. PICK x \in S : t = n - x
  BY <1>3 DEF T
<1>5. \A y \in S : t <= n - y
  BY <1>3 DEF T
<1>6. \A y \in S : x >= y
  BY <1>1, <1>4, <1>5
<1>7. Max(S) \in S /\ \A y \in S : Max(S) >= y
  BY <1>6 DEF Max
<1>8. QED
  BY <1>1, <1>7

(* Before the greatest element of the set is taken, the others have been. *)
Largest(g, base, step, n) ==
  /\ g[{}] = base
  /\ \A S \in SUBSET (1 .. n) :
       S # {} => g[S] = step[g[S \ {Max(S)}]][Max(S)]

LEMMA LargestExists ==
  ASSUME NEW A, NEW base \in A, NEW n \in Nat,
         NEW step \in [A -> [1 .. n -> A]]
  PROVE  \E g \in [SUBSET (1 .. n) -> A] : Largest(g, base, step, n)
<1>1. PICK it \in [SUBSET (1 .. n) -> A] : Folding(it, base, step, n)
  BY FoldingExists DEF Foldable
<1>2. Largest(it, base, step, n)
  BY <1>1, MaxIn DEF Folding, Largest
<1>3. QED
  BY <1>2

(* As far as its values are in A, g is such a function. *)
Partly(g, A, base, step, n) ==
  /\ g[{}] = base
  /\ \A S \in SUBSET (1 .. n) : S # {} /\ g[S \ {Max(S)}] \in A =>
       g[S] = step[g[S \ {Max(S)}]][Max(S)]

(* The value v of a fold is that of a function that takes one step for each
   element. *)
Reaches(v, A, base, step, n) ==
  \E f \in [0 .. n -> A] : Stepwise(f, base, step, n) /\ v = f[n]

LEMMA LargestSteps ==
  ASSUME NEW A, NEW base \in A, NEW n \in Nat,
         NEW step \in [A -> [1 .. n -> A]], NEW g, Partly(g, A, base, step, n)
  PROVE  Reaches(g[1 .. n], A, base, step, n)
<1>1. PICK it \in [SUBSET (1 .. n) -> A] : Folding(it, base, step, n)
  BY FoldingExists DEF Foldable
<1> DEFINE D == 1 .. n
           T == {S \in SUBSET D : g[S] = it[S]}
           f == [k \in 0 .. n |-> it[1 .. k]]
<1>2. ASSUME NEW S \in SUBSET D, \A R \in SUBSET S : R # S => R \in T
      PROVE  S \in T
  <2>1. CASE S = {}
    BY <1>1, <2>1 DEF Folding, Partly
  <2>2. CASE S # {}
    <3>1. Max(S) \in S /\ \A y \in S : y <= Max(S)
      BY <2>2, MaxIn
    <3>2. S \ {Max(S)} \in SUBSET S /\ S \ {Max(S)} # S
      BY <3>1
    <3>3. g[S \ {Max(S)}] = it[S \ {Max(S)}]
      BY <1>2, <3>2
    <3>4. it[S \ {Max(S)}] \in A
      BY <1>1, <3>2
    <3>5. g[S] = step[it[S \ {Max(S)}]][Max(S)]
      BY <2>2, <3>3, <3>4 DEF Partly
    <3>6. it[S] = step[it[S \ {Max(S)}]][Max(S)]
      BY <1>1, <3>1 DEF Folding
    <3>7. QED
      BY <3>5, <3>6
  <2>3. QED
    BY <2>1, <2>2
<1>3. IsFiniteSet(D)
  BY FS_Interval
<1>4. SUBSET D \subseteq T
  <2> HIDE DEF D, T
  <2>1. QED
    BY <1>2, <1>3, SubsetInduction
<1>5. g[1 .. n] = f[n]
  <2>1. D \in SUBSET D /\ n \in 0 .. n
    OBVIOUS
  <2>2. g[D] = it[D]
    BY <1>4, <2>1
  <2>3. QED
    BY <2>1, <2>2
<1>6. f \in [0 .. n -> A]
  <2>1. \A k \in 0 .. n : 1 .. k \in SUBSET (1 .. n)
    OBVIOUS
  <2>2. QED
    BY <1>1, <2>1
<1>7. Stepwise(f, base, step, n)
  BY <1>1, FoldingPrefixes
<1>8. QED
  BY <1>5, <1>6, <1>7 DEF Reaches

-----------------------------------------------------------------------------
(* The folds of WitnessCalculator *)

Elements == 0 .. Prime - 1

WordStep(arr) ==
  [res \in Int |-> [k \in 1 .. Len(arr) |-> res * Radix + arr[k]]]

LEMMA FromArrayFold ==
  ASSUME NEW arr \in Seq(Int)
  PROVE  Reaches(FromArray32(arr), Int, 0, WordStep(arr), Len(arr))
<1> DEFINE n == Len(arr)
           step == WordStep(arr)
           Recursive(it) ==
             it = [S \in SUBSET DOMAIN arr |->
                     IF S = {} THEN 0
                     ELSE it[S \ {Max(S)}] * Radix + arr[Max(S)]]
           g == CHOOSE it : Recursive(it)
<1>1. FromArray32(arr) = g[DOMAIN arr]
  BY DEF FromArray32, FoldLeft, MapThenFoldSet
<1>2. n \in Nat /\ DOMAIN arr = 1 .. n
  OBVIOUS
<1>3. 0 \in Int
  OBVIOUS
<1> HIDE DEF n
<1>4. /\ step \in [Int -> [1 .. n -> Int]]
      /\ \A res \in Int, k \in 1 .. n : step[res][k] = res * Radix + arr[k]
  <2>1. Radix \in Int /\ \A k \in 1 .. n : arr[k] \in Int
    BY <1>2, CalculatorBounds
  <2>2. \A res \in Int, k \in 1 .. n : res * Radix + arr[k] \in Int
    BY <2>1
  <2>3. QED
    BY <2>2 DEF WordStep, n
<1> HIDE DEF step
<1>5. \E it : Recursive(it)
  <2>1. PICK it \in [SUBSET (1 .. n) -> Int] : Largest(it, 0, step, n)
    BY <1>2, <1>3, <1>4, LargestExists
  <2>2. ASSUME NEW S \in SUBSET (1 .. n), S # {}
        PROVE  it[S] = it[S \ {Max(S)}] * Radix + arr[Max(S)]
    <3>1. Max(S) \in 1 .. n /\ it[S \ {Max(S)}] \in Int
      BY <1>2, <2>1, <2>2, MaxIn
    <3>2. QED
      BY <1>4, <2>1, <2>2, <3>1 DEF Largest
  <2>3. it[{}] = 0
    BY <2>1 DEF Largest
  <2>4. Recursive(it)
    BY <1>2, <2>2, <2>3
  <2>5. QED
    BY <2>4
<1>6. Recursive(g)
  BY <1>5
<1> HIDE DEF g
<1>7. g[{}] = 0
  BY <1>6
<1>8. ASSUME NEW S \in SUBSET (1 .. n), S # {}, g[S \ {Max(S)}] \in Int
      PROVE  g[S] = step[g[S \ {Max(S)}]][Max(S)]
  <2>1. Max(S) \in 1 .. n
    BY <1>2, <1>8, MaxIn
  <2>2. g[S] = g[S \ {Max(S)}] * Radix + arr[Max(S)]
    BY <1>2, <1>6, <1>8
  <2>3. QED
    BY <1>4, <1>8, <2>1, <2>2
<1>9. Partly(g, Int, 0, step, n)
  BY <1>7, <1>8 DEF Partly
<1>10. Reaches(g[1 .. n], Int, 0, step, n)
  BY <1>2, <1>3, <1>4, <1>9, LargestSteps
<1>11. QED
  BY <1>1, <1>2, <1>10 DEF step, n

OutputStep(values) ==
  [n \in Elements |-> [k \in 1 .. Len(values) |-> (2 * n + values[k]) % Prime]]

LEMMA OutputFold ==
  ASSUME NEW values \in Seq(Elements)
  PROVE  Reaches(Output(values), Elements, 0, OutputStep(values), Len(values))
<1> DEFINE n == Len(values)
           step == OutputStep(values)
           Recursive(it) ==
             it = [S \in SUBSET DOMAIN values |->
                     IF S = {} THEN 0
                     ELSE (2 * it[S \ {Max(S)}] + values[Max(S)]) % Prime]
           g == CHOOSE it : Recursive(it)
<1>1. Output(values) = g[DOMAIN values]
  BY DEF Output, FoldLeft, MapThenFoldSet
<1>2. n \in Nat /\ DOMAIN values = 1 .. n
  OBVIOUS
<1>3. 0 \in Elements
  BY CalculatorBounds DEF Elements
<1> HIDE DEF n
<1>4. /\ step \in [Elements -> [1 .. n -> Elements]]
      /\ \A res \in Elements, k \in 1 .. n : step[res][k] = (2 * res + values[k]) % Prime
  <2>1. Prime \in Nat \ {0} /\ \A k \in 1 .. n : values[k] \in Int
    BY <1>2, CalculatorBounds DEF Elements
  <2>2. \A res \in Elements, k \in 1 .. n :
          (2 * res + values[k]) % Prime \in Elements
    BY <2>1 DEF Elements
  <2>3. QED
    BY <2>2 DEF OutputStep, n
<1> HIDE DEF step
<1>5. \E it : Recursive(it)
  <2>1. PICK it \in [SUBSET (1 .. n) -> Elements] : Largest(it, 0, step, n)
    BY <1>2, <1>3, <1>4, LargestExists
  <2>2. ASSUME NEW S \in SUBSET (1 .. n), S # {}
        PROVE  it[S] = (2 * it[S \ {Max(S)}] + values[Max(S)]) % Prime
    <3>1. Max(S) \in 1 .. n /\ it[S \ {Max(S)}] \in Elements
      BY <1>2, <2>1, <2>2, MaxIn
    <3>2. QED
      BY <1>4, <2>1, <2>2, <3>1 DEF Largest
  <2>3. it[{}] = 0
    BY <2>1 DEF Largest
  <2>4. Recursive(it)
    BY <1>2, <2>2, <2>3
  <2>5. QED
    BY <2>4
<1>6. Recursive(g)
  BY <1>5
<1> HIDE DEF g
<1>7. g[{}] = 0
  BY <1>6
<1>8. ASSUME NEW S \in SUBSET (1 .. n), S # {}, g[S \ {Max(S)}] \in Elements
      PROVE  g[S] = step[g[S \ {Max(S)}]][Max(S)]
  <2>1. Max(S) \in 1 .. n
    BY <1>2, <1>8, MaxIn
  <2>2. g[S] = (2 * g[S \ {Max(S)}] + values[Max(S)]) % Prime
    BY <1>2, <1>6, <1>8
  <2>3. QED
    BY <1>4, <1>8, <2>1, <2>2
<1>9. Partly(g, Elements, 0, step, n)
  BY <1>7, <1>8 DEF Partly
<1>10. Reaches(g[1 .. n], Elements, 0, step, n)
  BY <1>2, <1>3, <1>4, <1>9, LargestSteps
<1>11. QED
  BY <1>1, <1>2, <1>10 DEF step, n

SizeStep ==
  [n \in Nat |-> [k \in 1 .. Len(Declared) |-> n + InputSizes[Declared[k]]]]

LEMMA SizeFold ==
  Reaches(GetInputSize, Nat, 0, SizeStep, Len(Declared))
<1> DEFINE n == Len(Declared)
           step == SizeStep
           Recursive(it) ==
             it = [S \in SUBSET DOMAIN Declared |->
                     IF S = {} THEN 0
                     ELSE it[S \ {Max(S)}] + InputSizes[Declared[Max(S)]]]
           g == CHOOSE it : Recursive(it)
<1>1. GetInputSize = g[DOMAIN Declared]
  BY DEF GetInputSize, FoldLeft, MapThenFoldSet
<1>2. n \in Nat /\ DOMAIN Declared = 1 .. n
  BY DeclaredAssumption
<1>3. 0 \in Nat
  OBVIOUS
<1> HIDE DEF n
<1>4. /\ step \in [Nat -> [1 .. n -> Nat]]
      /\ \A res \in Nat, k \in 1 .. n : step[res][k] = res + InputSizes[Declared[k]]
  <2>1. \A k \in 1 .. n : InputSizes[Declared[k]] \in Nat
    BY <1>2, CalculatorBounds
  <2>2. \A res \in Nat, k \in 1 .. n : res + InputSizes[Declared[k]] \in Nat
    BY <2>1
  <2>3. QED
    BY <2>2 DEF SizeStep, n
<1> HIDE DEF step
<1>5. \E it : Recursive(it)
  <2>1. PICK it \in [SUBSET (1 .. n) -> Nat] : Largest(it, 0, step, n)
    BY <1>2, <1>3, <1>4, LargestExists
  <2>2. ASSUME NEW S \in SUBSET (1 .. n), S # {}
        PROVE  it[S] = it[S \ {Max(S)}] + InputSizes[Declared[Max(S)]]
    <3>1. Max(S) \in 1 .. n /\ it[S \ {Max(S)}] \in Nat
      BY <1>2, <2>1, <2>2, MaxIn
    <3>2. QED
      BY <1>4, <2>1, <2>2, <3>1 DEF Largest
  <2>3. it[{}] = 0
    BY <2>1 DEF Largest
  <2>4. Recursive(it)
    BY <1>2, <2>2, <2>3
  <2>5. QED
    BY <2>4
<1>6. Recursive(g)
  BY <1>5
<1> HIDE DEF g
<1>7. g[{}] = 0
  BY <1>6
<1>8. ASSUME NEW S \in SUBSET (1 .. n), S # {}, g[S \ {Max(S)}] \in Nat
      PROVE  g[S] = step[g[S \ {Max(S)}]][Max(S)]
  <2>1. Max(S) \in 1 .. n
    BY <1>2, <1>8, MaxIn
  <2>2. g[S] = g[S \ {Max(S)}] + InputSizes[Declared[Max(S)]]
    BY <1>2, <1>6, <1>8
  <2>3. QED
    BY <1>4, <1>8, <2>1, <2>2
<1>9. Partly(g, Nat, 0, step, n)
  BY <1>7, <1>8 DEF Partly
<1>10. Reaches(g[1 .. n], Nat, 0, step, n)
  BY <1>2, <1>3, <1>4, <1>9, LargestSteps
<1>11. QED
  BY <1>1, <1>2, <1>10 DEF step, n

-----------------------------------------------------------------------------
(* Flattened sequences *)

(* The sequences up to each one, put together. *)
Flattens(f, seqs) ==
  /\ f[0] = <<>>
  /\ \A k \in 1 .. Len(seqs) : f[k] = f[k - 1] \o seqs[k]

LEMMA FlattenExists ==
  ASSUME NEW A, NEW seqs \in Seq(Seq(A))
  PROVE  \E f \in [0 .. Len(seqs) -> Seq(A)] : Flattens(f, seqs)
<1> DEFINE n == Len(seqs)
           step == [s \in Seq(A) |-> [k \in 1 .. n |-> s \o seqs[k]]]
<1>1. n \in Nat /\ <<>> \in Seq(A)
  OBVIOUS
<1>2. /\ step \in [Seq(A) -> [1 .. n -> Seq(A)]]
      /\ \A s \in Seq(A), k \in 1 .. n : step[s][k] = s \o seqs[k]
  <2>1. \A k \in 1 .. n : seqs[k] \in Seq(A)
    OBVIOUS
  <2>2. \A s \in Seq(A), k \in 1 .. n : s \o seqs[k] \in Seq(A)
    BY <2>1
  <2>3. QED
    BY <2>2
<1> HIDE DEF n, step
<1>3. PICK f \in [0 .. n -> Seq(A)] : Stepwise(f, <<>>, step, n)
  BY <1>1, <1>2, Recursion
<1>4. \A k \in 1 .. n : f[k - 1] \in Seq(A)
  BY <1>1, <1>3
<1>5. Flattens(f, seqs)
  BY <1>2, <1>3, <1>4 DEF Stepwise, Flattens, n
<1>6. QED
  BY <1>3, <1>5 DEF n

LEMMA FlattenSteps ==
  ASSUME NEW A, NEW seqs \in Seq(Seq(A)),
         NEW f \in [0 .. Len(seqs) -> Seq(A)], Flattens(f, seqs)
  PROVE  FlattenSeq(seqs) = f[Len(seqs)]
<1> DEFINE n == Len(seqs)
           Recursive(g) == g = [i \in 1 .. n |->
                                  IF i = 1 THEN seqs[i] ELSE g[i - 1] \o seqs[i]]
           flatten == CHOOSE g : Recursive(g)
<1>1. n \in Nat /\ \A k \in 1 .. n : seqs[k] \in Seq(A)
  OBVIOUS
<1>2. CASE n = 0
  <2>1. seqs = <<>>
    BY <1>2
  <2>2. FlattenSeq(seqs) = seqs
    BY <1>2 DEF FlattenSeq
  <2>3. QED
    BY <1>2, <2>1, <2>2 DEF Flattens
<1>3. CASE n # 0
  <2>1. FlattenSeq(seqs) = flatten[n]
    BY <1>3 DEF FlattenSeq
  <2>2. /\ f[0] = <<>> /\ \A k \in 1 .. n : f[k] = f[k - 1] \o seqs[k]
        /\ \A k \in 0 .. n : f[k] \in Seq(A)
    BY DEF Flattens
  <2> HIDE DEF n
  <2>3. f[1] = seqs[1]
    <3>1. 1 \in 1 .. n
      BY <1>1, <1>3
    <3>2. \A i \in 1 .. n : i = 1 => f[i] = <<>> \o seqs[i]
      <4>1. \A i \in 1 .. n : i = 1 => i - 1 = 0
        OBVIOUS
      <4>2. QED
        BY <2>2, <4>1
    <3>3. seqs[1] \in Seq(A)
      BY <1>1, <3>1
    <3>4. <<>> \o seqs[1] = seqs[1]
      BY <3>3
    <3>5. QED
      BY <3>1, <3>2, <3>4
  <2>4. \E g : Recursive(g)
    <3> DEFINE g == [i \in 1 .. n |-> f[i]]
    <3>1. ASSUME NEW i \in 1 .. n
          PROVE  g[i] = IF i = 1 THEN seqs[i] ELSE g[i - 1] \o seqs[i]
      <4>1. CASE i = 1
        BY <2>3, <4>1
      <4>2. CASE i # 1
        <5>1. i - 1 \in 1 .. n
          BY <1>1, <4>2
        <5>2. QED
          BY <2>2, <4>2, <5>1
      <4>3. QED
        BY <4>1, <4>2
    <3>2. g = [i \in 1 .. n |-> g[i]]
      OBVIOUS
    <3>3. Recursive(g)
      <4> HIDE DEF g
      <4>1. QED
        BY <3>1, <3>2
    <3>4. QED
      BY <3>3
  <2>5. Recursive(flatten)
    BY <2>4
  <2> HIDE DEF flatten
  <2> DEFINE T == {m \in Nat : \A i \in 1 .. n : i = m + 1 => flatten[i] = f[i]}
  <2>6. 0 \in T
    <3>1. flatten[1] = seqs[1]
      BY <1>1, <1>3, <2>5
    <3>2. \A i : i = 0 + 1 => i = 1
      OBVIOUS
    <3>3. QED
      BY <2>3, <3>1, <3>2
  <2>7. ASSUME NEW m \in Nat, m \in T PROVE m + 1 \in T
    <3>1. SUFFICES ASSUME NEW i \in 1 .. n, i = m + 1 + 1
                   PROVE  flatten[i] = f[i]
      OBVIOUS
    <3> DEFINE j == i - 1
    <3>2. i # 1 /\ j \in 1 .. n /\ j = m + 1
      BY <1>1, <3>1
    <3>3. flatten[i] = flatten[j] \o seqs[i]
      BY <2>5, <3>2
    <3>4. f[i] = f[j] \o seqs[i]
      BY <2>2
    <3>5. flatten[j] = f[j]
      BY <2>7, <3>2
    <3>6. QED
      BY <3>3, <3>4, <3>5
  <2>8. Nat \subseteq T
    <3> HIDE DEF T
    <3>1. QED
      BY <2>6, <2>7, NatSet
  <2>9. n - 1 \in Nat /\ n \in 1 .. n /\ n = n - 1 + 1
    BY <1>1, <1>3
  <2>10. flatten[n] = f[n]
    <3>1. n - 1 \in T
      BY <2>8, <2>9
    <3>2. QED
      BY <2>9, <3>1
  <2>11. QED
    BY <2>1, <2>10 DEF n
<1>4. QED
  BY <1>2, <1>3

LEMMA FlattenType ==
  ASSUME NEW A, NEW seqs \in Seq(Seq(A))
  PROVE  FlattenSeq(seqs) \in Seq(A)
<1>1. PICK f \in [0 .. Len(seqs) -> Seq(A)] : Flattens(f, seqs)
  BY FlattenExists
<1>2. FlattenSeq(seqs) = f[Len(seqs)]
  BY <1>1, FlattenSteps
<1>3. QED
  BY <1>1, <1>2

(* Blocks of one length, put together. *)
Blocks(u, seqs, L) ==
  /\ Len(u) = Len(seqs) * L
  /\ \A k \in 1 .. Len(seqs), i \in 1 .. L : u[(k - 1) * L + i] = seqs[k][i]

LEMMA FlattenBlocks ==
  ASSUME NEW A, NEW seqs \in Seq(Seq(A)), NEW L \in Nat,
         \A k \in 1 .. Len(seqs) : Len(seqs[k]) = L
  PROVE  Blocks(FlattenSeq(seqs), seqs, L)
<1>1. PICK f \in [0 .. Len(seqs) -> Seq(A)] : Flattens(f, seqs)
  BY FlattenExists
<1> DEFINE n == Len(seqs)
           So(m) == /\ Len(f[m]) = m * L
                    /\ \A k \in 1 .. m, i \in 1 .. L :
                         f[m][(k - 1) * L + i] = seqs[k][i]
           T == {m \in Nat : m <= n => So(m)}
<1>2. n \in Nat /\ \A k \in 1 .. n : seqs[k] \in Seq(A) /\ Len(seqs[k]) = L
  OBVIOUS
<1>3. 0 \in T
  <2>1. f[0] = <<>> /\ 0 * L = 0
    BY <1>1 DEF Flattens
  <2>2. QED
    BY <2>1
<1>4. ASSUME NEW m \in Nat, m \in T PROVE m + 1 \in T
  <2> DEFINE last == m + 1
             s == f[m]
             t == seqs[last]
             e == m * L
             e1 == last * L
  <2>1. SUFFICES ASSUME last <= n PROVE So(last)
    <3>1. last \in Nat
      OBVIOUS
    <3> HIDE DEF So, last
    <3>2. (last <= n => So(last)) => last \in T
      BY <3>1
    <3>3. last \in T => m + 1 \in T
      BY DEF last
    <3>4. QED
      BY <3>2, <3>3
  <2>2. last \in 1 .. n /\ last - 1 = m /\ m \in 0 .. n /\ m <= n
    BY <1>2, <2>1
  <2>3. s \in Seq(A) /\ t \in Seq(A) /\ Len(t) = L /\ f[last] = s \o t
    BY <1>1, <1>2, <2>2 DEF Flattens
  <2>4. Len(s) = e /\ \A k \in 1 .. m, i \in 1 .. L : s[(k - 1) * L + i] = seqs[k][i]
    BY <1>4, <2>2
  <2>5. e \in Nat /\ e1 = e + L
    OBVIOUS
  <2>6. \A k \in 1 .. m : (k - 1) * L \in Nat /\ (k - 1) * L + L <= e
    <3>1. SUFFICES ASSUME NEW k \in 1 .. m
                   PROVE  (k - 1) * L \in Nat /\ (k - 1) * L + L <= e
      OBVIOUS
    <3>2. (k - 1) * L + L = k * L /\ k * L <= m * L
      OBVIOUS
    <3>3. QED
      BY <3>2
  <2> HIDE DEF s, t, e, e1, last
  <2>7. Len(s \o t) = e1
    <3>1. Len(s \o t) = Len(s) + Len(t)
      BY <2>3
    <3>2. QED
      BY <2>3, <2>4, <2>5, <3>1
  <2>8. \A k \in 1 .. m, i \in 1 .. L : (s \o t)[(k - 1) * L + i] = seqs[k][i]
    <3>1. SUFFICES ASSUME NEW k \in 1 .. m, NEW i \in 1 .. L
                   PROVE  (s \o t)[(k - 1) * L + i] = seqs[k][i]
      OBVIOUS
    <3> DEFINE x == (k - 1) * L
    <3>2. x \in Nat /\ x + L <= e /\ s[x + i] = seqs[k][i]
      BY <2>4, <2>6
    <3> HIDE DEF x
    <3>3. x + i \in 1 .. Len(s)
      BY <2>4, <2>5, <3>2
    <3>4. (s \o t)[x + i] = s[x + i]
      BY <2>3, <3>3
    <3>5. QED
      BY <3>2, <3>4 DEF x
  <2>9. \A i \in 1 .. L : (s \o t)[e + i] = t[i]
    BY <2>3, <2>4, <2>5
  <2>10. ASSUME NEW k \in 1 .. last, NEW i \in 1 .. L
         PROVE  (s \o t)[(k - 1) * L + i] = seqs[k][i]
    <3>1. CASE k \in 1 .. m
      BY <2>8, <3>1
    <3>2. CASE k = last
      <4>1. (k - 1) * L = e
        BY <2>2, <3>2 DEF e
      <4>2. QED
        BY <2>9, <3>2, <4>1 DEF t
    <3>3. k \in 1 .. m \/ k = last
      BY DEF last
    <3>4. QED
      BY <3>1, <3>2, <3>3
  <2>11. QED
    BY <2>3, <2>7, <2>10 DEF e1
<1>5. Nat \subseteq T
  <2> HIDE DEF T
  <2>1. QED
    BY <1>3, <1>4, NatSet
<1>6. So(n)
  <2> HIDE DEF So
  <2>1. QED
    BY <1>2, <1>5
<1>7. FlattenSeq(seqs) = f[n]
  BY <1>1, FlattenSteps
<1>8. QED
  BY <1>6, <1>7 DEF Blocks

-----------------------------------------------------------------------------
(* Elements and words *)

LEMMA DivMod ==
  ASSUME NEW a \in Nat, NEW d \in Nat \ {0}
  PROVE  a \div d \in Nat /\ a % d \in Nat /\ (a \div d) * d + (a % d) = a
<1> DEFINE q == a \div d
<1>1. q \in Int /\ a = d * q + (a % d) /\ a % d \in 0 .. d - 1
  OBVIOUS
<1>2. q >= 0
  <2> HIDE DEF q
  <2>1. SUFFICES ASSUME q <= -1 PROVE FALSE
    BY <1>1
  <2>2. d * q <= - d
    BY <1>1, <2>1
  <2>3. QED
    BY <1>1, <2>2
<1> HIDE DEF q
<1>3. q * d = d * q
  BY <1>1
<1>4. q * d + (a % d) = a
  BY <1>1, <1>3
<1>5. QED
  BY <1>1, <1>2, <1>4 DEF q

LEMMA RestsAre ==
  ASSUME NEW rem \in Nat
  PROVE  /\ Rests(rem)[0] = rem
         /\ \A k \in 1 .. N32 : Rests(rem)[k] = Rests(rem)[k - 1] \div Radix
         /\ \A k \in 0 .. N32 : Rests(rem)[k] \in Nat
<1> DEFINE Recursive(r) ==
             r = [k \in 0 .. N32 |-> IF k = 0 THEN rem ELSE r[k - 1] \div Radix]
           step == [r \in Nat |-> [k \in 1 .. N32 |-> r \div Radix]]
           rest == CHOOSE r : Recursive(r)
<1>1. N32 \in Nat /\ Radix \in Nat \ {0}
  BY CalculatorBounds
<1>2. /\ step \in [Nat -> [1 .. N32 -> Nat]]
      /\ \A r \in Nat, k \in 1 .. N32 : step[r][k] = r \div Radix
  <2>1. \A r \in Nat : r \div Radix \in Nat
    BY <1>1, DivMod
  <2>2. QED
    BY <2>1
<1>3. Rests(rem) = rest
  BY DEF Rests
<1> HIDE DEF step
<1>4. \E r : Recursive(r)
  <2>1. PICK f \in [0 .. N32 -> Nat] : Stepwise(f, rem, step, N32)
    BY <1>1, <1>2, Recursion
  <2>2. ASSUME NEW k \in 0 .. N32
        PROVE  f[k] = IF k = 0 THEN rem ELSE f[k - 1] \div Radix
    <3>1. CASE k = 0
      BY <2>1, <3>1 DEF Stepwise
    <3>2. CASE k # 0
      <4>1. k \in 1 .. N32 /\ k - 1 \in 0 .. N32
        BY <1>1, <3>2
      <4>2. f[k] = step[f[k - 1]][k] /\ f[k - 1] \in Nat
        BY <2>1, <4>1 DEF Stepwise
      <4>3. QED
        BY <1>2, <3>2, <4>1, <4>2
    <3>3. QED
      BY <3>1, <3>2
  <2>3. Recursive(f)
    BY <2>2
  <2>4. QED
    BY <2>3
<1>5. Recursive(rest)
  BY <1>4
<1> HIDE DEF rest
<1>6. rest[0] = rem
  BY <1>1, <1>5
<1>7. \A k \in 1 .. N32 : rest[k] = rest[k - 1] \div Radix
  BY <1>1, <1>5
<1> DEFINE T == {m \in Nat : m <= N32 => rest[m] \in Nat}
<1>8. 0 \in T
  BY <1>6
<1>9. ASSUME NEW m \in Nat, m \in T PROVE m + 1 \in T
  <2>1. SUFFICES ASSUME m + 1 <= N32 PROVE rest[m + 1] \in Nat
    OBVIOUS
  <2>2. m + 1 \in 1 .. N32 /\ m + 1 - 1 = m /\ rest[m] \in Nat
    BY <1>1, <1>9, <2>1
  <2>3. rest[m + 1] = rest[m] \div Radix
    BY <1>7, <2>2
  <2>4. QED
    BY <1>1, <2>2, <2>3, DivMod
<1>10. Nat \subseteq T
  <2> HIDE DEF T
  <2>1. QED
    BY <1>8, <1>9, NatSet
<1>11. \A k \in 0 .. N32 : rest[k] \in Nat
  BY <1>10
<1>12. QED
  BY <1>3, <1>6, <1>7, <1>11

IsWords(arr) == arr \in Seq(Int) /\ Len(arr) = N32

LEMMA ToArrayWords == ASSUME NEW v \in Nat PROVE IsWords(ToArray32(v))
<1>1. N32 \in Nat /\ Radix \in Nat \ {0}
  BY CalculatorBounds
<1>2. \A k \in 1 .. N32 : Rests(v)[N32 - k] % Radix \in Int
  <2>1. SUFFICES ASSUME NEW k \in 1 .. N32
                 PROVE  Rests(v)[N32 - k] % Radix \in Int
    OBVIOUS
  <2>2. N32 - k \in 0 .. N32
    BY <1>1
  <2>3. Rests(v)[N32 - k] \in Nat
    BY <2>2, RestsAre
  <2>4. QED
    BY <1>1, <2>3
<1> DEFINE digit(k) == Rests(v)[N32 - k] % Radix
<1>3. ToArray32(v) = [k \in 1 .. N32 |-> digit(k)]
  BY DEF ToArray32
<1> HIDE DEF digit
<1>4. \A k \in 1 .. N32 : digit(k) \in Int
  BY <1>2 DEF digit
<1>5. QED
  BY <1>1, <1>3, <1>4 DEF IsWords

(* fromArray32 undoes toArray32. *)
LEMMA FromToArray ==
  ASSUME NEW v \in Elements
  PROVE  FromArray32(ToArray32(v)) = v
<1> DEFINE arr == ToArray32(v)
           rest == Rests(v)
<1>1. /\ N32 \in Nat /\ Radix \in Nat \ {0} /\ v \in Nat
  BY CalculatorBounds DEF Elements
<1>2. arr \in Seq(Int) /\ Len(arr) = N32
  BY <1>1, ToArrayWords DEF IsWords
<1>3. \A k \in 1 .. N32 : arr[k] = rest[N32 - k] % Radix
  BY DEF ToArray32
<1>4. /\ rest[0] = v /\ rest[N32] = 0
      /\ \A k \in 1 .. N32 : rest[k] = rest[k - 1] \div Radix
      /\ \A k \in 0 .. N32 : rest[k] \in Nat
  BY <1>1, RestsAre, ElementsFit DEF Elements
<1> HIDE DEF arr, rest
<1>5. Reaches(FromArray32(arr), Int, 0, WordStep(arr), N32)
  BY <1>2, FromArrayFold
<1>6. PICK f \in [0 .. N32 -> Int] :
        Stepwise(f, 0, WordStep(arr), N32) /\ FromArray32(arr) = f[N32]
  BY <1>5 DEF Reaches
<1>7. /\ f[0] = 0
      /\ \A k \in 1 .. N32 : f[k] = f[k - 1] * Radix + arr[k]
  <2>1. \A k \in 1 .. N32 : k - 1 \in 0 .. N32
    BY <1>1
  <2>2. QED
    BY <1>2, <1>6, <2>1 DEF Stepwise, WordStep
<1> DEFINE T == {m \in Nat : m <= N32 => f[m] = rest[N32 - m]}
<1>8. 0 \in T
  <2>1. N32 - 0 = N32
    BY <1>1
  <2>2. QED
    BY <1>4, <1>7, <2>1
<1>9. ASSUME NEW m \in Nat, m \in T PROVE m + 1 \in T
  <2>1. SUFFICES ASSUME NEW k \in 1 .. N32, k = m + 1
                 PROVE  f[k] = rest[N32 - k]
    BY <1>1
  <2> DEFINE i == N32 - k
             j == N32 - m
             a == rest[i]
             b == rest[j]
  <2>2. /\ i \in 0 .. N32 /\ j \in 1 .. N32 /\ j - 1 = i
        /\ k - 1 = m /\ m <= N32
    BY <1>1, <2>1
  <2>3. f[k] = f[m] * Radix + arr[k]
    BY <1>7, <2>2
  <2>4. f[m] = b
    BY <1>9, <2>2
  <2>5. arr[k] = a % Radix /\ b = a \div Radix /\ a \in Nat
    BY <1>3, <1>4, <2>2
  <2> HIDE DEF a, b
  <2>6. f[k] = (a \div Radix) * Radix + (a % Radix)
    <3> DEFINE y == f[m]
               z == arr[k]
    <3>1. y = a \div Radix /\ z = a % Radix /\ f[k] = y * Radix + z
      BY <2>3, <2>4, <2>5
    <3> HIDE DEF y, z
    <3>2. QED
      BY <3>1
  <2>7. f[k] = a
    BY <1>1, <2>5, <2>6, DivMod
  <2>8. QED
    BY <2>7 DEF a
<1>10. Nat \subseteq T
  <2> HIDE DEF T
  <2>1. QED
    BY <1>8, <1>9, NatSet
<1>11. f[N32] = rest[N32 - N32]
  BY <1>1, <1>10
<1>12. N32 - N32 = 0
  BY <1>1
<1>13. QED
  BY <1>4, <1>6, <1>11, <1>12 DEF arr

LEMMA ReverseTwice ==
  ASSUME NEW S, NEW s \in Seq(S)
  PROVE  Reverse(s) \in Seq(S) /\ Len(Reverse(s)) = Len(s) /\ Reverse(Reverse(s)) = s
<1> DEFINE n == Len(s)
           r == Reverse(s)
           t == Reverse(r)
<1>1. n \in Nat /\ \A k \in 1 .. n : s[k] \in S /\ s = [i \in 1 .. n |-> s[i]]
  OBVIOUS
<1>2. r = [i \in 1 .. n |-> s[n - i + 1]]
  BY DEF Reverse
<1> HIDE DEF n, r
<1>3. \A i \in 1 .. n : n - i + 1 \in 1 .. n /\ n - (n - i + 1) + 1 = i
  BY <1>1
<1>4. r \in Seq(S) /\ Len(r) = n
  <2>1. \A i \in 1 .. n : s[n - i + 1] \in S
    BY <1>1, <1>3
  <2> DEFINE e(i) == s[n - i + 1]
  <2>2. r = [i \in 1 .. n |-> e(i)] /\ \A i \in 1 .. n : e(i) \in S
    BY <1>2, <2>1
  <2> HIDE DEF e
  <2>3. QED
    BY <1>1, <2>2
<1>5. t = [i \in 1 .. n |-> r[n - i + 1]]
  BY <1>4 DEF Reverse
<1>6. \A i \in 1 .. n : t[i] = s[i]
  BY <1>2, <1>3, <1>5
<1>7. t = s
  <2>1. s = [i \in 1 .. n |-> s[i]]
    BY DEF n
  <2> HIDE DEF t
  <2>2. QED
    BY <1>5, <1>6, <2>1
<1>8. QED
  BY <1>4, <1>7 DEF n, r, t

LEMMA SharedIs ==
  ASSUME NEW v \in Nat
  PROVE  Shared(v) \in Seq(Int) /\ Len(Shared(v)) = N32
<1>1. ToArray32(v) \in Seq(Int) /\ Len(ToArray32(v)) = N32
  BY ToArrayWords DEF IsWords
<1>2. QED
  BY <1>1, ReverseTwice DEF Shared

(* What is put into the shared memory is what is read from it. *)
LEMMA ElementOfShared ==
  ASSUME NEW v \in Elements
  PROVE  /\ Element(Shared(v)) = v
         /\ FromArray32(Reverse(Shared(v))) = v
<1>1. v \in Nat
  BY CalculatorBounds DEF Elements
<1>2. ToArray32(v) \in Seq(Int)
  BY <1>1, ToArrayWords DEF IsWords
<1>3. Reverse(Shared(v)) = ToArray32(v)
  BY <1>2, ReverseTwice DEF Shared
<1>4. QED
  BY <1>3, FromToArray DEF Element

-----------------------------------------------------------------------------
(* What a reader of the three formats finds *)

(* From index `from` on, the words are those of the elements of W. *)
WordsAt(words, from, W) ==
  /\ Len(words) = from - 1 + Len(W) * N32
  /\ \A k \in 1 .. Len(W), i \in 1 .. N32 :
       words[from - 1 + (k - 1) * N32 + i] = Shared(W[k])[i]

LEMMA BlockOf ==
  ASSUME NEW n \in Nat, NEW d \in Nat, NEW k \in 1 .. n
  PROVE  /\ (k - 1) * d \in Nat /\ k * d = (k - 1) * d + d
         /\ k * d <= n * d /\ n * d \in Nat
<1>1. k \in Nat /\ k <= n
  OBVIOUS
<1>2. k * d <= n * d
  BY <1>1
<1>3. QED
  BY <1>2

LEMMA ReadBinFinds ==
  ASSUME NEW S, NEW words \in Seq(S), NEW W \in Seq(Elements),
         NEW from \in Nat \ {0}, WordsAt(words, from, W)
  PROVE  ReadBin(words, from, Len(W)) = W
<1> DEFINE n == Len(W)
           read == ReadBin(words, from, n)
           part(k) == SubSeq(words, from + (k - 1) * N32, from + k * N32 - 1)
<1>1. n \in Nat /\ W = [k \in 1 .. n |-> W[k]] /\ \A k \in 1 .. n : W[k] \in Elements
  OBVIOUS
<1>2. N32 \in Nat \ {0} /\ Elements \subseteq Nat
  BY CalculatorBounds DEF Elements
<1>3. ASSUME NEW k \in 1 .. n PROVE part(k) = Shared(W[k])
  <2> DEFINE e == (k - 1) * N32
             a == from + e
             b == from + k * N32 - 1
             t == Shared(W[k])
             all == n * N32
  <2>1. e \in Nat /\ k * N32 = e + N32 /\ k * N32 <= all /\ all \in Nat
    BY <1>1, <1>2, BlockOf
  <2>2. /\ Len(words) = from - 1 + all
        /\ \A i \in 1 .. N32 : words[from - 1 + e + i] = t[i]
    BY DEF WordsAt
  <2>3. t \in Seq(Int) /\ Len(t) = N32
    BY <1>1, <1>2, SharedIs
  <2> HIDE DEF e, t, all
  <2>4. /\ a \in 1 .. Len(words) + 1 /\ b \in a - 1 .. Len(words)
        /\ b - a + 1 = N32
    BY <1>2, <2>1, <2>2
  <2> HIDE DEF b
  <2>5. /\ SubSeq(words, a, b) \in Seq(S) /\ Len(SubSeq(words, a, b)) = N32
        /\ \A i \in 1 .. N32 : SubSeq(words, a, b)[i] = words[a + i - 1]
    <3> HIDE DEF a
    <3>1. QED
      BY <2>4, SubSeqProperties
  <2>6. \A i \in 1 .. N32 : a + i - 1 = from - 1 + e + i
    BY <1>2, <2>1
  <2>7. \A i \in 1 .. N32 : SubSeq(words, a, b)[i] = t[i]
    BY <2>2, <2>5, <2>6
  <2> DEFINE s == SubSeq(words, a, b)
  <2>8. s \in Seq(S) /\ Len(s) = N32 /\ \A i \in 1 .. N32 : s[i] = t[i]
    BY <2>5, <2>7
  <2>9. s = t
    <3> HIDE DEF s
    <3>1. s = [i \in 1 .. N32 |-> s[i]] /\ t = [i \in 1 .. N32 |-> t[i]]
      BY <2>3, <2>8
    <3>2. QED
      BY <2>8, <3>1
  <2>10. QED
    BY <2>9 DEF a, b, e, t
<1>4. read = [k \in 1 .. n |-> Element(part(k))]
  BY DEF ReadBin
<1> HIDE DEF n, read, part
<1>5. \A k \in 1 .. n : Element(part(k)) = W[k]
  BY <1>1, <1>3, ElementOfShared
<1>6. QED
  BY <1>1, <1>4, <1>5 DEF n, read

LEMMA WordsAre ==
  ASSUME NEW W \in Seq(Elements)
  PROVE  /\ Words(W) \in Seq(Int)
         /\ Blocks(Words(W), [k \in DOMAIN W |-> Shared(W[k])], N32)
<1> DEFINE n == Len(W)
           sh(k) == Shared(W[k])
           seqs == [k \in DOMAIN W |-> sh(k)]
<1>1. n \in Nat /\ DOMAIN W = 1 .. n /\ \A k \in 1 .. n : W[k] \in Elements
  OBVIOUS
<1>2. N32 \in Nat /\ Elements \subseteq Nat
  BY CalculatorBounds DEF Elements
<1>3. \A k \in 1 .. n : sh(k) \in Seq(Int) /\ Len(sh(k)) = N32
  BY <1>1, <1>2, SharedIs
<1>4. Words(W) = FlattenSeq(seqs)
  BY DEF Words
<1> HIDE DEF n, sh
<1>5. seqs \in Seq(Seq(Int)) /\ Len(seqs) = n /\ \A k \in 1 .. n : Len(seqs[k]) = N32
  BY <1>1, <1>3
<1> HIDE DEF seqs
<1>6. FlattenSeq(seqs) \in Seq(Int) /\ Blocks(FlattenSeq(seqs), seqs, N32)
  BY <1>2, <1>5, FlattenType, FlattenBlocks
<1>7. QED
  BY <1>4, <1>6 DEF seqs, sh

LEMMA WordsFound ==
  ASSUME NEW W \in Seq(Elements)
  PROVE  WordsAt(Words(W), 1, W) /\ Len(Words(W)) = Len(W) * N32
<1> DEFINE n == Len(W)
           u == Words(W)
           seqs == [k \in DOMAIN W |-> Shared(W[k])]
<1>1. n \in Nat /\ DOMAIN W = 1 .. n /\ N32 \in Nat
  BY CalculatorBounds
<1>2. Len(seqs) = n /\ \A k \in 1 .. n : seqs[k] = Shared(W[k])
  BY <1>1
<1>3. u \in Seq(Int) /\ Blocks(u, seqs, N32)
  BY WordsAre
<1> HIDE DEF u, seqs
<1>4. /\ Len(u) = n * N32
      /\ \A k \in 1 .. n, i \in 1 .. N32 : u[(k - 1) * N32 + i] = Shared(W[k])[i]
  BY <1>2, <1>3 DEF Blocks
<1>5. ASSUME NEW k \in 1 .. n, NEW i \in 1 .. N32
      PROVE  1 - 1 + (k - 1) * N32 + i = (k - 1) * N32 + i
  <2> DEFINE e == (k - 1) * N32
  <2>1. e \in Nat
    BY <1>1, BlockOf
  <2> HIDE DEF e
  <2>2. 1 - 1 + e + i = e + i
    BY <2>1
  <2>3. QED
    BY <2>2 DEF e
<1>6. Len(u) = 1 - 1 + n * N32
  <2> DEFINE all == n * N32
  <2>1. all \in Nat
    BY <1>1
  <2> HIDE DEF all
  <2>2. all = 1 - 1 + all
    BY <2>1
  <2>3. QED
    BY <1>4, <2>2 DEF all
<1>7. QED
  BY <1>4, <1>5, <1>6 DEF WordsAt, n, u

LEMMA BinDecodes ==
  ASSUME NEW W \in Seq(Elements)
  PROVE  Decoded("calculateBinWitness", Encoded("calculateBinWitness", W)) = W
<1> DEFINE u == Words(W)
<1>1. Encoded("calculateBinWitness", W) = u
  BY DEF Encoded
<1>2. u \in Seq(Int) /\ WordsAt(u, 1, W) /\ Len(u) = Len(W) * N32
  BY WordsAre, WordsFound
<1> HIDE DEF u
<1>3. Len(u) \div N32 = Len(W)
  <2> DEFINE n == Len(W)
  <2>1. n \in Nat /\ N32 \in Nat \ {0}
    BY CalculatorBounds
  <2> HIDE DEF n
  <2>2. (n * N32) \div N32 = n
    BY <2>1
  <2>3. QED
    BY <1>2, <2>2 DEF n
<1>4. Decoded("calculateBinWitness", u) = ReadBin(u, 1, Len(W))
  BY <1>3 DEF Decoded
<1>5. QED
  BY <1>1, <1>2, <1>4, ReadBinFinds

LEMMA WitnessDecodes ==
  ASSUME NEW W \in Seq(Elements)
  PROVE  Decoded("calculateWitness", Encoded("calculateWitness", W)) = W
<1> DEFINE e(k) == FromArray32(Reverse(Shared(W[k])))
<1>1. Decoded("calculateWitness", Encoded("calculateWitness", W))
        = [k \in DOMAIN W |-> e(k)]
  BY DEF Decoded, Encoded
<1>2. /\ DOMAIN W = 1 .. Len(W) /\ W = [k \in 1 .. Len(W) |-> W[k]]
      /\ \A k \in 1 .. Len(W) : W[k] \in Elements
  OBVIOUS
<1>3. \A k \in 1 .. Len(W) : e(k) = W[k]
  BY <1>2, ElementOfShared
<1> HIDE DEF e
<1>4. QED
  BY <1>1, <1>2, <1>3

(* The two sections of a wtns file. *)
Unit == Int \cup {"wtns"}

LEMMA WTNSLayout ==
  ASSUME NEW W \in Seq(Elements)
  PROVE  /\ WTNSBin(W) \in Seq(Unit)
         /\ WTNSBin(W)[5] = 8 + n8
         /\ WTNSBin(W)[8 + N32] = Len(W)
         /\ WTNSBin(W)[9 + N32] = 2
         /\ WordsAt(WTNSBin(W), 12 + N32, W)
<1> DEFINE n == Len(W)
           all == n * N32
           size == n8 * n
           head == <<"wtns", 2, 2, 1, 8 + n8, 0, n8>>
           raw == RawPrime
           next == <<n, 2, size, 0>>
           data == Words(W)
           first == head \o raw
           both == first \o next
           file == both \o data
<1>1. N32 \in Nat \ {0} /\ Prime \in Nat /\ n \in Nat /\ n8 \in Int
  BY CalculatorBounds DEF n8
<1>2. all \in Nat /\ size \in Int
  BY <1>1
<1>3. raw \in Seq(Int) /\ Len(raw) = N32
  BY <1>1, SharedIs DEF RawPrime
<1>4. WTNSBin(W) = file
  BY DEF WTNSBin
<1>5. data \in Seq(Int) /\ Len(data) = all /\ WordsAt(data, 1, W)
  BY WordsAre, WordsFound
<1> HIDE DEF n, size, all, raw, data
<1>6. /\ head \in Seq(Unit) /\ Len(head) = 7 /\ head[5] = 8 + n8
  BY <1>1 DEF Unit
<1>7. /\ next \in Seq(Unit) /\ Len(next) = 4 /\ next[1] = n /\ next[2] = 2
  BY <1>1, <1>2 DEF Unit
<1>8. raw \in Seq(Unit) /\ data \in Seq(Unit)
  BY <1>3, <1>5 DEF Unit
<1> HIDE DEF head, next
<1>9. /\ first \in Seq(Unit) /\ Len(first) = 7 + N32
      /\ first[5] = 8 + n8
  <2>1. first \in Seq(Unit) /\ Behind(first, head, raw)
    BY <1>6, <1>8, Joined DEF Joins
  <2>2. QED
    BY <1>1, <1>3, <1>6, <2>1 DEF Behind
<1> HIDE DEF first
<1>10. /\ both \in Seq(Unit) /\ Len(both) = 11 + N32
       /\ both[5] = 8 + n8 /\ both[8 + N32] = n /\ both[9 + N32] = 2
  <2>1. both \in Seq(Unit) /\ Behind(both, first, next)
    BY <1>7, <1>9, Joined DEF Joins
  <2> HIDE DEF both
  <2>2. /\ Len(both) = 11 + N32 /\ \A i \in 1 .. 7 + N32 : both[i] = first[i]
        /\ both[7 + N32 + 1] = n /\ both[7 + N32 + 2] = 2
    BY <1>1, <1>7, <1>9, <2>1 DEF Behind
  <2>3. 7 + N32 + 1 = 8 + N32 /\ 7 + N32 + 2 = 9 + N32 /\ 5 \in 1 .. 7 + N32
    BY <1>1
  <2>4. QED
    BY <1>9, <2>1, <2>2, <2>3
<1> HIDE DEF both
<1>11. /\ file \in Seq(Unit) /\ Len(file) = 11 + N32 + all
       /\ \A i \in 1 .. 11 + N32 : file[i] = both[i]
       /\ \A i \in 1 .. all : file[11 + N32 + i] = data[i]
  <2>1. file \in Seq(Unit) /\ Behind(file, both, data)
    BY <1>8, <1>10, Joined DEF Joins
  <2> HIDE DEF file
  <2>2. QED
    BY <1>5, <1>10, <2>1 DEF Behind
<1> HIDE DEF file
<1>12. /\ file[5] = 8 + n8 /\ file[8 + N32] = n /\ file[9 + N32] = 2
  BY <1>1, <1>10, <1>11
<1>13. WordsAt(file, 12 + N32, W)
  <2>1. Len(file) = (12 + N32) - 1 + all
    BY <1>1, <1>2, <1>11
  <2>2. ASSUME NEW k \in 1 .. n, NEW i \in 1 .. N32
        PROVE  file[(12 + N32) - 1 + (k - 1) * N32 + i] = Shared(W[k])[i]
    <3> DEFINE e == (k - 1) * N32
    <3>1. e \in Nat /\ e + N32 <= all
      BY <1>1, BlockOf DEF all
    <3>2. data[1 - 1 + e + i] = Shared(W[k])[i]
      BY <1>5 DEF WordsAt, n
    <3> HIDE DEF e
    <3>3. /\ 1 - 1 + e + i = e + i /\ e + i \in 1 .. all
          /\ (12 + N32) - 1 + e + i = 11 + N32 + (e + i)
      BY <1>1, <1>2, <3>1
    <3>4. file[(12 + N32) - 1 + e + i] = data[e + i]
      BY <1>11, <3>3
    <3>5. QED
      BY <3>2, <3>3, <3>4 DEF e
  <2>3. Len(file) = (12 + N32) - 1 + Len(W) * N32
    BY <2>1 DEF n, all
  <2>4. \A k \in 1 .. Len(W), i \in 1 .. N32 :
          file[(12 + N32) - 1 + (k - 1) * N32 + i] = Shared(W[k])[i]
    BY <2>2 DEF n
  <2>5. QED
    BY <2>3, <2>4, Zenon DEF WordsAt
<1>14. QED
  BY <1>4, <1>11, <1>12, <1>13 DEF n

LEMMA WTNSDecodes ==
  ASSUME NEW W \in Seq(Elements)
  PROVE  Decoded("calculateWTNSBin", Encoded("calculateWTNSBin", W)) = W
<1> DEFINE file == WTNSBin(W)
           size == 8 + n8
           second == 6 + size \div 4 + 1
<1>1. Decoded("calculateWTNSBin", Encoded("calculateWTNSBin", W)) = ReadWTNS(file)
  BY DEF Decoded, Encoded
<1>2. /\ file \in Seq(Unit) /\ file[5] = size /\ file[8 + N32] = Len(W)
      /\ file[9 + N32] = 2 /\ WordsAt(file, 12 + N32, W)
  BY WTNSLayout
<1>3. N32 \in Nat \ {0}
  BY CalculatorBounds
<1>4. second = 9 + N32
  <2>1. (8 + 4 * N32) \div 4 = 2 + N32
    BY <1>3
  <2>2. QED
    BY <1>3, <2>1 DEF n8
<1> HIDE DEF file, size
<1>5. second - 1 = 8 + N32 /\ second + 3 = 12 + N32 /\ 12 + N32 \in Nat \ {0}
  BY <1>3, <1>4
<1>6. ReadWTNS(file) = IF file[second] /= 2 THEN <<>>
                       ELSE ReadBin(file, second + 3, file[second - 1])
  BY <1>2 DEF ReadWTNS
<1> HIDE DEF second
<1>7. ReadWTNS(file) = ReadBin(file, 12 + N32, Len(W))
  BY <1>2, <1>4, <1>5, <1>6
<1>8. ReadBin(file, 12 + N32, Len(W)) = W
  BY <1>2, <1>5, ReadBinFinds
<1>9. QED
  BY <1>1, <1>7, <1>8

(* Each format holds the witness that it was made of. *)
LEMMA Decodes ==
  ASSUME NEW format \in Formats, NEW W \in Seq(Elements)
  PROVE  Decoded(format, Encoded(format, W)) = W
BY BinDecodes, WitnessDecodes, WTNSDecodes DEF Formats

-----------------------------------------------------------------------------
(* Representatives of field elements *)

LEMMA Division ==
  ASSUME NEW d \in Nat \ {0}, NEW a \in Int
  PROVE  \E q \in Int : a = d * q + (a % d) /\ a % d \in 0 .. d - 1
<1> DEFINE q == a \div d
<1>1. q \in Int /\ a = d * q + (a % d) /\ a % d \in 0 .. d - 1
  OBVIOUS
<1>2. QED
  BY <1>1

(* A multiple of d that is nearer to 0 than d is 0. *)
LEMMA NoMultiple ==
  ASSUME NEW d \in Nat \ {0}, NEW q \in Int, - d < d * q, d * q < d
  PROVE  q = 0
<1>1. ASSUME q >= 1 PROVE FALSE
  <2>1. d * q >= d * 1
    BY <1>1
  <2>2. QED
    BY <2>1
<1>2. ASSUME q <= -1 PROVE FALSE
  <2>1. d * q <= d * (-1)
    BY <1>2
  <2>2. QED
    BY <2>1
<1>3. QED
  BY <1>1, <1>2

LEMMA MultipleMod ==
  ASSUME NEW d \in Nat \ {0}, NEW q \in Int
  PROVE  (d * q) % d = 0
<1> DEFINE a == d * q
<1>1. a \in Int
  OBVIOUS
<1>2. PICK p \in Int : a = d * p + (a % d) /\ a % d \in 0 .. d - 1
  BY <1>1, Division
<1> DEFINE r == a % d
           e == q - p
<1>3. e \in Int /\ d * e = a - d * p
  OBVIOUS
<1>4. r \in 0 .. d - 1 /\ d * e = r
  <2> DEFINE x == d * p
  <2>1. x \in Int /\ a = x + r /\ r \in 0 .. d - 1 /\ d * e = a - x
    BY <1>2, <1>3
  <2> HIDE DEF a, r, e, x
  <2>2. QED
    BY <1>1, <2>1
<1> HIDE DEF r, e
<1>5. e = 0
  BY <1>3, <1>4, NoMultiple
<1>6. r = 0
  BY <1>4, <1>5
<1>7. QED
  BY <1>6 DEF r

LEMMA ModMultiple ==
  ASSUME NEW d \in Nat \ {0}, NEW a \in Int, a % d = 0
  PROVE  \E q \in Int : a = d * q
<1>1. PICK q \in Int : a = d * q + (a % d)
  BY Division
<1>2. a = d * q
  BY <1>1
<1>3. QED
  BY <1>2

LEMMA NormalizeIs ==
  ASSUME NEW n \in Int
  PROVE  Normalize(n) \in Elements /\ \E q \in Int : n - Normalize(n) = Prime * q
<1>1. Prime \in Nat \ {0}
  BY CalculatorBounds
<1>2. CASE n >= 0
  <2> DEFINE r == n % Prime
  <2>1. PICK q \in Int : n = Prime * q + r /\ r \in 0 .. Prime - 1
    BY <1>1, Division
  <2>2. Normalize(n) = IF r < 0 THEN r + Prime ELSE r
    BY <1>2 DEF Normalize, Rem
  <2> HIDE DEF r
  <2>3. Normalize(n) = r
    BY <1>1, <2>1, <2>2
  <2> DEFINE x == Prime * q
  <2>4. x \in Int /\ n = x + r
    BY <1>1, <2>1
  <2> HIDE DEF x
  <2>5. n - r = x
    BY <1>1, <2>1, <2>4
  <2>6. QED
    BY <2>1, <2>3, <2>5 DEF Elements, x
<1>3. CASE n < 0
  <2> DEFINE m == - n
             r == m % Prime
  <2>1. m \in Int
    OBVIOUS
  <2>2. PICK q \in Int : m = Prime * q + r /\ r \in 0 .. Prime - 1
    BY <1>1, <2>1, Division
  <2>3. Normalize(n) = IF - r < 0 THEN - r + Prime ELSE - r
    BY <1>3 DEF Normalize, Rem
  <2> HIDE DEF r
  <2> DEFINE x == Prime * q
  <2>4. x \in Int /\ - n = x + r
    BY <1>1, <2>2
  <2>5. CASE r <= 0
    <3>1. ~(- r < 0) /\ - r \in 0 .. Prime - 1
      BY <1>1, <2>2, <2>5
    <3>2. Normalize(n) = - r
      BY <2>3, <3>1
    <3>3. Prime * (- q) = - x
      BY <1>1, <2>2
    <3> HIDE DEF x
    <3>4. n - (- r) = - x
      BY <2>2, <2>4
    <3>5. - q \in Int /\ n - Normalize(n) = Prime * (- q)
      BY <2>2, <3>2, <3>3, <3>4
    <3>6. QED
      BY <3>1, <3>2, <3>5 DEF Elements
  <2>6. CASE r > 0
    <3>1. Normalize(n) = - r + Prime
      BY <2>2, <2>3, <2>6
    <3>2. Prime * (- q - 1) = (- x) - Prime
      BY <1>1, <2>2
    <3> HIDE DEF x
    <3>3. n - (- r + Prime) = (- x) - Prime
      BY <1>1, <2>2, <2>4
    <3>4. - q - 1 \in Int /\ n - Normalize(n) = Prime * (- q - 1)
      BY <2>2, <3>1, <3>2, <3>3
    <3>5. QED
      BY <1>1, <2>2, <2>6, <3>1, <3>4 DEF Elements
  <2>7. QED
    BY <2>2, <2>5, <2>6
<1>4. QED
  BY <1>2, <1>3

(* normalize takes the one element that is congruent to n. *)
LEMMA NormalizeChooses ==
  ASSUME NEW n \in Int
  PROVE  /\ Normalize(n) \in Elements
         /\ (CHOOSE v \in 0 .. Prime - 1 : (n - v) % Prime = 0) = Normalize(n)
<1> DEFINE u == Normalize(n)
<1>1. Prime \in Nat \ {0}
  BY CalculatorBounds
<1>2. PICK q \in Int : n - u = Prime * q
  BY NormalizeIs
<1>3. u \in 0 .. Prime - 1
  BY NormalizeIs DEF Elements
<1> HIDE DEF u
<1>4. (n - u) % Prime = 0
  BY <1>1, <1>2, MultipleMod
<1>5. ASSUME NEW v \in 0 .. Prime - 1, (n - v) % Prime = 0
      PROVE  v = u
  <2>1. n - v \in Int
    BY <1>1
  <2>2. PICK p \in Int : n - v = Prime * p
    BY <1>1, <1>5, <2>1, ModMultiple
  <2> DEFINE x == Prime * q
             y == Prime * p
             e == p - q
  <2>3. x \in Int /\ y \in Int /\ e \in Int /\ Prime * e = y - x
    BY <1>1
  <2>4. n - u = x /\ n - v = y
    BY <1>2, <2>2
  <2> HIDE DEF x, y, e
  <2>5. y - x = u - v
    BY <1>1, <1>3, <2>3, <2>4
  <2>6. - Prime < Prime * e /\ Prime * e < Prime
    BY <1>1, <1>3, <2>3, <2>5
  <2>7. e = 0
    BY <1>1, <2>3, <2>6, NoMultiple
  <2>8. Prime * e = 0
    BY <1>1, <2>7
  <2>9. QED
    BY <1>1, <1>3, <2>3, <2>5, <2>8
<1>6. QED
  BY <1>3, <1>4, <1>5 DEF u, Elements

-----------------------------------------------------------------------------
(* Setting the inputs *)

Signals == DOMAIN InputSizes

Wasms ==
  [inputs : [Signals -> Seq(Elements)], set : SUBSET Signals, output : Elements]

Errors ==
  {"none", "not found", "not enough values", "too many values", "assert failed"}

States == [wasm : Wasms, counter : Nat, error : Errors]

Entries == [key : STRING, value : Seq(Seq(Int))]

LEMMA SignalsAre ==
  /\ Signals = {Declared[k] : k \in 1 .. Len(Declared)}
  /\ Signals # {} /\ IsFiniteSet(Signals)
  /\ InputSizes \in [Signals -> Nat \ {0}]
  /\ Summable(InputSizes)
<1>1. Declared \in Seq(Signals) /\ Declared # <<>>
  BY DeclaredAssumption DEF Signals
<1> DEFINE n == Len(Declared)
<1>2. n \in Nat \ {0} /\ DOMAIN Declared = 1 .. n
  BY <1>1
<1>3. /\ Signals = {Declared[k] : k \in 1 .. n}
      /\ InputSizes \in [Signals -> Nat \ {0}]
  BY <1>2, CalculatorBounds DEF Signals
<1> HIDE DEF n
<1>4. Signals # {}
  <2>1. 1 \in 1 .. n
    BY <1>2
  <2>2. QED
    BY <1>3, <2>1
<1>5. IsFiniteSet(Signals)
  <2>1. IsFiniteSet(1 .. n)
    BY <1>2, FS_Interval
  <2>2. Declared \in Surjection(1 .. n, Signals)
    <3>1. Declared = [k \in 1 .. n |-> Declared[k]]
      BY <1>1, <1>2
    <3>2. Declared \in [1 .. n -> Signals]
      BY <1>1, <1>2, <3>1
    <3>3. QED
      BY <1>3, <3>2 DEF Surjection
  <2>3. QED
    BY <2>1, <2>2, FS_Surjection
<1>6. Summable(InputSizes)
  BY <1>3, <1>5 DEF Summable, Signals
<1>7. QED
  BY <1>3, <1>4, <1>5, <1>6 DEF n

LEMMA ValuesType ==
  ASSUME NEW signals \in [Signals -> Seq(Elements)]
  PROVE  InputValues(signals) \in Seq(Elements)
<1> DEFINE v(k) == signals[Declared[k]]
           seqs == [k \in DOMAIN Declared |-> v(k)]
<1>1. Declared \in Seq(Signals)
  BY DeclaredAssumption DEF Signals
<1>2. \A k \in 1 .. Len(Declared) : v(k) \in Seq(Elements)
  BY <1>1
<1>3. DOMAIN Declared = 1 .. Len(Declared) /\ Len(Declared) \in Nat
  BY <1>1
<1>4. InputValues(signals) = FlattenSeq(seqs)
  BY DEF InputValues
<1> HIDE DEF v
<1>5. seqs \in Seq(Seq(Elements))
  BY <1>2, <1>3
<1> HIDE DEF seqs
<1>6. QED
  BY <1>4, <1>5, FlattenType

LEMMA OutputType ==
  ASSUME NEW values \in Seq(Elements) PROVE Output(values) \in Elements
<1>1. Reaches(Output(values), Elements, 0, OutputStep(values), Len(values))
  BY OutputFold
<1>2. Len(values) \in 0 .. Len(values)
  OBVIOUS
<1>3. QED
  BY <1>1, <1>2 DEF Reaches

LEMMA WitnessType ==
  ASSUME NEW w \in Wasms PROVE GetWitness(w) \in Seq(Elements)
<1>1. InputValues(w.inputs) \in Seq(Elements)
  BY ValuesType DEF Wasms
<1>2. 1 \in Elements /\ w.output \in Elements
  BY CalculatorBounds DEF Wasms, Elements
<1>3. <<1, w.output>> \in Seq(Elements)
  BY <1>2
<1>4. QED
  BY <1>1, <1>3 DEF GetWitness

(* The elements of an entry, as they arrive. *)
ElementsOf(entry) ==
  [k \in DOMAIN FlatArray(entry.value) |-> Normalize(FlatArray(entry.value)[k])]

LEMMA EntryElements ==
  ASSUME NEW entry \in Entries
  PROVE  /\ FlatArray(entry.value) \in Seq(Int)
         /\ ElementsOf(entry) \in Seq(Elements)
         /\ [k \in DOMAIN FlatArray(entry.value) |->
               FromArray32(ToArray32(Normalize(FlatArray(entry.value)[k])))]
              = ElementsOf(entry)
<1> DEFINE flat == FlatArray(entry.value)
           e(k) == Normalize(flat[k])
           f(k) == FromArray32(ToArray32(e(k)))
<1>1. entry.value \in Seq(Seq(Int))
  BY DEF Entries
<1>2. flat \in Seq(Int)
  BY <1>1, FlattenType DEF FlatArray
<1>3. ElementsOf(entry) = [k \in DOMAIN flat |-> e(k)]
  BY DEF ElementsOf
<1> HIDE DEF flat
<1>4. \A k \in DOMAIN flat : e(k) \in Elements
  BY <1>2, NormalizeIs
<1>5. \A k \in DOMAIN flat : f(k) = e(k)
  BY <1>4, FromToArray
<1> HIDE DEF e
<1>6. ElementsOf(entry) \in Seq(Elements)
  <2>1. DOMAIN flat = 1 .. Len(flat) /\ Len(flat) \in Nat
    BY <1>2
  <2>2. QED
    BY <1>3, <1>4, <2>1
<1>7. [k \in DOMAIN flat |-> f(k)] = ElementsOf(entry)
  BY <1>3, <1>5
<1>8. QED
  BY <1>2, <1>6, <1>7 DEF f, e, flat

(* An entry was set without an error. *)
Entered(next, state, entry) ==
  /\ state.error = "none"
  /\ entry.key \in Signals
  /\ Len(FlatArray(entry.value)) = InputSizes[entry.key]
  /\ next.counter = state.counter + InputSizes[entry.key]
  /\ next.wasm.set = state.wasm.set \cup {entry.key}
  /\ next.wasm.inputs = [state.wasm.inputs EXCEPT ![entry.key] = ElementsOf(entry)]
  /\ next.wasm.set = Signals =>
       next.wasm.output = Output(InputValues(next.wasm.inputs))

LEMMA SetInputIs ==
  ASSUME NEW state \in States, NEW entry \in Entries
  PROVE  /\ SetInput(state, entry) \in States
         /\ SetInput(state, entry).error = "none" =>
              Entered(SetInput(state, entry), state, entry)
<1> DEFINE next == SetInput(state, entry)
           key == entry.key
           flat == FlatArray(entry.value)
           error == InputError(InputSizes, key, Len(flat))
           elements == [k \in DOMAIN flat |->
                          FromArray32(ToArray32(Normalize(flat[k])))]
           sent == [wasm |-> SetSignal(state.wasm, key, elements),
                    counter |-> state.counter + Len(flat), error |-> "none"]
<1>1. next = IF state.error /= "none" THEN state
             ELSE IF error /= "none" THEN [state EXCEPT !.error = error]
             ELSE Run(sent)
  BY DEF SetInput
<1>2. flat \in Seq(Int) /\ elements = ElementsOf(entry) /\ elements \in Seq(Elements)
  BY EntryElements
<1>3. error \in Errors
  BY DEF InputError, Errors
<1>4. InputSizes \in [Signals -> Nat \ {0}]
  BY SignalsAre
<1>5. Len(flat) \in Nat
  BY <1>2
<1>6. error = "none" => key \in Signals /\ Len(flat) = InputSizes[key]
  <2>1. \A size \in Nat : ~(Len(flat) < size) /\ ~(Len(flat) > size) =>
          Len(flat) = size
    BY <1>5
  <2>2. key \in Signals => InputSizes[key] \in Nat
    BY <1>4
  <2>3. QED
    BY <2>1, <2>2 DEF InputError, Signals
<1> HIDE DEF flat, error, elements
<1>7. CASE state.error /= "none"
  BY <1>1, <1>7
<1>8. CASE state.error = "none" /\ error /= "none"
  <2>1. next = [state EXCEPT !.error = error]
    BY <1>1, <1>8
  <2>2. next \in States /\ next.error = error
    BY <1>3, <2>1 DEF States
  <2>3. QED
    BY <1>8, <2>2
<1>9. CASE state.error = "none" /\ error = "none"
  <2> DEFINE inputs == [state.wasm.inputs EXCEPT ![key] = elements]
             set == state.wasm.set \cup {key}
             values == InputValues(inputs)
             now == [inputs |-> inputs, set |-> set, output |-> state.wasm.output]
             count == state.counter + Len(flat)
  <2>1. /\ state.wasm.inputs \in [Signals -> Seq(Elements)]
        /\ state.wasm.set \in SUBSET Signals
        /\ state.wasm.output \in Elements /\ state.counter \in Nat
    BY DEF States, Wasms
  <2>2. inputs \in [Signals -> Seq(Elements)] /\ set \in SUBSET Signals
    BY <1>2, <1>6, <1>9, <2>1
  <2>3. values \in Seq(Elements) /\ Output(values) \in Elements
    <3> HIDE DEF inputs
    <3>1. QED
      BY <2>2, ValuesType, OutputType
  <2>4. count \in Nat
    BY <1>5, <2>1
  <2>5. sent = [wasm |-> now, counter |-> count, error |-> "none"]
    BY DEF SetSignal
  <2>6. next = Run(sent)
    BY <1>1, <1>9
  <2> HIDE DEF next, sent, values, count, inputs, set
  <2>7. next = IF set /= Signals THEN sent
               ELSE IF Refused \in ToSet(values)
               THEN [sent EXCEPT !.error = "assert failed"]
               ELSE [sent EXCEPT !.wasm.output = Output(values)]
    BY <2>5, <2>6 DEF Run, Signals, values
  <2>8. CASE set /= Signals
    <3>1. next = [wasm |-> now, counter |-> count, error |-> "none"]
      BY <2>5, <2>7, <2>8
    <3>2. next \in States
      BY <2>1, <2>2, <2>4, <3>1 DEF States, Wasms, Errors
    <3>3. /\ next.counter = count /\ next.wasm.set = set
          /\ next.wasm.inputs = inputs
      BY <3>1
    <3>4. Entered(next, state, entry)
      BY <1>2, <1>6, <1>9, <2>8, <3>3
         DEF Entered, count, set, inputs, flat
    <3>5. QED
      BY <3>2, <3>4 DEF next
  <2>9. CASE set = Signals /\ Refused \in ToSet(values)
    <3>1. next = [wasm |-> now, counter |-> count, error |-> "assert failed"]
      BY <2>5, <2>7, <2>9
    <3>2. next \in States /\ next.error # "none"
      BY <2>1, <2>2, <2>4, <3>1 DEF States, Wasms, Errors
    <3>3. QED
      BY <3>2 DEF next
  <2>10. CASE set = Signals /\ ~(Refused \in ToSet(values))
    <3> DEFINE ran == [inputs |-> inputs, set |-> set, output |-> Output(values)]
    <3>1. next = [wasm |-> ran, counter |-> count, error |-> "none"]
      BY <2>5, <2>7, <2>10
    <3>2. next \in States
      BY <2>2, <2>3, <2>4, <3>1 DEF States, Wasms, Errors
    <3>3. /\ next.counter = count /\ next.wasm.set = set
          /\ next.wasm.inputs = inputs /\ next.wasm.output = Output(values)
      BY <3>1
    <3>4. Entered(next, state, entry)
      BY <1>2, <1>6, <1>9, <3>3
         DEF Entered, count, set, inputs, values, flat
    <3>5. QED
      BY <3>2, <3>4 DEF next
  <2>11. QED
    BY <2>8, <2>9, <2>10
<1>10. QED
  BY <1>7, <1>8, <1>9

-----------------------------------------------------------------------------
(* Counting the values *)

LEMMA SizesAdd ==
  ASSUME NEW R \in SUBSET Signals, NEW x \in Signals, x \notin R
  PROVE  Part(InputSizes, R \cup {x}) = Part(InputSizes, R) + InputSizes[x]
<1> DEFINE S == R \cup {x}
<1>1. S \in SUBSET DOMAIN InputSizes /\ x \in S /\ S \ {x} = R
  BY DEF Signals
<1>2. Summable(InputSizes) /\ InputSizes[x] \in Int
  BY SignalsAre
<1> HIDE DEF S
<1>3. Part(InputSizes, S) = InputSizes[x] + Part(InputSizes, S \ {x})
  BY <1>1, <1>2, PartOf
<1>4. Part(InputSizes, R) \in Int
  BY <1>2, PartInt DEF Signals
<1>5. Part(InputSizes, S) = InputSizes[x] + Part(InputSizes, R)
  BY <1>1, <1>3
<1> DEFINE a == Part(InputSizes, R)
           b == InputSizes[x]
<1>6. a \in Int /\ b \in Int /\ Part(InputSizes, S) = b + a
  BY <1>2, <1>4, <1>5
<1> HIDE DEF a, b
<1>7. Part(InputSizes, S) = a + b
  BY <1>6
<1>8. QED
  BY <1>7 DEF S, a, b

LEMMA SizesNone == Part(InputSizes, {}) = 0
BY SignalsAre, PartStep DEF Summable

LEMMA SizesMore ==
  ASSUME NEW R \in SUBSET Signals, R # Signals
  PROVE  Part(InputSizes, R) < Part(InputSizes, Signals)
<1> DEFINE p(S) == Part(InputSizes, S)
           T == {S \in SUBSET Signals : \A Q \in SUBSET S : Q # S => p(Q) < p(S)}
<1>1. \A S \in SUBSET Signals : p(S) \in Int
  BY SignalsAre, PartInt DEF Signals
<1>2. ASSUME NEW S \in SUBSET Signals, NEW x \in Signals, x \notin S
      PROVE  p(S \cup {x}) > p(S)
  <2>1. InputSizes[x] \in Nat \ {0}
    BY SignalsAre
  <2>2. p(S \cup {x}) = p(S) + InputSizes[x]
    BY <1>2, SizesAdd
  <2> HIDE DEF p
  <2>3. QED
    BY <1>1, <2>1, <2>2
<1> HIDE DEF p
<1>3. ASSUME NEW S \in SUBSET Signals, \A Q \in SUBSET S : Q # S => Q \in T
      PROVE  S \in T
  <2>1. SUFFICES ASSUME NEW Q \in SUBSET S, Q # S PROVE p(Q) < p(S)
    OBVIOUS
  <2>2. PICK x \in S : x \notin Q
    BY <2>1
  <2> DEFINE rest == S \ {x}
  <2>3. /\ rest \in SUBSET S /\ rest # S /\ Q \in SUBSET rest /\ x \notin rest
        /\ rest \cup {x} = S /\ rest \in SUBSET Signals /\ x \in Signals
    BY <2>1, <2>2
  <2> HIDE DEF rest
  <2>4. p(S) > p(rest)
    BY <1>2, <2>3
  <2>5. Q = rest \/ p(Q) < p(rest)
    BY <1>3, <2>3
  <2>6. p(Q) \in Int /\ p(S) \in Int /\ p(rest) \in Int
    BY <1>1, <2>1, <2>3
  <2>7. QED
    BY <2>4, <2>5, <2>6
<1>4. SUBSET Signals \subseteq T
  <2> HIDE DEF T
  <2>1. IsFiniteSet(Signals)
    BY SignalsAre
  <2>2. \A S \in SUBSET Signals :
          (\A Q \in SUBSET S : Q # S => Q \in T) => S \in T
    BY <1>3
  <2>3. QED
    BY <2>1, <2>2, SubsetInduction
<1>5. QED
  BY <1>4 DEF p

LEMMA SizesAll == GetInputSize = Part(InputSizes, Signals)
<1> DEFINE n == Len(Declared)
           names(m) == {Declared[j] : j \in 1 .. m}
<1>1. n \in Nat /\ Declared \in Seq(Signals)
  BY DeclaredAssumption DEF Signals
<1>2. PICK f \in [0 .. n -> Nat] : Stepwise(f, 0, SizeStep, n) /\ GetInputSize = f[n]
  BY SizeFold DEF Reaches
<1>3. \A k \in 1 .. n : Declared[k] \in Signals
  BY <1>1
<1>4. /\ f[0] = 0
      /\ \A k \in 1 .. n : f[k] = f[k - 1] + InputSizes[Declared[k]]
  <2>1. \A k \in 1 .. n : f[k - 1] \in Nat
    BY <1>1, <1>2
  <2>2. QED
    BY <1>2, <2>1 DEF Stepwise, SizeStep
<1>5. \A j, k \in 1 .. n : Declared[j] = Declared[k] => j = k
  BY <1>1, DeclaredAssumption
<1> HIDE DEF n
<1> DEFINE T == {m \in Nat : m <= n => f[m] = Part(InputSizes, names(m))}
<1>6. 0 \in T
  <2>1. names(0) = {}
    OBVIOUS
  <2> HIDE DEF names
  <2>2. QED
    BY <1>4, <2>1, SizesNone
<1>7. ASSUME NEW m \in Nat, m \in T PROVE m + 1 \in T
  <2> DEFINE k == m + 1
  <2> SUFFICES ASSUME k <= n
               PROVE  f[k] = Part(InputSizes, names(k))
    OBVIOUS
  <2>1. k \in 1 .. n /\ k = m + 1
    BY <1>1
  <2> HIDE DEF k
  <2>2. k - 1 = m /\ m <= n /\ \A j \in 1 .. m : j \in 1 .. n /\ j # k
    BY <1>1, <2>1
  <2>3. names(m) \in SUBSET Signals /\ Declared[k] \notin names(m)
    BY <1>3, <1>5, <2>1, <2>2
  <2>4. names(k) = names(m) \cup {Declared[k]}
    <3>1. \A j \in 1 .. k : j = k \/ j \in 1 .. m
      BY <2>1
    <3>2. \A j \in 1 .. m : j \in 1 .. k
      BY <2>1
    <3>3. k \in 1 .. k
      BY <2>1
    <3>4. QED
      BY <3>1, <3>2, <3>3
  <2>5. f[m] = Part(InputSizes, names(m))
    BY <1>7, <2>2
  <2>6. f[k] = f[m] + InputSizes[Declared[k]]
    BY <1>4, <2>1, <2>2
  <2> HIDE DEF names
  <2>7. QED
    BY <1>3, <2>1, <2>3, <2>4, <2>5, <2>6, SizesAdd
<1>8. Nat \subseteq T
  <2> HIDE DEF T
  <2>1. QED
    BY <1>6, <1>7, NatSet
<1>9. f[n] = Part(InputSizes, names(n))
  BY <1>1, <1>8
<1>10. names(n) = Signals
  BY SignalsAre DEF n
<1>11. QED
  BY <1>2, <1>9, <1>10 DEF n

-----------------------------------------------------------------------------
(* The loop of _doCalculateWitness *)

Loop(base, input) == FoldLeft(SetInput, base, input)

InputStep(input) ==
  [state \in States |-> [k \in 1 .. Len(input) |-> SetInput(state, input[k])]]

LEMMA LoopFold ==
  ASSUME NEW input \in Seq(Entries), NEW base \in States
  PROVE  Reaches(Loop(base, input), States, base, InputStep(input), Len(input))
<1> DEFINE n == Len(input)
           step == InputStep(input)
           Recursive(it) ==
             it = [S \in SUBSET DOMAIN input |->
                     IF S = {} THEN base
                     ELSE SetInput(it[S \ {Max(S)}], input[Max(S)])]
           g == CHOOSE it : Recursive(it)
<1>1. Loop(base, input) = g[DOMAIN input]
  BY DEF Loop, FoldLeft, MapThenFoldSet
<1>2. n \in Nat /\ DOMAIN input = 1 .. n
  OBVIOUS
<1>3. base \in States
  OBVIOUS
<1> HIDE DEF n
<1>4. /\ step \in [States -> [1 .. n -> States]]
      /\ \A res \in States, k \in 1 .. n : step[res][k] = SetInput(res, input[k])
  <2>1. \A k \in 1 .. n : input[k] \in Entries
    BY <1>2
  <2>2. \A res \in States, k \in 1 .. n : SetInput(res, input[k]) \in States
    BY <2>1, SetInputIs
  <2>3. QED
    BY <2>2 DEF InputStep, n
<1> HIDE DEF step
<1>5. \E it : Recursive(it)
  <2>1. PICK it \in [SUBSET (1 .. n) -> States] : Largest(it, base, step, n)
    BY <1>2, <1>3, <1>4, LargestExists
  <2>2. ASSUME NEW S \in SUBSET (1 .. n), S # {}
        PROVE  it[S] = SetInput(it[S \ {Max(S)}], input[Max(S)])
    <3>1. Max(S) \in 1 .. n /\ it[S \ {Max(S)}] \in States
      BY <1>2, <2>1, <2>2, MaxIn
    <3>2. QED
      BY <1>4, <2>1, <2>2, <3>1 DEF Largest
  <2>3. it[{}] = base
    BY <2>1 DEF Largest
  <2>4. Recursive(it)
    BY <1>2, <2>2, <2>3
  <2>5. QED
    BY <2>4
<1>6. Recursive(g)
  BY <1>5
<1> HIDE DEF g
<1>7. g[{}] = base
  BY <1>6
<1>8. ASSUME NEW S \in SUBSET (1 .. n), S # {}, g[S \ {Max(S)}] \in States
      PROVE  g[S] = step[g[S \ {Max(S)}]][Max(S)]
  <2>1. Max(S) \in 1 .. n
    BY <1>2, <1>8, MaxIn
  <2>2. g[S] = SetInput(g[S \ {Max(S)}], input[Max(S)])
    BY <1>2, <1>6, <1>8
  <2>3. QED
    BY <1>4, <1>8, <2>1, <2>2
<1>9. Partly(g, States, base, step, n)
  BY <1>7, <1>8 DEF Partly
<1>10. Reaches(g[1 .. n], States, base, step, n)
  BY <1>2, <1>3, <1>4, <1>9, LargestSteps
<1>11. QED
  BY <1>1, <1>2, <1>10 DEF step, n

(* After the first i entries of the input, unless one of them has failed. *)
Looped(state, i, input) ==
  state.error = "none" =>
    /\ \A j \in 1 .. i :
         /\ input[j].key \in Signals
         /\ Len(FlatArray(input[j].value)) = InputSizes[input[j].key]
         /\ state.wasm.inputs[input[j].key] = ElementsOf(input[j])
    /\ state.wasm.set = {input[j].key : j \in 1 .. i}
    /\ state.counter = Part(InputSizes, state.wasm.set)
    /\ state.wasm.set = Signals =>
         state.wasm.output = Output(InputValues(state.wasm.inputs))

KeysDistinct(input) ==
  \A j, k \in 1 .. Len(input) : input[j].key = input[k].key => j = k

LEMMA LoopedStarts ==
  ASSUME NEW state \in States, NEW input,
         state.counter = 0, state.wasm.set = {}
  PROVE  Looped(state, 0, input)
<1>1. {input[j].key : j \in 1 .. 0} = {}
  OBVIOUS
<1>2. \A j \in 1 .. 0 : FALSE
  OBVIOUS
<1>3. state.counter = Part(InputSizes, state.wasm.set)
  BY SizesNone
<1>4. state.wasm.set # Signals
  BY SignalsAre
<1>5. QED
  BY <1>1, <1>2, <1>3, <1>4, Zenon DEF Looped

LEMMA LoopedStep ==
  ASSUME NEW input \in Seq(Entries), KeysDistinct(input),
         NEW i \in 1 .. Len(input), NEW state \in States, NEW next \in States,
         next.error = "none" => Entered(next, state, input[i]),
         Looped(state, i - 1, input)
  PROVE  Looped(next, i, input)
<1> DEFINE entry == input[i]
           key == entry.key
           before == {input[j].key : j \in 1 .. (i - 1)}
           upto == {input[j].key : j \in 1 .. i}
<1> SUFFICES ASSUME next.error = "none"
             PROVE  /\ \A j \in 1 .. i :
                         /\ input[j].key \in Signals
                         /\ Len(FlatArray(input[j].value))
                              = InputSizes[input[j].key]
                         /\ next.wasm.inputs[input[j].key] = ElementsOf(input[j])
                    /\ next.wasm.set = upto
                    /\ next.counter = Part(InputSizes, next.wasm.set)
                    /\ next.wasm.set = Signals =>
                         next.wasm.output = Output(InputValues(next.wasm.inputs))
  BY DEF Looped
<1>1. /\ state.error = "none" /\ key \in Signals
      /\ Len(FlatArray(entry.value)) = InputSizes[key]
      /\ next.counter = state.counter + InputSizes[key]
      /\ next.wasm.set = state.wasm.set \cup {key}
      /\ next.wasm.inputs = [state.wasm.inputs EXCEPT ![key] = ElementsOf(entry)]
      /\ next.wasm.set = Signals =>
           next.wasm.output = Output(InputValues(next.wasm.inputs))
  BY DEF Entered
<1>2. /\ \A j \in 1 .. (i - 1) :
           /\ input[j].key \in Signals
           /\ Len(FlatArray(input[j].value)) = InputSizes[input[j].key]
           /\ state.wasm.inputs[input[j].key] = ElementsOf(input[j])
      /\ state.wasm.set = before
      /\ state.counter = Part(InputSizes, state.wasm.set)
  BY <1>1 DEF Looped
<1>3. \A j \in 1 .. i : j = i \/ j \in 1 .. (i - 1)
  OBVIOUS
<1>4. \A j \in 1 .. (i - 1) : j \in 1 .. i /\ j \in 1 .. Len(input) /\ j # i
  OBVIOUS
<1>5. \A j \in 1 .. (i - 1) : input[j].key # key
  BY <1>4 DEF KeysDistinct
<1>6. upto = before \cup {key}
  <2>1. i \in 1 .. i
    OBVIOUS
  <2>2. QED
    BY <1>3, <1>4, <2>1
<1>7. key \notin before
  BY <1>5
<1>8. before \in SUBSET Signals
  BY <1>2
<1>9. state.wasm.inputs = [s \in Signals |-> state.wasm.inputs[s]]
  BY DEF States, Wasms
<1>10. ASSUME NEW j \in 1 .. i
       PROVE  /\ input[j].key \in Signals
              /\ Len(FlatArray(input[j].value)) = InputSizes[input[j].key]
              /\ next.wasm.inputs[input[j].key] = ElementsOf(input[j])
  <2>1. CASE j = i
    BY <1>1, <1>9, <2>1
  <2>2. CASE j \in 1 .. (i - 1)
    <3>1. next.wasm.inputs[input[j].key] = state.wasm.inputs[input[j].key]
      BY <1>1, <1>2, <1>5, <1>9, <2>2
    <3>2. QED
      BY <1>2, <2>2, <3>1
  <2>3. QED
    BY <1>3, <2>1, <2>2
<1>11. next.wasm.set = upto
  BY <1>1, <1>2, <1>6
<1>12. next.counter = Part(InputSizes, next.wasm.set)
  <2> HIDE DEF before, upto, key
  <2>1. Part(InputSizes, before \cup {key}) = Part(InputSizes, before) + InputSizes[key]
    BY <1>1, <1>7, <1>8, SizesAdd
  <2>2. QED
    BY <1>1, <1>2, <2>1
<1>13. QED
  BY <1>1, <1>10, <1>11, <1>12

LEMMA LoopedEnds ==
  ASSUME NEW input \in Seq(Entries), KeysDistinct(input), NEW base \in States,
         base.counter = 0, base.wasm.set = {}
  PROVE  Loop(base, input) \in States /\ Looped(Loop(base, input), Len(input), input)
<1> DEFINE n == Len(input)
<1>1. n \in Nat /\ \A k \in 1 .. n : input[k] \in Entries
  OBVIOUS
<1>2. PICK f \in [0 .. n -> States] :
        Stepwise(f, base, InputStep(input), n) /\ Loop(base, input) = f[n]
  BY LoopFold DEF Reaches
<1>3. /\ f[0] = base
      /\ \A k \in 1 .. n : f[k - 1] \in States /\ f[k] = SetInput(f[k - 1], input[k])
  <2>1. \A k \in 1 .. n : k - 1 \in 0 .. n
    BY <1>1
  <2>2. \A k \in 1 .. n : f[k - 1] \in States
    BY <1>2, <2>1
  <2>3. QED
    BY <1>2, <2>2 DEF Stepwise, InputStep
<1> DEFINE T == {m \in Nat : m <= n => Looped(f[m], m, input)}
<1>4. 0 \in T
  BY <1>3, LoopedStarts
<1>5. ASSUME NEW m \in Nat, m \in T PROVE m + 1 \in T
  <2> DEFINE k == m + 1
  <2> SUFFICES ASSUME k <= n PROVE Looped(f[k], k, input)
    OBVIOUS
  <2>1. k \in 1 .. n /\ k - 1 = m /\ m <= n
    BY <1>1
  <2> HIDE DEF k
  <2>2. Looped(f[k - 1], k - 1, input)
    BY <1>5, <2>1
  <2> DEFINE state == f[k - 1]
             next == f[k]
  <2>3. state \in States /\ next = SetInput(state, input[k]) /\ input[k] \in Entries
    BY <1>1, <1>3, <2>1
  <2> HIDE DEF state, next
  <2>4. next \in States /\ (next.error = "none" => Entered(next, state, input[k]))
    BY <2>3, SetInputIs
  <2>5. Looped(next, k, input)
    BY <2>1, <2>2, <2>3, <2>4, LoopedStep DEF state, n
  <2>6. QED
    BY <2>5 DEF next
<1>6. Nat \subseteq T
  <2> HIDE DEF T
  <2>1. QED
    BY <1>4, <1>5, NatSet
<1>7. Looped(f[n], n, input)
  BY <1>1, <1>6
<1>8. f[n] \in States
  BY <1>1, <1>2
<1>9. QED
  BY <1>2, <1>7, <1>8

(* What an input gives, in the order in which the circuit declares it. *)
Given(input, s) ==
  FlattenSeq((CHOOSE e \in ToSet(input) : e.key = s).value)

LEMMA GivenIs ==
  ASSUME NEW input \in Seq(Entries), KeysDistinct(input), NEW j \in 1 .. Len(input)
  PROVE  Given(input, input[j].key) = FlatArray(input[j].value)
<1> DEFINE key == input[j].key
           e == CHOOSE e \in ToSet(input) : e.key = key
<1>1. ToSet(input) = {input[i] : i \in 1 .. Len(input)}
  BY DEF ToSet
<1>2. e \in ToSet(input) /\ e.key = key
  BY <1>1
<1> HIDE DEF e
<1>3. PICK i \in 1 .. Len(input) : e = input[i]
  BY <1>1, <1>2
<1>4. i = j
  BY <1>2, <1>3 DEF KeysDistinct
<1>5. e = input[j]
  BY <1>3, <1>4
<1>6. QED
  BY <1>5 DEF Given, FlatArray, e

LEMMA WitnessGiven ==
  ASSUME NEW input \in Seq(Entries), KeysDistinct(input), NEW end \in States,
         Looped(end, Len(input), input), end.error = "none",
         ~(end.counter < GetInputSize)
  PROVE  GetWitness(end.wasm) = WitnessOf(input)
<1> DEFINE n == Len(input)
           w == end.wasm
           chosen(s, k) ==
             CHOOSE v \in 0 .. Prime - 1 : (Given(input, s)[k] - v) % Prime = 0
           row(s) == [k \in 1 .. InputSizes[s] |-> chosen(s, k)]
           inputs == [s \in DOMAIN InputSizes |-> row(s)]
<1>1. /\ \A j \in 1 .. n :
           /\ input[j].key \in Signals
           /\ Len(FlatArray(input[j].value)) = InputSizes[input[j].key]
           /\ w.inputs[input[j].key] = ElementsOf(input[j])
      /\ w.set = {input[j].key : j \in 1 .. n}
      /\ end.counter = Part(InputSizes, w.set)
      /\ w.set = Signals => w.output = Output(InputValues(w.inputs))
  BY DEF Looped
<1>2. w.set \in SUBSET Signals /\ w.inputs = [s \in Signals |-> w.inputs[s]]
  BY DEF States, Wasms
<1>3. w.set = Signals
  <2> HIDE DEF w
  <2>1. ~(Part(InputSizes, w.set) < Part(InputSizes, Signals))
    BY <1>1, SizesAll
  <2>2. QED
    BY <1>2, <2>1, SizesMore
<1>4. ASSUME NEW s \in Signals
      PROVE  w.inputs[s] = row(s)
  <2>1. PICK j \in 1 .. n : s = input[j].key
    BY <1>1, <1>3
  <2> DEFINE entry == input[j]
             flat == FlatArray(entry.value)
  <2>2. entry \in Entries
    OBVIOUS
  <2>3. /\ Given(input, s) = flat /\ Len(flat) = InputSizes[s]
        /\ w.inputs[s] = ElementsOf(entry)
    BY <1>1, <2>1, GivenIs
  <2>4. flat \in Seq(Int)
    BY <2>2, EntryElements
  <2>5. ElementsOf(entry) = [k \in DOMAIN flat |-> Normalize(flat[k])]
    BY DEF ElementsOf
  <2> HIDE DEF entry, flat
  <2>6. DOMAIN flat = 1 .. InputSizes[s]
    BY <2>3, <2>4
  <2>7. \A k \in 1 .. InputSizes[s] : flat[k] \in Int
    <3>1. \A k \in 1 .. Len(flat) : flat[k] \in Int
      BY <2>4
    <3>2. QED
      BY <2>3, <3>1
  <2>8. ASSUME NEW k \in 1 .. InputSizes[s]
        PROVE  chosen(s, k) = Normalize(flat[k])
    BY <2>3, <2>7, NormalizeChooses
  <2> HIDE DEF chosen
  <2>9. row(s) = [k \in 1 .. InputSizes[s] |-> Normalize(flat[k])]
    BY <2>8
  <2>10. QED
    BY <2>3, <2>5, <2>6, <2>9
<1>5. WitnessOf(input) = <<1, Output(InputValues(inputs))>> \o InputValues(inputs)
  BY DEF WitnessOf, Given
<1>6. w.inputs = inputs
  <2> HIDE DEF w, row
  <2>1. QED
    BY <1>2, <1>4 DEF Signals
<1>7. GetWitness(w) = <<1, w.output>> \o InputValues(w.inputs)
  BY DEF GetWitness
<1>8. w.output = Output(InputValues(w.inputs))
  BY <1>1, <1>3
<1> HIDE DEF w, inputs
<1>9. GetWitness(w) = WitnessOf(input)
  BY <1>5, <1>6, <1>7, <1>8
<1>10. QED
  BY <1>9 DEF w

(* How a call's inputs end: the errors of the loop, or not all inputs. *)
Outcomes == Errors \cup {"not all inputs"}

LEMMA Calculated ==
  ASSUME wasm \in Wasms, NEW input \in Inputs
  PROVE  /\ DoCalculateWitness(input).wasm \in Wasms
         /\ DoCalculateWitness(input).error \in Outcomes
         /\ DoCalculateWitness(input).error = "none" =>
              GetWitness(DoCalculateWitness(input).wasm) = WitnessOf(input)
<1> DEFINE base == [wasm |-> [wasm EXCEPT !.set = {}], counter |-> 0,
                    error |-> "none"]
           end == Loop(base, input)
           done == DoCalculateWitness(input)
<1>1. input \in Seq(Entries) /\ KeysDistinct(input)
  <2>1. input \in Seq(Entries)
    BY InputsAssumption DEF Entries
  <2>2. DOMAIN input = 1 .. Len(input)
    BY <2>1
  <2>3. QED
    BY <2>1, <2>2, InputsAssumption DEF KeysDistinct
<1>2. base \in States /\ base.counter = 0 /\ base.wasm.set = {}
  BY DEF States, Wasms, Errors
<1>3. done = IF end.error = "none" /\ end.counter < GetInputSize
             THEN [end EXCEPT !.error = "not all inputs"]
             ELSE end
  BY DEF DoCalculateWitness, Loop
<1> HIDE DEF base
<1>4. end \in States /\ Looped(end, Len(input), input)
  BY <1>1, <1>2, LoopedEnds
<1> HIDE DEF end, done
<1>5. CASE end.error = "none" /\ end.counter < GetInputSize
  <2>1. done = [end EXCEPT !.error = "not all inputs"]
    BY <1>3, <1>5
  <2>2. done.wasm = end.wasm /\ done.error = "not all inputs" /\ end.wasm \in Wasms
    BY <1>4, <2>1 DEF States
  <2>3. QED
    BY <2>2 DEF Outcomes, done
<1>6. CASE ~(end.error = "none" /\ end.counter < GetInputSize)
  <2>1. done = end
    BY <1>3, <1>6
  <2>2. end.wasm \in Wasms /\ end.error \in Errors
    BY <1>4 DEF States
  <2>3. end.error = "none" => GetWitness(end.wasm) = WitnessOf(input)
    BY <1>1, <1>4, <1>6, WitnessGiven
  <2>4. QED
    BY <2>1, <2>2, <2>3 DEF Outcomes, done
<1>7. QED
  BY <1>5, <1>6

-----------------------------------------------------------------------------
(* The calls of the calculator *)

Done(status) == status \in {"waiting", "returned"}

IsCall(call) ==
  call = [status |-> call.status, format |-> call.format, input |-> call.input,
          out |-> call.out, last |-> call.last]

(* The witness that a call has returned, or would return now. *)
Encodes(call, w, witness) ==
  IF call.status = "returned" THEN Decoded(call.format, call.out) = witness
  ELSE GetWitness(w) = witness

(* A call that waits would return the witness of the last call begun. *)
CallOK(c) ==
  LET call == witnessCalls[c]
      last == witnessCalls[call.last]
  IN /\ IsCall(call)
     /\ Done(call.status) =>
          /\ call.format \in Formats /\ call.last \in Calls
          /\ last.status # "none"
          /\ Done(last.status) => Encodes(call, wasm, WitnessOf(last.input))

Queued ==
  /\ queue \in Seq(Calls)
  /\ \A i \in 1 .. Len(queue) : witnessCalls[queue[i]].status = "waiting"
  /\ \A i, j \in 1 .. Len(queue) : queue[i] = queue[j] => i = j

CalculatorOK ==
  /\ wasm \in Wasms
  /\ witnessCalls = [c \in Calls |-> witnessCalls[c]]
  /\ \A c \in Calls : CallOK(c)
  /\ Queued

LEMMA CalculatorInitOK == CalculatorInit => CalculatorOK
<1> SUFFICES ASSUME CalculatorInit PROVE CalculatorOK
  OBVIOUS
<1>1. wasm \in Wasms
  <2> DEFINE zeros(s) == [k \in 1 .. InputSizes[s] |-> 0]
  <2>1. 0 \in Elements
    BY CalculatorBounds DEF Elements
  <2>2. \A s \in Signals : zeros(s) \in Seq(Elements)
    <3>1. \A s \in Signals : InputSizes[s] \in Nat
      BY SignalsAre
    <3>2. QED
      BY <2>1, <3>1
  <2>3. wasm = [inputs |-> [s \in Signals |-> zeros(s)], set |-> {}, output |-> 0]
    BY DEF CalculatorInit, Instance, Signals
  <2> HIDE DEF zeros
  <2>4. QED
    BY <2>1, <2>2, <2>3 DEF Wasms
<1>2. witnessCalls = [c \in Calls |-> witnessCalls[c]]
  BY DEF CalculatorInit
<1>3. \A c \in Calls : CallOK(c)
  BY DEF CalculatorInit, CallOK, IsCall, Done
<1>4. Queued
  BY DEF CalculatorInit, Queued
<1>5. QED
  BY <1>1, <1>2, <1>3, <1>4 DEF CalculatorOK

LEMMA Starts ==
  ASSUME CalculatorOK, NEW c \in Calls, NEW format \in Formats,
         NEW input \in Inputs, StartWitness(c, format, input)
  PROVE  CalculatorOK'
<1> DEFINE end == DoCalculateWitness(input)
           status == IF end.error = "none" THEN "waiting" ELSE end.error
           begun == [status |-> status, format |-> format, input |-> input,
                     out |-> <<>>, last |-> c]
<1>1. /\ end.wasm \in Wasms /\ end.error \in Outcomes
      /\ end.error = "none" => GetWitness(end.wasm) = WitnessOf(input)
  BY Calculated DEF CalculatorOK
<1>2. /\ witnessCalls[c].status = "none"
      /\ wasm' = end.wasm
      /\ witnessCalls' = [x \in Calls |->
           IF x = c THEN begun
           ELSE IF witnessCalls[x].status = "waiting"
           THEN [witnessCalls[x] EXCEPT !.last = c]
           ELSE witnessCalls[x]]
      /\ queue' = IF end.error = "none" THEN Append(queue, c) ELSE queue
  BY DEF StartWitness
<1> HIDE DEF end
<1>3. /\ \A x \in Calls : CallOK(x)
      /\ Queued
  BY DEF CalculatorOK
<1>4. /\ status # "none" /\ status # "returned"
      /\ status = "waiting" <=> end.error = "none"
  BY <1>1 DEF Outcomes, Errors
<1> HIDE DEF status
<1>5. witnessCalls'[c] = begun
  BY <1>2
<1>6. \A x \in Calls : x # c => witnessCalls'[x].status = witnessCalls[x].status
                             /\ witnessCalls'[x].input = witnessCalls[x].input
  BY <1>2, <1>3 DEF CallOK, IsCall
<1>7. status = "waiting" => GetWitness(wasm') = WitnessOf(input)
  BY <1>1, <1>2, <1>4
<1>8. ASSUME NEW x \in Calls PROVE CallOK(x)'
  <2> DEFINE new == witnessCalls'[x]
             old == witnessCalls[x]
  <2>1. CASE x = c
    <3>1. new = begun /\ witnessCalls'[new.last] = begun
      BY <1>5, <2>1
    <3>2. IsCall(new)
      BY <3>1 DEF IsCall
    <3>3. Done(new.status) => Encodes(new, wasm', WitnessOf(input))
      BY <1>4, <1>7, <3>1 DEF Done, Encodes
    <3>4. QED
      BY <1>4, <3>1, <3>2, <3>3 DEF CallOK
  <2>2. CASE x # c /\ old.status = "waiting"
    <3>1. new = [old EXCEPT !.last = c]
      BY <1>2, <2>2
    <3>2. IsCall(old) /\ old.format \in Formats
      BY <1>3, <2>2 DEF CallOK, Done
    <3>3. /\ new.status = "waiting" /\ new.format = old.format
          /\ new.last = c /\ IsCall(new)
      BY <2>2, <3>1, <3>2 DEF IsCall
    <3>4. Done(status) => Encodes(new, wasm', WitnessOf(input))
      BY <1>4, <1>7, <3>3 DEF Done, Encodes
    <3>5. witnessCalls'[new.last] = begun
      BY <1>5, <3>3
    <3>6. QED
      BY <1>4, <3>2, <3>3, <3>4, <3>5 DEF CallOK
  <2>3. CASE x # c /\ old.status # "waiting"
    <3>1. new = old
      BY <1>2, <2>3
    <3>2. IsCall(old)
      BY <1>3 DEF CallOK
    <3>3. CASE Done(old.status)
      <4> DEFINE last == witnessCalls[old.last]
      <4>1. /\ old.format \in Formats /\ old.last \in Calls
            /\ last.status # "none"
            /\ Done(last.status) => Encodes(old, wasm, WitnessOf(last.input))
        BY <1>3, <3>3 DEF CallOK
      <4>2. old.status = "returned"
        BY <2>3, <3>3 DEF Done
      <4>3. old.last # c
        BY <1>2, <4>1
      <4>4. /\ witnessCalls'[old.last].status = last.status
            /\ witnessCalls'[old.last].input = last.input
        BY <1>6, <4>1, <4>3
      <4> HIDE DEF last
      <4>5. Done(last.status) => Encodes(old, wasm', WitnessOf(last.input))
        BY <4>1, <4>2 DEF Encodes
      <4>6. QED
        BY <3>1, <3>2, <4>1, <4>4, <4>5 DEF CallOK
    <3>4. CASE ~Done(old.status)
      BY <3>1, <3>2, <3>4 DEF CallOK
    <3>5. QED
      BY <3>3, <3>4
  <2>4. QED
    BY <2>1, <2>2, <2>3
<1>9. Queued'
  <2>1. /\ queue \in Seq(Calls)
        /\ \A i \in 1 .. Len(queue) :
             /\ queue[i] \in Calls
             /\ witnessCalls[queue[i]].status = "waiting"
        /\ \A i, j \in 1 .. Len(queue) : queue[i] = queue[j] => i = j
    BY <1>3 DEF Queued
  <2>2. \A i \in 1 .. Len(queue) :
          queue[i] # c /\ witnessCalls'[queue[i]].status = "waiting"
    BY <1>2, <1>6, <2>1
  <2>3. CASE end.error = "none"
    <3> DEFINE n == Len(queue)
               q == Append(queue, c)
    <3>1. n \in Nat /\ q \in Seq(Calls) /\ Len(q) = n + 1
          /\ q[n + 1] = c /\ \A i \in 1 .. n : q[i] = queue[i]
      BY <2>1
    <3>2. queue' = q
      BY <1>2, <2>3
    <3> HIDE DEF q, n
    <3>3. \A i \in 1 .. (n + 1) : i = n + 1 \/ i \in 1 .. n
      BY <3>1
    <3>4. witnessCalls'[c].status = "waiting"
      BY <1>4, <1>5, <2>3
    <3>5. \A i \in 1 .. (n + 1) : witnessCalls'[q[i]].status = "waiting"
      BY <2>2, <3>1, <3>3, <3>4 DEF n
    <3>6. \A i, j \in 1 .. (n + 1) : q[i] = q[j] => i = j
      BY <2>1, <2>2, <3>1, <3>3 DEF n
    <3>7. QED
      BY <3>1, <3>2, <3>5, <3>6 DEF Queued
  <2>4. CASE end.error # "none"
    BY <1>2, <2>1, <2>2, <2>4 DEF Queued
  <2>5. QED
    BY <2>3, <2>4
<1>10. wasm' \in Wasms /\ witnessCalls' = [x \in Calls |-> witnessCalls'[x]]
  BY <1>1, <1>2
<1>11. QED
  BY <1>8, <1>9, <1>10 DEF CalculatorOK

LEMMA Finishes ==
  ASSUME CalculatorOK, FinishWitness
  PROVE  CalculatorOK'
<1> DEFINE h == Head(queue)
           n == Len(queue)
           out == Encoded(witnessCalls[h].format, GetWitness(wasm))
<1>1. /\ wasm' = wasm /\ queue # <<>> /\ queue' = Tail(queue)
      /\ witnessCalls' = [witnessCalls EXCEPT ![h].status = "returned",
                                              ![h].out = out]
  BY DEF FinishWitness
<1>2. /\ wasm \in Wasms
      /\ witnessCalls = [c \in Calls |-> witnessCalls[c]]
      /\ \A c \in Calls : CallOK(c)
      /\ queue \in Seq(Calls)
      /\ \A i \in 1 .. n : witnessCalls[queue[i]].status = "waiting"
      /\ \A i, j \in 1 .. n : queue[i] = queue[j] => i = j
  BY DEF CalculatorOK, Queued
<1>3. /\ n \in Nat \ {0} /\ h = queue[1] /\ h \in Calls
      /\ Tail(queue) \in Seq(Calls) /\ Len(Tail(queue)) = n - 1
      /\ \A i \in 1 .. (n - 1) : Tail(queue)[i] = queue[i + 1]
  BY <1>1, <1>2
<1> HIDE DEF h, n, out
<1>4. witnessCalls[h].status = "waiting"
  BY <1>2, <1>3
<1>5. /\ DOMAIN witnessCalls = Calls
      /\ IsCall(witnessCalls[h])
  BY <1>2, <1>3 DEF CallOK
<1>6. /\ \A x \in Calls : x # h => witnessCalls'[x] = witnessCalls[x]
      /\ witnessCalls'[h] = [witnessCalls[h] EXCEPT !.status = "returned", !.out = out]
      /\ witnessCalls' = [x \in Calls |-> witnessCalls'[x]]
  BY <1>1, <1>2, <1>3, <1>5
<1>7. /\ witnessCalls'[h].status = "returned" /\ witnessCalls'[h].out = out
      /\ witnessCalls'[h].format = witnessCalls[h].format
      /\ witnessCalls'[h].last = witnessCalls[h].last
      /\ witnessCalls'[h].input = witnessCalls[h].input
      /\ IsCall(witnessCalls'[h])
  BY <1>5, <1>6 DEF IsCall
<1>8. ASSUME NEW l \in Calls
      PROVE  /\ Done(witnessCalls'[l].status) <=> Done(witnessCalls[l].status)
             /\ witnessCalls[l].status # "none" => witnessCalls'[l].status # "none"
             /\ witnessCalls'[l].input = witnessCalls[l].input
  BY <1>4, <1>6, <1>7 DEF Done
<1>9. GetWitness(wasm) \in Seq(Elements)
  BY <1>2, WitnessType
<1>10. ASSUME NEW x \in Calls PROVE CallOK(x)'
  <2> DEFINE new == witnessCalls'[x]
             old == witnessCalls[x]
             last == witnessCalls[old.last]
  <2>1. /\ IsCall(old)
        /\ Done(old.status) =>
             /\ old.format \in Formats /\ old.last \in Calls
             /\ last.status # "none"
             /\ Done(last.status) => Encodes(old, wasm, WitnessOf(last.input))
    BY <1>2 DEF CallOK
  <2>2. IsCall(new) /\ new.format = old.format /\ new.last = old.last
    BY <1>6, <1>7, <2>1
  <2>3. Done(new.status) <=> Done(old.status)
    BY <1>8
  <2>4. ASSUME Done(old.status), Done(last.status)
        PROVE  Encodes(new, wasm', WitnessOf(last.input))
    <3>1. CASE x = h
      <4>1. /\ new.status = "returned" /\ new.out = out
            /\ out = Encoded(old.format, GetWitness(wasm))
        BY <1>7, <3>1 DEF out
      <4>2. Decoded(old.format, out) = GetWitness(wasm)
        BY <1>9, <2>1, <2>4, <4>1, Decodes
      <4>3. GetWitness(wasm) = WitnessOf(last.input)
        BY <1>4, <2>1, <2>4, <3>1 DEF Encodes
      <4>4. QED
        BY <2>2, <4>1, <4>2, <4>3 DEF Encodes
    <3>2. CASE x # h
      BY <1>1, <1>6, <2>1, <2>4, <3>2 DEF Encodes
    <3>3. QED
      BY <3>1, <3>2
  <2>5. ASSUME Done(old.status)
        PROVE  LET then == witnessCalls'[new.last]
               IN /\ new.format \in Formats /\ new.last \in Calls
                  /\ then.status # "none"
                  /\ Done(then.status) => Encodes(new, wasm', WitnessOf(then.input))
    BY <1>8, <2>1, <2>2, <2>4, <2>5
  <2>6. QED
    BY <2>2, <2>3, <2>5 DEF CallOK
<1>11. Queued'
  <2> DEFINE q == Tail(queue)
  <2>1. \A i \in 1 .. (n - 1) : i + 1 \in 1 .. n /\ i + 1 # 1 /\ 1 \in 1 .. n
    BY <1>3
  <2>2. q \in Seq(Calls) /\ Len(q) = n - 1 /\ \A i \in 1 .. (n - 1) : q[i] = queue[i + 1]
    BY <1>3
  <2>3. \A i \in 1 .. (n - 1) : q[i] \in Calls
    BY <2>2
  <2> HIDE DEF q
  <2>4. \A i \in 1 .. (n - 1) : q[i] # h
    BY <1>2, <1>3, <2>1, <2>2
  <2>5. \A i \in 1 .. (n - 1) : witnessCalls'[q[i]].status = "waiting"
    <3>1. SUFFICES ASSUME NEW i \in 1 .. (n - 1)
                   PROVE  witnessCalls'[q[i]].status = "waiting"
      OBVIOUS
    <3>2. witnessCalls[queue[i + 1]].status = "waiting" /\ q[i] = queue[i + 1]
      BY <1>2, <2>1, <2>2
    <3>3. witnessCalls'[q[i]] = witnessCalls[q[i]]
      BY <1>6, <2>3, <2>4
    <3>4. QED
      BY <3>2, <3>3
  <2>6. \A i, j \in 1 .. (n - 1) : q[i] = q[j] => i = j
    <3>1. SUFFICES ASSUME NEW i \in 1 .. (n - 1), NEW j \in 1 .. (n - 1), q[i] = q[j]
                   PROVE  i = j
      OBVIOUS
    <3>2. i + 1 = j + 1
      BY <1>2, <2>1, <2>2, <3>1
    <3>3. QED
      BY <3>2
  <2>7. queue' = q
    BY <1>1 DEF q
  <2>8. QED
    BY <2>2, <2>5, <2>6, <2>7 DEF Queued
<1>12. wasm' \in Wasms
  BY <1>1, <1>2
<1>13. QED
  BY <1>6, <1>10, <1>11, <1>12 DEF CalculatorOK

LEMMA CalculatorStep ==
  ASSUME CalculatorOK, CalculatorNext \/ UNCHANGED calculator
  PROVE  CalculatorOK'
<1>1. CASE UNCHANGED calculator
  BY <1>1 DEF calculator, CalculatorOK, CallOK, Queued
<1>2. CASE CalculatorNext
  BY <1>2, Starts, Finishes DEF CalculatorNext
<1>3. QED
  BY <1>1, <1>2

LEMMA CalculatorRight == CalculatorOK => WitnessOfTheLastStart
<1> SUFFICES ASSUME CalculatorOK, NEW c \in Calls,
                    witnessCalls[c].status = "returned",
                    Done(witnessCalls[witnessCalls[c].last].status)
             PROVE  Decoded(witnessCalls[c].format, witnessCalls[c].out)
                      = WitnessOf(witnessCalls[witnessCalls[c].last].input)
  BY DEF WitnessOfTheLastStart, Done
<1>1. CallOK(c) /\ Done(witnessCalls[c].status)
  BY DEF CalculatorOK, Done
<1>2. QED
  BY <1>1 DEF CallOK, Encodes

LEMMA CallsStep == CalculatorOK /\ [EscrowNext]_escrowVars => CalculatorOK'
<1> SUFFICES ASSUME CalculatorOK, [EscrowNext]_escrowVars PROVE CalculatorOK'
  OBVIOUS
<1>1. CalculatorNext \/ UNCHANGED calculator
  BY DEF EscrowNext, escrowVars, SessionStep, MessagePoint, Answer,
         AnswerPoint, Prove, Reject
<1>2. QED
  BY <1>1, CalculatorStep

(* However the calls of one calculator overlap, in whatever format, and
   whichever of them fail: a call that returns does so with the witness of the
   last call begun before it read the instance (calculateWitness and the two
   that encode its result await between setting the inputs and reading the
   witness), for every prime, word size, circuit layout and set of inputs. *)
THEOREM LastStartReturned == EscrowSpec => []WitnessOfTheLastStart
<1>1. EscrowInit => CalculatorOK
  BY CalculatorInitOK DEF EscrowInit
<1>2. QED
  BY <1>1, CallsStep, CalculatorRight, PTL DEF EscrowSpec
=============================================================================
