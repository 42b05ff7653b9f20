------------------------------ MODULE HubProofs ------------------------------
(***************************************************************************)
(* Proofs about the Hub and the HubBatch that calls it, for every value of *)
(* the constants: any number of accounts, nullifiers, tokens, items and    *)
(* open calls.                                                             *)
(***************************************************************************)
EXTENDS HubBatch, SumTheorems, SequenceTheorems, TLAPS

-----------------------------------------------------------------------------
(* Typing *)

LEMMA WorldTyped ==
  World \in Worlds <=>
    /\ owner \in Addresses /\ verifier \in Verifiers \cup {ZeroAddress}
    /\ usedNullifiers \in SUBSET (Nullifiers \ {NoNullifier})
    /\ sbtOwners \in [Identifiers -> SBTs]
    /\ nullifiersToIdentifiers
         \in [Nullifiers -> Identifiers \cup {NoIdentifier}]
    /\ tokens \in Seq(Tokens)
    /\ fees \in Nat /\ collected \in Nat
BY DEF World, Worlds

LEMMA WorldTypedNext ==
  World' \in Worlds <=>
    /\ owner' \in Addresses /\ verifier' \in Verifiers \cup {ZeroAddress}
    /\ usedNullifiers' \in SUBSET (Nullifiers \ {NoNullifier})
    /\ sbtOwners' \in [Identifiers -> SBTs]
    /\ nullifiersToIdentifiers'
         \in [Nullifiers -> Identifiers \cup {NoIdentifier}]
    /\ tokens' \in Seq(Tokens)
    /\ fees' \in Nat /\ collected' \in Nat
BY DEF World, Worlds

LEMMA WorldFields ==
  /\ World.usedNullifiers = usedNullifiers
  /\ World.nullifiersToIdentifiers = nullifiersToIdentifiers
  /\ World.tokens = tokens
  /\ World'.usedNullifiers = usedNullifiers'
  /\ World'.nullifiersToIdentifiers = nullifiersToIdentifiers'
  /\ World'.tokens = tokens'
BY DEF World

SignedOK ==
  \A s \in signed : s.by \in Verifiers /\ s.message \in Messages

LEMMA PresentedTyped ==
  ASSUME SignedOK
  PROVE  Presented \subseteq Args
<1>1. SUFFICES ASSUME NEW a \in Presented PROVE a \in Args
  OBVIOUS
<1>2. PICK m \in {s.message : s \in signed} :
        a \in {[circuit |-> m.circuit, reciever |-> m.reciever,
                expiration |-> m.expiration, fee |-> m.fee,
                nullifier |-> m.nullifier, values |-> m.values, signer |-> o] :
                 o \in Signers([m EXCEPT !.chain = Chain])}
  BY DEF Presented
<1>3. PICK o \in Signers([m EXCEPT !.chain = Chain]) :
        a = [circuit |-> m.circuit, reciever |-> m.reciever,
             expiration |-> m.expiration, fee |-> m.fee,
             nullifier |-> m.nullifier, values |-> m.values, signer |-> o]
  BY <1>2
<1>4. m \in Messages
  BY DEF SignedOK
<1>5. o \in Verifiers \cup {NoSigner}
  BY DEF SignedOK, Signers
<1>6. QED
  BY <1>3, <1>4, <1>5 DEF Messages, Args

LEMMA ArgsTyped ==
  ASSUME NEW a \in Args
  PROVE  /\ a.circuit \in Circuits /\ AddressOf(a.reciever) \in Addresses
         /\ a.expiration \in Nat /\ a.fee \in Nat
         /\ a.nullifier \in Nullifiers /\ a.values \in Values
<1>1. /\ a.circuit \in Circuits /\ a.reciever \in Recievers
      /\ a.expiration \in Expirations /\ a.fee \in Fees
      /\ a.nullifier \in Nullifiers /\ a.values \in Values
  BY DEF Args
<1>2. AddressOf(a.reciever) \in Addresses
  BY <1>1 DEF AddressOf, Recievers
<1>3. QED
  BY <1>1, <1>2, HubBounds

-----------------------------------------------------------------------------
(* The invariant *)

(* What an item of a batch may have come to. *)
Outcomes == {"Ok", "Reverted", "Missing Fee", "The Verifier did not sign",
             "this is already been proven", "ERC721: mint to the zero address"}

MintFrames == [kind: {"mint"}, reciever: Addresses, identifier: Identifiers,
               tid: Nat, saved: Worlds]

BatchFrames == [kind: {"batch"}, items: Seq(Args), strict: BOOLEAN,
                results: Seq(Outcomes), saved: Worlds]

Frames == MintFrames \cup BatchFrames

(* A used nullifier leads to the pair of the token it was spent on. *)
FindsItsPair(w) ==
  \A t \in DOMAIN w.tokens : w.tokens[t].nullifier # NoNullifier =>
    w.nullifiersToIdentifiers[w.tokens[t].nullifier] = w.tokens[t].identifier

GoodWorld(w) == NullifierSpentOnce(w) /\ FindsItsPair(w)

(* The token of a mint that is open exists, in `toks`. *)
Names(f, toks) == f.kind = "mint" => f.tid \in DOMAIN toks

(* A batch has no more results than items, and fewer while an item is under
   way. *)
Counts(f, busy) ==
  f.kind = "batch" =>
    /\ Len(f.items) <= BatchLimit
    /\ Len(f.results) <= Len(f.items)
    /\ busy => Len(f.results) < Len(f.items)

(* What each call would go back to is good, and has the tokens of the calls
   below it. *)
StackOK ==
  /\ stack \in Seq(Frames)
  /\ \A i \in 1 .. Len(stack) :
       /\ GoodWorld(stack[i].saved)
       /\ Names(stack[i], tokens)
       /\ Counts(stack[i], i < Len(stack))
       /\ \A j \in 1 .. Len(stack) :
            i < j => Names(stack[i], stack[j].saved.tokens)

IInv ==
  /\ World \in Worlds
  /\ now \in Nat /\ SignedOK
  /\ GoodWorld(World)
  /\ StackOK

LEMMA FrameTyped ==
  ASSUME NEW f \in Frames
  PROVE  /\ f.saved \in Worlds
         /\ f.kind = "mint" => f \in MintFrames
         /\ f.kind = "batch" => f \in BatchFrames
         /\ f.kind \in {"mint", "batch"}
BY DEF Frames, MintFrames, BatchFrames

LEMMA InitIInv == Init => IInv
<1>1. SUFFICES ASSUME Init PROVE IInv
  OBVIOUS
<1>2. NoSBT \in SBTs
  BY DEF NoSBT, SBTs
<1>3. World \in Worlds
  BY <1>1, <1>2, WorldTyped DEF Init, Addresses
<1>4. tokens = <<>> /\ usedNullifiers = {} /\ DOMAIN tokens = {}
  BY <1>1 DEF Init
<1>5. GoodWorld(World)
  BY <1>4, WorldFields DEF GoodWorld, NullifierSpentOnce, FindsItsPair
<1>6. StackOK
  BY <1>1 DEF Init, StackOK
<1>7. QED
  BY <1>1, <1>3, <1>5, <1>6 DEF Init, IInv, SignedOK

-----------------------------------------------------------------------------
(* Sequences *)

LEMMA FrontOf ==
  ASSUME NEW S, NEW seq \in Seq(S), seq # <<>>
  PROVE  /\ Len(seq) \in Nat \ {0}
         /\ SubSeq(seq, 1, Len(seq) - 1) \in Seq(S)
         /\ Len(SubSeq(seq, 1, Len(seq) - 1)) = Len(seq) - 1
         /\ \A i \in 1 .. (Len(seq) - 1) :
              SubSeq(seq, 1, Len(seq) - 1)[i] = seq[i]
<1> DEFINE n == Len(seq) - 1
           front == SubSeq(seq, 1, n)
<1>1. Len(seq) \in Nat \ {0} /\ n \in Nat
  BY EmptySeq
<1>2. n \in Int /\ 1 \in Int /\ \A i \in 1 .. n : seq[i] \in S
  BY <1>1, ElementOfSeq
<1>3. /\ front \in Seq(S)
      /\ Len(front) = IF 1 <= n THEN n - 1 + 1 ELSE 0
      /\ \A i \in 1 .. (n - 1 + 1) : front[i] = seq[1 + i - 1]
  BY <1>2, SubSeqProperties
<1> HIDE DEF n, front
<1>4. \A i \in 1 .. n : i \in 1 .. (n - 1 + 1) /\ 1 + i - 1 = i
  BY <1>1
<1>5. \A i \in 1 .. n : front[i] = seq[i]
  BY <1>3, <1>4, Zenon
<1>6. Len(front) = n
  BY <1>1, <1>3
<1>7. QED
  BY <1>1, <1>3, <1>5, <1>6 DEF n, front

LEMMA Appended ==
  ASSUME NEW S, NEW seq \in Seq(S), NEW e \in S
  PROVE  /\ Append(seq, e) \in Seq(S)
         /\ Len(Append(seq, e)) = Len(seq) + 1
         /\ Len(seq) \in Nat
         /\ \A i \in 1 .. Len(seq) : Append(seq, e)[i] = seq[i]
         /\ Append(seq, e)[Len(seq) + 1] = e
BY AppendProperties

-----------------------------------------------------------------------------
(* The calls that are open, by what a step does to them *)

(* A call that opens. *)
LEMMA Opened ==
  ASSUME StackOK, World \in Worlds, GoodWorld(World), NEW f \in Frames,
         f.saved = World, stack' = Append(stack, f),
         DOMAIN tokens \subseteq DOMAIN tokens', Names(f, tokens'),
         Counts(f, FALSE), InBatch => ~Finished(Top)
  PROVE  StackOK'
<1> DEFINE n == Len(stack)
<1>1. stack \in Seq(Frames)
  BY DEF StackOK
<1>2. /\ stack' \in Seq(Frames) /\ Len(stack') = n + 1 /\ n \in Nat
      /\ \A i \in 1 .. n : stack'[i] = stack[i]
      /\ stack'[n + 1] = f
  BY <1>1, Appended
<1>3. \A i \in 1 .. n : Counts(stack[i], TRUE)
  <2>1. ASSUME NEW i \in 1 .. n PROVE Counts(stack[i], TRUE)
    <3>1. Counts(stack[i], i < n)
      BY DEF StackOK
    <3>2. CASE i < n
      BY <3>1, <3>2 DEF Counts
    <3>3. CASE i = n
      <4>1. Counts(Top, FALSE)
        BY <3>1, <3>3 DEF Counts, Top
      <4>2. SUFFICES ASSUME Top.kind = "batch" PROVE Len(Top.results) < Len(Top.items)
        BY <3>3, <4>1 DEF Counts, Top
      <4>3. stack # <<>>
        BY <1>1, <3>3
      <4>4. Len(Top.results) # Len(Top.items)
        BY <4>2, <4>3 DEF InBatch, Finished
      <4>5. stack[n] \in Frames
        BY <1>1, <3>3, ElementOfSeq
      <4>6. Top \in BatchFrames
        BY <4>2, <4>5, FrameTyped DEF Top
      <4>7. Len(Top.results) \in Nat /\ Len(Top.items) \in Nat
        BY <4>6 DEF BatchFrames
      <4>8. QED
        BY <4>1, <4>2, <4>4, <4>7 DEF Counts
    <3>4. i < n \/ i = n
      BY <1>2
    <3>5. QED
      BY <3>2, <3>3, <3>4
  <2>2. QED
    BY <2>1
<1>4. \A i \in 1 .. n : GoodWorld(stack[i].saved) /\ Names(stack[i], tokens)
  BY DEF StackOK
<1>5. \A i, j \in 1 .. n : i < j => Names(stack[i], stack[j].saved.tokens)
  BY DEF StackOK
<1>6. World.tokens = tokens
  BY WorldFields
<1> HIDE DEF n
<1>7. ASSUME NEW i \in 1 .. (n + 1)
      PROVE  /\ GoodWorld(stack'[i].saved)
             /\ Names(stack'[i], tokens')
             /\ Counts(stack'[i], i < n + 1)
             /\ \A j \in 1 .. (n + 1) :
                  i < j => Names(stack'[i], stack'[j].saved.tokens)
  <2>1. CASE i \in 1 .. n
    <3>1. stack'[i] = stack[i]
      BY <1>2, <2>1
    <3>2. GoodWorld(stack'[i].saved)
      BY <1>4, <2>1, <3>1
    <3>3. Names(stack[i], tokens) /\ Names(stack'[i], tokens')
      BY <1>4, <2>1, <3>1 DEF Names
    <3>4. Counts(stack'[i], i < n + 1)
      BY <1>3, <2>1, <3>1 DEF Counts
    <3>5. ASSUME NEW j \in 1 .. (n + 1), i < j
          PROVE  Names(stack'[i], stack'[j].saved.tokens)
      <4>1. CASE j \in 1 .. n
        BY <1>2, <1>5, <2>1, <3>1, <3>5, <4>1
      <4>2. CASE j = n + 1
        BY <1>2, <1>6, <3>1, <3>3, <4>2
      <4>3. QED
        BY <1>2, <4>1, <4>2
    <3>6. QED
      BY <3>2, <3>3, <3>4, <3>5
  <2>2. CASE i = n + 1
    <3>1. stack'[i] = f
      BY <1>2, <2>2
    <3>2. ~(i < n + 1) /\ \A j \in 1 .. (n + 1) : ~(i < j)
      BY <1>2, <2>2
    <3>3. QED
      BY <3>1, <3>2 DEF Counts
  <2>3. QED
    BY <1>2, <2>1, <2>2
<1>8. QED
  BY <1>2, <1>7 DEF StackOK

(* A frame after one more outcome, if it is a batch, is noted in it. *)
LEMMA Noted ==
  ASSUME NEW f \in Frames, f.kind = "batch", NEW outcome \in Outcomes
  PROVE  LET g == [f EXCEPT !.results = Append(@, outcome)]
         IN  /\ g \in Frames /\ g.kind = f.kind /\ g.saved = f.saved
             /\ g.items = f.items
             /\ Len(f.results) \in Nat /\ Len(f.items) \in Nat
             /\ Len(g.results) = Len(f.results) + 1
<1> DEFINE r == Append(f.results, outcome)
           g == [f EXCEPT !.results = r]
<1>1. f \in BatchFrames
  BY FrameTyped
<1>2. f.results \in Seq(Outcomes) /\ f.items \in Seq(Args)
  BY <1>1 DEF BatchFrames
<1>3. r \in Seq(Outcomes) /\ Len(r) = Len(f.results) + 1
      /\ Len(f.results) \in Nat /\ Len(f.items) \in Nat
  BY <1>2
<1> HIDE DEF r
<1>4. /\ g \in BatchFrames /\ g.kind = f.kind /\ g.saved = f.saved
      /\ g.items = f.items /\ g.results = r
  BY <1>1, <1>3 DEF BatchFrames
<1>5. g \in Frames
  BY <1>4 DEF Frames
<1>6. QED
  BY <1>3, <1>4, <1>5 DEF r

LEMMA EndedFrames ==
  ASSUME stack \in Seq(Frames), stack # <<>>, NEW outcome \in Outcomes
  PROVE  /\ Len(stack) \in Nat \ {0}
         /\ Ended(outcome) \in Seq(Frames)
         /\ Len(Ended(outcome)) = Len(stack) - 1
         /\ \A i \in 1 .. (Len(stack) - 1) :
              \/ /\ i # Len(stack) - 1 \/ stack[i].kind # "batch"
                 /\ Ended(outcome)[i] = stack[i]
              \/ /\ i = Len(stack) - 1
                 /\ stack[i].kind = "batch"
                 /\ Ended(outcome)[i]
                      = [stack[i] EXCEPT !.results = Append(@, outcome)]
<1> DEFINE n == Len(stack) - 1
           below == SubSeq(stack, 1, n)
<1>1. /\ Len(stack) \in Nat \ {0} /\ n \in Nat
      /\ below \in Seq(Frames) /\ Len(below) = n
      /\ \A i \in 1 .. n : below[i] = stack[i]
  BY FrontOf
<1>2. Ended(outcome) =
        IF below # <<>> /\ below[n].kind = "batch"
        THEN [below EXCEPT ![n].results = Append(@, outcome)]
        ELSE below
  BY <1>1 DEF Ended
<1> HIDE DEF n, below
<1>3. CASE below # <<>> /\ below[n].kind = "batch"
  <2> DEFINE g == [below[n] EXCEPT !.results = Append(@, outcome)]
  <2>1. n \in 1 .. n
    BY <1>1, <1>3, EmptySeq
  <2>2. below[n] \in Frames
    BY <1>1, <2>1, ElementOfSeq
  <2>3. g \in Frames
    BY <1>3, <2>2, Noted
  <2>4. Ended(outcome) = [below EXCEPT ![n] = g]
    BY <1>2, <1>3
  <2> HIDE DEF g
  <2>5. /\ Ended(outcome) \in Seq(Frames) /\ Len(Ended(outcome)) = n
        /\ \A i \in 1 .. n : Ended(outcome)[i] = IF i = n THEN g ELSE below[i]
    BY <1>1, <2>1, <2>3, <2>4
  <2>6. g = [stack[n] EXCEPT !.results = Append(@, outcome)]
        /\ stack[n].kind = "batch"
    BY <1>1, <1>3, <2>1 DEF g
  <2>7. QED
    BY <1>1, <2>5, <2>6 DEF n
<1>4. CASE ~(below # <<>> /\ below[n].kind = "batch")
  <2>1. Ended(outcome) = below
    BY <1>2, <1>4
  <2>2. ASSUME NEW i \in 1 .. n, i = n PROVE stack[i].kind # "batch"
    BY <1>1, <1>4, <2>2, EmptySeq
  <2>3. QED
    BY <1>1, <2>1, <2>2 DEF n
<1>5. QED
  BY <1>3, <1>4

(* A call that ends: its caller goes on with the tokens that there are, or
   with those that there were when the call began. *)
LEMMA Closed ==
  ASSUME StackOK, stack # <<>>, NEW outcome \in Outcomes,
         stack' = Ended(outcome),
         \/ DOMAIN tokens' = DOMAIN tokens
         \/ tokens' = Top.saved.tokens
  PROVE  StackOK'
<1> DEFINE n == Len(stack)
<1>1. stack \in Seq(Frames)
  BY DEF StackOK
<1>2. /\ n \in Nat \ {0} /\ stack' \in Seq(Frames) /\ Len(stack') = n - 1
      /\ \A i \in 1 .. (n - 1) :
           \/ stack'[i] = stack[i]
           \/ /\ i = n - 1
              /\ stack[i].kind = "batch"
              /\ stack'[i] = [stack[i] EXCEPT !.results = Append(@, outcome)]
  BY <1>1, EndedFrames
<1>3. ASSUME NEW i \in 1 .. (n - 1)
      PROVE  /\ i \in 1 .. n /\ i < n /\ n \in 1 .. n
             /\ stack[i] \in Frames
             /\ stack'[i].kind = stack[i].kind
             /\ stack'[i].saved = stack[i].saved
             /\ stack[i].kind = "mint" => stack'[i] = stack[i]
  <2>1. i \in 1 .. n /\ i < n /\ n \in 1 .. n
    BY <1>2
  <2>2. stack[i] \in Frames
    BY <1>1, <2>1, ElementOfSeq
  <2>3. CASE stack'[i] = stack[i]
    BY <2>1, <2>2, <2>3
  <2>4. CASE /\ stack[i].kind = "batch"
             /\ stack'[i] = [stack[i] EXCEPT !.results = Append(@, outcome)]
    BY <2>1, <2>2, <2>4, Noted
  <2>5. QED
    BY <1>2, <2>3, <2>4
<1>4. ASSUME NEW i \in 1 .. (n - 1)
      PROVE  Counts(stack'[i], i < n - 1)
  <2>1. Counts(stack[i], i < n)
    BY <1>3 DEF StackOK
  <2>2. CASE stack'[i] = stack[i]
    BY <1>3, <2>1, <2>2 DEF Counts
  <2>3. CASE /\ i = n - 1 /\ stack[i].kind = "batch"
             /\ stack'[i] = [stack[i] EXCEPT !.results = Append(@, outcome)]
    <3>1. /\ stack'[i].items = stack[i].items
          /\ Len(stack[i].results) \in Nat /\ Len(stack[i].items) \in Nat
          /\ Len(stack'[i].results) = Len(stack[i].results) + 1
      BY <1>3, <2>3, Noted
    <3>2. ~(i < n - 1)
      BY <1>2, <2>3
    <3>3. i < n
      BY <1>3
    <3>4. QED
      BY <2>1, <2>3, <3>1, <3>2, <3>3 DEF Counts
  <2>4. QED
    BY <1>2, <2>2, <2>3
<1>5. ASSUME NEW i \in 1 .. (n - 1)
      PROVE  Names(stack'[i], tokens')
  <2>1. Names(stack[i], tokens) /\ Names(stack[i], stack[n].saved.tokens)
    BY <1>3 DEF StackOK
  <2>2. Names(stack[i], tokens')
    BY <2>1 DEF Names, Top
  <2>3. QED
    BY <1>3, <2>2 DEF Names
<1>6. ASSUME NEW i \in 1 .. (n - 1), NEW j \in 1 .. (n - 1), i < j
      PROVE  Names(stack'[i], stack'[j].saved.tokens)
  <2>1. Names(stack[i], stack[j].saved.tokens)
    BY <1>3, <1>6 DEF StackOK
  <2>2. QED
    BY <1>3, <2>1 DEF Names
<1>7. ASSUME NEW i \in 1 .. (n - 1) PROVE GoodWorld(stack'[i].saved)
  BY <1>3 DEF StackOK
<1> HIDE DEF n
<1>8. QED
  BY <1>2, <1>4, <1>5, <1>6, <1>7 DEF StackOK

(* A sequence with one of its elements replaced. *)
LEMMA Replaced ==
  ASSUME NEW S, NEW s \in Seq(S), NEW n \in 1 .. Len(s), NEW g \in S,
         NEW t, t = [s EXCEPT ![n] = g]
  PROVE  /\ t \in Seq(S) /\ Len(t) = Len(s)
         /\ \A i \in 1 .. Len(s) : t[i] = IF i = n THEN g ELSE s[i]
  OBVIOUS

(* An item of a batch that is refused. *)
LEMMA Refused ==
  ASSUME StackOK, InBatch, ~Finished(Top), NEW error \in Outcomes, NEW g,
         g = [Top EXCEPT !.results = Append(@, error)],
         stack' = [stack EXCEPT ![Len(stack)] = g], tokens' = tokens
  PROVE  StackOK'
<1> DEFINE n == Len(stack)
<1>1. stack \in Seq(Frames) /\ stack # <<>>
  BY DEF StackOK, InBatch
<1>2. n \in Nat /\ n \in 1 .. n
  BY <1>1, EmptySeq
<1>3. stack[n] \in Frames /\ Top = stack[n]
  BY <1>1, <1>2, ElementOfSeq DEF Top
<1>4. /\ g \in Frames /\ g.kind = "batch" /\ g.saved = Top.saved
      /\ g.items = Top.items
      /\ Len(Top.results) \in Nat /\ Len(Top.items) \in Nat
      /\ Len(g.results) = Len(Top.results) + 1
  BY <1>3, Noted DEF InBatch
<1>5. stack' = [stack EXCEPT ![n] = g]
  OBVIOUS
<1>6. /\ stack' \in Seq(Frames) /\ Len(stack') = n
      /\ \A i \in 1 .. n : stack'[i] = IF i = n THEN g ELSE stack[i]
  BY <1>1, <1>2, <1>4, <1>5, Replaced
<1>7. /\ Counts(Top, FALSE) /\ GoodWorld(Top.saved)
  BY <1>2, <1>3 DEF StackOK, Counts
<1>8. Counts(g, FALSE)
  BY <1>4, <1>7 DEF Counts, InBatch, Finished
<1>9. \A i \in 1 .. n : /\ GoodWorld(stack[i].saved)
                       /\ Names(stack[i], tokens)
                       /\ Counts(stack[i], i < n)
                       /\ \A j \in 1 .. n :
                            i < j => Names(stack[i], stack[j].saved.tokens)
  BY DEF StackOK
<1> HIDE DEF n
<1>10. ASSUME NEW i \in 1 .. n
       PROVE  /\ GoodWorld(stack'[i].saved)
              /\ Names(stack'[i], tokens')
              /\ Counts(stack'[i], i < n)
              /\ \A j \in 1 .. n :
                   i < j => Names(stack'[i], stack'[j].saved.tokens)
  <2>1. \A j \in 1 .. n : stack'[j].saved = stack[j].saved
    BY <1>3, <1>4, <1>6
  <2>2. CASE i = n
    <3>1. stack'[i] = g
      BY <1>6, <2>2
    <3>2. Names(g, tokens') /\ \A j \in 1 .. n : ~(i < j) /\ ~(i < n)
      BY <1>2, <1>4, <2>2 DEF Names
    <3>3. QED
      BY <1>4, <1>7, <1>8, <3>1, <3>2 DEF Counts
  <2>3. CASE i # n
    <3>1. stack'[i] = stack[i]
      BY <1>6, <2>3
    <3>2. QED
      BY <1>9, <2>1, <3>1
  <2>4. QED
    BY <2>2, <2>3
<1>11. QED
  BY <1>6, <1>10 DEF StackOK

-----------------------------------------------------------------------------
(* Minting *)

LEMMA MintGood ==
  ASSUME World \in Worlds, GoodWorld(World), NEW a \in Args,
         NEW value \in Nat, SetSBTError(a, value) = "Ok", Mint(a, value)
  PROVE  /\ World' \in Worlds /\ GoodWorld(World')
         /\ Len(tokens) \in Nat
         /\ DOMAIN tokens = 1 .. Len(tokens)
         /\ DOMAIN tokens' = 1 .. (Len(tokens) + 1)
         /\ DOMAIN tokens \subseteq DOMAIN tokens'
<1> DEFINE identifier == <<AddressOf(a.reciever), a.circuit>>
           sbt == [expiry |-> a.expiration, values |-> a.values,
                   revoked |-> FALSE]
           token == [to |-> AddressOf(a.reciever), uri |-> NoURI, sbt |-> sbt,
                     identifier |-> identifier, nullifier |-> a.nullifier,
                     fee |-> a.fee]
           n == Len(tokens)
           k == a.nullifier
<1>1. /\ usedNullifiers' = usedNullifiers \cup ({k} \ {NoNullifier})
      /\ sbtOwners' = [sbtOwners EXCEPT ![identifier] = sbt]
      /\ nullifiersToIdentifiers' =
           [nullifiersToIdentifiers EXCEPT ![k] = identifier]
      /\ tokens' = Append(tokens, token)
      /\ fees' = fees + value
      /\ UNCHANGED <<owner, verifier, collected>>
  BY DEF Mint, Spend
<1>2. /\ identifier \in Identifiers /\ k \in Nullifiers
      /\ sbt \in SBTs
  BY ArgsTyped DEF Identifiers, SBTs
<1>3. token \in Tokens
  <2>1. NoURI \in SBTs
    BY DEF NoURI, NoSBT, SBTs
  <2>2. QED
    BY <1>2, <2>1, ArgsTyped DEF Tokens
<1>4. token.nullifier = k /\ token.identifier = identifier
  OBVIOUS
<1> HIDE DEF identifier, sbt, token, k
<1>5. /\ usedNullifiers \in SUBSET (Nullifiers \ {NoNullifier})
      /\ sbtOwners \in [Identifiers -> SBTs]
      /\ nullifiersToIdentifiers
           \in [Nullifiers -> Identifiers \cup {NoIdentifier}]
      /\ tokens \in Seq(Tokens)
      /\ fees \in Nat
  BY WorldTyped
<1>6. /\ n \in Nat /\ tokens' \in Seq(Tokens)
      /\ DOMAIN tokens = 1 .. n /\ DOMAIN tokens' = 1 .. (n + 1)
      /\ \A t \in 1 .. n : tokens'[t] = tokens[t]
      /\ tokens'[n + 1] = token
  BY <1>1, <1>3, <1>5
<1> HIDE DEF n
<1>7. World' \in Worlds
  BY <1>1, <1>2, <1>5, <1>6, WorldTyped, WorldTypedNext
<1>8. /\ usedNullifiers =
           {tokens[t].nullifier : t \in 1 .. n} \ {NoNullifier}
      /\ \A t, u \in 1 .. n :
           tokens[t].nullifier = tokens[u].nullifier
             /\ tokens[t].nullifier # NoNullifier => t = u
      /\ \A t \in 1 .. n : tokens[t].nullifier # NoNullifier =>
           nullifiersToIdentifiers[tokens[t].nullifier] = tokens[t].identifier
  BY <1>6, WorldFields DEF GoodWorld, NullifierSpentOnce, FindsItsPair
<1>9. k = NoNullifier \/ k \notin usedNullifiers
  BY DEF SetSBTError, k
<1>10. \A t \in 1 .. n : tokens[t].nullifier # NoNullifier =>
         tokens[t].nullifier # k
  BY <1>8, <1>9
<1>11. \A t \in 1 .. (n + 1) : t \in 1 .. n \/ t = n + 1
  BY <1>6
<1>12. (1 .. n) \subseteq (1 .. (n + 1)) /\ n + 1 \in 1 .. (n + 1)
  BY <1>6
<1>13. usedNullifiers' =
         {tokens'[t].nullifier : t \in 1 .. (n + 1)} \ {NoNullifier}
  <2>1. ASSUME NEW x \in usedNullifiers'
        PROVE  x \in {tokens'[t].nullifier : t \in 1 .. (n + 1)} \ {NoNullifier}
    <3>1. CASE x \in usedNullifiers
      <4>1. PICK t \in 1 .. n : x = tokens[t].nullifier
        BY <1>8, <3>1
      <4>2. t \in 1 .. (n + 1) /\ x = tokens'[t].nullifier
        BY <1>6, <1>12, <4>1
      <4>3. QED
        BY <1>5, <3>1, <4>2
    <3>2. CASE x = k /\ k # NoNullifier
      BY <1>4, <1>6, <1>12, <3>2
    <3>3. QED
      BY <1>1, <3>1, <3>2
  <2>2. ASSUME NEW t \in 1 .. (n + 1), tokens'[t].nullifier # NoNullifier
        PROVE  tokens'[t].nullifier \in usedNullifiers'
    <3>1. CASE t \in 1 .. n
      <4>1. tokens'[t].nullifier = tokens[t].nullifier
        BY <1>6, <3>1
      <4>2. tokens[t].nullifier \in usedNullifiers
        BY <1>8, <2>2, <3>1, <4>1
      <4>3. QED
        BY <1>1, <4>1, <4>2
    <3>2. CASE t = n + 1
      BY <1>1, <1>4, <1>6, <2>2, <3>2
    <3>3. QED
      BY <1>11, <3>1, <3>2
  <2>3. QED
    BY <2>1, <2>2
<1>14. ASSUME NEW t \in 1 .. (n + 1), NEW u \in 1 .. (n + 1),
              tokens'[t].nullifier = tokens'[u].nullifier,
              tokens'[t].nullifier # NoNullifier
       PROVE  t = u
  BY <1>4, <1>6, <1>8, <1>10, <1>11, <1>14
<1>15. ASSUME NEW t \in 1 .. (n + 1), tokens'[t].nullifier # NoNullifier
       PROVE  nullifiersToIdentifiers'[tokens'[t].nullifier]
                = tokens'[t].identifier
  <2>1. CASE t \in 1 .. n
    <3>1. tokens'[t] = tokens[t] /\ tokens[t].nullifier # k
      BY <1>6, <1>10, <1>15, <2>1
    <3>2. nullifiersToIdentifiers'[tokens[t].nullifier]
            = nullifiersToIdentifiers[tokens[t].nullifier]
      <4>1. tokens[t].nullifier \in Nullifiers
        BY <1>5, <1>8, <1>15, <2>1, <3>1
      <4>2. QED
        BY <1>1, <1>5, <3>1, <4>1
    <3>3. QED
      BY <1>8, <1>15, <2>1, <3>1, <3>2
  <2>2. CASE t = n + 1
    BY <1>1, <1>2, <1>4, <1>5, <1>6, <2>2
  <2>3. QED
    BY <1>11, <2>1, <2>2
<1>16. GoodWorld(World')
  BY <1>6, <1>13, <1>14, <1>15, WorldFields
     DEF GoodWorld, NullifierSpentOnce, FindsItsPair
<1>17. QED
  BY <1>6, <1>7, <1>12, <1>16 DEF n

-----------------------------------------------------------------------------
(* The steps *)

(* Nobody calls the Hub or HubBatch while HubBatch runs. *)
LEMMA CallerOutsideBatch ==
  ASSUME NEW caller \in Callers
  PROVE  ~InBatch
BY DEF Callers, InBatch

LEMMA MintStep ==
  ASSUME IInv, NEW a \in Args, NEW value \in Nat,
         SetSBTError(a, value) = "Ok", Mint(a, value),
         InBatch => ~Finished(Top)
  PROVE  IInv'
<1>1. /\ World' \in Worlds /\ GoodWorld(World')
      /\ Len(tokens) \in Nat
      /\ DOMAIN tokens \subseteq DOMAIN tokens'
      /\ DOMAIN tokens' = 1 .. (Len(tokens) + 1)
  BY MintGood DEF IInv
<1> DEFINE f == MintFrame(a, Len(tokens) + 1)
<1>2. /\ f \in MintFrames /\ f.saved = World /\ f.kind = "mint"
      /\ f.tid = Len(tokens) + 1
  BY <1>1, ArgsTyped DEF IInv, MintFrame, MintFrames, Identifiers
<1>3. f \in Frames /\ Names(f, tokens') /\ Counts(f, FALSE)
  BY <1>1, <1>2 DEF Frames, Names, Counts
<1>4. stack' = Append(stack, f)
  BY DEF Mint
<1> HIDE DEF f
<1>5. StackOK'
  BY <1>1, <1>2, <1>3, <1>4, Opened DEF IInv
<1>6. now' = now /\ signed' = signed
  BY DEF Mint
<1>7. QED
  BY <1>1, <1>5, <1>6 DEF IInv, SignedOK

LEMMA SetSBTStep ==
  ASSUME IInv, NEW caller \in Accounts, NEW a \in Presented,
         NEW value \in Fees, SetSBT(caller, a, value)
  PROVE  IInv'
<1>1. a \in Args /\ value \in Nat
  BY PresentedTyped, HubBounds DEF IInv
<1>2. ~InBatch
  BY CallerOutsideBatch DEF SetSBT
<1>3. QED
  BY <1>1, <1>2, MintStep DEF SetSBT

(* The state of the world after a revert. *)
LEMMA RestoredWorld ==
  ASSUME NEW w \in Worlds, Restore(w)
  PROVE  World' = w
<1>1. w = [owner |-> w.owner, verifier |-> w.verifier,
           usedNullifiers |-> w.usedNullifiers, sbtOwners |-> w.sbtOwners,
           nullifiersToIdentifiers |-> w.nullifiersToIdentifiers,
           tokens |-> w.tokens, fees |-> w.fees, collected |-> w.collected]
  BY DEF Worlds
<1>2. QED
  BY <1>1 DEF World, Restore

(* A state restored from the frame on top is good, and is the state of the
   world. *)
LEMMA TopRestored ==
  ASSUME StackOK, stack # <<>>, Restore(Top.saved)
  PROVE  /\ World' \in Worlds /\ GoodWorld(World')
         /\ tokens' = Top.saved.tokens
<1>1. stack \in Seq(Frames) /\ Len(stack) \in 1 .. Len(stack)
  BY EmptySeq DEF StackOK
<1>2. Top \in Frames
  BY <1>1, ElementOfSeq DEF Top
<1>3. Top.saved \in Worlds
  BY <1>2, FrameTyped
<1>4. GoodWorld(Top.saved)
  BY <1>1 DEF StackOK, Top
<1>5. World' = Top.saved
  BY <1>3, RestoredWorld
<1>6. tokens' = Top.saved.tokens
  BY DEF Restore
<1>7. QED
  BY <1>3, <1>4, <1>5, <1>6

LEMMA RevertStep ==
  ASSUME IInv, stack # <<>>, Restore(Top.saved), stack' = Ended("Reverted"),
         UNCHANGED <<now, signed>>
  PROVE  IInv'
<1>1. /\ World' \in Worlds /\ GoodWorld(World')
      /\ tokens' = Top.saved.tokens
  BY TopRestored DEF IInv
<1>2. "Reverted" \in Outcomes
  BY DEF Outcomes
<1>3. StackOK'
  BY <1>1, <1>2, Closed DEF IInv
<1>4. QED
  BY <1>1, <1>3 DEF IInv, SignedOK

(* The URI of a token is nobody's concern here. *)
LEMMA MintReturnsStep ==
  ASSUME IInv, MintReturns
  PROVE  IInv'
<1> DEFINE k == Top.tid
<1>0. /\ stack # <<>> /\ Top.kind = "mint" /\ stack' = Ended("Ok")
  BY Zenon DEF MintReturns
<1>1. stack \in Seq(Frames) /\ Len(stack) \in 1 .. Len(stack)
  BY <1>0, EmptySeq DEF IInv, StackOK
<1>2. Top \in Frames
  BY <1>1, ElementOfSeq DEF Top
<1>3. Top \in MintFrames
  BY <1>0, <1>2, FrameTyped
<1>4. k \in DOMAIN tokens
  BY <1>0, <1>1 DEF IInv, StackOK, Names, Top
<1>5. /\ usedNullifiers \in SUBSET (Nullifiers \ {NoNullifier})
      /\ sbtOwners \in [Identifiers -> SBTs]
      /\ nullifiersToIdentifiers
           \in [Nullifiers -> Identifiers \cup {NoIdentifier}]
      /\ tokens \in Seq(Tokens)
      /\ fees \in Nat /\ collected \in Nat
      /\ owner \in Addresses /\ verifier \in Verifiers \cup {ZeroAddress}
  BY WorldTyped DEF IInv
<1>6. Top.identifier \in Identifiers
  BY <1>3 DEF MintFrames
<1> DEFINE uri == sbtOwners[Top.identifier]
<1>7. uri \in SBTs /\ tokens' = [tokens EXCEPT ![k].uri = uri]
  BY <1>5, <1>6 DEF MintReturns
<1> HIDE DEF uri, k
<1> DEFINE token == [tokens[k] EXCEPT !.uri = uri]
<1>8. tokens[k] \in Tokens
  BY <1>4, <1>5
<1>9. /\ token \in Tokens /\ token.nullifier = tokens[k].nullifier
      /\ token.identifier = tokens[k].identifier
  BY <1>7, <1>8 DEF Tokens
<1>10. tokens' = [tokens EXCEPT ![k] = token]
  BY <1>7
<1> HIDE DEF token
<1>11. /\ tokens' \in Seq(Tokens) /\ DOMAIN tokens' = DOMAIN tokens
       /\ \A t \in DOMAIN tokens :
            /\ tokens'[t].nullifier = tokens[t].nullifier
            /\ tokens'[t].identifier = tokens[t].identifier
  <2>1. tokens' \in Seq(Tokens) /\ DOMAIN tokens' = DOMAIN tokens
    BY <1>4, <1>5, <1>9, <1>10
  <2>2. \A t \in DOMAIN tokens : tokens'[t] = IF t = k THEN token ELSE tokens[t]
    BY <1>5, <1>10
  <2>3. QED
    BY <1>9, <2>1, <2>2
<1>12. World' \in Worlds
  BY <1>5, <1>11, WorldTypedNext DEF MintReturns
<1>13. GoodWorld(World')
  <2>1. usedNullifiers' = usedNullifiers
        /\ nullifiersToIdentifiers' = nullifiersToIdentifiers
    BY DEF MintReturns
  <2>2. NullifierSpentOnce(World) /\ FindsItsPair(World)
    BY DEF IInv, GoodWorld
  <2>3. {tokens'[t].nullifier : t \in DOMAIN tokens'}
          = {tokens[t].nullifier : t \in DOMAIN tokens}
    BY <1>11
  <2>4. NullifierSpentOnce(World')
    BY <1>11, <2>1, <2>2, <2>3, WorldFields DEF NullifierSpentOnce
  <2>5. FindsItsPair(World')
    BY <1>11, <2>1, <2>2, WorldFields DEF FindsItsPair
  <2>6. QED
    BY <2>4, <2>5 DEF GoodWorld
<1>14. "Ok" \in Outcomes
  BY DEF Outcomes
<1>15. StackOK'
  BY <1>0, <1>11, <1>14, Closed DEF IInv
<1>16. QED
  BY <1>12, <1>13, <1>15 DEF IInv, SignedOK, MintReturns

LEMMA StartBatchStep ==
  ASSUME IInv, NEW caller \in Accounts, NEW items \in Batches,
         NEW strict \in BOOLEAN, StartBatch(caller, items, strict)
  PROVE  IInv'
<1> DEFINE f == BatchFrame(items, strict)
<1>1. PICK n \in 0 .. MaxItems : items \in [1 .. n -> Presented]
  BY DEF Batches
<1>2. n \in Nat /\ items \in Seq(Args)
  BY <1>1, PresentedTyped DEF IInv
<1>3. Len(items) \in Nat /\ BatchLimit \in Nat /\ ~(Len(items) > BatchLimit)
  BY <1>2, BatchBounds DEF StartBatch, BatchError
<1>4. /\ f \in BatchFrames /\ f.saved = World /\ f.kind = "batch"
      /\ f.items = items /\ f.results = <<>>
  BY <1>2 DEF IInv, BatchFrame, BatchFrames
<1>5. /\ stack' = Append(stack, f) /\ ~InBatch
      /\ UNCHANGED <<chainVars, now, signed>>
  BY CallerOutsideBatch DEF StartBatch
<1> HIDE DEF f
<1>6. f \in Frames /\ Names(f, tokens') /\ Counts(f, FALSE)
  BY <1>3, <1>4 DEF Frames, Names, Counts
<1>7. UNCHANGED World /\ tokens' = tokens
  BY <1>5 DEF chainVars, World
<1>8. StackOK'
  BY <1>4, <1>5, <1>6, <1>7, Opened DEF IInv
<1>9. QED
  BY <1>5, <1>7, <1>8 DEF IInv, SignedOK

LEMMA CallItemStep ==
  ASSUME IInv, CallItem
  PROVE  IInv'
<1> DEFINE item == Top.items[Len(Top.results) + 1]
           error == SetSBTError(item, 0)
<1>1. /\ InBatch /\ ~Finished(Top)
      /\ \/ error = "Ok" /\ Mint(item, 0)
         \/ /\ error # "Ok"
            /\ stack' = [stack EXCEPT ![Len(stack)].results = Append(@, error)]
            /\ UNCHANGED <<chainVars, now, signed>>
  BY Zenon DEF CallItem
<1>2. stack \in Seq(Frames) /\ Len(stack) \in 1 .. Len(stack)
  BY <1>1, EmptySeq DEF IInv, StackOK, InBatch
<1>3. Top \in Frames /\ Counts(Top, FALSE)
  BY <1>2, ElementOfSeq DEF Top, IInv, StackOK, Counts
<1>4. Top \in BatchFrames
  BY <1>1, <1>3, FrameTyped DEF InBatch
<1>5. /\ Top.items \in Seq(Args) /\ Len(Top.items) \in Nat
      /\ Len(Top.results) \in Nat
  BY <1>4 DEF BatchFrames
<1>6. Len(Top.results) < Len(Top.items)
  BY <1>1, <1>3, <1>5 DEF Counts, Finished, InBatch
<1>7. item \in Args
  BY <1>5, <1>6
<1>8. error \in Outcomes
  BY DEF SetSBTError, Outcomes
<1> HIDE DEF item, error
<1>9. CASE error = "Ok" /\ Mint(item, 0)
  BY <1>1, <1>7, <1>9, MintStep DEF error
<1>10. CASE /\ stack' = [stack EXCEPT ![Len(stack)].results = Append(@, error)]
            /\ UNCHANGED <<chainVars, now, signed>>
  <2>1. UNCHANGED World /\ tokens' = tokens /\ now' = now /\ signed' = signed
    BY <1>10, Zenon DEF chainVars, World
  <2> DEFINE g == [Top EXCEPT !.results = Append(@, error)]
  <2>2. stack' = [stack EXCEPT ![Len(stack)] = g]
    BY <1>10 DEF Top
  <2> HIDE DEF g
  <2>3. g = [Top EXCEPT !.results = Append(@, error)]
    BY DEF g
  <2>4. StackOK'
    BY <1>1, <1>8, <2>1, <2>2, <2>3, Refused, Zenon DEF IInv
  <2>5. QED
    BY <2>1, <2>4 DEF IInv, SignedOK
<1>11. QED
  BY <1>1, <1>9, <1>10

LEMMA BatchReturnsStep ==
  ASSUME IInv, BatchReturns
  PROVE  IInv'
<1>1. stack # <<>> /\ stack' = Ended("Ok") /\ UNCHANGED <<chainVars, now, signed>>
  BY DEF BatchReturns, InBatch
<1>2. UNCHANGED World /\ tokens' = tokens
  BY <1>1 DEF chainVars, World
<1>3. "Ok" \in Outcomes
  BY DEF Outcomes
<1>4. StackOK'
  BY <1>1, <1>2, <1>3, Closed DEF IInv
<1>5. QED
  BY <1>1, <1>2, <1>4 DEF IInv, SignedOK

(* The other steps touch neither tokens nor nullifiers nor open calls. *)
LEMMA QuietStep ==
  ASSUME IInv, World' \in Worlds, now' \in Nat, SignedOK',
         UNCHANGED <<usedNullifiers, nullifiersToIdentifiers, tokens, stack>>
  PROVE  IInv'
<1>1. StackOK'
  BY DEF IInv, StackOK
<1>2. GoodWorld(World')
  BY WorldFields DEF IInv, GoodWorld, NullifierSpentOnce, FindsItsPair
<1>3. QED
  BY <1>1, <1>2 DEF IInv

LEMMA OwningStep ==
  ASSUME IInv, NEW caller \in Accounts, Owning(caller)
  PROVE  IInv'
<1>1. /\ owner \in Addresses /\ verifier \in Verifiers \cup {ZeroAddress}
      /\ usedNullifiers \in SUBSET (Nullifiers \ {NoNullifier})
      /\ sbtOwners \in [Identifiers -> SBTs]
      /\ nullifiersToIdentifiers
           \in [Nullifiers -> Identifiers \cup {NoIdentifier}]
      /\ tokens \in Seq(Tokens)
      /\ fees \in Nat /\ collected \in Nat
  BY WorldTyped DEF IInv
<1>2. ASSUME NEW identifier \in Revocable \X Circuits,
             RevokeSBT(caller, identifier)
      PROVE  IInv'
  <2>1. identifier \in Identifiers
    BY HubAccounts DEF Identifiers, Addresses
  <2> DEFINE sbt == [sbtOwners[identifier] EXCEPT !.revoked = TRUE]
  <2>2. sbt \in SBTs
    BY <1>1, <2>1 DEF SBTs
  <2>3. sbtOwners' = [sbtOwners EXCEPT ![identifier] = sbt]
    BY <1>2, Zenon DEF RevokeSBT
  <2> HIDE DEF sbt
  <2>4. UNCHANGED <<owner, verifier, usedNullifiers, nullifiersToIdentifiers,
                    tokens, fees, collected, stack, now, signed>>
    BY <1>2, Zenon DEF RevokeSBT
  <2>5. sbtOwners' \in [Identifiers -> SBTs]
    BY <1>1, <2>2, <2>3
  <2>6. World' \in Worlds
    BY <1>1, <2>4, <2>5, WorldTypedNext
  <2>7. QED
    BY <2>4, <2>6, QuietStep DEF IInv, SignedOK
<1>3. ASSUME NEW newVerifier \in Installed, ChangeVerifier(caller, newVerifier)
      PROVE  IInv'
  <2>1. World' \in Worlds
    BY <1>1, <1>3, WorldTypedNext, HubAccounts DEF ChangeVerifier
  <2>2. QED
    BY <1>3, <2>1, QuietStep DEF ChangeVerifier, IInv, SignedOK
<1>4. CASE CollectFees(caller)
  <2>1. World' \in Worlds
    BY <1>1, <1>4, WorldTypedNext DEF CollectFees
  <2>2. QED
    BY <1>4, <2>1, QuietStep DEF CollectFees, IInv, SignedOK
<1>5. ASSUME NEW newOwner \in Owners, ChangeOwner(caller, newOwner)
      PROVE  IInv'
  <2>1. World' \in Worlds
    BY <1>1, <1>5, WorldTypedNext, HubAccounts DEF ChangeOwner, Addresses
  <2>2. QED
    BY <1>5, <2>1, QuietStep DEF ChangeOwner, IInv, SignedOK
<1>6. QED
  BY <1>2, <1>3, <1>4, <1>5 DEF Owning

LEMMA OutsideStep ==
  ASSUME IInv, Tick \/ \E v \in Verifiers, m \in Messages : Sign(v, m)
  PROVE  IInv'
<1>1. CASE Tick
  BY <1>1, QuietStep DEF Tick, chainVars, World, IInv, SignedOK
<1>2. ASSUME NEW v \in Verifiers, NEW m \in Messages, Sign(v, m)
      PROVE  IInv'
  <2>1. SignedOK'
    BY <1>2 DEF Sign, IInv, SignedOK
  <2>2. QED
    BY <1>2, <2>1, QuietStep DEF Sign, chainVars, World, IInv
<1>3. QED
  BY <1>1, <1>2

LEMMA NextIInv == IInv /\ [Next \/ Batching]_vars => IInv'
<1>1. ASSUME IInv, Next PROVE IInv'
  <2>1. ASSUME NEW caller \in Accounts, NEW a \in Presented,
               NEW value \in Fees, SetSBT(caller, a, value)
        PROVE  IInv'
    BY <1>1, <2>1, SetSBTStep
  <2>2. CASE MintFails
    BY <1>1, <2>2, RevertStep DEF MintFails
  <2>3. QED
    BY <1>1, <2>1, <2>2, OwningStep, MintReturnsStep, OutsideStep DEF Next
<1>2. ASSUME IInv, Batching PROVE IInv'
  <2>1. ASSUME NEW caller \in Accounts, NEW items \in Batches,
               NEW strict \in BOOLEAN, StartBatch(caller, items, strict)
        PROVE  IInv'
    BY <1>2, <2>1, StartBatchStep
  <2>2. CASE BatchReverts
    BY <1>2, <2>2, RevertStep DEF BatchReverts, InBatch
  <2>3. QED
    BY <1>2, <2>1, <2>2, CallItemStep, BatchReturnsStep DEF Batching
<1>3. ASSUME IInv, UNCHANGED vars PROVE IInv'
  BY <1>3, QuietStep DEF vars, chainVars, World, IInv, SignedOK
<1>4. QED
  BY <1>1, <1>2, <1>3

LEMMA Invariant == BatchSpec => []IInv
BY InitIInv, NextIInv, PTL DEF BatchSpec

(* What the Hub does alone it may do beside HubBatch. *)
LEMMA HubAlone == Spec => BatchSpec
<1>1. [Next]_vars => [Next \/ Batching]_vars
  OBVIOUS
<1>2. QED
  BY <1>1, PTL DEF Spec, BatchSpec

-----------------------------------------------------------------------------
(* The theorems *)

(* The variables of the Hub and of every call in progress keep their types; a
   batch keeps to the limit, and has no more results than items. *)
THEOREM TypeCorrect == BatchSpec => []BatchTypeOK
<1>1. IInv => BatchTypeOK
  <2>1. SUFFICES ASSUME IInv PROVE BatchTypeOK
    OBVIOUS
  <2>2. ASSUME NEW i \in DOMAIN stack
        PROVE  /\ stack[i].saved \in Worlds
               /\ stack[i].kind = "mint" =>
                    /\ stack[i].identifier \in Identifiers
                    /\ stack[i].tid \in DOMAIN tokens
               /\ \/ stack[i].kind = "mint"
                  \/ /\ stack[i].kind = "batch"
                     /\ Len(stack[i].results) <= Len(stack[i].items)
                     /\ Len(stack[i].items) <= BatchLimit
    <3>1. i \in 1 .. Len(stack) /\ stack[i] \in Frames
      BY <2>1, ElementOfSeq DEF IInv, StackOK
    <3>2. Names(stack[i], tokens) /\ Counts(stack[i], i < Len(stack))
      BY <2>1, <3>1 DEF IInv, StackOK
    <3>3. stack[i].kind = "mint" => stack[i].identifier \in Identifiers
      BY <3>1, FrameTyped DEF MintFrames
    <3>4. QED
      BY <3>1, <3>2, <3>3, FrameTyped DEF Names, Counts
  <2>3. QED
    BY <2>1, <2>2 DEF IInv, BatchTypeOK, TypeOK, SignedOK
<1>2. QED
  BY <1>1, Invariant, PTL

(* A nullifier other than 0 is good for one token and is used up exactly when
   that token exists, in the Hub alone and with HubBatch: whatever receivers
   do in the mint callback and whichever calls are undone. *)
THEOREM OneToken == BatchSpec => []OneTokenPerNullifier
<1>1. IInv => OneTokenPerNullifier
  BY DEF IInv, GoodWorld, OneTokenPerNullifier
<1>2. QED
  BY <1>1, Invariant, PTL

(* The same of the Hub alone. *)
THEOREM OneTokenAlone == Spec => []OneTokenPerNullifier
BY OneToken, HubAlone, PTL

(* A nullifier that is used leads to the pair of its token for good. *)
THEOREM FindsPair == BatchSpec => []NullifierFindsItsPair
<1>1. IInv => NullifierFindsItsPair
  BY WorldFields DEF IInv, GoodWorld, FindsItsPair, NullifierFindsItsPair
<1>2. QED
  BY <1>1, Invariant, PTL

-----------------------------------------------------------------------------
(* What the calls that are open have done so far *)

(* World w has a token for the pair that v does not have, with a nullifier
   that is not used in v. *)
FreshIn(v, w, identifier) ==
  \E t \in DOMAIN w.tokens \ DOMAIN v.tokens :
    /\ w.tokens[t].identifier = identifier
    /\ w.tokens[t].nullifier \notin v.usedNullifiers

(* World w may have come from v by calls that succeed: an SBT that is not
   revoked is the one it was, or there is a fresh token for it. *)
Since(v, w) ==
  /\ DOMAIN v.tokens \subseteq DOMAIN w.tokens
  /\ v.usedNullifiers \subseteq w.usedNullifiers
  /\ \A identifier \in Identifiers :
       \/ w.sbtOwners[identifier] = v.sbtOwners[identifier]
       \/ w.sbtOwners[identifier].revoked
       \/ FreshIn(v, w, identifier)
  /\ \A n \in Nullifiers :
       \/ w.nullifiersToIdentifiers[n] = v.nullifiersToIdentifiers[n]
       \/ FreshIn(v, w, w.nullifiersToIdentifiers[n])

(* The state that a call goes back to lies behind those of the calls inside it
   and behind the current one. *)
SinceOK ==
  \A i \in 1 .. Len(stack) :
    /\ Since(stack[i].saved, World)
    /\ \A j \in 1 .. Len(stack) :
         i < j => Since(stack[i].saved, stack[j].saved)

LEMMA SinceSelf == ASSUME NEW w PROVE Since(w, w)
BY DEF Since

(* Nothing is minted from w to x, and at most SBTs are revoked. *)
Calm(w, x) ==
  /\ DOMAIN x.tokens = DOMAIN w.tokens
  /\ \A t \in DOMAIN w.tokens :
       /\ x.tokens[t].identifier = w.tokens[t].identifier
       /\ x.tokens[t].nullifier = w.tokens[t].nullifier
  /\ x.usedNullifiers = w.usedNullifiers
  /\ x.nullifiersToIdentifiers = w.nullifiersToIdentifiers
  /\ \A identifier \in Identifiers :
       \/ x.sbtOwners[identifier] = w.sbtOwners[identifier]
       \/ x.sbtOwners[identifier].revoked

LEMMA CalmSince ==
  ASSUME NEW v, NEW w, NEW x, Since(v, w), Calm(w, x)
  PROVE  Since(v, x)
<1>1. ASSUME NEW identifier, FreshIn(v, w, identifier)
      PROVE  FreshIn(v, x, identifier)
  BY <1>1 DEF FreshIn, Calm
<1>2. ASSUME NEW identifier \in Identifiers
      PROVE  \/ x.sbtOwners[identifier] = v.sbtOwners[identifier]
             \/ x.sbtOwners[identifier].revoked
             \/ FreshIn(v, x, identifier)
  BY <1>1 DEF Since, Calm
<1>3. ASSUME NEW n \in Nullifiers
      PROVE  \/ x.nullifiersToIdentifiers[n] = v.nullifiersToIdentifiers[n]
             \/ FreshIn(v, x, x.nullifiersToIdentifiers[n])
  BY <1>1 DEF Since, Calm
<1>4. QED
  BY <1>2, <1>3 DEF Since, Calm

(* One token more, t, for its pair and with a nullifier that was not used. *)
OneMore(w, x, t) ==
  LET token == x.tokens[t]
  IN  /\ t \notin DOMAIN w.tokens
      /\ DOMAIN x.tokens = DOMAIN w.tokens \cup {t}
      /\ \A u \in DOMAIN w.tokens : x.tokens[u] = w.tokens[u]
      /\ token.nullifier \notin w.usedNullifiers
      /\ w.usedNullifiers \subseteq x.usedNullifiers
      /\ \A identifier \in Identifiers \ {token.identifier} :
           x.sbtOwners[identifier] = w.sbtOwners[identifier]
      /\ \A n \in Nullifiers :
           \/ x.nullifiersToIdentifiers[n] = w.nullifiersToIdentifiers[n]
           \/ x.nullifiersToIdentifiers[n] = token.identifier

LEMMA MoreSince ==
  ASSUME NEW v, NEW w, NEW x, NEW t, Since(v, w), OneMore(w, x, t)
  PROVE  Since(v, x)
<1>1. ASSUME NEW identifier, FreshIn(v, w, identifier)
      PROVE  FreshIn(v, x, identifier)
  BY <1>1 DEF FreshIn, OneMore
<1>2. FreshIn(v, x, x.tokens[t].identifier)
  BY DEF FreshIn, OneMore, Since
<1>3. ASSUME NEW identifier \in Identifiers
      PROVE  \/ x.sbtOwners[identifier] = v.sbtOwners[identifier]
             \/ x.sbtOwners[identifier].revoked
             \/ FreshIn(v, x, identifier)
  <2>1. CASE identifier = x.tokens[t].identifier
    BY <1>2, <2>1
  <2>2. CASE identifier # x.tokens[t].identifier
    <3>1. x.sbtOwners[identifier] = w.sbtOwners[identifier]
      BY <2>2 DEF OneMore
    <3>2. QED
      BY <1>1, <3>1 DEF Since
  <2>3. QED
    BY <2>1, <2>2
<1>4. ASSUME NEW n \in Nullifiers
      PROVE  \/ x.nullifiersToIdentifiers[n] = v.nullifiersToIdentifiers[n]
             \/ FreshIn(v, x, x.nullifiersToIdentifiers[n])
  <2>1. CASE x.nullifiersToIdentifiers[n] = w.nullifiersToIdentifiers[n]
    BY <1>1, <2>1 DEF Since
  <2>2. CASE x.nullifiersToIdentifiers[n] = x.tokens[t].identifier
    BY <1>2, <2>2
  <2>3. QED
    BY <2>1, <2>2 DEF OneMore
<1>5. QED
  BY <1>3, <1>4 DEF Since, OneMore

(* What a step brings about, for the open calls and for those who look on. *)
Advances ==
  /\ SinceOK'
  /\ Since(Committed, Committed')
  /\ now <= now'

LEMMA OpensCall ==
  ASSUME StackOK, SinceOK, now' = now, now \in Nat, NEW f \in Frames,
         f.saved = World, stack' = Append(stack, f),
         \A v : Since(v, World) => Since(v, World')
  PROVE  Advances
<1> DEFINE n == Len(stack)
<1>1. stack \in Seq(Frames)
  BY DEF StackOK
<1>2. /\ Len(stack') = n + 1 /\ n \in Nat
      /\ \A i \in 1 .. n : stack'[i] = stack[i]
      /\ stack'[n + 1] = f /\ stack' # <<>>
  BY <1>1, Appended
<1>3. \A i, j \in 1 .. n : i < j => Since(stack[i].saved, stack[j].saved)
  BY DEF SinceOK
<1>4. \A i \in 1 .. n : Since(stack[i].saved, World)
  BY DEF SinceOK
<1>5. Committed' = Committed
  <2>1. CASE stack = <<>>
    <3>1. stack'[1] = f
      BY <1>2, <2>1
    <3>2. QED
      BY <1>2, <2>1, <3>1 DEF Committed
  <2>2. CASE stack # <<>>
    <3>1. 1 \in 1 .. n
      BY <1>1, <2>2, EmptySeq
    <3>2. QED
      BY <1>2, <2>2, <3>1 DEF Committed
  <2>3. QED
    BY <2>1, <2>2
<1> HIDE DEF n
<1>6. ASSUME NEW i \in 1 .. (n + 1)
      PROVE  /\ Since(stack'[i].saved, World')
             /\ \A j \in 1 .. (n + 1) :
                  i < j => Since(stack'[i].saved, stack'[j].saved)
  <2>1. CASE i \in 1 .. n
    <3>1. Since(stack'[i].saved, World) /\ Since(stack'[i].saved, World')
      BY <1>2, <1>4, <2>1
    <3>2. ASSUME NEW j \in 1 .. (n + 1), i < j
          PROVE  Since(stack'[i].saved, stack'[j].saved)
      <4>1. CASE j \in 1 .. n
        BY <1>2, <1>3, <2>1, <3>2, <4>1
      <4>2. CASE j = n + 1
        BY <1>2, <3>1, <4>2
      <4>3. QED
        BY <1>2, <4>1, <4>2
    <3>3. QED
      BY <3>1, <3>2
  <2>2. CASE i = n + 1
    <3>1. stack'[i].saved = World /\ \A j \in 1 .. (n + 1) : ~(i < j)
      BY <1>2, <2>2
    <3>2. QED
      BY <3>1, SinceSelf
  <2>3. QED
    BY <1>2, <2>1, <2>2
<1>7. SinceOK'
  BY <1>2, <1>6 DEF SinceOK
<1>8. QED
  BY <1>5, <1>7, SinceSelf DEF Advances

(* A step that opens no call, and may end the one on top. *)
LEMMA OpensNone ==
  ASSUME stack \in Seq(Frames), stack' \in Seq(Frames), SinceOK,
         Len(stack') <= Len(stack),
         \A i \in 1 .. Len(stack') : stack'[i].saved = stack[i].saved,
         \A i \in 1 .. Len(stack) : Since(stack[i].saved, World'),
         stack = <<>> => Since(World, World'),
         now <= now'
  PROVE  Advances
<1> DEFINE n == Len(stack)
           m == Len(stack')
<1>1. n \in Nat /\ m \in Nat /\ m <= n
  BY DEF StackOK
<1>2. \A i, j \in 1 .. n : i < j => Since(stack[i].saved, stack[j].saved)
  BY DEF SinceOK
<1>3. stack = <<>> <=> n = 0
  BY EmptySeq
<1>4. stack' = <<>> <=> m = 0
  BY EmptySeq
<1>5. \A i \in 1 .. n : Since(stack[i].saved, World')
  OBVIOUS
<1>6. \A i \in 1 .. m : stack'[i].saved = stack[i].saved
  OBVIOUS
<1> HIDE DEF n, m
<1>7. \A i \in 1 .. m : i \in 1 .. n
  BY <1>1
<1>8. SinceOK'
  BY <1>2, <1>5, <1>6, <1>7 DEF SinceOK, m
<1>9. Since(Committed, Committed')
  <2>1. CASE n = 0
    <3>1. stack = <<>> /\ stack' = <<>>
      BY <1>1, <1>3, <1>4, <2>1
    <3>2. QED
      BY <3>1 DEF Committed
  <2>2. CASE n # 0 /\ m = 0
    <3>1. 1 \in 1 .. n
      BY <1>1, <2>2
    <3>2. QED
      BY <1>3, <1>4, <1>5, <2>2, <3>1 DEF Committed
  <2>3. CASE n # 0 /\ m # 0
    <3>1. 1 \in 1 .. m
      BY <1>1, <2>3
    <3>2. QED
      BY <1>3, <1>4, <1>6, <2>3, <3>1, SinceSelf DEF Committed
  <2>4. QED
    BY <2>1, <2>2, <2>3
<1>10. QED
  BY <1>8, <1>9 DEF Advances

LEMMA MintAdvances ==
  ASSUME IInv, SinceOK, NEW a \in Args, NEW value \in Nat,
         SetSBTError(a, value) = "Ok", Mint(a, value)
  PROVE  Advances
<1> DEFINE identifier == <<AddressOf(a.reciever), a.circuit>>
           sbt == [expiry |-> a.expiration, values |-> a.values,
                   revoked |-> FALSE]
           token == [to |-> AddressOf(a.reciever), uri |-> NoURI, sbt |-> sbt,
                     identifier |-> identifier, nullifier |-> a.nullifier,
                     fee |-> a.fee]
           n == Len(tokens)
           f == MintFrame(a, n + 1)
<1>1. /\ usedNullifiers' = Spend(a.nullifier)
      /\ sbtOwners' = [sbtOwners EXCEPT ![identifier] = sbt]
      /\ nullifiersToIdentifiers' =
           [nullifiersToIdentifiers EXCEPT ![a.nullifier] = identifier]
      /\ tokens' = Append(tokens, token)
      /\ stack' = Append(stack, f) /\ now' = now
  BY DEF Mint
<1>2. /\ usedNullifiers \in SUBSET (Nullifiers \ {NoNullifier})
      /\ sbtOwners \in [Identifiers -> SBTs]
      /\ nullifiersToIdentifiers
           \in [Nullifiers -> Identifiers \cup {NoIdentifier}]
      /\ tokens \in Seq(Tokens)
  BY WorldTyped DEF IInv
<1>3. token.nullifier = a.nullifier /\ token.identifier = identifier
  OBVIOUS
<1>4. a.nullifier \notin usedNullifiers
  BY <1>2 DEF SetSBTError
<1>5. usedNullifiers \subseteq usedNullifiers'
  BY <1>1 DEF Spend
<1>6. f \in Frames /\ f.saved = World
  <2>1. n + 1 \in Nat
    BY <1>2
  <2>2. f \in MintFrames /\ f.saved = World
    BY <2>1, ArgsTyped DEF IInv, MintFrame, MintFrames, Identifiers
  <2>3. QED
    BY <2>2 DEF Frames
<1> HIDE DEF token, sbt, identifier, f
<1>7. /\ DOMAIN tokens = 1 .. n /\ DOMAIN tokens' = (1 .. n) \cup {n + 1}
      /\ n + 1 \notin 1 .. n
      /\ \A u \in 1 .. n : tokens'[u] = tokens[u]
      /\ tokens'[n + 1] = token
  <2>1. n \in Nat
    BY <1>2
  <2>2. /\ DOMAIN tokens = 1 .. n /\ DOMAIN tokens' = 1 .. (n + 1)
        /\ \A u \in 1 .. n : tokens'[u] = tokens[u]
        /\ tokens'[n + 1] = token
    BY <1>1, <1>2
  <2> HIDE DEF n
  <2>3. 1 .. (n + 1) = (1 .. n) \cup {n + 1} /\ n + 1 \notin 1 .. n
    BY <2>1
  <2>4. QED
    BY <2>2, <2>3
<1> HIDE DEF n
<1>8. /\ World.sbtOwners = sbtOwners /\ World'.sbtOwners = sbtOwners'
  BY DEF World
<1>9. OneMore(World, World', n + 1)
  <2>1. \A i \in Identifiers \ {identifier} : sbtOwners'[i] = sbtOwners[i]
    BY <1>1, <1>2
  <2>2. \A m \in Nullifiers :
           \/ nullifiersToIdentifiers'[m] = nullifiersToIdentifiers[m]
           \/ nullifiersToIdentifiers'[m] = identifier
    BY <1>1, <1>2
  <2>3. QED
    BY <1>3, <1>4, <1>5, <1>7, <1>8, <2>1, <2>2, WorldFields DEF OneMore
<1>10. \A v : Since(v, World) => Since(v, World')
  BY <1>9, MoreSince
<1>11. QED
  BY <1>1, <1>6, <1>10, OpensCall DEF IInv

(* A step that mints nothing and opens nothing. *)
LEMMA CalmAdvances ==
  ASSUME IInv, SinceOK, Calm(World, World'), now <= now', stack' \in Seq(Frames),
         Len(stack') <= Len(stack),
         \A i \in 1 .. Len(stack') : stack'[i].saved = stack[i].saved
  PROVE  Advances
<1>1. \A i \in 1 .. Len(stack) : Since(stack[i].saved, World')
  BY CalmSince DEF SinceOK
<1>2. Since(World, World')
  BY SinceSelf, CalmSince
<1>3. stack \in Seq(Frames)
  BY DEF IInv, StackOK
<1>4. QED
  BY <1>1, <1>2, <1>3, OpensNone

(* What a call leaves of the stack when it ends. *)
LEMMA EndedSaves ==
  ASSUME IInv, stack # <<>>, NEW outcome \in Outcomes, stack' = Ended(outcome)
  PROVE  /\ stack' \in Seq(Frames) /\ Len(stack') <= Len(stack)
         /\ \A i \in 1 .. Len(stack') : stack'[i].saved = stack[i].saved
<1> DEFINE n == Len(stack)
<1>1. stack \in Seq(Frames)
  BY DEF IInv, StackOK
<1>2. /\ n \in Nat \ {0} /\ stack' \in Seq(Frames) /\ Len(stack') = n - 1
      /\ \A i \in 1 .. (n - 1) :
           \/ stack'[i] = stack[i]
           \/ /\ i = n - 1
              /\ stack[i].kind = "batch"
              /\ stack'[i] = [stack[i] EXCEPT !.results = Append(@, outcome)]
  BY <1>1, EndedFrames
<1>3. \A i \in 1 .. (n - 1) : stack[i] \in Frames
  <2>1. \A i \in 1 .. (n - 1) : i \in 1 .. n
    BY <1>2
  <2>2. QED
    BY <1>1, <2>1, ElementOfSeq
<1> HIDE DEF n
<1>4. ASSUME NEW i \in 1 .. (n - 1) PROVE stack'[i].saved = stack[i].saved
  <2>1. CASE stack'[i] = stack[i]
    BY <2>1
  <2>2. CASE /\ stack[i].kind = "batch"
             /\ stack'[i] = [stack[i] EXCEPT !.results = Append(@, outcome)]
    BY <1>3, <2>2, Noted
  <2>3. QED
    BY <1>2, <2>1, <2>2
<1>5. QED
  BY <1>2, <1>4 DEF n

LEMMA RevertAdvances ==
  ASSUME IInv, SinceOK, stack # <<>>, Restore(Top.saved),
         stack' = Ended("Reverted"), now' = now
  PROVE  Advances
<1>1. stack \in Seq(Frames) /\ Len(stack) \in 1 .. Len(stack)
  BY EmptySeq DEF IInv, StackOK
<1>2. Top.saved \in Worlds
  BY <1>1, ElementOfSeq, FrameTyped DEF Top
<1>3. World' = Top.saved
  BY <1>2, RestoredWorld
<1>4. \A i \in 1 .. Len(stack) : Since(stack[i].saved, World')
  <2>1. ASSUME NEW i \in 1 .. Len(stack)
        PROVE  Since(stack[i].saved, stack[Len(stack)].saved)
    <3>1. i < Len(stack) \/ i = Len(stack)
      BY <1>1
    <3>2. QED
      BY <1>1, <3>1, SinceSelf DEF SinceOK
  <2>2. QED
    BY <1>3, <2>1 DEF Top
<1>5. "Reverted" \in Outcomes
  BY DEF Outcomes
<1>6. now <= now'
  BY DEF IInv
<1>7. QED
  BY <1>1, <1>4, <1>5, <1>6, EndedSaves, OpensNone

(* World' when only the named parts have changed. *)
LEMMA CalmWorlds ==
  ASSUME UNCHANGED <<usedNullifiers, nullifiersToIdentifiers>>,
         DOMAIN tokens' = DOMAIN tokens,
         \A t \in DOMAIN tokens :
           /\ tokens'[t].identifier = tokens[t].identifier
           /\ tokens'[t].nullifier = tokens[t].nullifier,
         \A identifier \in Identifiers :
           \/ sbtOwners'[identifier] = sbtOwners[identifier]
           \/ sbtOwners'[identifier].revoked
  PROVE  Calm(World, World')
<1>1. World.sbtOwners = sbtOwners /\ World'.sbtOwners = sbtOwners'
  BY DEF World
<1>2. QED
  BY <1>1, WorldFields DEF Calm

LEMMA MintReturnsAdvances ==
  ASSUME IInv, SinceOK, MintReturns
  PROVE  Advances
<1> DEFINE k == Top.tid
           uri == sbtOwners[Top.identifier]
<1>1. /\ stack # <<>> /\ stack' = Ended("Ok")
      /\ UNCHANGED <<usedNullifiers, sbtOwners, nullifiersToIdentifiers, now>>
      /\ tokens' = [tokens EXCEPT ![k].uri = uri]
  BY DEF MintReturns
<1>2. tokens \in Seq(Tokens) /\ now \in Nat
  BY WorldTyped DEF IInv
<1> HIDE DEF k, uri
<1>3. \A t \in DOMAIN tokens : tokens[t] \in Tokens
  BY <1>2
<1>4. /\ DOMAIN tokens' = DOMAIN tokens
      /\ \A t \in DOMAIN tokens :
           /\ tokens'[t].identifier = tokens[t].identifier
           /\ tokens'[t].nullifier = tokens[t].nullifier
  BY <1>1, <1>2, <1>3 DEF Tokens
<1>5. Calm(World, World')
  BY <1>1, <1>4, CalmWorlds
<1>6. "Ok" \in Outcomes /\ now <= now'
  BY <1>1, <1>2 DEF Outcomes
<1>7. QED
  BY <1>1, <1>5, <1>6, EndedSaves, CalmAdvances

(* The steps outside of calls, and those of the owner. *)
LEMMA QuietAdvances ==
  ASSUME IInv, SinceOK,
         UNCHANGED <<usedNullifiers, nullifiersToIdentifiers, tokens, stack>>,
         \A identifier \in Identifiers :
           \/ sbtOwners'[identifier] = sbtOwners[identifier]
           \/ sbtOwners'[identifier].revoked,
         now <= now'
  PROVE  Advances
<1>1. Calm(World, World')
  BY CalmWorlds
<1>2. stack \in Seq(Frames) /\ Len(stack) \in Nat
  BY DEF IInv, StackOK
<1>3. QED
  BY <1>1, <1>2, CalmAdvances

LEMMA OwningAdvances ==
  ASSUME IInv, SinceOK, NEW caller \in Accounts, Owning(caller)
  PROVE  Advances
<1>1. now <= now
  BY DEF IInv
<1>2. ASSUME NEW identifier \in Revocable \X Circuits,
             RevokeSBT(caller, identifier)
      PROVE  Advances
  <2>1. identifier \in Identifiers /\ sbtOwners \in [Identifiers -> SBTs]
    BY WorldTyped, HubAccounts DEF Identifiers, Addresses, IInv
  <2>2. sbtOwners' = [sbtOwners EXCEPT ![identifier].revoked = TRUE]
        /\ UNCHANGED <<usedNullifiers, nullifiersToIdentifiers, tokens, stack, now>>
    BY <1>2 DEF RevokeSBT
  <2>3. ASSUME NEW i \in Identifiers
        PROVE  sbtOwners'[i] = sbtOwners[i] \/ sbtOwners'[i].revoked
    BY <2>1, <2>2 DEF SBTs
  <2>4. now <= now'
    BY <1>1, <2>2
  <2>5. QED
    BY <2>2, <2>3, <2>4, QuietAdvances
<1>3. CASE UNCHANGED <<usedNullifiers, nullifiersToIdentifiers, tokens, stack,
                       sbtOwners, now>>
  BY <1>1, <1>3, QuietAdvances
<1>4. QED
  BY <1>2, <1>3 DEF Owning, ChangeVerifier, CollectFees, ChangeOwner

LEMMA BatchAdvances ==
  ASSUME IInv, SinceOK, Batching
  PROVE  Advances
<1>1. ASSUME NEW caller \in Accounts, NEW items \in Batches,
             NEW strict \in BOOLEAN, StartBatch(caller, items, strict)
      PROVE  Advances
  <2> DEFINE f == BatchFrame(items, strict)
  <2>1. f \in Frames /\ f.saved = World
    <3>1. PICK n \in 0 .. MaxItems : items \in [1 .. n -> Presented]
      BY DEF Batches
    <3>2. n \in Nat /\ items \in Seq(Args)
      BY <3>1, PresentedTyped DEF IInv
    <3>3. f \in BatchFrames /\ f.saved = World
      BY <3>2 DEF IInv, BatchFrame, BatchFrames
    <3>4. QED
      BY <3>3 DEF Frames
  <2>2. stack' = Append(stack, f) /\ UNCHANGED <<chainVars, now>>
    BY <1>1 DEF StartBatch
  <2> HIDE DEF f
  <2>3. World' = World /\ now \in Nat
    BY <2>2 DEF chainVars, World, IInv
  <2>4. \A v : Since(v, World) => Since(v, World')
    BY <2>3
  <2>5. QED
    BY <2>1, <2>2, <2>3, <2>4, OpensCall DEF IInv
<1>2. CASE CallItem
  <2> DEFINE item == Top.items[Len(Top.results) + 1]
             error == SetSBTError(item, 0)
  <2>1. /\ InBatch /\ ~Finished(Top)
        /\ \/ error = "Ok" /\ Mint(item, 0)
           \/ /\ error # "Ok"
              /\ stack' = [stack EXCEPT ![Len(stack)].results = Append(@, error)]
              /\ UNCHANGED <<chainVars, now, signed>>
    BY <1>2, Zenon DEF CallItem
  <2>2. stack \in Seq(Frames) /\ Len(stack) \in 1 .. Len(stack)
    BY <2>1, EmptySeq DEF IInv, StackOK, InBatch
  <2>3. Top \in Frames /\ Counts(Top, FALSE)
    BY <2>2, ElementOfSeq DEF Top, IInv, StackOK, Counts
  <2>4. Top \in BatchFrames
    BY <2>1, <2>3, FrameTyped DEF InBatch
  <2>5. /\ Top.items \in Seq(Args) /\ Len(Top.items) \in Nat
        /\ Len(Top.results) \in Nat
    BY <2>4 DEF BatchFrames
  <2>6. Len(Top.results) < Len(Top.items)
    BY <2>1, <2>3, <2>5 DEF Counts, Finished, InBatch
  <2>7. item \in Args
    BY <2>5, <2>6
  <2>8. error \in Outcomes
    BY DEF SetSBTError, Outcomes
  <2> HIDE DEF item, error
  <2>9. CASE error = "Ok" /\ Mint(item, 0)
    BY <2>7, <2>9, MintAdvances DEF error
  <2>10. CASE /\ stack' = [stack EXCEPT ![Len(stack)].results = Append(@, error)]
              /\ UNCHANGED <<chainVars, now, signed>>
    <3> DEFINE g == [Top EXCEPT !.results = Append(@, error)]
    <3>1. stack' = [stack EXCEPT ![Len(stack)] = g]
      BY <2>10 DEF Top
    <3>2. g \in Frames /\ g.saved = Top.saved
      BY <2>1, <2>3, <2>8, Noted DEF InBatch
    <3> HIDE DEF g
    <3>3. /\ stack' \in Seq(Frames) /\ Len(stack') = Len(stack)
          /\ \A i \in 1 .. Len(stack) :
               stack'[i] = IF i = Len(stack) THEN g ELSE stack[i]
      BY <2>2, <3>1, <3>2, Replaced
    <3>4. \A i \in 1 .. Len(stack') : stack'[i].saved = stack[i].saved
      BY <3>2, <3>3 DEF Top
    <3>5. World' = World /\ now' = now
      BY <2>10, Zenon DEF chainVars, World
    <3>6. Calm(World, World') /\ now <= now'
      BY <3>5 DEF Calm, IInv
    <3>7. Len(stack') <= Len(stack)
      BY <2>2, <3>3
    <3>8. QED
      BY <3>3, <3>4, <3>6, <3>7, CalmAdvances
  <2>11. QED
    BY <2>1, <2>9, <2>10
<1>3. CASE BatchReturns
  <2>1. stack # <<>> /\ stack' = Ended("Ok") /\ UNCHANGED <<chainVars, now>>
    BY <1>3 DEF BatchReturns, InBatch
  <2>2. World' = World
    BY <2>1 DEF chainVars, World
  <2>3. Calm(World, World') /\ now <= now'
    BY <2>1, <2>2 DEF Calm, IInv
  <2>4. "Ok" \in Outcomes
    BY DEF Outcomes
  <2>5. QED
    BY <2>1, <2>3, <2>4, EndedSaves, CalmAdvances
<1>4. CASE BatchReverts
  BY <1>4, RevertAdvances DEF BatchReverts, InBatch
<1>5. QED
  BY <1>1, <1>2, <1>3, <1>4 DEF Batching

LEMMA Advancing ==
  ASSUME IInv, SinceOK, [Next \/ Batching]_vars
  PROVE  Advances
<1>0. now \in Nat
  BY DEF IInv
<1>1. ASSUME NEW caller \in Accounts, NEW a \in Presented,
             NEW value \in Fees, SetSBT(caller, a, value)
      PROVE  Advances
  <2>1. a \in Args /\ value \in Nat
    BY PresentedTyped, HubBounds DEF IInv
  <2>2. QED
    BY <1>1, <2>1, MintAdvances DEF SetSBT
<1>2. CASE MintFails
  BY <1>2, RevertAdvances DEF MintFails
<1>3. CASE Tick \/ \E v \in Verifiers, m \in Messages : Sign(v, m)
  <2>1. UNCHANGED chainVars /\ stack' = stack
    BY <1>3, Zenon DEF Tick, Sign
  <2>2. now' = now \/ now' = now + 1
    BY <1>3, Zenon DEF Tick, Sign
  <2>3. now <= now'
    BY <1>0, <2>2
  <2>4. QED
    BY <2>1, <2>3, QuietAdvances DEF chainVars
<1>4. CASE UNCHANGED vars
  <2>1. UNCHANGED <<chainVars, stack, now>>
    BY <1>4 DEF vars
  <2>2. now <= now'
    BY <1>0, <2>1
  <2>3. QED
    BY <2>1, <2>2, QuietAdvances DEF chainVars
<1>5. QED
  BY <1>1, <1>2, <1>3, <1>4, OwningAdvances, MintReturnsAdvances,
     BatchAdvances DEF Next

LEMMA InitSince == Init => SinceOK
BY DEF Init, SinceOK

LEMMA SinceInvariant == BatchSpec => [](IInv /\ SinceOK)
<1>1. IInv /\ SinceOK /\ [Next \/ Batching]_vars => (IInv /\ SinceOK)'
  BY NextIInv, Advancing DEF Advances
<1>2. QED
  BY <1>1, InitIInv, InitSince, PTL DEF BatchSpec

(* An outside observer sees a pair's SBT become valid by nothing but a mint:
   not by revocation, a new owner or verifier, failures or time. *)
LEMMA ReadableSince ==
  ASSUME NEW v \in Worlds, NEW w \in Worlds, Since(v, w),
         NEW identifier \in Identifiers \cup {NoIdentifier},
         NEW before \in Nat, NEW after \in Nat, before <= after,
         LET sbt == SbtAt(v, identifier)
         IN  ~(sbt.expiry >= before /\ ~sbt.revoked),
         LET sbt == SbtAt(w, identifier)
         IN  sbt.expiry >= after /\ ~sbt.revoked
  PROVE  FreshIn(v, w, identifier)
<1> DEFINE old == SbtAt(v, identifier)
           new == SbtAt(w, identifier)
<1>1. old.expiry \in Nat
  <2>1. CASE identifier = NoIdentifier
    BY <2>1 DEF SbtAt, NoSBT
  <2>2. CASE identifier # NoIdentifier
    BY <2>2 DEF SbtAt, Worlds, SBTs
  <2>3. QED
    BY <2>1, <2>2
<1>2. ~(old.expiry >= before /\ ~old.revoked) /\ new.expiry >= after /\ ~new.revoked
  OBVIOUS
<1> HIDE DEF old, new
<1>3. new # old
  BY <1>1, <1>2
<1>4. identifier # NoIdentifier
  BY <1>3 DEF old, new, SbtAt
<1>5. new = w.sbtOwners[identifier] /\ old = v.sbtOwners[identifier]
  BY <1>4 DEF old, new, SbtAt
<1>6. QED
  BY <1>2, <1>3, <1>4, <1>5 DEF Since

LEMMA CommittedTyped == ASSUME IInv PROVE Committed \in Worlds
<1>1. CASE stack = <<>>
  BY <1>1 DEF Committed, IInv
<1>2. CASE stack # <<>>
  <2>1. stack \in Seq(Frames) /\ 1 \in 1 .. Len(stack)
    BY <1>2, EmptySeq DEF IInv, StackOK
  <2>2. QED
    BY <1>2, <2>1, ElementOfSeq, FrameTyped DEF Committed
<1>3. QED
  BY <1>1, <1>2

LEMMA CommittedTypedNext == ASSUME IInv' PROVE Committed' \in Worlds
<1>1. CASE stack' = <<>>
  BY <1>1 DEF Committed, IInv
<1>2. CASE stack' # <<>>
  <2>1. stack' \in Seq(Frames) /\ 1 \in 1 .. Len(stack')
    BY <1>2, EmptySeq DEF IInv, StackOK
  <2>2. stack'[1] \in Frames
    BY <2>1, ElementOfSeq
  <2>3. QED
    BY <1>2, <2>2, FrameTyped DEF Committed
<1>3. QED
  BY <1>1, <1>2

LEMMA Readability ==
  ASSUME IInv, IInv', Advances
  PROVE  /\ \A identifier \in Identifiers :
              ~GetSBT(Committed, identifier) /\ GetSBT(Committed, identifier)' =>
                FreshlyMinted(identifier)
         /\ \A n \in Nullifiers :
              ~GetSBTByNullifier(Committed, n) /\ GetSBTByNullifier(Committed, n)' =>
                FreshlyMinted(Committed'.nullifiersToIdentifiers[n])
<1> DEFINE v == Committed
           w == Committed'
<1>1. v \in Worlds /\ w \in Worlds
  BY CommittedTyped, CommittedTypedNext
<1>2. Since(v, w) /\ now \in Nat /\ now' \in Nat /\ now <= now'
  BY DEF Advances, IInv
<1>3. \A identifier : FreshIn(v, w, identifier) => FreshlyMinted(identifier)
  BY DEF FreshIn, FreshlyMinted
<1>4. /\ \A identifier : GetSBT(Committed, identifier) <=>
           SbtAt(v, identifier).expiry >= now /\ ~SbtAt(v, identifier).revoked
      /\ \A identifier : GetSBT(Committed, identifier)' <=>
           SbtAt(w, identifier).expiry >= now' /\ ~SbtAt(w, identifier).revoked
  BY DEF GetSBT, Readable, SbtAt, NoSBT
<1>5. /\ \A n \in Nullifiers : GetSBTByNullifier(Committed, n) <=>
           LET i == v.nullifiersToIdentifiers[n]
           IN  SbtAt(v, i).expiry >= now /\ ~SbtAt(v, i).revoked
      /\ \A n \in Nullifiers : GetSBTByNullifier(Committed, n)' <=>
           LET i == w.nullifiersToIdentifiers[n]
           IN  SbtAt(w, i).expiry >= now' /\ ~SbtAt(w, i).revoked
  BY DEF GetSBTByNullifier, GetSBT, Readable, SbtAt, NoSBT
<1>6. \A n \in Nullifiers :
        w.nullifiersToIdentifiers[n] \in Identifiers \cup {NoIdentifier}
  BY <1>1 DEF Worlds
<1>7. \A n \in Nullifiers :
        \/ w.nullifiersToIdentifiers[n] = v.nullifiersToIdentifiers[n]
        \/ FreshIn(v, w, w.nullifiersToIdentifiers[n])
  BY <1>2 DEF Since
<1> HIDE DEF v, w
<1>8. ASSUME NEW identifier \in Identifiers,
             ~GetSBT(Committed, identifier), GetSBT(Committed, identifier)'
      PROVE  FreshlyMinted(identifier)
  BY <1>1, <1>2, <1>3, <1>4, <1>8, ReadableSince
<1>9. ASSUME NEW n \in Nullifiers,
             ~GetSBTByNullifier(Committed, n), GetSBTByNullifier(Committed, n)'
      PROVE  FreshlyMinted(w.nullifiersToIdentifiers[n])
  <2>1. CASE w.nullifiersToIdentifiers[n] = v.nullifiersToIdentifiers[n]
    BY <1>1, <1>2, <1>3, <1>5, <1>6, <1>9, <2>1, ReadableSince
  <2>2. CASE FreshIn(v, w, w.nullifiersToIdentifiers[n])
    BY <1>3, <2>2
  <2>3. QED
    BY <1>7, <2>1, <2>2
<1>10. QED
  BY <1>8, <1>9 DEF w

(* Whatever is nested, undone, revoked or handed over: a pair or a nullifier
   that getSBT and getSBTByNullifier refuse is served again only after a
   transaction with a fresh mint for it. *)
THEOREM ReadableByMint == BatchSpec => ReadableOnlyByMint
<1>1. IInv /\ SinceOK /\ [Next \/ Batching]_vars =>
        [/\ \A identifier \in Identifiers :
              ~GetSBT(Committed, identifier) /\ GetSBT(Committed, identifier)' =>
                FreshlyMinted(identifier)
         /\ \A n \in Nullifiers :
              ~GetSBTByNullifier(Committed, n) /\ GetSBTByNullifier(Committed, n)' =>
                FreshlyMinted(Committed'.nullifiersToIdentifiers[n])]_vars
  BY NextIInv, Advancing, Readability
<1>2. QED
  BY <1>1, SinceInvariant, PTL DEF BatchSpec, ReadableOnlyByMint

(* The same of the Hub alone. *)
THEOREM ReadableByMintAlone == Spec => ReadableOnlyByMint
BY ReadableByMint, HubAlone, PTL

-----------------------------------------------------------------------------
(* What is minted was signed *)

(* Arguments whose signer is the verifier are what the verifier signed. *)
LEMMA SignedArgs ==
  ASSUME SignedOK, NEW a \in Presented, a.signer # NoSigner
  PROVE  \E s \in signed :
           /\ s.by = a.signer /\ s.message.chain = Chain
           /\ s.message.fee = a.fee /\ s.message.nullifier = a.nullifier
           /\ s.message.values = a.values
           /\ s.message.expiration = a.expiration
           /\ s.message.reciever = a.reciever /\ s.message.circuit = a.circuit
<1>1. PICK m \in {s.message : s \in signed} :
        a \in {[circuit |-> m.circuit, reciever |-> m.reciever,
                expiration |-> m.expiration, fee |-> m.fee,
                nullifier |-> m.nullifier, values |-> m.values, signer |-> o] :
                 o \in Signers([m EXCEPT !.chain = Chain])}
  BY DEF Presented
<1>2. PICK o \in Signers([m EXCEPT !.chain = Chain]) :
        a = [circuit |-> m.circuit, reciever |-> m.reciever,
             expiration |-> m.expiration, fee |-> m.fee,
             nullifier |-> m.nullifier, values |-> m.values, signer |-> o]
  BY <1>1
<1>3. PICK s \in signed : s.by = o /\ s.message = [m EXCEPT !.chain = Chain]
  BY <1>2 DEF Signers
<1>4. m \in Messages
  BY DEF SignedOK
<1>5. /\ s.message.chain = Chain /\ s.message.circuit = m.circuit
      /\ s.message.reciever = m.reciever
      /\ s.message.expiration = m.expiration /\ s.message.fee = m.fee
      /\ s.message.nullifier = m.nullifier /\ s.message.values = m.values
  BY <1>3, <1>4 DEF Messages
<1>6. /\ a.circuit = m.circuit /\ a.reciever = m.reciever
      /\ a.expiration = m.expiration /\ a.fee = m.fee
      /\ a.nullifier = m.nullifier /\ a.values = m.values /\ a.signer = o
  BY <1>2
<1>7. QED
  BY <1>3, <1>5, <1>6

(* No token but by a signature of the verifier in office, for this chain, its
   fee, its receiver and its expiry; a revert brings no token back. *)
THEOREM MintsSigned == Spec => MintedAsSigned
<1>1. ASSUME IInv, SinceOK, Next, Len(tokens') > Len(tokens)
      PROVE  \E caller \in Accounts, a \in Presented, value \in Fees :
               SetSBT(caller, a, value)
  <2>1. tokens \in Seq(Tokens) /\ Len(tokens) \in Nat
    BY <1>1, WorldTyped DEF IInv
  <2>2. tokens' # tokens
    BY <1>1, <2>1
  <2>3. ~MintReturns
    <3>1. SUFFICES ASSUME MintReturns PROVE FALSE
      OBVIOUS
    <3>2. tokens' = [tokens EXCEPT ![Top.tid].uri = sbtOwners[Top.identifier]]
      BY <3>1 DEF MintReturns
    <3>3. Len(tokens') = Len(tokens)
      BY <2>1, <3>2
    <3>4. QED
      BY <1>1, <2>1, <3>3
  <2>4. ~MintFails
    <3>1. SUFFICES ASSUME MintFails PROVE FALSE
      OBVIOUS
    <3>2. stack # <<>> /\ tokens' = Top.saved.tokens
      BY <3>1 DEF MintFails, Restore
    <3>3. stack \in Seq(Frames) /\ Len(stack) \in 1 .. Len(stack)
      BY <1>1, <3>2, EmptySeq DEF IInv, StackOK
    <3>4. Top.saved \in Worlds
      BY <3>3, ElementOfSeq, FrameTyped DEF Top
    <3>5. Since(Top.saved, World)
      BY <1>1, <3>3 DEF SinceOK, Top
    <3>6. DOMAIN tokens' \subseteq DOMAIN tokens
      BY <3>2, <3>5, WorldFields DEF Since
    <3>7. tokens' \in Seq(Tokens)
      BY <3>2, <3>4 DEF Worlds
    <3>8. /\ Len(tokens') \in Nat /\ DOMAIN tokens' = 1 .. Len(tokens')
          /\ DOMAIN tokens = 1 .. Len(tokens)
      BY <2>1, <3>7
    <3>9. Len(tokens') <= Len(tokens)
      BY <2>1, <3>6, <3>8
    <3>10. QED
      BY <1>1, <2>1, <3>8, <3>9
  <2>5. ~Tick /\ \A k \in Verifiers, m \in Messages : ~Sign(k, m)
    BY <2>2 DEF Tick, Sign, chainVars
  <2>6. \A caller \in Accounts : ~Owning(caller)
    BY <2>2 DEF Owning, RevokeSBT, ChangeVerifier, CollectFees, ChangeOwner
  <2>7. QED
    BY <1>1, <2>3, <2>4, <2>5, <2>6 DEF Next
<1>2. ASSUME IInv, SinceOK, Next, Len(tokens') > Len(tokens)
      PROVE  LET token == tokens'[Len(tokens')]
             IN  \E s \in signed :
                   /\ s.by = verifier /\ s.message.chain = Chain
                   /\ s.message.fee = token.fee
                   /\ s.message.nullifier = token.nullifier
                   /\ s.message.values = token.sbt.values
                   /\ s.message.expiration = token.sbt.expiry
                   /\ <<AddressOf(s.message.reciever), s.message.circuit>>
                        = token.identifier
                   /\ token.to = token.identifier[1]
  <2>1. PICK caller \in Accounts, a \in Presented, value \in Fees :
          SetSBT(caller, a, value)
    BY <1>1, <1>2
  <2>2. tokens \in Seq(Tokens) /\ verifier \in Verifiers \cup {ZeroAddress}
    BY <1>2, WorldTyped DEF IInv
  <2>3. a.signer = verifier /\ a.signer # NoSigner
    BY <2>1, <2>2, HubAccounts DEF SetSBT, SetSBTError
  <2> DEFINE identifier == <<AddressOf(a.reciever), a.circuit>>
             sbt == [expiry |-> a.expiration, values |-> a.values,
                     revoked |-> FALSE]
             token == [to |-> AddressOf(a.reciever), uri |-> NoURI, sbt |-> sbt,
                       identifier |-> identifier, nullifier |-> a.nullifier,
                       fee |-> a.fee]
  <2>4. tokens' = Append(tokens, token)
    BY <2>1 DEF SetSBT, Mint
  <2>5. tokens'[Len(tokens')] = token
    <3> HIDE DEF token
    <3>1. QED
      BY <2>2, <2>4
  <2>6. PICK s \in signed :
           /\ s.by = a.signer /\ s.message.chain = Chain
           /\ s.message.fee = a.fee /\ s.message.nullifier = a.nullifier
           /\ s.message.values = a.values
           /\ s.message.expiration = a.expiration
           /\ s.message.reciever = a.reciever /\ s.message.circuit = a.circuit
    BY <1>2, <2>3, SignedArgs DEF IInv
  <2>7. /\ token.fee = a.fee /\ token.nullifier = a.nullifier
        /\ token.sbt.values = a.values /\ token.sbt.expiry = a.expiration
        /\ token.identifier = <<AddressOf(a.reciever), a.circuit>>
        /\ token.to = token.identifier[1]
    OBVIOUS
  <2> HIDE DEF token
  <2>8. QED
    BY <2>3, <2>5, <2>6, <2>7
<1>3. IInv /\ SinceOK /\ [Next]_vars =>
        [Len(tokens') > Len(tokens) =>
           LET token == tokens'[Len(tokens')]
           IN  \E s \in signed :
                 /\ s.by = verifier /\ s.message.chain = Chain
                 /\ s.message.fee = token.fee
                 /\ s.message.nullifier = token.nullifier
                 /\ s.message.values = token.sbt.values
                 /\ s.message.expiration = token.sbt.expiry
                 /\ <<AddressOf(s.message.reciever), s.message.circuit>>
                      = token.identifier
                 /\ token.to = token.identifier[1]]_vars
  BY <1>2
<1>4. QED
  BY <1>3, HubAlone, SinceInvariant, PTL DEF Spec, MintedAsSigned

-----------------------------------------------------------------------------
(* The newest token of a pair *)

(* The tokens of the mints among the first n of the calls s. *)
Opens(s, n) == {s[i].tid : i \in {j \in 1 .. n : s[j].kind = "mint"}}

(* The newest tokens of w have the claims of its SBTs, and so have their URIs,
   but for the tokens `open` whose mints are to set them. *)
Current(w, open) ==
  \A identifier \in Identifiers : \A t \in NewestFor(w, identifier) :
    /\ SameClaim(w.tokens[t].sbt, w.sbtOwners[identifier])
    /\ t \notin open => SameClaim(w.tokens[t].uri, w.sbtOwners[identifier])

(* The token of a mint that is open is one for its pair. *)
NamesPair(f, toks) == f.kind = "mint" => toks[f.tid].identifier = f.identifier

CurrentOK ==
  /\ Current(World, Opens(stack, Len(stack)))
  /\ \A i \in 1 .. Len(stack) :
       /\ Current(stack[i].saved, Opens(stack, i - 1))
       /\ NamesPair(stack[i], tokens)
       /\ \A j \in 1 .. Len(stack) :
            i < j => NamesPair(stack[i], stack[j].saved.tokens)

(* A frame that has at most learnt how an item ended. *)
Keeps(g, f) == /\ g.kind = f.kind /\ g.saved = f.saved
               /\ f.kind = "mint" => g = f

LEMMA OpensKept ==
  ASSUME NEW s, NEW r, NEW n \in Nat, \A i \in 1 .. n : Keeps(r[i], s[i])
  PROVE  Opens(r, n) = Opens(s, n)
<1>1. {j \in 1 .. n : r[j].kind = "mint"} = {j \in 1 .. n : s[j].kind = "mint"}
  BY DEF Keeps
<1>2. \A j \in 1 .. n : s[j].kind = "mint" => r[j].tid = s[j].tid
  BY DEF Keeps
<1>3. QED
  BY <1>1, <1>2 DEF Opens

LEMMA OpensUpTo ==
  ASSUME NEW s, NEW n \in Nat \ {0}
  PROVE  Opens(s, n) = Opens(s, n - 1)
                         \cup (IF s[n].kind = "mint" THEN {s[n].tid} ELSE {})
<1>1. \A j : j \in 1 .. n <=> j \in 1 .. (n - 1) \/ j = n
  OBVIOUS
<1>2. QED
  BY <1>1 DEF Opens

LEMMA NamesPairKept ==
  ASSUME NEW g, NEW f, NEW toks, Keeps(g, f), NamesPair(f, toks)
  PROVE  NamesPair(g, toks)
BY DEF Keeps, NamesPair

(* A step that opens no call, and may end the one on top. *)
LEMMA CurrentCloses ==
  ASSUME IInv, CurrentOK, stack' \in Seq(Frames), Len(stack') <= Len(stack),
         \A i \in 1 .. Len(stack') : Keeps(stack'[i], stack[i]),
         \A i \in 1 .. Len(stack') : NamesPair(stack[i], tokens'),
         Current(World', Opens(stack, Len(stack')))
  PROVE  CurrentOK'
<1> DEFINE n == Len(stack)
           m == Len(stack')
<1>1. n \in Nat /\ m \in Nat /\ m <= n
  BY DEF IInv, StackOK
<1>2. \A i \in 1 .. m : Keeps(stack'[i], stack[i])
  OBVIOUS
<1>3. /\ \A i \in 1 .. n : Current(stack[i].saved, Opens(stack, i - 1))
      /\ \A i, j \in 1 .. n : i < j => NamesPair(stack[i], stack[j].saved.tokens)
  BY DEF CurrentOK
<1>4. Current(World', Opens(stack, m)) /\ \A i \in 1 .. m : NamesPair(stack[i], tokens')
  OBVIOUS
<1> HIDE DEF n, m
<1>5. \A i \in 1 .. m : i \in 1 .. n
  BY <1>1
<1>6. \A k \in 0 .. m : Opens(stack', k) = Opens(stack, k)
  <2>1. ASSUME NEW k \in 0 .. m PROVE Opens(stack', k) = Opens(stack, k)
    <3>1. k \in Nat /\ \A i \in 1 .. k : i \in 1 .. m
      BY <1>1
    <3>2. QED
      BY <1>2, <3>1, OpensKept
  <2>2. QED
    BY <2>1
<1>7. ASSUME NEW i \in 1 .. m
      PROVE  /\ Current(stack'[i].saved, Opens(stack', i - 1))
             /\ NamesPair(stack'[i], tokens')
             /\ \A j \in 1 .. m :
                  i < j => NamesPair(stack'[i], stack'[j].saved.tokens)
  <2>1. i - 1 \in 0 .. m
    BY <1>1
  <2>2. Current(stack'[i].saved, Opens(stack', i - 1))
    BY <1>2, <1>3, <1>5, <1>6, <2>1 DEF Keeps
  <2>3. NamesPair(stack'[i], tokens')
    BY <1>2, <1>4, NamesPairKept
  <2>4. ASSUME NEW j \in 1 .. m, i < j
        PROVE  NamesPair(stack'[i], stack'[j].saved.tokens)
    <3>1. NamesPair(stack[i], stack[j].saved.tokens)
      BY <1>3, <1>5, <2>4
    <3>2. stack'[j].saved = stack[j].saved
      BY <1>2 DEF Keeps
    <3>3. QED
      BY <1>2, <3>1, <3>2, NamesPairKept
  <2>5. QED
    BY <2>2, <2>3, <2>4
<1>8. Current(World', Opens(stack', m))
  BY <1>1, <1>4, <1>6
<1>9. QED
  BY <1>7, <1>8 DEF CurrentOK, m

(* What is left of the calls when the one on top ends. *)
LEMMA EndedKeeps ==
  ASSUME IInv, stack # <<>>, NEW outcome \in Outcomes, stack' = Ended(outcome)
  PROVE  /\ Len(stack) \in Nat \ {0}
         /\ stack' \in Seq(Frames) /\ Len(stack') = Len(stack) - 1
         /\ \A i \in 1 .. Len(stack') : Keeps(stack'[i], stack[i])
<1> DEFINE n == Len(stack)
<1>1. stack \in Seq(Frames)
  BY DEF IInv, StackOK
<1>2. /\ n \in Nat \ {0} /\ stack' \in Seq(Frames) /\ Len(stack') = n - 1
      /\ \A i \in 1 .. (n - 1) :
           \/ stack'[i] = stack[i]
           \/ /\ i = n - 1
              /\ stack[i].kind = "batch"
              /\ stack'[i] = [stack[i] EXCEPT !.results = Append(@, outcome)]
  BY <1>1, EndedFrames
<1>3. \A i \in 1 .. (n - 1) : stack[i] \in Frames
  <2>1. \A i \in 1 .. (n - 1) : i \in 1 .. n
    BY <1>2
  <2>2. QED
    BY <1>1, <2>1, ElementOfSeq
<1> HIDE DEF n
<1>4. ASSUME NEW i \in 1 .. (n - 1) PROVE Keeps(stack'[i], stack[i])
  <2>1. CASE stack'[i] = stack[i]
    BY <2>1 DEF Keeps
  <2>2. CASE /\ stack[i].kind = "batch"
             /\ stack'[i] = [stack[i] EXCEPT !.results = Append(@, outcome)]
    BY <1>3, <2>2, Noted DEF Keeps
  <2>3. QED
    BY <1>2, <2>1, <2>2
<1>5. QED
  BY <1>2, <1>4 DEF n

(* A call that opens. *)
LEMMA CurrentOpens ==
  ASSUME IInv, CurrentOK, NEW f \in Frames, f.saved = World,
         stack' = Append(stack, f),
         \A t \in DOMAIN tokens : tokens'[t].identifier = tokens[t].identifier,
         NamesPair(f, tokens'),
         Current(World', Opens(stack, Len(stack))
                           \cup (IF f.kind = "mint" THEN {f.tid} ELSE {}))
  PROVE  CurrentOK'
<1> DEFINE n == Len(stack)
<1>1. stack \in Seq(Frames)
  BY DEF IInv, StackOK
<1>2. /\ Len(stack') = n + 1 /\ n \in Nat
      /\ \A i \in 1 .. n : stack'[i] = stack[i]
      /\ stack'[n + 1] = f
  BY <1>1, Appended
<1>3. /\ \A i \in 1 .. n : Current(stack[i].saved, Opens(stack, i - 1))
      /\ \A i, j \in 1 .. n : i < j => NamesPair(stack[i], stack[j].saved.tokens)
      /\ \A i \in 1 .. n : NamesPair(stack[i], tokens)
      /\ Current(World, Opens(stack, n))
  BY DEF CurrentOK
<1>4. \A i \in 1 .. n : Names(stack[i], tokens)
  BY DEF IInv, StackOK
<1>5. World.tokens = tokens
  BY WorldFields
<1>6. Current(World', Opens(stack, n) \cup (IF f.kind = "mint" THEN {f.tid} ELSE {}))
  OBVIOUS
<1> HIDE DEF n
<1>7. \A i \in 1 .. n : NamesPair(stack[i], tokens')
  BY <1>3, <1>4 DEF Names, NamesPair
<1>8. \A k \in 0 .. n : Opens(stack', k) = Opens(stack, k)
  <2>1. ASSUME NEW k \in 0 .. n PROVE Opens(stack', k) = Opens(stack, k)
    <3>1. k \in Nat /\ \A i \in 1 .. k : i \in 1 .. n
      BY <1>2
    <3>2. \A i \in 1 .. k : Keeps(stack'[i], stack[i])
      BY <1>2, <3>1 DEF Keeps
    <3>3. QED
      BY <3>1, <3>2, OpensKept
  <2>2. QED
    BY <2>1
<1>9. Current(World', Opens(stack', n + 1))
  <2>1. n + 1 \in Nat \ {0} /\ (n + 1) - 1 = n /\ n \in 0 .. n
    BY <1>2
  <2>2. Opens(stack', n + 1)
          = Opens(stack, n) \cup (IF f.kind = "mint" THEN {f.tid} ELSE {})
    <3>1. Opens(stack', n + 1)
            = Opens(stack', (n + 1) - 1)
                \cup (IF stack'[n + 1].kind = "mint" THEN {stack'[n + 1].tid}
                      ELSE {})
      BY <2>1, OpensUpTo
    <3>2. Opens(stack', (n + 1) - 1) = Opens(stack, n)
      BY <1>8, <2>1
    <3>3. QED
      BY <1>2, <3>1, <3>2
  <2>3. QED
    BY <1>6, <2>2
<1>10. ASSUME NEW i \in 1 .. (n + 1)
       PROVE  /\ Current(stack'[i].saved, Opens(stack', i - 1))
              /\ NamesPair(stack'[i], tokens')
              /\ \A j \in 1 .. (n + 1) :
                   i < j => NamesPair(stack'[i], stack'[j].saved.tokens)
  <2>1. i - 1 \in 0 .. n
    BY <1>2
  <2>2. CASE i \in 1 .. n
    <3>1. stack'[i] = stack[i]
      BY <1>2, <2>2
    <3>2. ASSUME NEW j \in 1 .. (n + 1), i < j
          PROVE  NamesPair(stack[i], stack'[j].saved.tokens)
      <4>1. CASE j \in 1 .. n
        BY <1>2, <1>3, <2>2, <3>2, <4>1
      <4>2. CASE j = n + 1
        BY <1>2, <1>3, <1>5, <2>2, <4>2
      <4>3. QED
        BY <1>2, <4>1, <4>2
    <3>3. QED
      BY <1>3, <1>7, <1>8, <2>1, <2>2, <3>1, <3>2
  <2>3. CASE i = n + 1
    <3>1. stack'[i] = f /\ i - 1 = n /\ \A j \in 1 .. (n + 1) : ~(i < j)
      BY <1>2, <2>3
    <3>2. QED
      BY <1>3, <1>8, <2>1, <3>1
  <2>4. QED
    BY <1>2, <2>2, <2>3
<1>11. QED
  BY <1>2, <1>9, <1>10 DEF CurrentOK

(* The newest tokens are told by pairs alone. *)
LEMMA NewestSame ==
  ASSUME NEW w, NEW x, NEW identifier, DOMAIN x.tokens = DOMAIN w.tokens,
         \A t \in DOMAIN w.tokens : x.tokens[t].identifier = w.tokens[t].identifier
  PROVE  NewestFor(x, identifier) = NewestFor(w, identifier)
BY DEF NewestFor

LEMMA CurrentMint ==
  ASSUME IInv, CurrentOK, NEW a \in Args, NEW value \in Nat,
         SetSBTError(a, value) = "Ok", Mint(a, value)
  PROVE  CurrentOK'
<1> DEFINE pair == <<AddressOf(a.reciever), a.circuit>>
           sbt == [expiry |-> a.expiration, values |-> a.values,
                   revoked |-> FALSE]
           token == [to |-> AddressOf(a.reciever), uri |-> NoURI, sbt |-> sbt,
                     identifier |-> pair, nullifier |-> a.nullifier,
                     fee |-> a.fee]
           n == Len(tokens)
           f == MintFrame(a, n + 1)
           open == Opens(stack, Len(stack))
<1>1. /\ sbtOwners' = [sbtOwners EXCEPT ![pair] = sbt]
      /\ tokens' = Append(tokens, token)
      /\ stack' = Append(stack, f)
  BY DEF Mint
<1>2. sbtOwners \in [Identifiers -> SBTs] /\ tokens \in Seq(Tokens)
  BY WorldTyped DEF IInv
<1>3. pair \in Identifiers
  BY ArgsTyped DEF Identifiers
<1>4. token.identifier = pair /\ token.sbt = sbt
  OBVIOUS
<1>5. /\ f \in Frames /\ f.saved = World /\ f.kind = "mint" /\ f.tid = n + 1
      /\ f.identifier = pair
  <2>1. n + 1 \in Nat
    BY <1>2
  <2>2. f \in MintFrames /\ f.saved = World /\ f.kind = "mint" /\ f.tid = n + 1
        /\ f.identifier = pair
    BY <2>1, ArgsTyped DEF IInv, MintFrame, MintFrames, Identifiers
  <2>3. QED
    BY <2>2 DEF Frames
<1> HIDE DEF token, sbt, pair, f
<1>6. /\ n \in Nat
      /\ DOMAIN tokens = 1 .. n /\ DOMAIN tokens' = 1 .. (n + 1)
      /\ \A u \in 1 .. n : tokens'[u] = tokens[u]
      /\ tokens'[n + 1] = token
  BY <1>1, <1>2
<1>7. Current(World, open)
  BY DEF CurrentOK
<1>8. World.sbtOwners = sbtOwners /\ World'.sbtOwners = sbtOwners'
  BY DEF World
<1> HIDE DEF n, open
<1>9. ASSUME NEW identifier \in Identifiers,
             NEW t \in NewestFor(World', identifier)
      PROVE  /\ SameClaim(tokens'[t].sbt, sbtOwners'[identifier])
             /\ t \notin open \cup {n + 1} =>
                  SameClaim(tokens'[t].uri, sbtOwners'[identifier])
  <2>1. /\ t \in 1 .. (n + 1) /\ tokens'[t].identifier = identifier
        /\ \A u \in 1 .. (n + 1) : tokens'[u].identifier = identifier => u <= t
    BY <1>6, WorldFields DEF NewestFor
  <2>2. n + 1 \in 1 .. (n + 1) /\ (1 .. n) \subseteq 1 .. (n + 1)
    BY <1>6
  <2>3. CASE identifier = pair
    <3>1. t = n + 1
      BY <1>4, <1>6, <2>1, <2>2, <2>3
    <3>2. sbtOwners'[identifier] = sbt
      BY <1>1, <1>2, <1>3, <2>3
    <3>3. QED
      BY <1>4, <1>6, <3>1, <3>2 DEF SameClaim
  <2>4. CASE identifier # pair
    <3>1. t \in 1 .. n
      BY <1>4, <1>6, <2>1, <2>4
    <3>2. tokens'[t] = tokens[t] /\ sbtOwners'[identifier] = sbtOwners[identifier]
      BY <1>1, <1>2, <1>6, <2>4, <3>1
    <3>3. t \in NewestFor(World, identifier)
      BY <1>6, <2>1, <2>2, <3>1, WorldFields DEF NewestFor
    <3>4. QED
      BY <1>7, <1>8, <3>2, <3>3, WorldFields DEF Current
  <2>5. QED
    BY <2>3, <2>4
<1>10. Current(World', open \cup {n + 1})
  BY <1>8, <1>9, WorldFields DEF Current
<1>11. NamesPair(f, tokens')
  BY <1>4, <1>5, <1>6 DEF NamesPair
<1>12. QED
  BY <1>1, <1>5, <1>6, <1>10, <1>11, CurrentOpens DEF open

(* A step that mints nothing, opens nothing and leaves the claims. *)
LEMMA CurrentQuiet ==
  ASSUME IInv, CurrentOK, tokens' = tokens,
         \A identifier \in Identifiers :
           SameClaim(sbtOwners'[identifier], sbtOwners[identifier]),
         stack' \in Seq(Frames), Len(stack') <= Len(stack),
         \A i \in 1 .. Len(stack') : Keeps(stack'[i], stack[i]),
         Opens(stack, Len(stack)) = Opens(stack, Len(stack'))
  PROVE  CurrentOK'
<1>1. Current(World, Opens(stack, Len(stack)))
  BY DEF CurrentOK
<1>2. World.sbtOwners = sbtOwners /\ World'.sbtOwners = sbtOwners'
  BY DEF World
<1>3. \A identifier : NewestFor(World', identifier) = NewestFor(World, identifier)
  BY WorldFields, NewestSame
<1>4. Current(World', Opens(stack, Len(stack')))
  BY <1>1, <1>2, <1>3, WorldFields DEF Current, SameClaim
<1>5. Len(stack) \in Nat /\ Len(stack') \in Nat
  BY DEF IInv, StackOK
<1>6. \A i \in 1 .. Len(stack) : NamesPair(stack[i], tokens')
  BY DEF CurrentOK
<1>7. \A i \in 1 .. Len(stack') : NamesPair(stack[i], tokens')
  BY <1>5, <1>6
<1>8. QED
  BY <1>4, <1>7, CurrentCloses

LEMMA CurrentReverts ==
  ASSUME IInv, CurrentOK, stack # <<>>, Restore(Top.saved),
         stack' = Ended("Reverted")
  PROVE  CurrentOK'
<1> DEFINE n == Len(stack)
<1>1. "Reverted" \in Outcomes
  BY DEF Outcomes
<1>2. /\ n \in Nat \ {0} /\ stack' \in Seq(Frames) /\ Len(stack') = n - 1
      /\ \A i \in 1 .. Len(stack') : Keeps(stack'[i], stack[i])
  BY <1>1, EndedKeeps
<1>3. n \in 1 .. n /\ stack \in Seq(Frames)
  BY <1>2 DEF IInv, StackOK
<1>4. Top.saved \in Worlds
  BY <1>3, ElementOfSeq, FrameTyped DEF Top
<1>5. World' = stack[n].saved /\ tokens' = stack[n].saved.tokens
  BY <1>4, RestoredWorld DEF Top, Restore
<1>6. /\ Current(stack[n].saved, Opens(stack, n - 1))
      /\ \A i \in 1 .. n : i < n => NamesPair(stack[i], stack[n].saved.tokens)
  BY <1>3 DEF CurrentOK
<1> HIDE DEF n
<1>7. \A i \in 1 .. (n - 1) : NamesPair(stack[i], tokens')
  BY <1>2, <1>5, <1>6
<1>8. Len(stack') <= n
  BY <1>2
<1>9. QED
  BY <1>2, <1>5, <1>6, <1>7, <1>8, CurrentCloses DEF n

LEMMA CurrentReturns ==
  ASSUME IInv, CurrentOK, MintReturns
  PROVE  CurrentOK'
<1> DEFINE n == Len(stack)
           k == Top.tid
           uri == sbtOwners[Top.identifier]
<1>1. /\ stack # <<>> /\ Top.kind = "mint" /\ stack' = Ended("Ok")
      /\ sbtOwners' = sbtOwners
      /\ tokens' = [tokens EXCEPT ![k].uri = uri]
  BY Zenon DEF MintReturns
<1>2. "Ok" \in Outcomes
  BY DEF Outcomes
<1>3. /\ n \in Nat \ {0} /\ stack' \in Seq(Frames) /\ Len(stack') = n - 1
      /\ \A i \in 1 .. Len(stack') : Keeps(stack'[i], stack[i])
  BY <1>1, <1>2, EndedKeeps
<1>4. n \in 1 .. n
  BY <1>3
<1>5. /\ tokens[k].identifier = Top.identifier
      /\ \A i \in 1 .. n : NamesPair(stack[i], tokens) /\ Names(stack[i], tokens)
      /\ Current(World, Opens(stack, n))
  BY <1>1, <1>4 DEF CurrentOK, IInv, StackOK, NamesPair, Top
<1>6. Opens(stack, n) = Opens(stack, n - 1) \cup {k}
  BY <1>1, <1>3, OpensUpTo DEF Top
<1>7. tokens \in Seq(Tokens)
  BY WorldTyped DEF IInv
<1> HIDE DEF n, k, uri
<1>8. /\ DOMAIN tokens' = DOMAIN tokens
      /\ \A t \in DOMAIN tokens :
           /\ tokens'[t].identifier = tokens[t].identifier
           /\ tokens'[t].sbt = tokens[t].sbt
           /\ tokens'[t].uri = IF t = k THEN uri ELSE tokens[t].uri
  <2>1. \A t \in DOMAIN tokens : tokens[t] \in Tokens
    BY <1>7
  <2>2. QED
    BY <1>1, <1>7, <2>1 DEF Tokens
<1>9. World.sbtOwners = sbtOwners /\ World'.sbtOwners = sbtOwners
  BY <1>1 DEF World
<1>10. \A identifier : NewestFor(World', identifier) = NewestFor(World, identifier)
  BY <1>8, WorldFields, NewestSame
<1>11. ASSUME NEW identifier \in Identifiers,
              NEW t \in NewestFor(World, identifier)
       PROVE  /\ SameClaim(tokens'[t].sbt, sbtOwners[identifier])
              /\ t \notin Opens(stack, n - 1) =>
                   SameClaim(tokens'[t].uri, sbtOwners[identifier])
  <2>1. t \in DOMAIN tokens /\ tokens[t].identifier = identifier
    BY WorldFields DEF NewestFor
  <2>2. /\ SameClaim(tokens[t].sbt, sbtOwners[identifier])
        /\ t \notin Opens(stack, n) =>
             SameClaim(tokens[t].uri, sbtOwners[identifier])
    BY <1>5, <1>9, WorldFields DEF Current
  <2>3. CASE t = k
    <3>1. uri = sbtOwners[identifier]
      BY <1>5, <2>1, <2>3 DEF uri
    <3>2. QED
      BY <1>8, <2>1, <2>2, <2>3, <3>1 DEF SameClaim
  <2>4. CASE t # k
    BY <1>6, <1>8, <2>1, <2>2, <2>4
  <2>5. QED
    BY <2>3, <2>4
<1>12. Current(World', Opens(stack, n - 1))
  BY <1>9, <1>10, <1>11, WorldFields DEF Current
<1>13. \A i \in 1 .. n : NamesPair(stack[i], tokens')
  BY <1>5, <1>8 DEF Names, NamesPair
<1>14. \A i \in 1 .. (n - 1) : NamesPair(stack[i], tokens')
  BY <1>3, <1>13
<1>15. n - 1 <= n
  BY <1>3
<1>16. QED
  BY <1>3, <1>12, <1>14, <1>15, CurrentCloses DEF n

(* A step that leaves the tokens, the claims and the calls that are open. *)
LEMMA CurrentStill ==
  ASSUME IInv, CurrentOK, tokens' = tokens, stack' = stack,
         \A identifier \in Identifiers :
           SameClaim(sbtOwners'[identifier], sbtOwners[identifier])
  PROVE  CurrentOK'
<1>1. stack' \in Seq(Frames) /\ Len(stack') = Len(stack) /\ Len(stack) \in Nat
  BY DEF IInv, StackOK
<1>2. \A i \in 1 .. Len(stack') : Keeps(stack'[i], stack[i])
  BY DEF Keeps
<1>3. Len(stack') <= Len(stack)
  BY <1>1
<1>4. Opens(stack, Len(stack)) = Opens(stack, Len(stack'))
  BY <1>1
<1>5. QED
  BY <1>1, <1>2, <1>3, <1>4, CurrentQuiet

LEMMA OwningCurrent ==
  ASSUME IInv, CurrentOK, NEW caller \in Accounts, Owning(caller)
  PROVE  CurrentOK'
<1>1. tokens' = tokens /\ stack' = stack
  BY Zenon DEF Owning, RevokeSBT, ChangeVerifier, CollectFees, ChangeOwner
<1>2. \/ sbtOwners' = sbtOwners
      \/ \E identifier : sbtOwners' = [sbtOwners EXCEPT ![identifier].revoked = TRUE]
  BY Zenon DEF Owning, RevokeSBT, ChangeVerifier, CollectFees, ChangeOwner
<1>3. sbtOwners \in [Identifiers -> SBTs]
  BY WorldTyped DEF IInv
<1>4. \A identifier \in Identifiers :
        SameClaim(sbtOwners'[identifier], sbtOwners[identifier])
  BY <1>2, <1>3 DEF SameClaim, SBTs
<1>5. QED
  BY <1>1, <1>4, CurrentStill

LEMMA StartCurrent ==
  ASSUME IInv, CurrentOK, NEW caller \in Accounts, NEW items \in Batches,
         NEW strict \in BOOLEAN, StartBatch(caller, items, strict)
  PROVE  CurrentOK'
<1> DEFINE f == BatchFrame(items, strict)
<1>1. f \in Frames /\ f.saved = World /\ f.kind = "batch"
  <2>1. PICK n \in 0 .. MaxItems : items \in [1 .. n -> Presented]
    BY DEF Batches
  <2>2. n \in Nat /\ items \in Seq(Args)
    BY <2>1, PresentedTyped DEF IInv
  <2>3. f \in BatchFrames /\ f.saved = World /\ f.kind = "batch"
    BY <2>2 DEF IInv, BatchFrame, BatchFrames
  <2>4. QED
    BY <2>3 DEF Frames
<1>2. stack' = Append(stack, f) /\ UNCHANGED chainVars
  BY DEF StartBatch
<1> HIDE DEF f
<1>3. World' = World /\ tokens' = tokens
  BY <1>2 DEF chainVars, World
<1>4. NamesPair(f, tokens')
  BY <1>1 DEF NamesPair
<1>5. Current(World', Opens(stack, Len(stack))
                        \cup (IF f.kind = "mint" THEN {f.tid} ELSE {}))
  BY <1>1, <1>3 DEF CurrentOK
<1>6. QED
  BY <1>1, <1>2, <1>3, <1>4, <1>5, CurrentOpens

LEMMA ItemCurrent ==
  ASSUME IInv, CurrentOK, CallItem
  PROVE  CurrentOK'
<1> DEFINE item == Top.items[Len(Top.results) + 1]
           error == SetSBTError(item, 0)
           n == Len(stack)
<1>1. /\ InBatch /\ ~Finished(Top)
      /\ \/ error = "Ok" /\ Mint(item, 0)
         \/ /\ error # "Ok"
            /\ stack' = [stack EXCEPT ![n].results = Append(@, error)]
            /\ UNCHANGED <<chainVars, now, signed>>
  BY Zenon DEF CallItem
<1>2. stack \in Seq(Frames) /\ n \in 1 .. n /\ n \in Nat \ {0}
  BY <1>1, EmptySeq DEF IInv, StackOK, InBatch
<1>3. Top \in Frames /\ Counts(Top, FALSE)
  BY <1>2, ElementOfSeq DEF Top, IInv, StackOK, Counts
<1>4. Top \in BatchFrames /\ Top.kind = "batch"
  BY <1>1, <1>3, FrameTyped DEF InBatch
<1>5. /\ Top.items \in Seq(Args) /\ Len(Top.items) \in Nat
      /\ Len(Top.results) \in Nat
  BY <1>4 DEF BatchFrames
<1>6. Len(Top.results) < Len(Top.items)
  BY <1>1, <1>3, <1>5 DEF Counts, Finished, InBatch
<1>7. item \in Args
  BY <1>5, <1>6
<1>8. error \in Outcomes
  BY DEF SetSBTError, Outcomes
<1> HIDE DEF item, error
<1>9. CASE error = "Ok" /\ Mint(item, 0)
  BY <1>7, <1>9, CurrentMint DEF error
<1>10. CASE /\ stack' = [stack EXCEPT ![n].results = Append(@, error)]
            /\ UNCHANGED <<chainVars, now, signed>>
  <2> DEFINE g == [Top EXCEPT !.results = Append(@, error)]
  <2>1. stack' = [stack EXCEPT ![n] = g]
    BY <1>10 DEF Top
  <2>2. g \in Frames /\ Keeps(g, Top)
    BY <1>3, <1>4, <1>8, Noted DEF Keeps
  <2> HIDE DEF g, n
  <2>3. /\ stack' \in Seq(Frames) /\ Len(stack') = Len(stack)
        /\ \A i \in 1 .. Len(stack) : stack'[i] = IF i = n THEN g ELSE stack[i]
    BY <1>2, <2>1, <2>2, Replaced DEF n
  <2>4. \A i \in 1 .. Len(stack') : Keeps(stack'[i], stack[i])
    BY <2>2, <2>3 DEF Top, Keeps, n
  <2>5. tokens' = tokens /\ sbtOwners' = sbtOwners
    BY <1>10 DEF chainVars
  <2>6. Len(stack') <= Len(stack)
    BY <1>2, <2>3 DEF n
  <2>7. \A identifier \in Identifiers :
          SameClaim(sbtOwners'[identifier], sbtOwners[identifier])
    BY <2>5 DEF SameClaim
  <2>8. Opens(stack, Len(stack)) = Opens(stack, Len(stack'))
    BY <2>3
  <2>9. QED
    BY <2>3, <2>4, <2>5, <2>6, <2>7, <2>8, CurrentQuiet
<1>11. QED
  BY <1>1, <1>9, <1>10

LEMMA BatchReturnsCurrent ==
  ASSUME IInv, CurrentOK, BatchReturns
  PROVE  CurrentOK'
<1> DEFINE n == Len(stack)
<1>1. /\ stack # <<>> /\ Top.kind = "batch" /\ stack' = Ended("Ok")
      /\ tokens' = tokens /\ sbtOwners' = sbtOwners
  BY DEF BatchReturns, InBatch, chainVars
<1>2. "Ok" \in Outcomes
  BY DEF Outcomes
<1>3. /\ n \in Nat \ {0} /\ stack' \in Seq(Frames) /\ Len(stack') = n - 1
      /\ \A i \in 1 .. Len(stack') : Keeps(stack'[i], stack[i])
  BY <1>1, <1>2, EndedKeeps
<1>4. Opens(stack, n) = Opens(stack, n - 1)
  <2>1. stack[n].kind = "batch"
    BY <1>1 DEF Top
  <2>2. Opens(stack, n) = Opens(stack, n - 1)
          \cup (IF stack[n].kind = "mint" THEN {stack[n].tid} ELSE {})
    BY <1>3, OpensUpTo
  <2>3. QED
    BY <2>1, <2>2
<1>5. n - 1 <= n
  BY <1>3
<1>6. \A identifier \in Identifiers :
        SameClaim(sbtOwners'[identifier], sbtOwners[identifier])
  BY <1>1 DEF SameClaim
<1>7. QED
  BY <1>1, <1>3, <1>4, <1>5, <1>6, CurrentQuiet

LEMMA NextCurrent == IInv /\ CurrentOK /\ [Next \/ Batching]_vars => CurrentOK'
<1>1. SUFFICES ASSUME IInv, CurrentOK, [Next \/ Batching]_vars
               PROVE  CurrentOK'
  OBVIOUS
<1>2. ASSUME NEW caller \in Accounts, NEW a \in Presented,
             NEW value \in Fees, SetSBT(caller, a, value)
      PROVE  CurrentOK'
  <2>1. a \in Args /\ value \in Nat
    BY <1>1, PresentedTyped, HubBounds DEF IInv
  <2>2. QED
    BY <1>1, <1>2, <2>1, CurrentMint DEF SetSBT
<1>3. CASE MintFails
  BY <1>1, <1>3, CurrentReverts DEF MintFails
<1>4. CASE BatchReverts
  BY <1>1, <1>4, CurrentReverts DEF BatchReverts, InBatch
<1>5. CASE \/ Tick
           \/ \E v \in Verifiers, m \in Messages : Sign(v, m)
           \/ UNCHANGED vars
  <2>1. tokens' = tokens /\ sbtOwners' = sbtOwners /\ stack' = stack
    BY <1>5, Zenon DEF Tick, Sign, vars, chainVars
  <2>2. QED
    BY <1>1, <2>1, CurrentStill DEF SameClaim
<1>6. QED
  BY <1>1, <1>2, <1>3, <1>4, <1>5, OwningCurrent, CurrentReturns, StartCurrent,
     ItemCurrent, BatchReturnsCurrent DEF Next, Batching

LEMMA InitCurrent == Init => CurrentOK
<1>1. SUFFICES ASSUME Init PROVE CurrentOK
  OBVIOUS
<1>2. tokens = <<>> /\ stack = <<>>
  BY <1>1 DEF Init
<1>3. \A identifier : NewestFor(World, identifier) = {}
  BY <1>2, WorldFields DEF NewestFor
<1>4. QED
  BY <1>2, <1>3 DEF CurrentOK, Current

LEMMA NoneOpen == ASSUME NEW s PROVE Opens(s, 0) = {}
BY DEF Opens

(* What anybody outside reads has no mint under way. *)
LEMMA CurrentCommitted == IInv /\ CurrentOK => NewestTokenIsCurrent
<1>1. SUFFICES ASSUME IInv, CurrentOK PROVE NewestTokenIsCurrent
  OBVIOUS
<1>2. Current(Committed, {})
  <2>1. CASE stack = <<>>
    <3>1. Len(stack) = 0
      BY <2>1
    <3>2. QED
      BY <1>1, <2>1, <3>1, NoneOpen DEF CurrentOK, Committed
  <2>2. CASE stack # <<>>
    <3>1. 1 \in 1 .. Len(stack) /\ 1 - 1 = 0
      BY <1>1, <2>2, EmptySeq DEF IInv, StackOK
    <3>2. Current(stack[1].saved, Opens(stack, 1 - 1))
      BY <1>1, <3>1 DEF CurrentOK
    <3>3. QED
      BY <2>2, <3>1, <3>2, NoneOpen DEF Committed
  <2>3. QED
    BY <2>1, <2>2
<1>3. QED
  BY <1>2 DEF Current, NewestTokenIsCurrent

(* Between transactions the newest token of a pair says what getSBT says:
   although its URI is written after the receiver's callback, from the entry
   that the callback may have replaced, and whatever nested mints and batches
   were undone. *)
THEOREM NewestCurrent == BatchSpec => []NewestTokenIsCurrent
BY InitIInv, NextIInv, InitCurrent, NextCurrent, CurrentCommitted, PTL
   DEF BatchSpec

(* The same of the Hub alone. *)
THEOREM NewestCurrentAlone == Spec => []NewestTokenIsCurrent
BY NewestCurrent, HubAlone, PTL

-----------------------------------------------------------------------------
(***************************************************************************)
(* Fees                                                                    *)
(***************************************************************************)

FeesOf(toks) == Sum([t \in DOMAIN toks |-> toks[t].fee])

(* What the state w holds and what was taken from it are its tokens' fees. *)
Balanced(w) == w.fees + w.collected = FeesOf(w.tokens)

(* So it is, and so it is in what each call would go back to. *)
FeesOK ==
  /\ Balanced(World)
  /\ \A i \in 1 .. Len(stack) : Balanced(stack[i].saved)

LEMMA FeesSummable ==
  ASSUME NEW toks \in Seq(Tokens)
  PROVE  Summable([t \in DOMAIN toks |-> toks[t].fee])
<1> DEFINE f == [t \in DOMAIN toks |-> toks[t].fee]
<1>1. Len(toks) \in Nat /\ DOMAIN toks = 1 .. Len(toks)
  OBVIOUS
<1>2. IsFiniteSet(DOMAIN f)
  BY <1>1, FS_Interval
<1>3. \A t \in DOMAIN toks : toks[t] \in Tokens
  OBVIOUS
<1>4. \A t \in DOMAIN toks : toks[t].fee \in Nat
  BY <1>3 DEF Tokens
<1>5. \A t \in DOMAIN f : f[t] \in Int
  BY <1>4
<1>6. QED
  BY <1>2, <1>5 DEF Summable

(* One more token adds its fee. *)
LEMMA FeesOfMore ==
  ASSUME NEW toks \in Seq(Tokens), NEW token \in Tokens
  PROVE  FeesOf(Append(toks, token)) = FeesOf(toks) + token.fee
<1> DEFINE more == Append(toks, token)
           n == Len(toks)
           f == [t \in DOMAIN toks |-> toks[t].fee]
           g == [t \in DOMAIN more |-> more[t].fee]
<1>1. more \in Seq(Tokens)
  OBVIOUS
<1>2. Summable(f) /\ Summable(g)
  BY <1>1, FeesSummable
<1>3. /\ n \in Nat /\ DOMAIN toks = 1 .. n /\ DOMAIN more = 1 .. (n + 1)
      /\ \A t \in 1 .. n : more[t] = toks[t]
      /\ more[n + 1] = token
  OBVIOUS
<1> HIDE DEF more, n
<1>4. 1 .. (n + 1) = (1 .. n) \cup {n + 1} /\ ~(n + 1 \in 1 .. n)
  BY <1>3
<1>5. /\ DOMAIN f = 1 .. n /\ DOMAIN g = DOMAIN f \cup {n + 1}
      /\ \A t \in DOMAIN f : g[t] = f[t]
      /\ g[n + 1] = token.fee
  BY <1>3, <1>4
<1> DEFINE x == n + 1
<1> HIDE DEF f, g
<1>6. /\ ~(x \in DOMAIN f) /\ DOMAIN g = DOMAIN f \cup {x}
      /\ \A t \in DOMAIN f : g[t] = f[t]
      /\ g[x] = token.fee
  BY <1>4, <1>5
<1> HIDE DEF x
<1>7. Sum(g) = Sum(f) + token.fee
  <2>1. Sum(g) = Sum(f) + g[x]
    BY <1>2, <1>6, SumExtend
  <2>2. QED
    BY <1>6, <2>1
<1>8. QED
  BY <1>7 DEF FeesOf, f, g, more

(* A token's URI does not matter. *)
LEMMA FeesOfSame ==
  ASSUME NEW toks \in Seq(Tokens), NEW more \in Seq(Tokens),
         DOMAIN more = DOMAIN toks,
         \A t \in DOMAIN toks : more[t].fee = toks[t].fee
  PROVE  FeesOf(more) = FeesOf(toks)
<1>1. [t \in DOMAIN toks |-> toks[t].fee] = [t \in DOMAIN more |-> more[t].fee]
  OBVIOUS
<1>2. QED
  BY <1>1 DEF FeesOf

LEMMA BalancedWorlds ==
  /\ Balanced(World) <=> fees + collected = FeesOf(tokens)
  /\ Balanced(World') <=> fees' + collected' = FeesOf(tokens')
BY DEF Balanced, World

LEMMA MintBalanced ==
  ASSUME IInv, Balanced(World), NEW a \in Args, NEW value \in Nat,
         SetSBTError(a, value) = "Ok", Mint(a, value)
  PROVE  Balanced(World')
<1> DEFINE pair == <<AddressOf(a.reciever), a.circuit>>
           sbt == [expiry |-> a.expiration, values |-> a.values,
                   revoked |-> FALSE]
           token == [to |-> AddressOf(a.reciever), uri |-> NoURI, sbt |-> sbt,
                     identifier |-> pair, nullifier |-> a.nullifier,
                     fee |-> a.fee]
<1>1. tokens' = Append(tokens, token) /\ fees' = fees + value
      /\ collected' = collected
  BY DEF Mint
<1>2. tokens \in Seq(Tokens) /\ fees \in Nat /\ collected \in Nat
  BY WorldTyped DEF IInv
<1>3. token \in Tokens
  <2>1. /\ a.circuit \in Circuits /\ AddressOf(a.reciever) \in Addresses
        /\ a.expiration \in Nat /\ a.fee \in Nat
        /\ a.nullifier \in Nullifiers /\ a.values \in Values
    BY ArgsTyped
  <2>2. sbt \in SBTs /\ NoURI \in SBTs /\ pair \in Identifiers
    BY <2>1 DEF SBTs, NoURI, NoSBT, Identifiers
  <2> HIDE DEF sbt, pair
  <2>3. QED
    BY <2>1, <2>2 DEF Tokens
<1>4. token.fee = value
  BY DEF SetSBTError
<1> HIDE DEF token
<1>5. FeesOf(tokens') = FeesOf(tokens) + value
  BY <1>1, <1>2, <1>3, <1>4, FeesOfMore
<1>6. fees + collected = FeesOf(tokens)
  BY BalancedWorlds
<1>7. fees' + collected' = FeesOf(tokens')
  BY <1>1, <1>2, <1>5, <1>6
<1>8. QED
  BY <1>7, BalancedWorlds

(* The states that open calls would go back to: those there were, and, for a
   call that opens, the state of then. *)
LEMMA Saves ==
  ASSUME IInv, [Next \/ Batching]_vars, NEW i \in 1 .. Len(stack')
  PROVE  \/ stack'[i].saved = World
         \/ \E j \in 1 .. Len(stack) : stack'[i].saved = stack[j].saved
<1>1. stack \in Seq(Frames) /\ Len(stack) \in Nat
  BY DEF IInv, StackOK
<1>2. ASSUME NEW f, stack' = Append(stack, f), f.saved = World
      PROVE  \/ stack'[i].saved = World
             \/ \E j \in 1 .. Len(stack) : stack'[i].saved = stack[j].saved
  <2>1. /\ Len(stack') = Len(stack) + 1 /\ stack'[Len(stack) + 1] = f
        /\ \A j \in 1 .. Len(stack) : stack'[j] = stack[j]
    BY <1>1, <1>2
  <2>2. i \in 1 .. Len(stack) \/ i = Len(stack) + 1
    BY <1>1, <2>1
  <2>3. QED
    BY <1>2, <2>1, <2>2
<1>3. ASSUME NEW outcome \in {"Ok", "Reverted"}, stack # <<>>,
             stack' = Ended(outcome)
      PROVE  \E j \in 1 .. Len(stack) : stack'[i].saved = stack[j].saved
  <2>1. outcome \in Outcomes
    BY DEF Outcomes
  <2>2. /\ stack' \in Seq(Frames) /\ Len(stack') <= Len(stack)
        /\ \A j \in 1 .. Len(stack') : stack'[j].saved = stack[j].saved
    BY <1>3, <2>1, EndedSaves
  <2>3. Len(stack') \in Nat
    BY <2>2
  <2>4. i \in 1 .. Len(stack)
    BY <1>1, <2>2, <2>3
  <2>5. QED
    BY <2>2, <2>4
<1>4. ASSUME stack' = stack
      PROVE  \E j \in 1 .. Len(stack) : stack'[i].saved = stack[j].saved
  BY <1>4
<1>5. CASE CallItem
  <2> DEFINE error == SetSBTError(Top.items[Len(Top.results) + 1], 0)
             item == Top.items[Len(Top.results) + 1]
             n == Len(stack)
  <2>1. \/ Mint(item, 0)
        \/ stack' = [stack EXCEPT ![n].results = Append(@, error)]
    BY <1>5, Zenon DEF CallItem
  <2>2. CASE Mint(item, 0)
    <3> DEFINE f == MintFrame(item, Len(tokens) + 1)
    <3>1. stack' = Append(stack, f)
      BY <2>2 DEF Mint
    <3>2. f.saved = World
      BY DEF MintFrame
    <3>3. QED
      BY <1>2, <3>1, <3>2
  <2>3. CASE stack' = [stack EXCEPT ![n].results = Append(@, error)]
    <3>1. stack # <<>>
      BY <1>5 DEF CallItem, InBatch
    <3>2. n \in 1 .. n /\ stack[n] \in Frames
      BY <1>1, <3>1, EmptySeq, ElementOfSeq
    <3>3. stack[n].kind = "batch" /\ error \in Outcomes
      BY <1>5 DEF CallItem, InBatch, Top, SetSBTError, Outcomes
    <3> DEFINE g == [stack[n] EXCEPT !.results = Append(@, error)]
    <3> HIDE DEF error
    <3>4. stack' = [stack EXCEPT ![n] = g]
      BY <2>3
    <3>5. g \in Frames /\ g.saved = stack[n].saved
      BY <3>2, <3>3, Noted
    <3> HIDE DEF g, n
    <3>6. /\ Len(stack') = Len(stack)
          /\ \A j \in 1 .. Len(stack) : stack'[j] = IF j = n THEN g ELSE stack[j]
      BY <1>1, <3>2, <3>4, <3>5, Replaced DEF n
    <3>7. i \in 1 .. Len(stack)
      BY <3>6
    <3>8. stack'[i].saved = stack[i].saved
      BY <3>5, <3>6, <3>7
    <3>9. QED
      BY <3>7, <3>8
  <2>4. QED
    BY <2>1, <2>2, <2>3
<1>6. ASSUME NEW caller, NEW a, NEW value, SetSBT(caller, a, value)
      PROVE  \/ stack'[i].saved = World
             \/ \E j \in 1 .. Len(stack) : stack'[i].saved = stack[j].saved
  <2> DEFINE f == MintFrame(a, Len(tokens) + 1)
  <2>1. stack' = Append(stack, f)
    BY <1>6 DEF SetSBT, Mint
  <2>2. f.saved = World
    BY DEF MintFrame
  <2>3. QED
    BY <1>2, <2>1, <2>2
<1>7. ASSUME NEW caller, NEW items, NEW strict, StartBatch(caller, items, strict)
      PROVE  \/ stack'[i].saved = World
             \/ \E j \in 1 .. Len(stack) : stack'[i].saved = stack[j].saved
  <2> DEFINE f == BatchFrame(items, strict)
  <2>1. stack' = Append(stack, f)
    BY <1>7 DEF StartBatch
  <2>2. f.saved = World
    BY DEF BatchFrame
  <2>3. QED
    BY <1>2, <2>1, <2>2
<1>8. CASE MintReturns \/ MintFails \/ BatchReturns \/ BatchReverts
  <2>1. stack # <<>> /\ (stack' = Ended("Ok") \/ stack' = Ended("Reverted"))
    BY <1>8, Zenon DEF MintReturns, MintFails, BatchReturns, BatchReverts, InBatch
  <2>2. QED
    BY <1>3, <2>1
<1>9. CASE \/ \E caller \in Accounts : Owning(caller)
           \/ Tick
           \/ \E v \in Verifiers, m \in Messages : Sign(v, m)
           \/ UNCHANGED vars
  BY <1>4, <1>9, Zenon DEF Owning, RevokeSBT, ChangeVerifier, CollectFees,
                           ChangeOwner, Tick, Sign, vars, chainVars
<1>10. QED
  BY <1>5, <1>6, <1>7, <1>8, <1>9 DEF Next, Batching

LEMMA StepBalanced ==
  ASSUME IInv, FeesOK, [Next \/ Batching]_vars
  PROVE  Balanced(World')
<1>1. /\ tokens \in Seq(Tokens) /\ fees \in Nat /\ collected \in Nat
      /\ fees + collected = FeesOf(tokens)
  BY WorldTyped, BalancedWorlds DEF IInv, FeesOK
<1>2. ASSUME NEW caller \in Accounts, NEW a \in Presented,
             NEW value \in Fees, SetSBT(caller, a, value)
      PROVE  Balanced(World')
  <2>1. a \in Args /\ value \in Nat
    BY PresentedTyped, HubBounds DEF IInv
  <2>2. QED
    BY <1>2, <2>1, MintBalanced DEF SetSBT, FeesOK
<1>3. CASE MintReturns
  <2>1. /\ tokens' = [tokens EXCEPT ![Top.tid].uri = sbtOwners[Top.identifier]]
        /\ fees' = fees /\ collected' = collected
    BY <1>3, Zenon DEF MintReturns
  <2>2. \A t \in DOMAIN tokens : tokens[t] \in Tokens
    BY <1>1
  <2>3. /\ DOMAIN tokens' = DOMAIN tokens
        /\ \A t \in DOMAIN tokens : tokens'[t].fee = tokens[t].fee
    BY <1>1, <2>1, <2>2 DEF Tokens
  <2>4. [t \in DOMAIN tokens |-> tokens[t].fee]
          = [t \in DOMAIN tokens' |-> tokens'[t].fee]
    BY <2>3
  <2>5. FeesOf(tokens') = FeesOf(tokens)
    BY <2>4 DEF FeesOf
  <2>6. QED
    BY <1>1, <2>1, <2>5, BalancedWorlds
<1>4. CASE MintFails \/ BatchReverts
  <2>1. stack # <<>> /\ Restore(Top.saved)
    BY <1>4, Zenon DEF MintFails, BatchReverts, InBatch
  <2>2. stack \in Seq(Frames) /\ Len(stack) \in 1 .. Len(stack)
    BY <2>1, EmptySeq DEF IInv, StackOK
  <2>3. Top.saved \in Worlds
    BY <2>2, ElementOfSeq, FrameTyped DEF Top
  <2>4. World' = Top.saved
    BY <2>1, <2>3, RestoredWorld
  <2>5. Balanced(Top.saved)
    BY <2>2 DEF FeesOK, Top
  <2>6. QED
    BY <2>4, <2>5
<1>5. ASSUME NEW caller \in Accounts, Owning(caller) PROVE Balanced(World')
  <2>1. /\ tokens' = tokens
        /\ \/ fees' = fees /\ collected' = collected
           \/ fees' = 0 /\ collected' = collected + fees
    BY <1>5, Zenon DEF Owning, RevokeSBT, ChangeVerifier, CollectFees, ChangeOwner
  <2>2. fees' + collected' = fees + collected
    BY <1>1, <2>1
  <2>3. QED
    BY <1>1, <2>1, <2>2, BalancedWorlds
<1>6. CASE CallItem
  <2> DEFINE item == Top.items[Len(Top.results) + 1]
             error == SetSBTError(item, 0)
  <2>1. /\ InBatch /\ ~Finished(Top)
        /\ \/ error = "Ok" /\ Mint(item, 0)
           \/ UNCHANGED chainVars
    BY <1>6, Zenon DEF CallItem
  <2>2. CASE error = "Ok" /\ Mint(item, 0)
    <3>1. stack \in Seq(Frames) /\ Len(stack) \in 1 .. Len(stack)
      BY <2>1, EmptySeq DEF IInv, StackOK, InBatch
    <3>2. Top \in Frames /\ Counts(Top, FALSE)
      BY <3>1, ElementOfSeq DEF Top, IInv, StackOK, Counts
    <3>3. Top \in BatchFrames
      BY <2>1, <3>2, FrameTyped DEF InBatch
    <3>4. /\ Top.items \in Seq(Args) /\ Len(Top.items) \in Nat
          /\ Len(Top.results) \in Nat
      BY <3>3 DEF BatchFrames
    <3>5. Len(Top.results) < Len(Top.items)
      BY <2>1, <3>2, <3>4 DEF Counts, Finished, InBatch
    <3>6. item \in Args /\ 0 \in Nat
      BY <3>4, <3>5
    <3>7. QED
      BY <2>2, <3>6, MintBalanced DEF FeesOK
  <2>3. CASE UNCHANGED chainVars
    BY <1>1, <2>3, BalancedWorlds DEF chainVars
  <2>4. QED
    BY <2>1, <2>2, <2>3
<1>7. CASE \/ Tick
           \/ \E v \in Verifiers, m \in Messages : Sign(v, m)
           \/ \E caller \in Accounts, items \in Batches, strict \in BOOLEAN :
                StartBatch(caller, items, strict)
           \/ BatchReturns
           \/ UNCHANGED vars
  <2>1. UNCHANGED chainVars
    BY <1>7, Zenon DEF Tick, Sign, StartBatch, BatchReturns, vars
  <2>2. QED
    BY <1>1, <2>1, BalancedWorlds DEF chainVars
<1>8. QED
  BY <1>2, <1>3, <1>4, <1>5, <1>6, <1>7 DEF Next, Batching

LEMMA NextFees == IInv /\ FeesOK /\ [Next \/ Batching]_vars => FeesOK'
<1>1. SUFFICES ASSUME IInv, FeesOK, [Next \/ Batching]_vars PROVE FeesOK'
  OBVIOUS
<1>2. ASSUME NEW i \in 1 .. Len(stack') PROVE Balanced(stack'[i].saved)
  BY <1>1, Saves DEF FeesOK
<1>3. QED
  BY <1>1, <1>2, StepBalanced DEF FeesOK

LEMMA InitFees == Init => FeesOK
<1>1. SUFFICES ASSUME Init PROVE FeesOK
  OBVIOUS
<1>2. tokens = <<>> /\ fees = 0 /\ collected = 0 /\ stack = <<>>
  BY <1>1 DEF Init
<1> DEFINE f == [t \in DOMAIN tokens |-> tokens[t].fee]
<1>3. DOMAIN f = {}
  BY <1>2
<1> HIDE DEF f
<1>4. Sum(f) = 0
  BY <1>3, SumEmpty
<1>5. FeesOf(tokens) = 0
  BY <1>4 DEF FeesOf, f
<1>6. QED
  BY <1>2, <1>5, BalancedWorlds DEF FeesOK

(* However calls nest and fail, batches of HubBatch included, no ether stays
   behind in the contract and no token is minted below its fee. *)
THEOREM FeesAccountedFor == BatchSpec => []FeesAccounted
<1>1. FeesPaid = FeesOf(tokens)
  BY DEF FeesPaid, FeesOf, Sum
<1>2. FeesOK => FeesAccounted
  BY <1>1, BalancedWorlds DEF FeesOK, FeesAccounted
<1>3. IInv /\ FeesOK /\ [Next \/ Batching]_vars => (IInv /\ FeesOK)'
  BY NextIInv, NextFees
<1>4. QED
  BY <1>2, <1>3, InitIInv, InitFees, PTL DEF BatchSpec

(* The same of the Hub alone. *)
THEOREM FeesAccountedForAlone == Spec => []FeesAccounted
BY FeesAccountedFor, HubAlone, PTL

-----------------------------------------------------------------------------
(* The results of a batch and the tokens it mints *)

(* No receiver of the batch f has code. *)
NoCode(f) ==
  \A k \in DOMAIN f.items : AddressOf(f.items[k].reciever) \notin Contracts

(* While such a batch runs, the call of setSBT it waits for is all that is
   open above it, and nobody else may make a call. *)
QuietOK ==
  \A i, j \in 1 .. Len(stack) :
    i < j /\ stack[i].kind = "batch" /\ NoCode(stack[i]) =>
      /\ j = i + 1
      /\ stack[j].kind = "mint" /\ stack[j].reciever \notin Contracts

(* The call g is the call f, which may have learnt an outcome. *)
Continues(g, f) ==
  g = f \/ (g.kind = "batch" /\ f.kind = "batch" /\ g.items = f.items)

(* Whoever makes a call now, no batch that waits is a quiet one. *)
LEMMA NoneQuiet ==
  ASSUME QuietOK, Len(stack) \in Nat, InBatch \/ Callers # {},
         NEW i \in 1 .. Len(stack), i # Len(stack), stack[i].kind = "batch"
  PROVE  ~NoCode(stack[i])
<1>1. SUFFICES ASSUME NoCode(stack[i]) PROVE FALSE
  OBVIOUS
<1>2. Len(stack) \in 1 .. Len(stack) /\ i < Len(stack)
  OBVIOUS
<1>3. stack # <<>>
  BY <1>2, EmptySeq
<1>4. Top.kind = "mint" /\ Top.reciever \notin Contracts
  BY <1>1, <1>2 DEF QuietOK, Top
<1>5. ~InBatch /\ Callers = {}
  BY <1>3, <1>4 DEF InBatch, Callers
<1>6. QED
  BY <1>5

LEMMA QuietKept ==
  ASSUME QuietOK, Len(stack) \in Nat, Len(stack') \in Nat,
         Len(stack') <= Len(stack),
         \A i \in 1 .. Len(stack') : Continues(stack'[i], stack[i])
  PROVE  QuietOK'
<1>1. SUFFICES ASSUME NEW i \in 1 .. Len(stack'), NEW j \in 1 .. Len(stack'),
                      i < j, stack'[i].kind = "batch", NoCode(stack'[i])
               PROVE  /\ j = i + 1
                      /\ stack'[j].kind = "mint"
                      /\ stack'[j].reciever \notin Contracts
  BY DEF QuietOK, NoCode
<1>2. i \in 1 .. Len(stack) /\ j \in 1 .. Len(stack)
  OBVIOUS
<1>3. stack[i].kind = "batch" /\ NoCode(stack[i])
  BY <1>1 DEF Continues, NoCode
<1>4. /\ j = i + 1
      /\ stack[j].kind = "mint" /\ stack[j].reciever \notin Contracts
  BY <1>1, <1>2, <1>3 DEF QuietOK
<1>5. stack'[j] = stack[j]
  BY <1>4 DEF Continues
<1>6. QED
  BY <1>4, <1>5

LEMMA QuietOpens ==
  ASSUME IInv, QuietOK, NEW f \in Frames, stack' = Append(stack, f),
         InBatch \/ Callers # {},
         InBatch => /\ f.kind = "mint"
                    /\ NoCode(Top) => f.reciever \notin Contracts
  PROVE  QuietOK'
<1> DEFINE n == Len(stack)
<1>1. stack \in Seq(Frames)
  BY DEF IInv, StackOK
<1>2. /\ Len(stack') = n + 1 /\ n \in Nat
      /\ \A i \in 1 .. n : stack'[i] = stack[i]
      /\ stack'[n + 1] = f
  BY <1>1, Appended
<1>3. SUFFICES ASSUME NEW i \in 1 .. Len(stack'), NEW j \in 1 .. Len(stack'),
                      i < j, stack'[i].kind = "batch", NoCode(stack'[i])
               PROVE  /\ j = i + 1
                      /\ stack'[j].kind = "mint"
                      /\ stack'[j].reciever \notin Contracts
  BY DEF QuietOK, NoCode
<1>4. /\ i \in 1 .. n /\ j \in 1 .. (n + 1)
      /\ stack[i] = stack'[i]
  BY <1>2, <1>3
<1>5. i = n
  <2>1. n = Len(stack) /\ stack[i].kind = "batch" /\ NoCode(stack[i])
    BY <1>3, <1>4
  <2>2. QED
    BY <1>2, <1>4, <2>1, NoneQuiet
<1>6. j = n + 1 /\ j = i + 1
  BY <1>2, <1>3, <1>4, <1>5
<1>7. InBatch /\ NoCode(Top)
  <2>1. stack # <<>>
    BY <1>1, <1>2, <1>4, EmptySeq
  <2>2. Top = stack'[i]
    BY <1>4, <1>5 DEF Top
  <2>3. QED
    BY <1>3, <2>1, <2>2 DEF InBatch
<1>8. QED
  BY <1>2, <1>6, <1>7

LEMMA QuietEnds ==
  ASSUME IInv, QuietOK, stack # <<>>, NEW outcome \in Outcomes,
         stack' = Ended(outcome)
  PROVE  QuietOK'
<1>1. stack \in Seq(Frames)
  BY DEF IInv, StackOK
<1>2. /\ Len(stack) \in Nat \ {0} /\ Len(stack') = Len(stack) - 1
      /\ \A i \in 1 .. (Len(stack) - 1) :
           \/ stack'[i] = stack[i]
           \/ /\ stack[i].kind = "batch"
              /\ stack'[i] = [stack[i] EXCEPT !.results = Append(@, outcome)]
  BY <1>1, EndedFrames
<1>3. ASSUME NEW i \in 1 .. Len(stack') PROVE Continues(stack'[i], stack[i])
  <2>1. i \in 1 .. Len(stack) /\ i \in 1 .. (Len(stack) - 1)
    BY <1>2
  <2>2. stack[i] \in Frames
    BY <1>1, <2>1, ElementOfSeq
  <2>3. CASE /\ stack[i].kind = "batch"
             /\ stack'[i] = [stack[i] EXCEPT !.results = Append(@, outcome)]
    <3>1. stack'[i].kind = stack[i].kind /\ stack'[i].items = stack[i].items
      BY <2>2, <2>3, Noted
    <3>2. QED
      BY <2>3, <3>1 DEF Continues
  <2>4. QED
    BY <1>2, <2>1, <2>3 DEF Continues
<1>4. QED
  BY <1>2, <1>3, QuietKept

(* The item that a batch calls next. *)
LEMMA NextItem ==
  ASSUME IInv, InBatch, ~Finished(Top)
  PROVE  /\ stack \in Seq(Frames) /\ Len(stack) \in Nat \ {0}
         /\ Top \in BatchFrames /\ Top.kind = "batch"
         /\ Len(Top.results) \in Nat
         /\ Len(Top.results) + 1 \in DOMAIN Top.items
         /\ Top.items[Len(Top.results) + 1] \in Args
<1>1. /\ stack \in Seq(Frames) /\ Len(stack) \in Nat \ {0}
      /\ Len(stack) \in 1 .. Len(stack)
  BY EmptySeq DEF IInv, StackOK, InBatch
<1>2. Top \in Frames /\ Counts(Top, FALSE)
  BY <1>1, ElementOfSeq DEF Top, IInv, StackOK, Counts
<1>3. Top \in BatchFrames /\ Top.kind = "batch"
  BY <1>2, FrameTyped DEF InBatch
<1>4. /\ Top.items \in Seq(Args) /\ Len(Top.items) \in Nat
      /\ Len(Top.results) \in Nat
  BY <1>3 DEF BatchFrames
<1>5. Len(Top.results) < Len(Top.items)
  BY <1>2, <1>3, <1>4 DEF Counts, Finished
<1>6. QED
  BY <1>1, <1>3, <1>4, <1>5

LEMMA MintFrameTyped ==
  ASSUME IInv, NEW a \in Args, NEW f, f = MintFrame(a, Len(tokens) + 1)
  PROVE  /\ f \in Frames /\ f.kind = "mint" /\ f.saved = World
         /\ f.reciever = AddressOf(a.reciever)
<1>1. Len(tokens) + 1 \in Nat
  BY WorldTyped DEF IInv
<1>2. /\ f \in MintFrames /\ f.kind = "mint" /\ f.saved = World
      /\ f.reciever = AddressOf(a.reciever)
  BY <1>1, ArgsTyped DEF IInv, MintFrame, MintFrames, Identifiers
<1>3. QED
  BY <1>2 DEF Frames

LEMMA BatchFrameTyped ==
  ASSUME IInv, NEW items \in Batches, NEW strict \in BOOLEAN,
         NEW f, f = BatchFrame(items, strict)
  PROVE  f \in Frames /\ f.saved = World /\ f.results = <<>>
<1>1. PICK n \in 0 .. MaxItems : items \in [1 .. n -> Presented]
  BY DEF Batches
<1>2. n \in Nat /\ items \in Seq(Args)
  BY <1>1, PresentedTyped DEF IInv
<1>3. f \in BatchFrames /\ f.saved = World /\ f.results = <<>>
  BY <1>2 DEF IInv, BatchFrame, BatchFrames
<1>4. QED
  BY <1>3 DEF Frames

LEMMA ItemQuiet ==
  ASSUME IInv, QuietOK, CallItem
  PROVE  QuietOK'
<1> DEFINE item == Top.items[Len(Top.results) + 1]
           error == SetSBTError(item, 0)
           n == Len(stack)
<1>1. /\ InBatch /\ ~Finished(Top)
      /\ \/ Mint(item, 0)
         \/ stack' = [stack EXCEPT ![n].results = Append(@, error)]
  BY Zenon DEF CallItem
<1>2. /\ stack \in Seq(Frames) /\ n \in Nat \ {0} /\ n \in 1 .. n
      /\ Top \in BatchFrames /\ Top.kind = "batch"
      /\ Len(Top.results) + 1 \in DOMAIN Top.items
      /\ item \in Args
  BY <1>1, NextItem
<1>3. CASE Mint(item, 0)
  <2> DEFINE f == MintFrame(item, Len(tokens) + 1)
  <2>1. stack' = Append(stack, f)
    BY <1>3 DEF Mint
  <2>2. /\ f \in Frames /\ f.kind = "mint"
        /\ f.reciever = AddressOf(item.reciever)
    BY <1>2, MintFrameTyped
  <2>3. NoCode(Top) => AddressOf(item.reciever) \notin Contracts
    BY <1>2 DEF NoCode
  <2> HIDE DEF f, item
  <2>4. QED
    BY <1>1, <2>1, <2>2, <2>3, QuietOpens
<1>4. CASE stack' = [stack EXCEPT ![n].results = Append(@, error)]
  <2> DEFINE g == [Top EXCEPT !.results = Append(@, error)]
  <2> HIDE DEF item, error
  <2>1. stack' = [stack EXCEPT ![n] = g]
    BY <1>4 DEF Top
  <2>2. g.kind = Top.kind /\ g.items = Top.items
    BY <1>2 DEF BatchFrames
  <2> HIDE DEF g
  <2>3. /\ Len(stack') = n
        /\ \A i \in 1 .. n : stack'[i] = IF i = n THEN g ELSE stack[i]
    BY <1>2, <2>1
  <2>4. \A i \in 1 .. n : Continues(stack'[i], stack[i])
    BY <1>2, <2>2, <2>3 DEF Continues, Top
  <2>5. QED
    BY <1>2, <2>3, <2>4, QuietKept
<1>5. QED
  BY <1>1, <1>3, <1>4

LEMMA NextQuiet == IInv /\ QuietOK /\ [Next \/ Batching]_vars => QuietOK'
<1>1. SUFFICES ASSUME IInv, QuietOK, [Next \/ Batching]_vars
               PROVE  QuietOK'
  OBVIOUS
<1>2. ASSUME NEW caller \in Accounts, NEW a \in Presented, NEW value \in Fees,
             SetSBT(caller, a, value)
      PROVE  QuietOK'
  <2> DEFINE f == MintFrame(a, Len(tokens) + 1)
  <2>1. a \in Args
    BY <1>1, PresentedTyped DEF IInv
  <2>2. caller \in Callers /\ stack' = Append(stack, f)
    BY <1>2 DEF SetSBT, Mint
  <2>3. f \in Frames
    BY <1>1, <2>1, MintFrameTyped
  <2> HIDE DEF f
  <2>4. ~InBatch
    BY <2>2, CallerOutsideBatch
  <2>5. QED
    BY <1>1, <2>2, <2>3, <2>4, QuietOpens
<1>3. ASSUME NEW caller \in Accounts, NEW items \in Batches,
             NEW strict \in BOOLEAN, StartBatch(caller, items, strict)
      PROVE  QuietOK'
  <2> DEFINE f == BatchFrame(items, strict)
  <2>1. caller \in Callers /\ stack' = Append(stack, f)
    BY <1>3 DEF StartBatch
  <2>2. f \in Frames
    BY <1>1, BatchFrameTyped
  <2> HIDE DEF f
  <2>3. ~InBatch
    BY <2>1, CallerOutsideBatch
  <2>4. QED
    BY <1>1, <2>1, <2>2, <2>3, QuietOpens
<1>4. CASE MintReturns \/ MintFails \/ BatchReturns \/ BatchReverts
  <2>1. /\ stack # <<>>
        /\ stack' = Ended("Ok") \/ stack' = Ended("Reverted")
    BY <1>4 DEF MintReturns, MintFails, BatchReturns, BatchReverts, InBatch
  <2>2. "Ok" \in Outcomes /\ "Reverted" \in Outcomes
    BY DEF Outcomes
  <2>3. QED
    BY <1>1, <2>1, <2>2, QuietEnds
<1>5. CASE \/ \E caller \in Accounts : Owning(caller)
           \/ Tick
           \/ \E v \in Verifiers, m \in Messages : Sign(v, m)
           \/ UNCHANGED vars
  <2>1. stack' = stack
    BY <1>5, Zenon DEF Owning, RevokeSBT, ChangeVerifier, CollectFees,
                      ChangeOwner, Tick, Sign, vars
  <2>2. QED
    BY <1>1, <2>1 DEF QuietOK
<1>6. QED
  BY <1>1, <1>2, <1>3, <1>4, <1>5, ItemQuiet DEF Next, Batching

(* The tokens among toks that were minted since the batch f began. *)
MintedSince(f, toks) == DOMAIN toks \ DOMAIN f.saved.tokens

(* The items of f that were reported as successes, and the one under way. *)
Claimed(f, busy) ==
  {k \in DOMAIN f.results : f.results[k] = "Ok"}
    \cup (IF busy THEN {Len(f.results) + 1} ELSE {})

(* The function tid finds the token of each item claimed, in their order. *)
Finds(tid, f, claimed, toks) ==
  /\ tid \in [claimed -> MintedSince(f, toks)]
  /\ \A j, k \in claimed : j < k => tid[j] < tid[k]
  /\ \A k \in claimed : IsTokenOf(toks[tid[k]], f.items[k])

Matched(f, claimed, toks) ==
  /\ \E tid : Finds(tid, f, claimed, toks)
  /\ NoCode(f) => Cardinality(MintedSince(f, toks)) = Cardinality(claimed)

(* The batches among the first n of the calls s, of which the last is not
   waiting for an item, have minted what they claim. *)
MatchedBy(s, n, toks) ==
  \A i \in 1 .. n : s[i].kind = "batch" =>
    Matched(s[i], Claimed(s[i], i < n), toks)

MatchedOK ==
  /\ MatchedBy(stack, Len(stack), tokens)
  /\ \A j \in 1 .. Len(stack) : MatchedBy(stack, j - 1, stack[j].saved.tokens)

(* The tokens `more` are the tokens toks, whatever their URIs, and others. *)
Grown(toks, more) ==
  /\ DOMAIN toks \subseteq DOMAIN more
  /\ \A t \in DOMAIN toks :
       /\ more[t].to = toks[t].to /\ more[t].identifier = toks[t].identifier
       /\ more[t].nullifier = toks[t].nullifier
       /\ more[t].fee = toks[t].fee /\ more[t].sbt = toks[t].sbt

LEMMA GrownSelf == ASSUME NEW toks PROVE Grown(toks, toks)
BY DEF Grown

(* Only a batch whose receivers have no code minds that others mint. *)
LEMMA MatchedGrown ==
  ASSUME NEW f, NEW g, g.items = f.items, g.saved = f.saved,
         NEW claimed, NEW toks, NEW more, Grown(toks, more),
         NoCode(f) => DOMAIN more = DOMAIN toks,
         Matched(f, claimed, toks)
  PROVE  Matched(g, claimed, more)
<1>1. PICK tid : Finds(tid, f, claimed, toks)
  BY DEF Matched
<1>2. tid \in [claimed -> MintedSince(g, more)]
  BY <1>1 DEF Finds, MintedSince, Grown
<1>3. \A k \in claimed : IsTokenOf(more[tid[k]], g.items[k])
  BY <1>1 DEF Finds, MintedSince, Grown, IsTokenOf
<1>4. Finds(tid, g, claimed, more)
  BY <1>1, <1>2, <1>3 DEF Finds
<1>5. NoCode(g) => Cardinality(MintedSince(g, more)) = Cardinality(claimed)
  BY DEF Matched, NoCode, MintedSince
<1>6. QED
  BY <1>4, <1>5 DEF Matched

(* The next item of a batch gets the next token. *)
LEMMA MatchedMore ==
  ASSUME NEW f, NEW m \in Nat \ {0}, NEW claimed, claimed \subseteq 1 .. (m - 1),
         NEW n \in Nat, NEW toks, NEW more,
         DOMAIN toks = 1 .. n, DOMAIN more = 1 .. (n + 1),
         Grown(toks, more), DOMAIN f.saved.tokens \subseteq 1 .. n,
         IsTokenOf(more[n + 1], f.items[m]),
         Matched(f, claimed, toks)
  PROVE  Matched(f, claimed \cup {m}, more)
<1> DEFINE claims == claimed \cup {m}
           old == MintedSince(f, toks)
           new == MintedSince(f, more)
<1>1. PICK tid : Finds(tid, f, claimed, toks)
  BY DEF Matched
<1> DEFINE find == [k \in claims |-> IF k = m THEN n + 1 ELSE tid[k]]
<1>2. m \notin claimed /\ \A k \in claimed : k \in Nat /\ k < m
  <2> DEFINE before == 1 .. (m - 1)
  <2>1. m \notin before /\ \A k \in before : k \in Nat /\ k < m
    OBVIOUS
  <2>2. claimed \subseteq before
    OBVIOUS
  <2> HIDE DEF before
  <2>3. QED
    BY <2>1, <2>2
<1>3. new = old \cup {n + 1} /\ n + 1 \notin old /\ old \subseteq 1 .. n
  <2>1. 1 .. (n + 1) = (1 .. n) \cup {n + 1} /\ n + 1 \notin 1 .. n
    OBVIOUS
  <2>2. QED
    BY <2>1 DEF MintedSince
<1>4. tid \in [claimed -> old] /\ \A k \in claimed : tid[k] \in 1 .. n
  BY <1>1, <1>3 DEF Finds
<1>5. /\ find \in [claims -> new]
      /\ find[m] = n + 1 /\ \A k \in claimed : find[k] = tid[k]
  BY <1>2, <1>3, <1>4
<1> HIDE DEF claims, old, new, find
<1>6. \A j, k \in claims : j < k => find[j] < find[k]
  <2>1. SUFFICES ASSUME NEW j \in claims, NEW k \in claims, j < k
                 PROVE  find[j] < find[k]
    OBVIOUS
  <2>2. j \in claimed
    BY <1>2, <2>1 DEF claims
  <2>3. CASE k = m
    BY <1>4, <1>5, <2>2, <2>3
  <2>4. CASE k # m
    <3>1. k \in claimed
      BY <2>4 DEF claims
    <3>2. tid[j] < tid[k]
      BY <1>1, <2>1, <2>2, <3>1 DEF Finds
    <3>3. QED
      BY <1>5, <2>2, <3>1, <3>2
  <2>5. QED
    BY <2>3, <2>4
<1>7. \A k \in claims : IsTokenOf(more[find[k]], f.items[k])
  <2>1. SUFFICES ASSUME NEW k \in claims
                 PROVE  IsTokenOf(more[find[k]], f.items[k])
    OBVIOUS
  <2>2. CASE k = m
    BY <1>5, <2>2
  <2>3. CASE k # m
    <3>1. k \in claimed
      BY <2>3 DEF claims
    <3>2. IsTokenOf(toks[tid[k]], f.items[k]) /\ tid[k] \in DOMAIN toks
      BY <1>1, <1>4, <3>1 DEF Finds
    <3>3. IsTokenOf(more[tid[k]], f.items[k])
      BY <3>2 DEF Grown, IsTokenOf
    <3>4. QED
      BY <1>5, <3>1, <3>3
  <2>4. QED
    BY <2>2, <2>3
<1>8. Finds(find, f, claims, more)
  BY <1>5, <1>6, <1>7 DEF Finds, new
<1>9. ASSUME NoCode(f) PROVE Cardinality(new) = Cardinality(claims)
  <2>1. Cardinality(old) = Cardinality(claimed)
    BY <1>9 DEF Matched, old
  <2>2. IsFiniteSet(old) /\ IsFiniteSet(claimed)
    <3>1. IsFiniteSet(1 .. n) /\ IsFiniteSet(1 .. (m - 1))
      BY FS_Interval
    <3>2. claimed \subseteq 1 .. (m - 1)
      OBVIOUS
    <3>3. QED
      BY <1>3, <3>1, <3>2, FS_Subset
  <2>3. /\ Cardinality(old \cup {n + 1}) = Cardinality(old) + 1
        /\ Cardinality(claimed \cup {m}) = Cardinality(claimed) + 1
    BY <1>2, <1>3, <2>2, FS_AddElement
  <2>4. QED
    BY <1>3, <2>1, <2>3 DEF claims
<1>10. QED
  BY <1>8, <1>9 DEF Matched, claims, new

LEMMA MatchedKept ==
  ASSUME NEW s, NEW r, NEW n \in Nat, NEW m \in Nat, m <= n,
         NEW toks, NEW more, Grown(toks, more), DOMAIN more = DOMAIN toks,
         MatchedBy(s, n, toks),
         \A i \in 1 .. m : r[i].kind = "batch" =>
           /\ s[i].kind = "batch" /\ r[i].items = s[i].items
           /\ r[i].saved = s[i].saved
           /\ Claimed(r[i], i < m) = Claimed(s[i], i < n)
  PROVE  MatchedBy(r, m, more)
<1>1. SUFFICES ASSUME NEW i \in 1 .. m, r[i].kind = "batch"
               PROVE  Matched(r[i], Claimed(r[i], i < m), more)
  BY DEF MatchedBy
<1>2. i \in 1 .. n /\ s[i].kind = "batch"
  BY <1>1
<1>3. Matched(s[i], Claimed(s[i], i < n), toks)
  BY <1>2 DEF MatchedBy
<1>4. Matched(s[i], Claimed(r[i], i < m), toks)
  BY <1>1, <1>3
<1>5. r[i].items = s[i].items /\ r[i].saved = s[i].saved
  BY <1>1
<1>6. QED
  BY <1>4, <1>5, MatchedGrown

(* What a batch claims when it learns how the item under way ended. *)
LEMMA ClaimedNoted ==
  ASSUME NEW f \in Frames, f.kind = "batch", NEW outcome \in Outcomes
  PROVE  LET g == [f EXCEPT !.results = Append(@, outcome)]
         IN  /\ outcome = "Ok" => Claimed(g, FALSE) = Claimed(f, TRUE)
             /\ outcome # "Ok" => Claimed(g, FALSE) = Claimed(f, FALSE)
<1> DEFINE r == Append(f.results, outcome)
           g == [f EXCEPT !.results = r]
           n == Len(f.results)
<1>1. f \in BatchFrames
  BY FrameTyped
<1>2. f.results \in Seq(Outcomes) /\ g.results = r
  BY <1>1 DEF BatchFrames
<1>3. /\ n \in Nat /\ DOMAIN r = 1 .. (n + 1) /\ DOMAIN f.results = 1 .. n
      /\ \A k \in 1 .. n : r[k] = f.results[k]
      /\ r[n + 1] = outcome
  BY <1>2
<1> HIDE DEF r, n
<1>4. \A k : k \in 1 .. (n + 1) <=> k \in 1 .. n \/ k = n + 1
  BY <1>3
<1>5. Claimed(g, FALSE) = {k \in 1 .. (n + 1) : r[k] = "Ok"}
  BY <1>2, <1>3 DEF Claimed
<1>6. /\ Claimed(f, FALSE) = {k \in 1 .. n : f.results[k] = "Ok"}
      /\ Claimed(f, TRUE) = {k \in 1 .. n : f.results[k] = "Ok"} \cup {n + 1}
  BY <1>3 DEF Claimed, n
<1>7. outcome = "Ok" => Claimed(g, FALSE) = Claimed(f, TRUE)
  BY <1>3, <1>4, <1>5, <1>6
<1>8. outcome # "Ok" => Claimed(g, FALSE) = Claimed(f, FALSE)
  BY <1>3, <1>4, <1>5, <1>6
<1>9. QED
  BY <1>7, <1>8 DEF r

(* A step that opens no call: of the calls left, the last may have learnt an
   outcome. *)
LEMMA MatchedCloses ==
  ASSUME IInv, MatchedOK, Len(stack') \in Nat, Len(stack') <= Len(stack),
         \A i \in 1 .. Len(stack') : stack'[i].saved = stack[i].saved,
         \A i \in 1 .. (Len(stack') - 1) : stack'[i] = stack[i],
         MatchedBy(stack', Len(stack'), tokens')
  PROVE  MatchedOK'
<1> DEFINE m == Len(stack')
           n == Len(stack)
<1>1. n \in Nat /\ m \in Nat /\ m <= n
  BY DEF IInv, StackOK
<1>2. /\ \A i \in 1 .. m : stack'[i].saved = stack[i].saved
      /\ \A i \in 1 .. (m - 1) : stack'[i] = stack[i]
  OBVIOUS
<1>3. \A j \in 1 .. n : MatchedBy(stack, j - 1, stack[j].saved.tokens)
  BY DEF MatchedOK
<1> HIDE DEF m, n
<1>4. ASSUME NEW j \in 1 .. m
      PROVE  MatchedBy(stack', j - 1, stack'[j].saved.tokens)
  <2>1. MatchedBy(stack, j - 1, stack'[j].saved.tokens)
    BY <1>1, <1>2, <1>3
  <2>2. j - 1 \in Nat /\ \A i \in 1 .. (j - 1) : i \in 1 .. (m - 1)
    BY <1>1
  <2>3. \A i \in 1 .. (j - 1) : stack'[i] = stack[i]
    BY <1>2, <2>2
  <2>4. QED
    BY <2>1, <2>3 DEF MatchedBy
<1>5. QED
  BY <1>4 DEF MatchedOK, m

(* What is left of the calls when the one on top ends, and the batch below it
   learns of it. *)
LEMMA EndedClaims ==
  ASSUME IInv, stack # <<>>, NEW outcome \in Outcomes, stack' = Ended(outcome)
  PROVE  /\ Len(stack) \in Nat \ {0} /\ Len(stack') = Len(stack) - 1
         /\ \A i \in 1 .. Len(stack') : stack'[i].saved = stack[i].saved
         /\ \A i \in 1 .. (Len(stack') - 1) : stack'[i] = stack[i]
         /\ \A i \in 1 .. Len(stack') : stack'[i].kind = "batch" =>
              /\ stack[i].kind = "batch" /\ stack'[i].items = stack[i].items
              /\ Claimed(stack'[i], i < Len(stack'))
                   = Claimed(stack[i], IF outcome = "Ok" THEN i < Len(stack)
                                       ELSE i < Len(stack) - 1)
<1> DEFINE n == Len(stack)
           waits(i) == IF outcome = "Ok" THEN i < n ELSE i < n - 1
<1>1. stack \in Seq(Frames)
  BY DEF IInv, StackOK
<1>2. /\ n \in Nat \ {0} /\ Len(stack') = n - 1
      /\ \A i \in 1 .. (n - 1) :
           \/ /\ i # n - 1 \/ stack[i].kind # "batch"
              /\ stack'[i] = stack[i]
           \/ /\ i = n - 1
              /\ stack[i].kind = "batch"
              /\ stack'[i] = [stack[i] EXCEPT !.results = Append(@, outcome)]
  BY <1>1, EndedFrames
<1>3. \A i \in 1 .. (n - 1) : stack[i] \in Frames
  <2>1. \A i \in 1 .. (n - 1) : i \in 1 .. n
    BY <1>2
  <2>2. QED
    BY <1>1, <2>1, ElementOfSeq
<1> HIDE DEF n
<1>4. ASSUME NEW i \in 1 .. (n - 1)
      PROVE  /\ stack'[i].saved = stack[i].saved
             /\ i # n - 1 => stack'[i] = stack[i]
             /\ stack'[i].kind = "batch" =>
                  /\ stack[i].kind = "batch" /\ stack'[i].items = stack[i].items
                  /\ Claimed(stack'[i], i < n - 1) = Claimed(stack[i], waits(i))
  <2>1. (i < n) = TRUE
    BY <1>2
  <2>2. CASE /\ i # n - 1 \/ stack[i].kind # "batch"
             /\ stack'[i] = stack[i]
    <3>1. ASSUME i # n - 1
          PROVE  Claimed(stack'[i], i < n - 1) = Claimed(stack[i], waits(i))
      <4>1. (i < n - 1) = TRUE
        BY <1>2, <3>1
      <4>2. waits(i) = TRUE
        BY <2>1, <4>1
      <4>3. QED
        BY <2>2, <4>1, <4>2
    <3>2. QED
      BY <2>2, <3>1
  <2>3. CASE /\ i = n - 1 /\ stack[i].kind = "batch"
             /\ stack'[i] = [stack[i] EXCEPT !.results = Append(@, outcome)]
    <3>1. (i < n - 1) = FALSE
      BY <1>2, <2>3
    <3>2. waits(i) = IF outcome = "Ok" THEN TRUE ELSE FALSE
      BY <2>1, <3>1
    <3>3. /\ outcome = "Ok" => Claimed(stack'[i], FALSE) = Claimed(stack[i], TRUE)
          /\ outcome # "Ok" => Claimed(stack'[i], FALSE) = Claimed(stack[i], FALSE)
      <4> DEFINE f == stack[i]
                 g == [f EXCEPT !.results = Append(@, outcome)]
      <4>1. f \in Frames /\ f.kind = "batch" /\ stack'[i] = g
        BY <1>3, <2>3
      <4> HIDE DEF f
      <4>2. /\ outcome = "Ok" => Claimed(g, FALSE) = Claimed(f, TRUE)
            /\ outcome # "Ok" => Claimed(g, FALSE) = Claimed(f, FALSE)
        BY <4>1, ClaimedNoted
      <4> HIDE DEF g
      <4>3. QED
        BY <4>1, <4>2 DEF f
    <3>4. stack'[i].saved = stack[i].saved /\ stack'[i].items = stack[i].items
      BY <1>3, <2>3, Noted
    <3>5. QED
      BY <2>3, <3>1, <3>2, <3>3, <3>4
  <2>4. QED
    BY <1>2, <2>2, <2>3
<1>5. \A i \in 1 .. (n - 1 - 1) : i \in 1 .. (n - 1) /\ i # n - 1
  BY <1>2
<1>6. QED
  BY <1>2, <1>4, <1>5 DEF n

(* A call that ends well. *)
LEMMA MatchedReturns ==
  ASSUME IInv, MatchedOK, stack # <<>>, stack' = Ended("Ok"),
         Grown(tokens, tokens'), DOMAIN tokens' = DOMAIN tokens
  PROVE  MatchedOK'
<1>1. "Ok" \in Outcomes
  BY DEF Outcomes
<1>2. /\ Len(stack) \in Nat \ {0} /\ Len(stack') = Len(stack) - 1
      /\ \A i \in 1 .. Len(stack') : stack'[i].saved = stack[i].saved
      /\ \A i \in 1 .. (Len(stack') - 1) : stack'[i] = stack[i]
      /\ \A i \in 1 .. Len(stack') : stack'[i].kind = "batch" =>
           /\ stack[i].kind = "batch" /\ stack'[i].items = stack[i].items
           /\ Claimed(stack'[i], i < Len(stack'))
                = Claimed(stack[i], i < Len(stack))
  BY <1>1, EndedClaims
<1>3. Len(stack') \in Nat /\ Len(stack') <= Len(stack) /\ Len(stack) \in Nat
  BY <1>2
<1>4. MatchedBy(stack, Len(stack), tokens)
  BY DEF MatchedOK
<1>5. MatchedBy(stack', Len(stack'), tokens')
  BY <1>2, <1>3, <1>4, MatchedKept
<1>6. QED
  BY <1>2, <1>3, <1>5, MatchedCloses

(* A call that is undone. *)
LEMMA MatchedReverts ==
  ASSUME IInv, MatchedOK, stack # <<>>, stack' = Ended("Reverted"),
         Restore(Top.saved)
  PROVE  MatchedOK'
<1> DEFINE n == Len(stack)
<1>1. "Reverted" \in Outcomes /\ "Reverted" # "Ok"
  BY DEF Outcomes
<1>2. /\ n \in Nat \ {0} /\ Len(stack') = n - 1
      /\ \A i \in 1 .. Len(stack') : stack'[i].saved = stack[i].saved
      /\ \A i \in 1 .. (Len(stack') - 1) : stack'[i] = stack[i]
      /\ \A i \in 1 .. Len(stack') : stack'[i].kind = "batch" =>
           /\ stack[i].kind = "batch" /\ stack'[i].items = stack[i].items
           /\ Claimed(stack'[i], i < Len(stack'))
                = Claimed(stack[i], i < n - 1)
  BY <1>1, EndedClaims
<1>3. n - 1 \in Nat /\ n - 1 <= n /\ n \in 1 .. n
  BY <1>2
<1>4. MatchedBy(stack, n - 1, stack[n].saved.tokens)
  BY <1>3 DEF MatchedOK
<1>5. tokens' = stack[n].saved.tokens
  BY DEF Restore, Top
<1>6. Grown(tokens', tokens')
  BY GrownSelf
<1> HIDE DEF n
<1>7. MatchedBy(stack', n - 1, tokens')
  <2> DEFINE m == n - 1
  <2>1. m \in Nat /\ m <= m /\ MatchedBy(stack, m, tokens')
    BY <1>3, <1>4, <1>5
  <2>2. \A i \in 1 .. m : stack'[i].kind = "batch" =>
          /\ stack[i].kind = "batch" /\ stack'[i].items = stack[i].items
          /\ stack'[i].saved = stack[i].saved
          /\ Claimed(stack'[i], i < m) = Claimed(stack[i], i < m)
    BY <1>2
  <2> HIDE DEF m
  <2>3. MatchedBy(stack', m, tokens')
    BY <1>6, <2>1, <2>2, MatchedKept
  <2>4. QED
    BY <2>3 DEF m
<1>8. QED
  BY <1>2, <1>3, <1>7, MatchedCloses DEF n

(* A call that opens: if a batch makes it, it is for its next item. *)
LEMMA MatchedOpens ==
  ASSUME IInv, QuietOK, MatchedOK, NEW f \in Frames, f.saved = World,
         f.kind = "batch" => f.results = <<>> /\ tokens' = tokens,
         stack' = Append(stack, f), Grown(tokens, tokens'),
         InBatch \/ Callers # {},
         InBatch => Matched(Top, Claimed(Top, TRUE), tokens')
  PROVE  MatchedOK'
<1> DEFINE n == Len(stack)
<1>1. stack \in Seq(Frames)
  BY DEF IInv, StackOK
<1>2. /\ Len(stack') = n + 1 /\ n \in Nat
      /\ \A i \in 1 .. n : stack'[i] = stack[i]
      /\ stack'[n + 1] = f
  BY <1>1, Appended
<1>3. /\ MatchedBy(stack, n, tokens)
      /\ \A j \in 1 .. n : MatchedBy(stack, j - 1, stack[j].saved.tokens)
  BY DEF MatchedOK
<1>4. World.tokens = tokens
  BY WorldFields
<1>5. ASSUME NEW i \in 1 .. n, i = n, stack[i].kind = "batch"
      PROVE  Matched(stack[i], Claimed(stack[i], TRUE), tokens')
  <2>1. stack # <<>>
    BY <1>1, <1>5
  <2>2. QED
    BY <1>5, <2>1 DEF InBatch, Top
<1>6. ASSUME NEW i \in 1 .. n, i # n, stack[i].kind = "batch"
      PROVE  ~NoCode(stack[i])
  BY <1>2, <1>6, NoneQuiet
<1> HIDE DEF n
<1>7. ASSUME NEW i \in 1 .. (n + 1), stack'[i].kind = "batch"
      PROVE  Matched(stack'[i], Claimed(stack'[i], i < n + 1), tokens')
  <2>1. CASE i = n + 1
    <3>1. (i < n + 1) = FALSE /\ stack'[i] = f
      BY <1>2, <2>1
    <3>2. Claimed(f, FALSE) = {} /\ MintedSince(f, tokens') = {}
      BY <1>4, <1>7, <3>1 DEF Claimed, MintedSince
    <3>3. Finds(<<>>, f, {}, tokens')
      BY <3>2 DEF Finds
    <3>4. Matched(f, {}, tokens')
      BY <3>2, <3>3 DEF Matched
    <3>5. QED
      BY <3>1, <3>2, <3>4
  <2>2. CASE i \in 1 .. n
    <3>1. stack'[i] = stack[i] /\ (i < n + 1) = TRUE /\ stack[i].kind = "batch"
      BY <1>2, <1>7, <2>2
    <3>2. CASE i = n
      BY <1>5, <2>2, <3>1, <3>2
    <3>3. CASE i # n
      <4>1. (i < n) = TRUE
        BY <1>2, <2>2, <3>3
      <4>2. Matched(stack[i], Claimed(stack[i], TRUE), tokens)
        BY <1>3, <2>2, <3>1, <4>1 DEF MatchedBy
      <4>3. ~NoCode(stack[i])
        BY <1>6, <2>2, <3>1, <3>3
      <4> DEFINE g == stack[i]
                 c == Claimed(g, TRUE)
      <4> HIDE DEF c
      <4>4. Matched(g, c, tokens)
        BY <4>2 DEF c
      <4>5. Matched(g, c, tokens')
        BY <4>3, <4>4, MatchedGrown
      <4>6. QED
        BY <3>1, <4>5 DEF c
    <3>4. QED
      BY <3>2, <3>3
  <2>3. QED
    BY <1>2, <2>1, <2>2
<1>8. ASSUME NEW j \in 1 .. (n + 1)
      PROVE  MatchedBy(stack', j - 1, stack'[j].saved.tokens)
  <2>1. MatchedBy(stack, j - 1, stack'[j].saved.tokens)
    <3>1. CASE j \in 1 .. n
      BY <1>2, <1>3, <3>1
    <3>2. CASE j = n + 1
      <4>1. j - 1 = n /\ stack'[j] = f
        BY <1>2, <3>2
      <4>2. QED
        BY <1>3, <1>4, <4>1
    <3>3. QED
      BY <1>2, <3>1, <3>2
  <2>2. \A i \in 1 .. (j - 1) : i \in 1 .. n
    BY <1>2
  <2>3. \A i \in 1 .. (j - 1) : stack'[i] = stack[i]
    BY <1>2, <2>2
  <2>4. QED
    BY <2>1, <2>3 DEF MatchedBy
<1>9. MatchedBy(stack', n + 1, tokens')
  BY <1>7 DEF MatchedBy
<1>10. QED
  BY <1>2, <1>8, <1>9 DEF MatchedOK

LEMMA MatchedMint ==
  ASSUME IInv, SinceOK, QuietOK, MatchedOK, NEW a \in Args, NEW value \in Nat,
         SetSBTError(a, value) = "Ok", Mint(a, value),
         InBatch \/ Callers # {},
         InBatch => /\ ~Finished(Top)
                    /\ value = 0 /\ a = Top.items[Len(Top.results) + 1]
  PROVE  MatchedOK'
<1> DEFINE pair == <<AddressOf(a.reciever), a.circuit>>
           sbt == [expiry |-> a.expiration, values |-> a.values,
                   revoked |-> FALSE]
           token == [to |-> AddressOf(a.reciever), uri |-> NoURI, sbt |-> sbt,
                     identifier |-> pair, nullifier |-> a.nullifier,
                     fee |-> a.fee]
           n == Len(tokens)
           f == MintFrame(a, n + 1)
<1>1. tokens' = Append(tokens, token) /\ stack' = Append(stack, f)
  BY DEF Mint
<1>2. tokens \in Seq(Tokens)
  BY WorldTyped DEF IInv
<1>3. f \in Frames /\ f.saved = World /\ f.kind = "mint"
  BY MintFrameTyped
<1>4. /\ token.to = AddressOf(a.reciever)
      /\ token.identifier = <<token.to, a.circuit>>
      /\ token.nullifier = a.nullifier /\ token.fee = a.fee
      /\ token.sbt.expiry = a.expiration /\ token.sbt.values = a.values
  OBVIOUS
<1>5. a.fee = value
  BY DEF SetSBTError
<1> HIDE DEF token, f
<1>6. /\ n \in Nat
      /\ DOMAIN tokens = 1 .. n /\ DOMAIN tokens' = 1 .. (n + 1)
      /\ \A u \in 1 .. n : tokens'[u] = tokens[u]
      /\ tokens'[n + 1] = token
  BY <1>1, <1>2
<1> HIDE DEF n
<1>7. Grown(tokens, tokens')
  <2>1. (1 .. n) \subseteq 1 .. (n + 1)
    BY <1>6
  <2>2. QED
    BY <1>6, <2>1 DEF Grown
<1>8. ASSUME InBatch PROVE Matched(Top, Claimed(Top, TRUE), tokens')
  <2> DEFINE m == Len(Top.results) + 1
             claimed == Claimed(Top, FALSE)
  <2>1. /\ stack \in Seq(Frames) /\ Len(stack) \in Nat \ {0}
        /\ Top \in BatchFrames /\ Top.kind = "batch"
        /\ m \in Nat \ {0}
    BY <1>8, NextItem
  <2>2. Len(stack) \in 1 .. Len(stack)
    BY <2>1
  <2>3. DOMAIN Top.saved.tokens \subseteq 1 .. n
    BY <1>6, <2>1, <2>2, WorldFields DEF SinceOK, Since, Top
  <2>4. IsTokenOf(tokens'[n + 1], Top.items[m])
    BY <1>4, <1>5, <1>6, <1>8 DEF IsTokenOf
  <2>5. Matched(Top, claimed, tokens)
    <3>1. (Len(stack) < Len(stack)) = FALSE
      BY <2>1
    <3>2. QED
      BY <2>1, <2>2, <3>1 DEF MatchedOK, MatchedBy, Top
  <2>6. claimed \subseteq 1 .. (m - 1) /\ Claimed(Top, TRUE) = claimed \cup {m}
    <3>1. Top.results \in Seq(Outcomes)
      BY <2>1 DEF BatchFrames
    <3>2. DOMAIN Top.results = 1 .. (m - 1)
      BY <3>1
    <3>3. QED
      BY <3>2 DEF Claimed
  <2> HIDE DEF m, claimed
  <2>7. Matched(Top, claimed \cup {m}, tokens')
    BY <1>6, <1>7, <2>1, <2>3, <2>4, <2>5, <2>6, MatchedMore
  <2>8. QED
    BY <2>6, <2>7
<1>9. QED
  BY <1>1, <1>3, <1>7, <1>8, MatchedOpens

(* A step that leaves the tokens and the calls that are open. *)
LEMMA MatchedStill ==
  ASSUME MatchedOK, tokens' = tokens, stack' = stack
  PROVE  MatchedOK'
<1>1. MatchedBy(stack', Len(stack'), tokens')
  BY DEF MatchedOK
<1>2. \A j \in 1 .. Len(stack') : MatchedBy(stack', j - 1, stack'[j].saved.tokens)
  BY DEF MatchedOK
<1>3. QED
  BY <1>1, <1>2 DEF MatchedOK

LEMMA StartMatched ==
  ASSUME IInv, QuietOK, MatchedOK, NEW caller \in Accounts,
         NEW items \in Batches, NEW strict \in BOOLEAN,
         StartBatch(caller, items, strict)
  PROVE  MatchedOK'
<1> DEFINE f == BatchFrame(items, strict)
<1>1. f \in Frames /\ f.saved = World /\ f.results = <<>>
  BY BatchFrameTyped
<1>2. /\ stack' = Append(stack, f) /\ tokens' = tokens
      /\ caller \in Callers
  BY DEF StartBatch, chainVars
<1> HIDE DEF f
<1>3. ~InBatch
  BY <1>2, CallerOutsideBatch
<1>4. Grown(tokens, tokens')
  BY <1>2, GrownSelf
<1>5. QED
  BY <1>1, <1>2, <1>3, <1>4, MatchedOpens

LEMMA ItemMatched ==
  ASSUME IInv, SinceOK, QuietOK, MatchedOK, CallItem
  PROVE  MatchedOK'
<1> DEFINE item == Top.items[Len(Top.results) + 1]
           error == SetSBTError(item, 0)
           n == Len(stack)
<1>1. /\ InBatch /\ ~Finished(Top)
      /\ \/ error = "Ok" /\ Mint(item, 0)
         \/ /\ error # "Ok"
            /\ stack' = [stack EXCEPT ![n].results = Append(@, error)]
            /\ UNCHANGED <<chainVars, now, signed>>
  BY Zenon DEF CallItem
<1>2. /\ stack \in Seq(Frames) /\ n \in Nat \ {0} /\ n \in 1 .. n
      /\ Top \in BatchFrames /\ Top.kind = "batch"
      /\ item \in Args
  BY <1>1, NextItem
<1>3. Top \in Frames
  BY <1>2 DEF Frames
<1>4. error \in Outcomes
  BY DEF SetSBTError, Outcomes
<1>5. CASE error = "Ok" /\ Mint(item, 0)
  <2> HIDE DEF n
  <2>1. 0 \in Nat
    OBVIOUS
  <2>2. QED
    BY <1>1, <1>2, <1>5, <2>1, MatchedMint
<1>6. CASE /\ error # "Ok"
           /\ stack' = [stack EXCEPT ![n].results = Append(@, error)]
           /\ UNCHANGED <<chainVars, now, signed>>
  <2> DEFINE g == [Top EXCEPT !.results = Append(@, error)]
  <2> HIDE DEF item, error
  <2>1. stack' = [stack EXCEPT ![n] = g]
    BY <1>6 DEF Top
  <2>2. /\ g \in Frames /\ g.kind = Top.kind /\ g.saved = Top.saved
        /\ g.items = Top.items
        /\ Claimed(g, FALSE) = Claimed(Top, FALSE)
    BY <1>2, <1>3, <1>4, <1>6, Noted, ClaimedNoted
  <2> HIDE DEF g, n
  <2>3. /\ stack' \in Seq(Frames) /\ Len(stack') = Len(stack)
        /\ \A i \in 1 .. Len(stack) : stack'[i] = IF i = n THEN g ELSE stack[i]
    BY <1>2, <2>1, <2>2, Replaced DEF n
  <2>4. /\ n = Len(stack) /\ Len(stack') = n /\ Top = stack[n] /\ tokens' = tokens
    BY <1>6, <2>3 DEF n, Top, chainVars
  <2>5. \A i \in 1 .. n : stack'[i].saved = stack[i].saved
    BY <2>2, <2>3, <2>4
  <2>6. \A i \in 1 .. (n - 1) : stack'[i] = stack[i]
    BY <1>2, <2>3, <2>4
  <2>7. ASSUME NEW i \in 1 .. n, stack'[i].kind = "batch"
        PROVE  /\ stack[i].kind = "batch" /\ stack'[i].items = stack[i].items
               /\ Claimed(stack'[i], i < n) = Claimed(stack[i], i < n)
    <3>1. CASE i = n
      <4>1. (i < n) = FALSE /\ stack'[i] = g /\ stack[i] = Top
        BY <1>2, <2>3, <2>4, <3>1
      <4>2. QED
        BY <1>2, <2>2, <4>1
    <3>2. CASE i # n
      <4>1. stack'[i] = stack[i]
        BY <2>3, <2>4, <3>2
      <4>2. QED
        BY <2>7, <4>1
    <3>3. QED
      BY <3>1, <3>2
  <2>8. /\ MatchedBy(stack, n, tokens) /\ n <= n
        /\ Grown(tokens, tokens') /\ DOMAIN tokens' = DOMAIN tokens
    BY <1>2, <2>4, GrownSelf DEF MatchedOK
  <2>9. MatchedBy(stack', n, tokens')
    BY <1>2, <2>5, <2>7, <2>8, MatchedKept
  <2>10. QED
    BY <1>2, <2>4, <2>5, <2>6, <2>9, MatchedCloses
<1>7. QED
  BY <1>1, <1>5, <1>6

LEMMA NextMatched ==
  IInv /\ SinceOK /\ QuietOK /\ MatchedOK /\ [Next \/ Batching]_vars => MatchedOK'
<1>1. SUFFICES ASSUME IInv, SinceOK, QuietOK, MatchedOK,
                      [Next \/ Batching]_vars
               PROVE  MatchedOK'
  OBVIOUS
<1>2. ASSUME NEW caller \in Accounts, NEW a \in Presented,
             NEW value \in Fees, SetSBT(caller, a, value)
      PROVE  MatchedOK'
  <2>1. a \in Args /\ value \in Nat
    BY <1>1, PresentedTyped, HubBounds DEF IInv
  <2>2. caller \in Callers /\ ~InBatch
    BY <1>2, CallerOutsideBatch DEF SetSBT
  <2>3. QED
    BY <1>1, <1>2, <2>1, <2>2, MatchedMint DEF SetSBT
<1>3. CASE MintReturns
  <2>1. /\ stack # <<>> /\ stack' = Ended("Ok")
        /\ tokens' = [tokens EXCEPT ![Top.tid].uri = sbtOwners[Top.identifier]]
    BY <1>3, Zenon DEF MintReturns
  <2>2. tokens \in Seq(Tokens)
    BY <1>1, WorldTyped DEF IInv
  <2>3. \A t \in DOMAIN tokens : tokens[t] \in Tokens
    BY <2>2
  <2>4. DOMAIN tokens' = DOMAIN tokens
    BY <2>1, <2>2
  <2>5. Grown(tokens, tokens')
    BY <2>1, <2>2, <2>3 DEF Grown, Tokens
  <2>6. QED
    BY <1>1, <2>1, <2>4, <2>5, MatchedReturns
<1>4. CASE MintFails \/ BatchReverts
  BY <1>1, <1>4, MatchedReverts DEF MintFails, BatchReverts, InBatch
<1>5. CASE BatchReturns
  <2>1. stack # <<>> /\ stack' = Ended("Ok") /\ tokens' = tokens
    BY <1>5 DEF BatchReturns, InBatch, chainVars
  <2>2. QED
    BY <1>1, <2>1, GrownSelf, MatchedReturns
<1>6. CASE \/ \E caller \in Accounts : Owning(caller)
           \/ Tick
           \/ \E v \in Verifiers, m \in Messages : Sign(v, m)
           \/ UNCHANGED vars
  <2>1. tokens' = tokens /\ stack' = stack
    BY <1>6, Zenon DEF Owning, RevokeSBT, ChangeVerifier, CollectFees,
                      ChangeOwner, Tick, Sign, vars, chainVars
  <2>2. QED
    BY <1>1, <2>1, MatchedStill
<1>7. QED
  BY <1>1, <1>2, <1>3, <1>4, <1>5, <1>6, StartMatched, ItemMatched
     DEF Next, Batching

LEMMA InitMatched == Init => QuietOK /\ MatchedOK
BY DEF Init, QuietOK, MatchedOK, MatchedBy

LEMMA MatchedInvariant ==
  BatchSpec => [](IInv /\ QuietOK /\ MatchedOK)
<1>1. IInv /\ SinceOK /\ QuietOK /\ MatchedOK /\ [Next \/ Batching]_vars =>
        (QuietOK /\ MatchedOK)'
  BY NextQuiet, NextMatched
<1>2. QED
  BY <1>1, SinceInvariant, InitMatched, PTL DEF BatchSpec

LEMMA MatchedResults == IInv /\ MatchedOK => ResultsMatchTokens
<1>1. SUFFICES ASSUME IInv, MatchedOK PROVE ResultsMatchTokens
  OBVIOUS
<1>2. SUFFICES
        ASSUME NEW i \in DOMAIN stack, stack[i].kind = "batch"
        PROVE  LET f == stack[i]
                   done == DOMAIN f.results \ Failures(f)
                   under == IF i < Len(stack) THEN 1 ELSE 0
               IN  /\ \E tid \in [done -> MintedFor(f)] :
                        /\ \A j, k \in done : j < k => tid[j] < tid[k]
                        /\ \A k \in done : IsTokenOf(tokens[tid[k]], f.items[k])
                   /\ NoCode(f) =>
                        Cardinality(MintedFor(f)) = Cardinality(done) + under
  BY <1>1 DEF ResultsMatchTokens, NoCode
<1> DEFINE f == stack[i]
           done == DOMAIN f.results \ Failures(f)
           under == IF i < Len(stack) THEN 1 ELSE 0
           claimed == Claimed(f, i < Len(stack))
<1>3. stack \in Seq(Frames) /\ i \in 1 .. Len(stack) /\ Len(stack) \in Nat
  BY <1>1, <1>2 DEF IInv, StackOK
<1>4. f \in BatchFrames
  <2>1. f \in Frames
    BY <1>3, ElementOfSeq
  <2>2. QED
    BY <1>2, <2>1, FrameTyped
<1>5. Matched(f, claimed, tokens)
  BY <1>1, <1>2, <1>3 DEF MatchedOK, MatchedBy
<1>6. MintedFor(f) = MintedSince(f, tokens)
  BY DEF MintedFor, MintedSince
<1>7. /\ Len(f.results) \in Nat /\ DOMAIN f.results = 1 .. Len(f.results)
      /\ done \subseteq 1 .. Len(f.results)
      /\ done = Claimed(f, FALSE)
  <2>1. f.results \in Seq(Outcomes)
    BY <1>4 DEF BatchFrames
  <2>2. QED
    BY <2>1 DEF Failures, Claimed
<1> HIDE DEF f
<1>8. /\ done \subseteq claimed
      /\ Cardinality(claimed) = Cardinality(done) + under
  <2>1. CASE i < Len(stack)
    <3> DEFINE m == Len(f.results) + 1
    <3>1. (i < Len(stack)) = TRUE /\ under = 1
      BY <2>1
    <3>2. claimed = done \cup {m}
      BY <1>7, <3>1 DEF Claimed
    <3>3. m \notin 1 .. Len(f.results) /\ IsFiniteSet(1 .. Len(f.results))
      <4>1. m \notin 1 .. Len(f.results)
        BY <1>7
      <4>2. IsFiniteSet(1 .. Len(f.results))
        BY <1>7, FS_Interval
      <4>3. QED
        BY <4>1, <4>2
    <3>4. m \notin done /\ IsFiniteSet(done)
      BY <1>7, <3>3, FS_Subset
    <3> HIDE DEF m, done, claimed
    <3>5. Cardinality(claimed) = Cardinality(done) + 1
      BY <3>2, <3>4, FS_AddElement
    <3>6. QED
      BY <3>1, <3>2, <3>5
  <2>2. CASE ~(i < Len(stack))
    <3>1. (i < Len(stack)) = FALSE /\ under = 0
      BY <2>2
    <3>2. claimed = done
      BY <1>7, <3>1
    <3>3. Cardinality(done) \in Nat
      <4>1. IsFiniteSet(1 .. Len(f.results))
        BY <1>7, FS_Interval
      <4>2. IsFiniteSet(done)
        BY <1>7, <4>1, FS_Subset
      <4>3. QED
        BY <4>2, FS_CardinalityType
    <3> HIDE DEF done, claimed, under
    <3>4. Cardinality(done) + under = Cardinality(done)
      BY <3>1, <3>3
    <3>5. QED
      BY <3>2, <3>4
  <2>3. QED
    BY <2>1, <2>2
<1> HIDE DEF done, claimed, under
<1>9. \E tid \in [done -> MintedFor(f)] :
        /\ \A j, k \in done : j < k => tid[j] < tid[k]
        /\ \A k \in done : IsTokenOf(tokens[tid[k]], f.items[k])
  <2>1. PICK find : Finds(find, f, claimed, tokens)
    BY <1>5 DEF Matched
  <2> DEFINE tid == [k \in done |-> find[k]]
  <2>2. tid \in [done -> MintedFor(f)]
    BY <1>6, <1>8, <2>1 DEF Finds
  <2>3. \A j, k \in done : j < k => tid[j] < tid[k]
    BY <1>8, <2>1 DEF Finds
  <2>4. \A k \in done : IsTokenOf(tokens[tid[k]], f.items[k])
    BY <1>8, <2>1 DEF Finds
  <2> HIDE DEF tid
  <2>5. QED
    BY <2>2, <2>3, <2>4
<1>10. NoCode(f) => Cardinality(MintedFor(f)) = Cardinality(done) + under
  BY <1>5, <1>6, <1>8 DEF Matched
<1>11. QED
  BY <1>9, <1>10 DEF f, done, under

(* What a batch reports agrees with the tokens, for any number of items,
   whichever of them fail, whatever the receivers do meanwhile and in whatever
   calls the batch is nested. *)
THEOREM ResultsMatch == BatchSpec => []ResultsMatchTokens
BY MatchedInvariant, MatchedResults, PTL

-----------------------------------------------------------------------------
(* A strict batch *)

(* The steps in which a batch can end. *)
LEMMA BatchEnds ==
  ASSUME IInv, [Next \/ Batching]_vars, InBatch, Len(stack') < Len(stack)
  PROVE  BatchReturns \/ BatchReverts
<1>1. stack \in Seq(Frames) /\ Len(stack) \in Nat /\ stack # <<>>
  BY DEF IInv, StackOK, InBatch
<1>2. stack' # stack
  BY <1>1
<1>3. \A f : stack' # Append(stack, f)
  <2>1. ASSUME NEW f, stack' = Append(stack, f) PROVE FALSE
    <3>1. Len(stack') = Len(stack) + 1
      BY <1>1, <2>1
    <3>2. QED
      BY <1>1, <3>1
  <2>2. QED
    BY <2>1
<1>4. ~MintReturns /\ ~MintFails
  BY DEF MintReturns, MintFails, InBatch
<1>5. ~Tick /\ ~UNCHANGED vars /\ \A v \in Verifiers, m \in Messages : ~Sign(v, m)
  BY <1>2 DEF Tick, Sign, vars
<1>6. \A caller \in Accounts : ~Owning(caller)
  BY <1>2 DEF Owning, RevokeSBT, ChangeVerifier, CollectFees, ChangeOwner
<1>7. ASSUME NEW caller, NEW a, NEW value, SetSBT(caller, a, value) PROVE FALSE
  BY <1>3, <1>7, Zenon DEF SetSBT, Mint
<1>8. ASSUME NEW caller, NEW items, NEW strict, StartBatch(caller, items, strict)
      PROVE  FALSE
  BY <1>3, <1>8, Zenon DEF StartBatch
<1>9. ~CallItem
  <2>1. SUFFICES ASSUME CallItem PROVE FALSE
    OBVIOUS
  <2>2. \/ \E a : Mint(a, 0)
        \/ \E error : stack' = [stack EXCEPT
                                  ![Len(stack)].results = Append(@, error)]
    BY <2>1, Zenon DEF CallItem
  <2>3. ASSUME NEW a, Mint(a, 0) PROVE FALSE
    BY <1>3, <2>3, Zenon DEF Mint
  <2>4. ASSUME NEW error,
               stack' = [stack EXCEPT ![Len(stack)].results = Append(@, error)]
        PROVE  FALSE
    <3> DEFINE g == [stack[Len(stack)] EXCEPT !.results = Append(@, error)]
    <3>1. stack' = [stack EXCEPT ![Len(stack)] = g]
      BY <2>4
    <3> HIDE DEF g
    <3>2. Len(stack') = Len(stack)
      BY <1>1, <3>1
    <3>3. QED
      BY <1>1, <3>2
  <2>5. QED
    BY <2>2, <2>3, <2>4
<1>10. QED
  BY <1>4, <1>5, <1>6, <1>7, <1>8, <1>9 DEF Next, Batching

(* A strict batch of any number of items, in whatever calls it is nested,
   mints for each of them or leaves no trace. *)
THEOREM StrictAllOrNothing == BatchSpec => StrictIsAllOrNothing
<1>1. ASSUME IInv, MatchedOK, [Next \/ Batching]_vars,
             InBatch, Top.strict, Len(stack') < Len(stack)
      PROVE  \/ World' = Top.saved
             \/ \A k \in DOMAIN Top.items : \E t \in MintedFor(Top) :
                  IsTokenOf(tokens'[t], Top.items[k])
  <2>1. stack \in Seq(Frames) /\ Len(stack) \in 1 .. Len(stack)
    BY <1>1, EmptySeq DEF IInv, StackOK, InBatch
  <2>2. Top \in Frames /\ Top.kind = "batch"
    BY <1>1, <2>1, ElementOfSeq DEF Top, InBatch
  <2>3. CASE BatchReverts
    <3>1. Restore(Top.saved) /\ Top.saved \in Worlds
      BY <2>2, <2>3, FrameTyped DEF BatchReverts
    <3>2. QED
      BY <3>1, RestoredWorld
  <2>4. CASE BatchReturns
    <3>1. Failures(Top) = {} /\ Len(Top.results) = Len(Top.items) /\ tokens' = tokens
      BY <1>1, <2>4 DEF BatchReturns, GoesOn, Finished, chainVars
    <3>2. Top \in BatchFrames
      BY <2>2, FrameTyped
    <3>3. Top.results \in Seq(Outcomes) /\ Top.items \in Seq(Args)
      BY <3>2 DEF BatchFrames
    <3>4. DOMAIN Top.items = DOMAIN Top.results
      BY <3>1, <3>3
    <3>5. \A k \in DOMAIN Top.items : k \in Claimed(Top, FALSE)
      BY <3>1, <3>4 DEF Failures, Claimed
    <3>6. (Len(stack) < Len(stack)) = FALSE
      BY <2>1
    <3>7. Matched(Top, Claimed(Top, FALSE), tokens)
      BY <1>1, <2>1, <2>2, <3>6 DEF MatchedOK, MatchedBy, Top
    <3>8. PICK tid : Finds(tid, Top, Claimed(Top, FALSE), tokens)
      BY <3>7 DEF Matched
    <3>9. \A k \in DOMAIN Top.items :
            /\ tid[k] \in MintedFor(Top)
            /\ IsTokenOf(tokens'[tid[k]], Top.items[k])
      BY <3>1, <3>5, <3>8 DEF Finds, MintedSince, MintedFor
    <3>10. QED
      BY <3>9
  <2>5. QED
    BY <1>1, <2>3, <2>4, BatchEnds
<1>2. IInv /\ MatchedOK /\ [Next \/ Batching]_vars =>
        [InBatch /\ Top.strict /\ Len(stack') < Len(stack) =>
           \/ World' = Top.saved
           \/ \A k \in DOMAIN Top.items : \E t \in MintedFor(Top) :
                IsTokenOf(tokens'[t], Top.items[k])]_vars
  BY <1>1
<1>3. QED
  BY <1>2, MatchedInvariant, PTL DEF BatchSpec, StrictIsAllOrNothing
=============================================================================
