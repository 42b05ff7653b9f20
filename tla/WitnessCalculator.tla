--------------------------- MODULE WitnessCalculator ---------------------------
(***************************************************************************)
(* witness_calculator.js, the JavaScript around a circuit's WebAssembly    *)
(* (utils/packages/zk-escrow/zk/daEncrypt_js): one WitnessCalculator, and  *)
(* the calls that are made on it.                                          *)
(*                                                                         *)
(* A call sets the inputs in its caller's turn of the event loop, and      *)
(* reads the witness in a microtask: another call may set its inputs       *)
(* between the two, in the same instance.                                  *)
(*                                                                         *)
(* The WebAssembly is external: it keeps the input signals, checks one     *)
(* assertion when the last of them is set, and then computes one output.   *)
(* A word has Radix values, and is long enough for the lengths of a file   *)
(* (2^32); the texts of errors are abridged.                               *)
(***************************************************************************)
EXTENDS Integers, Sequences, FiniteSets, SequencesExt

CONSTANTS
  Prime, N32, Radix,       \* the field, words of an element, values of a word
  Declared,                \* the input signals, in the circuit's order
  InputSizes,              \* their sizes: a function
  Refused,                 \* a value that the circuit's assertion refuses
  Calls,                   \* bound: calls of the calculator
  Inputs                   \* bound: the inputs of a call

ASSUME CalculatorBounds ==
  /\ Prime \in Nat \ {0, 1} /\ N32 \in Nat \ {0} /\ Radix \in Nat \ {0, 1}
  /\ InputSizes \in [{Declared[k] : k \in DOMAIN Declared} -> Nat \ {0}]

(* A circuit has input signals, each with a name of its own. *)
ASSUME DeclaredAssumption ==
  /\ Declared \in Seq(DOMAIN InputSizes) /\ Declared /= <<>>
  /\ \A j, k \in DOMAIN Declared : Declared[j] = Declared[k] => j = k

(* An input is an object: no two of its entries have the same key. *)
ASSUME InputsAssumption ==
  /\ Inputs \subseteq Seq([key: STRING, value: Seq(Seq(Int))])
  /\ \A input \in Inputs : \A j, k \in DOMAIN input :
       input[j].key = input[k].key => j = k

VARIABLES
  wasm,            \* the instance: its signals, and which inputs are set
  witnessCalls,
  queue            \* the calls whose microtask is due, in order

calculator == <<wasm, witnessCalls, queue>>

Formats == {"calculateWitness", "calculateBinWitness", "calculateWTNSBin"}

-----------------------------------------------------------------------------
(* Field elements and words *)

(* % of a BigInt has the sign of its left operand. *)
Rem(n) == IF n < 0 THEN - ((- n) % Prime) ELSE n % Prime

(* Fault: the sign stays. *)
NormalizeOnce(n) == Rem(n)

Normalize(n) == IF Rem(n) < 0 THEN Rem(n) + Prime ELSE Rem(n)

(* What is left of rem when k of its words have been taken off. *)
Rests(rem) ==
  LET rest[k \in 0 .. N32] == IF k = 0 THEN rem ELSE rest[k - 1] \div Radix
  IN  rest

(* The most significant word comes first. *)
ToArray32(rem) == [k \in 1 .. N32 |-> Rests(rem)[N32 - k] % Radix]

(* getFieldNumLen32: an element has no more words than that. *)
ASSUME ElementsFit == \A n \in 0 .. Prime - 1 : Rests(n)[N32] = 0

FromArray32(arr) == FoldLeft(LAMBDA res, word : res * Radix + word, 0, arr)

(* The shared memory holds the least significant word first. *)
Shared(element) == Reverse(ToArray32(element))

(* Arrays of arrays: deeper ones are not used. *)
FlatArray(a) == FlattenSeq(a)

-----------------------------------------------------------------------------
(* The instance *)

GetInputSize == FoldLeft(LAMBDA n, s : n + InputSizes[s], 0, Declared)

InputValues(signals) ==
  FlattenSeq([k \in DOMAIN Declared |-> signals[Declared[k]]])

Output(values) == FoldLeft(LAMBDA n, v : (2 * n + v) % Prime, 0, values)

(* The witness begins with 1 and the outputs. *)
GetWitness(w) == <<1, w.output>> \o InputValues(w.inputs)

Instance ==
  [inputs |-> [s \in DOMAIN InputSizes |-> [k \in 1 .. InputSizes[s] |-> 0]],
   set |-> {}, output |-> 0]

(* What a size says of a key and its values. *)
InputError(sizes, key, length) ==
  IF key \notin DOMAIN sizes THEN "not found"
  ELSE IF length < sizes[key] THEN "not enough values"
  ELSE IF length > sizes[key] THEN "too many values"
  ELSE "none"

(* setInputSignal runs the circuit when it has set the last signal. *)
SetSignal(w, key, values) ==
  [inputs |-> [w.inputs EXCEPT ![key] = values],
   set |-> w.set \cup {key},
   output |-> w.output]

Run(state) ==
  LET values == InputValues(state.wasm.inputs)
  IN IF state.wasm.set /= DOMAIN InputSizes THEN state
     ELSE IF Refused \in ToSet(values)
     THEN [state EXCEPT !.error = "assert failed"]
     ELSE [state EXCEPT !.wasm.output = Output(values)]

(* One key of the input; the elements go through the shared memory.  The first
   error ends the loop. *)
SetInput(state, entry) ==
  LET flat == FlatArray(entry.value)
      error == InputError(InputSizes, entry.key, Len(flat))
      elements == [k \in DOMAIN flat |->
                     FromArray32(ToArray32(Normalize(flat[k])))]
  IN IF state.error /= "none" THEN state
     ELSE IF error /= "none" THEN [state EXCEPT !.error = error]
     ELSE Run([wasm |-> SetSignal(state.wasm, entry.key, elements),
               counter |-> state.counter + Len(flat), error |-> "none"])

(* _doCalculateWitness; init forgets which inputs are set, and not their
   values. *)
DoCalculateWitness(input) ==
  LET started == [wasm |-> [wasm EXCEPT !.set = {}], counter |-> 0,
                  error |-> "none"]
      end == FoldLeft(SetInput, started, input)
  IN IF end.error = "none" /\ end.counter < GetInputSize
     THEN [end EXCEPT !.error = "not all inputs"]
     ELSE end

-----------------------------------------------------------------------------
(* What the calls return *)

Words(elements) == FlattenSeq([k \in DOMAIN elements |-> Shared(elements[k])])

(* getRawPrime: a word above the field's largest element, perhaps. *)
RawPrime == Shared(Prime)

n8 == 4 * N32

(* Two sections, each with an identifier and a length of two words. *)
WTNSBin(witness) ==
  <<"wtns", 2, 2, 1, 8 + n8, 0, n8>> \o RawPrime
    \o <<Len(witness), 2, n8 * Len(witness), 0>> \o Words(witness)

Encoded(format, witness) ==
  CASE format = "calculateWitness" ->
         [k \in DOMAIN witness |-> FromArray32(Reverse(Shared(witness[k])))]
    [] format = "calculateBinWitness" -> Words(witness)
    [] format = "calculateWTNSBin" -> WTNSBin(witness)

-----------------------------------------------------------------------------
(* The calls *)

(* A call sets its inputs.  If that throws, it is rejected; otherwise its
   await goes on in a microtask. *)
StartWitness(c, format, input) ==
  LET end == DoCalculateWitness(input)
  IN /\ witnessCalls[c].status = "none"
     /\ wasm' = end.wasm
     /\ witnessCalls' = [x \in Calls |->
          IF x = c
          THEN [status |-> IF end.error = "none" THEN "waiting" ELSE end.error,
                format |-> format, input |-> input, out |-> <<>>, last |-> c]
          ELSE IF witnessCalls[x].status = "waiting"
          THEN [witnessCalls[x] EXCEPT !.last = c]
          ELSE witnessCalls[x]]
     /\ queue' = IF end.error = "none" THEN Append(queue, c) ELSE queue

(* The first microtask reads the witness that the instance holds now. *)
FinishWitness ==
  /\ queue /= <<>>
  /\ witnessCalls' = [witnessCalls EXCEPT
       ![Head(queue)].status = "returned",
       ![Head(queue)].out =
          Encoded(witnessCalls[Head(queue)].format, GetWitness(wasm))]
  /\ queue' = Tail(queue)
  /\ UNCHANGED wasm

CalculatorInit ==
  /\ wasm = Instance
  /\ witnessCalls = [c \in Calls |->
       [status |-> "none", format |-> "none", input |-> <<>>, out |-> <<>>,
        last |-> c]]
  /\ queue = <<>>

CalculatorNext ==
  \/ \E c \in Calls, format \in Formats, input \in Inputs :
       StartWitness(c, format, input)
  \/ FinishWitness

-----------------------------------------------------------------------------
(* Properties *)

(* The witness of an input, whatever the order of its keys and whatever
   representatives its field elements are. *)
WitnessOf(input) ==
  LET given(s) == FlattenSeq((CHOOSE e \in ToSet(input) : e.key = s).value)
      values == InputValues([s \in DOMAIN InputSizes |->
                  [k \in 1 .. InputSizes[s] |->
                     CHOOSE v \in 0 .. Prime - 1 :
                       (given(s)[k] - v) % Prime = 0]])
  IN <<1, Output(values)>> \o values

Element(words) == FromArray32(Reverse(words))

(* Section 2, as a reader of the format finds it: behind the length of the
   first section, whose element size and count it goes by. *)
ReadBin(words, from, count) ==
  [k \in 1 .. count |->
     Element(SubSeq(words, from + (k - 1) * N32, from + k * N32 - 1))]

ReadWTNS(words) ==
  LET second == 6 + words[5] \div 4 + 1
      count == words[second - 1]
  IN IF words[second] /= 2 THEN <<>>
     ELSE ReadBin(words, second + 3, count)

Decoded(format, out) ==
  CASE format = "calculateWitness" -> out
    [] format = "calculateBinWitness" -> ReadBin(out, 1, Len(out) \div N32)
    [] format = "calculateWTNSBin" -> ReadWTNS(out)

(* A call returns, in the format it was asked for, the witness of the last
   call that was begun before it read the instance: its own, unless another
   one came between.  (If that other one was rejected, the instance holds a
   mixture of the two.) *)
WitnessOfTheLastStart ==
  \A c \in Calls :
    LET call == witnessCalls[c]
    IN /\ call.status = "returned"
       /\ witnessCalls[call.last].status \in {"waiting", "returned"}
       => Decoded(call.format, call.out)
            = WitnessOf(witnessCalls[call.last].input)
=============================================================================
