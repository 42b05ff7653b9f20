------------------------------ MODULE SuiClients ------------------------------
(***************************************************************************)
(* The TypeScript clients of the Sui packages                              *)
(* (contracts/sui/human-id/ts-project), beside the chain of module SuiSBT: *)
(* verifier-test.ts and simple-verifier-test.ts read one SBT and inspect   *)
(* blocks of calls of sbt_verifier, index.ts pages through the events of   *)
(* the relayer.                                                            *)
(*                                                                         *)
(* Each request is one step: a block is inspected in one state of the      *)
(* chain, and the chain moves on between two requests, which all go to one *)
(* full node.  A request may fail.  What the scripts print is left out,    *)
(* with one exception: a date that cannot be printed throws.               *)
(***************************************************************************)
EXTENDS SuiSBT

CONSTANTS
  Relayer,                        \* RELAYER_ADDR
  ExpectedCircuit,                \* the circuit of the SBT as it was deployed
  ExpectedAction,
  WrongCircuit, WrongAction,      \* '999999999'
  MaxDate,                        \* the last second that a Date can print
  PageLimit,                      \* events of a page, the node's choice
  NoFields,                       \* null
  MaxEvents                       \* bound: events of the relayer

ASSUME ClientBounds ==
  /\ Relayer \in Addresses
  /\ Any \notin {ExpectedCircuit, WrongCircuit, ExpectedAction, WrongAction}
  /\ NoFields \notin SoulBoundTokens
  /\ MaxDate \in Nat /\ PageLimit \in Nat \ {0} /\ MaxEvents \in Nat

VARIABLES
  events,          \* the types of the events of the relayer's transactions
  scripts,         \* where each verifier script is, and what it has seen
  pager            \* main of index.ts

clients == <<events, scripts, pager>>
clientVars == <<vars, clients>>

VerifierTest == "verifier-test.ts"
SimpleTest == "simple-verifier-test.ts"
Scripts == {VerifierTest, SimpleTest}

-----------------------------------------------------------------------------
(* The chain, with the events it emits *)

(* event::emit, as far as a query for the relayer's events finds it. *)
Emit(sender, type) ==
  events' = IF sender = Relayer THEN Append(events, type) ELSE events

ChainStep ==
  /\ \/ \E sender \in Addresses :
          /\ sender = Relayer => Len(events) < MaxEvents
          /\ \/ /\ \E newMinter \in Addresses : SetMinter(sender, newMinter)
                /\ Emit(sender, "MinterChanged")
             \/ /\ \E recipient \in Addresses, circuit \in Circuits,
                      action \in Actions, nullifier \in Nullifiers,
                      expiry \in Expirations :
                     Mint(sender, recipient, circuit, action, nullifier, expiry)
                /\ Emit(sender, "SBTMinted")
             \/ /\ \E i \in DOMAIN sbts : Revoke(sender, i)
                /\ Emit(sender, "SBTRevoked")
     \/ Tick /\ UNCHANGED events
  /\ UNCHANGED <<scripts, pager>>

-----------------------------------------------------------------------------
(* Blocks of calls: what each returns of an SBT *)

BasicBlock(sbt) == [valid |-> IsValid(sbt)]

DetailedBlock(sbt) ==
  [valid |-> IsValid(sbt), recipient |-> sbt.recipient,
   circuit |-> sbt.circuit]

ExpectedCircuitBlock(sbt) ==
  [right |-> VerifySbt(sbt, ExpectedCircuit, Any),
   wrong |-> VerifySbt(sbt, WrongCircuit, Any)]

ExpectedActionBlock(sbt) ==
  [right |-> VerifySbt(sbt, Any, ExpectedAction),
   wrong |-> VerifySbt(sbt, Any, WrongAction)]

AccessorBlock(sbt) ==
  [recipient |-> sbt.recipient, circuit |-> sbt.circuit,
   action |-> sbt.action, expired |-> IsExpired(sbt),
   revoked |-> sbt.revoked]

SimpleAccessorBlock(sbt) ==
  [recipient |-> sbt.recipient, circuit |-> sbt.circuit,
   action |-> sbt.action, revoked |-> sbt.revoked]

TimeBlock(sbt) == [valid |-> IsValid(sbt), expired |-> IsExpired(sbt)]

(* Nothing is inspected without the fields. *)
CircuitBlock(sbt, fields) ==
  IF fields = NoFields THEN NoFields
  ELSE [right |-> VerifySbt(sbt, fields.circuit, Any),
        wrong |-> VerifySbt(sbt, WrongCircuit, Any)]

ActionBlock(sbt, fields) ==
  IF fields = NoFields THEN NoFields
  ELSE [right |-> VerifySbt(sbt, Any, fields.action),
        wrong |-> VerifySbt(sbt, Any, WrongAction)]

-----------------------------------------------------------------------------
(* The scripts *)

(* SBT_OBJECT_ID, hard-coded: the first SBT, which may not be minted yet. *)
Exists == sbts /= <<>>
TheSbt == sbts[1]

Tests ==
  [s \in Scripts |->
     IF s = VerifierTest
     THEN <<"details", "basic", "detailed", "circuit", "action", "accessors">>
     ELSE <<"details", "accessors", "time", "circuit", "action">>]

NextTest(s) == Tests[s][Len(scripts[s].seen) + 1]

(* toISOString throws a RangeError beyond the last date. *)
Printable(sbt) == sbt.expiry <= MaxDate

(* What getSBTDetails returns: verifier-test.ts ignores it. *)
VerifierDetails == NoFields

(* The fields are those of the moment they are read. *)
SimpleDetails == IF Exists THEN TheSbt ELSE NoFields

VerifierResult(test, sbt) ==
  CASE test = "basic" -> BasicBlock(sbt)
    [] test = "detailed" -> DetailedBlock(sbt)
    [] test = "circuit" -> ExpectedCircuitBlock(sbt)
    [] test = "action" -> ExpectedActionBlock(sbt)
    [] test = "accessors" -> AccessorBlock(sbt)

SimpleResult(test, sbt, fields) ==
  CASE test = "accessors" -> SimpleAccessorBlock(sbt)
    [] test = "time" -> TimeBlock(sbt)
    [] test = "circuit" -> CircuitBlock(sbt, fields)
    [] test = "action" -> ActionBlock(sbt, fields)

(* main goes on to the next test, or is done. *)
Sees(s, result, fields) ==
  LET seen == Append(scripts[s].seen, result)
  IN scripts' = [scripts EXCEPT ![s] =
       [seen |-> seen, fields |-> fields,
        status |-> IF Len(seen) = Len(Tests[s]) THEN "completed"
                   ELSE "running"]]

(* An object without content has nothing that could be printed. *)
Details(s) ==
  /\ NextTest(s) = "details"
  /\ Exists => Printable(TheSbt)
  /\ LET fields == IF s = VerifierTest THEN VerifierDetails ELSE SimpleDetails
     IN Sees(s, fields, fields)

(* A test without fields to compare with returns before it asks anything. *)
Skipped(s) ==
  /\ s = SimpleTest /\ scripts[s].fields = NoFields
  /\ NextTest(s) \in {"circuit", "action"}

(* A block needs the object. *)
Inspect(s) ==
  LET test == NextTest(s)
      fields == scripts[s].fields
  IN /\ test /= "details"
     /\ Exists \/ Skipped(s)
     /\ Sees(s, IF s = VerifierTest THEN VerifierResult(test, TheSbt)
                ELSE SimpleResult(test, TheSbt, fields), fields)

(* The request fails, the object is missing or its date cannot be printed:
   whatever a test throws ends the script. *)
Throw(s) == scripts' = [scripts EXCEPT ![s].status = "failed"]

ScriptStep(s) ==
  /\ scripts[s].status = "running"
  /\ Details(s) \/ Inspect(s) \/ Throw(s)
  /\ UNCHANGED <<vars, events, pager>>

-----------------------------------------------------------------------------
(* index.ts: main *)

(* The library asks for the newest events first if it is given no order.  A
   cursor is the place of the event it names, and null is 0: without one a page
   ends with the newest event, and with one just before the event it names. *)
Latest(cursor) == IF cursor = 0 THEN Len(events) ELSE cursor - 1

Oldest(cursor) ==
  IF Latest(cursor) > PageLimit THEN Latest(cursor) - PageLimit + 1 ELSE 1

(* The order within a page makes no difference to what is counted. *)
Page(cursor) == SubSeq(events, Oldest(cursor), Latest(cursor))

Mints(page) == Cardinality({i \in DOMAIN page : page[i] = "SBTMinted"})

(* The last event of a page is its oldest.  Behind the oldest of all the node
   names that one again, or nothing. *)
NextCursors(cursor) ==
  IF Page(cursor) /= <<>> THEN {Oldest(cursor)} ELSE {cursor, 0}

(* `asked` remembers how many events there were when the first request, the one
   without a cursor, was answered. *)
Asked == IF pager.cursor = 0 THEN Len(events) ELSE pager.asked

(* Fault: the cursor of the page before is kept. *)
TurnKeepingCursor(next) ==
  [pager EXCEPT !.total = @ + Len(Page(pager.cursor)),
                !.minted = @ + Mints(Page(pager.cursor)),
                !.asked = IF pager.total = 0 THEN Asked ELSE @,
                !.status = IF next = 0 THEN "completed" ELSE "running"]

(* Fault: the first page is taken for the last. *)
TurnOnce(next) ==
  [cursor |-> next, asked |-> Asked,
   total |-> pager.total + Len(Page(pager.cursor)),
   minted |-> pager.minted + Mints(Page(pager.cursor)),
   status |-> "completed"]

(* nextCursor and cursor are different objects even if they name the same
   event, so that only null ends the loop. *)
Turn(next) ==
  [cursor |-> next, asked |-> Asked,
   total |-> pager.total + Len(Page(pager.cursor)),
   minted |-> pager.minted + Mints(Page(pager.cursor)),
   status |-> IF next = 0 THEN "completed" ELSE "running"]

Query ==
  /\ pager.status = "running"
  /\ \E next \in NextCursors(pager.cursor) : pager' = Turn(next)
  /\ UNCHANGED <<vars, events, scripts>>

(* The request fails: exit code 1. *)
QueryFails ==
  /\ pager.status = "running"
  /\ pager' = [pager EXCEPT !.status = "failed"]
  /\ UNCHANGED <<vars, events, scripts>>

PagerStep == Query \/ QueryFails

-----------------------------------------------------------------------------
(* The clients only read, and do not see each other: one of them runs. *)
ClientsInit ==
  /\ Init
  /\ events = <<>>
  /\ \E running \in Scripts \cup {"index.ts"} :
       /\ scripts = [s \in Scripts |->
            [seen |-> <<>>, fields |-> NoFields,
             status |-> IF s = running THEN "running" ELSE "not started"]]
       /\ pager = [cursor |-> 0, asked |-> 0, total |-> 0, minted |-> 0,
                   status |-> IF running = "index.ts" THEN "running"
                              ELSE "not started"]

ClientsNext ==
  \/ ChainStep
  \/ \E s \in Scripts : ScriptStep(s)
  \/ PagerStep

(* Every request is answered or fails. *)
ClientsSpec ==
  /\ ClientsInit /\ [][ClientsNext]_clientVars
  /\ WF_clientVars(PagerStep)
  /\ \A s \in Scripts : WF_clientVars(ScriptStep(s))

-----------------------------------------------------------------------------
(* Properties *)

(* What a script was told, in the order in which it was told. *)
Verdict(s, test, flag) ==
  {scripts[s].seen[i][flag] :
     i \in {j \in DOMAIN scripts[s].seen :
              /\ Tests[s][j] = test /\ scripts[s].seen[j] /= NoFields}}

(* A negative verdict is right and final: an SBT that a block has found invalid,
   or not the one whose circuit and action simple-verifier-test.ts had read
   before, is revoked or past the last millisecond of its expiry's second, then
   and later, however old the fields were. *)
NegativeVerdictsStand ==
  (\/ FALSE \in Verdict(VerifierTest, "basic", "valid")
   \/ FALSE \in Verdict(VerifierTest, "detailed", "valid")
   \/ FALSE \in Verdict(SimpleTest, "time", "valid")
   \/ FALSE \in Verdict(SimpleTest, "circuit", "right")
   \/ FALSE \in Verdict(SimpleTest, "action", "right"))
    => \/ TheSbt.revoked
       \/ clockMs >= (TheSbt.expiry + 1) * MsPerSecond

(* What index.ts has counted are the newest of the events that there were when
   its first request was answered, each of them once, and as successful exactly
   the mints among them, whatever is emitted between two pages; when it reports
   its totals, they are all of these events and no later one. *)
EventsCountedOnce ==
  /\ pager.total <= pager.asked /\ pager.asked <= Len(events)
  /\ pager.minted
       = Mints(SubSeq(events, pager.asked - pager.total + 1, pager.asked))
  /\ pager.status = "completed" => pager.total = pager.asked

(* All the events that there were when the first request of index.ts was
   answered are counted in the end, unless a request fails: its paging reaches
   the oldest of them. *)
EventsCountedAtLast ==
  \A n \in 1 .. MaxEvents :
    pager.asked = n ~> (pager.total = n \/ pager.status = "failed")
=============================================================================
