----------------------------- MODULE MCCleanHands -----------------------------
(***************************************************************************)
(* CleanHands and AuditLayer for TLC.  They share nothing: what one of     *)
(* them has begun is looked at without the other.                          *)
(***************************************************************************)
EXTENDS CleanHands, AuditLayer

MCVars == <<users, layer>>

(* Other provers may choose any field element. *)
MCExpiries == 0 .. FieldPrime - 1

(* A point of each message in the subgroup and another one of firstName, one
   of firstName outside the subgroup, and points of no message. *)
MCPointMessage ==
  [n \in 0 .. Order - 1 |->
     CASE n \in {8, 9, 32} -> "firstName" [] n = 16 -> "lastName"
       [] n = 24 -> "birthdate" [] OTHER -> "none"]

Untwisted(n) == [n |-> n, scale |-> 1]
Twisted(n) == [n |-> n, scale |-> 0]
MCList(a, b, c) == <<Untwisted(a), Untwisted(b), Untwisted(c)>>

MCScriptPoints == MCList(8, 16, 24)

(* The right points, another of the same message, in the wrong order, one of
   them twice, outside the subgroup, of no message (the two with x = 0 among
   them), and in the wrong coordinates. *)
MCPointLists ==
  {MCList(8, 16, 24), MCList(32, 16, 24), MCList(16, 8, 24), MCList(8, 8, 24),
   MCList(9, 16, 24), MCList(0, 16, 24), MCList(20, 16, 24),
   <<Twisted(8), Untwisted(16), Untwisted(24)>>}

-----------------------------------------------------------------------------
NobodyProves == CleanHandsInit

LayerStep(Step) == NobodyProves /\ Step /\ UNCHANGED users

MCInit == CleanHandsInit /\ LayerInit

MCNext ==
  \/ LayerStep(LayerNext)
  \/ LayerInit /\ CleanHandsNext /\ UNCHANGED layer

MCSpec ==
  /\ MCInit /\ [][MCNext]_MCVars
  /\ WF_MCVars(LayerStep(InitStep(Constructor)))
  /\ \A c \in Callers : WF_MCVars(LayerStep(CallStep(c)))
=============================================================================
