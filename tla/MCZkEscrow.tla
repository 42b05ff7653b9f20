------------------------------ MODULE MCZkEscrow ------------------------------
(* ZkEscrow for TLC, with a circuit of two input signals. *)
EXTENDS ZkEscrow

MCDeclared == <<"a", "b">>
MCInputSizes == [s \in {"a", "b"} |-> IF s = "a" THEN 1 ELSE 2]

Entry(key, value) == [key |-> key, value |-> value]

(* Keys in both orders; negative elements, elements beyond the field and the
   element that is refused; arrays of arrays; missing and unknown keys, and
   values too few or too many. *)
MCInputs ==
  {<<Entry("a", <<<<-3>>>>), Entry("b", <<<<5>>, <<-8>>>>)>>,
   <<Entry("b", <<<<20, 1>>>>), Entry("a", <<<<6>>>>)>>,
   <<Entry("a", <<<<4>>>>), Entry("b", <<<<1, 7>>>>)>>,
   <<Entry("a", <<<<2>>>>)>>,
   <<Entry("a", <<<<3>>>>), Entry("b", <<<<1>>>>)>>,
   <<Entry("b", <<<<1, 2, 3>>>>)>>,
   <<Entry("a", <<<<2>>>>), Entry("c", <<<<1>>>>)>>}
=============================================================================
