------------------------------ MODULE MCSessions ------------------------------
(* Instances of Sessions: requests are interchangeable. *)
EXTENDS Sessions, TLC

RequestSymmetry == Permutations(Requests)

\* Two more requests after a create() nobody overlapped, or one that overlaps it.
Begun    == {q \in Requests : job[q].phase # "idle"}
FewBegin == Cardinality(Begun) > 2 => \E q \in Requests : job[q].kind = "create" /\ alone[q]
===============================================================================
