-------------------------- MODULE MCHostTaskQueue --------------------------
(* Finite instances of HostTaskQueue: two instances on one host.           *)
EXTENDS HostTaskQueue, TLC

CONSTANTS n1, n2, h1, i1, i2, u1, u2

OneNode == {n1}
TwoNodes == {n1, n2}
OneHost == {h1}
Instances == {i1, i2}
OneUser == {u1}
SharedHost == [i \in Instances |-> h1]
Symmetric == Permutations(Node) \cup Permutations(Instance)
=============================================================================
