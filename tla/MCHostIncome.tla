---------------------------- MODULE MCHostIncome ----------------------------
(***************************************************************************)
(* HostIncome with one owner and one instance, where a deduction may shrink*)
(* a row whose amount a job has read.                                      *)
(***************************************************************************)
EXTENDS HostIncome, TLC

OneHost == [i \in Instance |-> "u1"]
Owners == {"u1"}

Symmetry == Permutations(Process)
=============================================================================
