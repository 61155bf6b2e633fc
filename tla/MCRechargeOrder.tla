-------------------------- MODULE MCRechargeOrder --------------------------
(* RechargeOrder with the sets of operations of its runs.                  *)
EXTENDS RechargeOrder, TLC

(* Nobody settles an order on trust.                                       *)
Untrusting == AllKinds \ {"complete"}

(* What can only credit the order or hand out another link.                *)
Crediting == {"callback", "verify", "sync", "complete", "repay", "clean"}

(* Handlers are interchangeable, and so are the links made later.          *)
Symmetry == Permutations(Handler) \cup Permutations(Link \ {First})
=============================================================================
