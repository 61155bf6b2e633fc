------------------------- MODULE MCInstanceBilling -------------------------
(***************************************************************************)
(* InstanceBilling with several sets of operations: an instance sees those *)
(* of one, chosen at the start.                                            *)
(***************************************************************************)
EXTENDS InstanceBilling, TLC

(* Renewals by the owner and by the job, which he turns on and off.        *)
Renewing == {"renew", "autoRenew", "toggle", "expiryDelete"}

(* Everything that deletes or pays back.                                   *)
Deleting == {"renew", "destroy", "adminDelete", "ownerDelete", "refund"}

(* Suspensions by people beside renewals and deletions.                    *)
Suspending == {"expiryDelete", "destroy", "ownerDelete", "suspend", "unsuspend"}

(* Extensions of a row, paid or not, and of all rows of a host.            *)
Extending == {"renew", "autoRenew", "expiryDelete", "destroy", "extend", "extendAll"}
Giving == {"renew", "expiryDelete", "destroy", "freeExtend", "gift"}

WithDeleting == INSTANCE InstanceBilling WITH Kinds <- Deleting, MaxTime <- 2, MaxVersion <- 2
WithSuspending == INSTANCE InstanceBilling WITH Kinds <- Suspending
WithExtending == INSTANCE InstanceBilling WITH Kinds <- Extending, Deposit <- 2
WithGiving == INSTANCE InstanceBilling WITH Kinds <- Giving

VARIABLE mix    \* the set of this behaviour

MCInit ==
    \/ mix = "renewing" /\ Init
    \/ mix = "deleting" /\ WithDeleting!Init
    \/ mix = "suspending" /\ WithSuspending!Init
    \/ mix = "extending" /\ WithExtending!Init
    \/ mix = "giving" /\ WithGiving!Init

MCNext ==
    \/ mix = "renewing" /\ Next /\ UNCHANGED mix
    \/ mix = "deleting" /\ WithDeleting!Next /\ UNCHANGED mix
    \/ mix = "suspending" /\ WithSuspending!Next /\ UNCHANGED mix
    \/ mix = "extending" /\ WithExtending!Next /\ UNCHANGED mix
    \/ mix = "giving" /\ WithGiving!Next /\ UNCHANGED mix

MCSpec == MCInit /\ [][MCNext]_<<vars, mix>>

(* Handlers are interchangeable.                                           *)
Symmetry == Permutations(Handler)
=============================================================================
