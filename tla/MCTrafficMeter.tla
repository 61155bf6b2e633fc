-------------------------- MODULE MCTrafficMeter ---------------------------
(***************************************************************************)
(* TrafficMeter with the properties that sum over instances, and with a    *)
(* second set of instances and events, chosen at the start.                *)
(***************************************************************************)
EXTENDS TrafficMeter, FiniteSetsExt

CONSTANT Single     \* the instance whose machine is disturbed, or none

UsageOf(S) == MapThenSumSet(LAMBDA i : used[i], S)

(* What a user has used is the sum of what his instances have: increments  *)
(* of collections and reports and the subtractions of resets, computed     *)
(* from an earlier read, leave nothing out and count nothing twice.        *)
UserUsageIsSum ==
    \A u \in User :
        userUsed[u] = UsageOf({i \in DOMAIN used : status[i] # "deleted" /\ owner[i] = u})

-----------------------------------------------------------------------------
(* One instance that is stopped, started and rebuilt, agents without a     *)
(* clock, processes that die, hosts that answer late.                      *)
Disturbances == {"slow", "power", "replace", "undated", "crash"}

Disturbed == INSTANCE TrafficMeter WITH Instance <- {Single}, Ops <- Disturbances

MCInit == Init \/ (Single \in Instance /\ Disturbed!Init)
Few == DOMAIN used = {Single}
MCNext == (~Few /\ Next) \/ (Few /\ Disturbed!Next)
MCSpec == MCInit /\ [][MCNext]_vars
=============================================================================
