------------------------- MODULE InstanceResources -------------------------
(***************************************************************************)
(* How an instance grows: its owner applies resources from his pool, or    *)
(* redeems a system code of its host.  Both change the row and the machine.*)
(*                                                                         *)
(* The pool pays first: one transaction debits it, enlarges the row and    *)
(* leaves a log marked as pending; then the machine is patched and the mark*)
(* removed, or a job patches it from the row later.  A code patches the    *)
(* machine first and shrinks it again if the code cannot be used.          *)
(***************************************************************************)
EXTENDS Naturals, FiniteSets

CONSTANTS Log,          \* applications from the pool
          Code,
          Handler,      \* operations in flight at most
          None,
          Pool,         \* what the owner has in his pool
          Capacity,     \* of the host
          Faults        \* which faults occur, see AllFaults

(* crash: an application or a round of the job dies; host: the host fails  *)
(* what it is asked, or does it without being heard; slow: a lease expires *)
(* under its holder; beside: codes, and codes and the pool, are used for   *)
(* the instance at once; half: crash and host for codes.                   *)
AllFaults == {"crash", "host", "slow", "beside", "half"}

InstanceResourcesConstants ==
    /\ None \notin Log \cup Code \cup Handler
    /\ Pool \in Nat
    /\ Capacity \in Nat \ {0}
    /\ Faults \subseteq AllFaults

VARIABLES
    size,           \* the row
    actual,         \* the machine
    hostUsed,       \* the counter of the host
    pool,
    logs,           \* state of each log: none, pending or applied
    usable,         \* the code is enabled, not expired and not used up
    redeemed,       \* the codes the owner has used
    lease,          \* holder of the lease of the instance
    pc, job,        \* step and kind of each handler
    item,           \* its log or code
    read, batch     \* the size it read, the pending logs it found

row == <<size, hostUsed, pool, logs>>
codes == <<usable, redeemed>>
local == <<job, item, read, batch>>
vars == <<row, actual, codes, lease, pc, local>>

Base == 1

Init ==
    /\ size = Base
    /\ actual = Base
    /\ hostUsed = Base
    /\ pool = Pool
    /\ logs = [l \in Log |-> "none"]
    /\ usable = [c \in Code |-> TRUE]
    /\ redeemed = {}
    /\ lease = None
    /\ pc = [h \in Handler |-> "idle"]
    /\ job = [h \in Handler |-> "none"]
    /\ item = [h \in Handler |-> None]
    /\ read = [h \in Handler |-> 0]
    /\ batch = [h \in Handler |-> {}]

At(h, j, s) == job[h] = j /\ pc[h] = s
Busy(j) == \E h \in Handler : job[h] = j
Goto(h, s) == pc' = [pc EXCEPT ![h] = s] /\ UNCHANGED local

Forget(h) ==
    /\ pc' = [pc EXCEPT ![h] = "idle"]
    /\ job' = [job EXCEPT ![h] = "none"]
    /\ item' = [item EXCEPT ![h] = None]
    /\ read' = [read EXCEPT ![h] = 0]
    /\ batch' = [batch EXCEPT ![h] = {}]

(* releaseLock deletes the lease only of its owner.                        *)
End(h) == Forget(h) /\ lease' = IF lease = h THEN None ELSE lease

Begin(h, j, i) ==
    /\ pc[h] = "idle"
    /\ pc' = [pc EXCEPT ![h] = "read"]
    /\ job' = [job EXCEPT ![h] = j]
    /\ item' = [item EXCEPT ![h] = i]

(* Nobody dies with a lease for ever.                                      *)
LeaseExpires ==
    /\ lease # None
    /\ "slow" \in Faults \/ pc[lease] = "idle"
    /\ lease' = None
    /\ UNCHANGED <<row, actual, codes, pc, local>>

----------------------------------------------------------------------------
(* From the pool                                                           *)

BeginApply(h, l) ==
    /\ Begin(h, "apply", l)
    /\ logs[l] = "none"
    /\ \A g \in Handler : item[g] # l
    /\ "beside" \in Faults \/ ~Busy("redeem")
    /\ lease = None
    /\ lease' = h
    /\ UNCHANGED <<row, actual, codes, read, batch>>

ReadRow(h) ==
    /\ At(h, "apply", "read")
    /\ read' = [read EXCEPT ![h] = size]
    /\ pc' = [pc EXCEPT ![h] = "debit"]
    /\ UNCHANGED <<row, actual, codes, lease, job, item, batch>>

(* Mutation: the log says at once that the machine was patched.            *)
Debit_Applied(h) ==
    /\ At(h, "apply", "debit")
    /\ pool > 0
    /\ hostUsed < Capacity
    /\ pool' = pool - 1
    /\ hostUsed' = hostUsed + 1
    /\ size' = read[h] + 1
    /\ logs' = [logs EXCEPT ![item[h]] = "applied"]
    /\ Goto(h, "patch")
    /\ UNCHANGED <<actual, codes, lease>>

(* applyResourcePoolToInstance.                                            *)
Debit(h) ==
    /\ At(h, "apply", "debit")
    /\ pool > 0
    /\ hostUsed < Capacity
    /\ pool' = pool - 1
    /\ hostUsed' = hostUsed + 1
    /\ size' = read[h] + 1
    /\ logs' = [logs EXCEPT ![item[h]] = "pending"]
    /\ Goto(h, "patch")
    /\ UNCHANGED <<actual, codes, lease>>

DebitFails(h) ==
    /\ At(h, "apply", "debit")
    /\ pool = 0 \/ hostUsed >= Capacity
    /\ End(h)
    /\ UNCHANGED <<row, actual, codes>>

Patch(h) ==
    /\ At(h, "apply", "patch")
    /\ actual' = read[h] + 1
    /\ Goto(h, "confirm")
    /\ UNCHANGED <<row, codes, lease>>

(* The machine is patched or not; the log stays pending.                   *)
PatchFails(h) ==
    /\ At(h, "apply", "patch")
    /\ "host" \in Faults
    /\ actual' \in {actual, read[h] + 1}
    /\ End(h)
    /\ UNCHANGED <<row, codes>>

Applied(S) == logs' = [l \in Log |-> IF l \in S /\ logs[l] = "pending" THEN "applied" ELSE logs[l]]

(* markResourcePoolAppliesReconciled.                                      *)
Confirm(h) ==
    /\ At(h, "apply", "confirm")
    /\ Applied({item[h]})
    /\ End(h)
    /\ UNCHANGED <<size, hostUsed, pool, actual, codes>>

----------------------------------------------------------------------------
(* The job                                                                 *)

(* getResourcePoolApplyReconciliationCandidates, before any lease.         *)
FindPending(h) ==
    /\ pc[h] = "idle"
    /\ \E l \in Log : logs[l] = "pending"
    /\ batch' = [batch EXCEPT ![h] = {l \in Log : logs[l] = "pending"}]
    /\ job' = [job EXCEPT ![h] = "reconcile"]
    /\ pc' = [pc EXCEPT ![h] = "lease"]
    /\ UNCHANGED <<row, actual, codes, lease, item, read>>

TakeLease(h) ==
    /\ At(h, "reconcile", "lease")
    /\ "beside" \in Faults \/ ~Busy("redeem")
    /\ \/ lease = None /\ lease' = h /\ Goto(h, "read")
       \/ lease # None /\ UNCHANGED lease /\ Forget(h)
    /\ UNCHANGED <<row, actual, codes>>

(* Row and machine are read, one after the other.                          *)
ReadBoth(h) ==
    /\ At(h, "reconcile", "read")
    /\ read' = [read EXCEPT ![h] = size]
    /\ pc' = [pc EXCEPT ![h] = "compare"]
    /\ UNCHANGED <<row, actual, codes, lease, job, item, batch>>

Compare(h) ==
    /\ At(h, "reconcile", "compare")
    /\ Goto(h, IF actual = read[h] THEN "mark" ELSE "patch")
    /\ UNCHANGED <<row, actual, codes, lease>>

Reconcile(h) ==
    /\ At(h, "reconcile", "patch")
    /\ actual' = read[h]
    /\ Goto(h, "mark")
    /\ UNCHANGED <<row, codes, lease>>

ReconcileFails(h) ==
    /\ pc[h] \in {"read", "compare", "patch"}
    /\ job[h] = "reconcile"
    /\ "host" \in Faults
    /\ actual' \in {actual} \cup (IF pc[h] = "patch" THEN {read[h]} ELSE {})
    /\ End(h)
    /\ UNCHANGED <<row, codes>>

Mark(h) ==
    /\ At(h, "reconcile", "mark")
    /\ Applied(batch[h])
    /\ End(h)
    /\ UNCHANGED <<size, hostUsed, pool, actual, codes>>

----------------------------------------------------------------------------
(* By code                                                                 *)

(* Another user uses a code up, it expires, or the owner of the host       *)
(* disables or enables it.                                                 *)
CodeChanges(c) ==
    /\ usable' = [usable EXCEPT ![c] = ~@]
    /\ UNCHANGED <<row, actual, redeemed, lease, pc, local>>

(* Under the lease of the code, not of the instance.                       *)
BeginRedeem(h, c) ==
    /\ Begin(h, "redeem", c)
    /\ usable[c]
    /\ c \notin redeemed
    /\ \A g \in Handler : item[g] # c
    /\ "beside" \in Faults \/ \A g \in Handler : pc[g] \in {"idle", "lease"}
    /\ read' = [read EXCEPT ![h] = size]
    /\ UNCHANGED <<row, actual, codes, lease, batch>>

PatchFirst(h) ==
    /\ At(h, "redeem", "read")
    /\ actual' = read[h] + 1
    /\ Goto(h, "use")
    /\ UNCHANGED <<row, codes, lease>>

(* It fails, or seems to: nothing is undone.                               *)
PatchFirstFails(h) ==
    /\ At(h, "redeem", "read")
    /\ actual' \in IF "half" \in Faults THEN {actual, read[h] + 1} ELSE {actual}
    /\ End(h)
    /\ UNCHANGED <<row, codes>>

(* applySystemRedeemCodeToInstance checks the code again.                  *)
Use(h) ==
    LET c == item[h]
    IN /\ At(h, "redeem", "use")
       /\ usable[c]
       /\ c \notin redeemed
       /\ redeemed' = redeemed \cup {c}
       /\ size' = read[h] + 1
       /\ hostUsed' = hostUsed + 1
       /\ End(h)
       /\ UNCHANGED <<pool, logs, actual, usable>>

UseFails(h) ==
    /\ At(h, "redeem", "use")
    /\ ~usable[item[h]]
    /\ Goto(h, "undo")
    /\ UNCHANGED <<row, actual, codes, lease>>

Undo(h) ==
    /\ At(h, "redeem", "undo")
    /\ actual' = read[h] \/ ("half" \in Faults /\ UNCHANGED actual)
    /\ End(h)
    /\ UNCHANGED <<row, codes>>

Crash(h) ==
    /\ pc[h] # "idle"
    /\ IF job[h] = "redeem" THEN "half" \in Faults ELSE "crash" \in Faults
    /\ Forget(h)
    /\ UNCHANGED <<row, actual, codes, lease>>

----------------------------------------------------------------------------

Next ==
    \/ \E h \in Handler :
         \/ \E l \in Log : BeginApply(h, l)
         \/ ReadRow(h) \/ Debit(h) \/ DebitFails(h)
         \/ Patch(h) \/ PatchFails(h) \/ Confirm(h)
         \/ FindPending(h) \/ TakeLease(h) \/ ReadBoth(h) \/ Compare(h)
         \/ Reconcile(h) \/ ReconcileFails(h) \/ Mark(h)
         \/ \E c \in Code : BeginRedeem(h, c)
         \/ PatchFirst(h) \/ PatchFirstFails(h) \/ Use(h) \/ UseFails(h) \/ Undo(h)
         \/ Crash(h)
    \/ \E c \in Code : CodeChanges(c)
    \/ LeaseExpires

Spec == Init /\ [][Next]_vars

----------------------------------------------------------------------------
(* Properties                                                              *)

TypeOK ==
    /\ {size, actual, hostUsed, pool} \subseteq Nat
    /\ logs \in [Log -> {"none", "pending", "applied"}]
    /\ usable \in [Code -> BOOLEAN]
    /\ redeemed \subseteq Code
    /\ lease \in Handler \cup {None}
    /\ pc \in [Handler -> {"idle", "lease", "read", "debit", "compare", "patch",
                           "confirm", "mark", "use", "undo"}]
    /\ job \in [Handler -> {"none", "apply", "reconcile", "redeem"}]
    /\ item \in [Handler -> Log \cup Code \cup {None}]
    /\ read \in [Handler -> Nat]
    /\ batch \in [Handler -> SUBSET Log]

(* A machine that is not what its row says is about to be patched: by the  *)
(* redemption under way, or because a log is still marked.                 *)
PendingUntilPatched ==
    actual # size => \/ \E l \in Log : logs[l] = "pending"
                     \/ \E h \in Handler : job[h] = "redeem" /\ pc[h] \in {"use", "undo"}

(* The row has grown by every unit that left the pool and every code that  *)
(* was used, and by nothing else: no growth is overwritten by one that was *)
(* computed from an earlier read.                                          *)
GrowthIsPaid ==
    /\ size = Base + (Pool - pool) + Cardinality(redeemed)
    /\ hostUsed = size
=============================================================================
