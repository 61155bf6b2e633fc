--------------------------- MODULE TrafficThrottle ---------------------------
(***************************************************************************)
(* The bandwidth of one instance (services/traffic-scheduler.ts,           *)
(* services/traffic-bandwidth.ts): a job in every process, and requests    *)
(* that reset the usage, change the limit or the plan, compare the usage   *)
(* with the limit, set the status of the instance, and have the bandwidth  *)
(* on the host set from the row, under a lock that lasts 30 seconds.  What *)
(* a job compares is what it read minutes ago.  A change of the plan sets  *)
(* the speed of the new plan beside the lock, too.                         *)
(***************************************************************************)
EXTENDS Naturals

CONSTANTS Handler,   \* jobs and requests that may be under way
          Faults,    \* what goes wrong, see TrafficThrottleConstants
          None

(* wait: the lock is not had in time; expire: it expires during a call;    *)
(* host: the host refuses; crash: a process dies.                          *)
TrafficThrottleConstants ==
    /\ Faults \subseteq {"wait", "expire", "host", "crash"}
    /\ None \notin Handler

Level == {"low", "high", "over"}                \* usage compared with the limit
Status == {"NORMAL", "WARNING", "LIMITED"}      \* trafficStatus
Line == {"basic", "fast"}                       \* speeds of the plans
Speed == Line \cup {"throttled"}

VARIABLES level, status, line,   \* the row: usage, trafficStatus, plan
          limits,                \* the row: limitsIngress and limitsEgress
          host,                  \* the bandwidth on the host
          lock,                  \* who holds the lock `bandwidth:instance'
          pc, next,              \* where a handler is, and where it returns to
          seen, seenStatus,      \* the row as it has read it
          speed,                 \* what it is about to set on the host
          \* history: no guard reads it
          alone,                 \* nothing else happened since it began
          direct                 \* the host has what a change of the plan set last

vars == <<level, status, line, limits, host, lock, pc, next, seen, seenStatus,
          speed, alone, direct>>
row == <<level, status, line, limits>>
local == <<next, seen, seenStatus, speed>>

TypeOK ==
    /\ level \in Level /\ status \in Status /\ line \in Line
    /\ limits \in Speed /\ host \in Speed
    /\ lock \in Handler \cup {None}
    /\ pc \in [Handler -> {"idle", "limit", "plan", "reconcile", "throttle", "warn",
                           "deliver", "restore", "lock", "read", "patch", "write",
                           "direct"}]
    /\ next \in [Handler -> {"idle", "direct"}]
    /\ seen \in [Handler -> Level]
    /\ seenStatus \in [Handler -> Status]
    /\ speed \in [Handler -> Speed]
    /\ alone \in [Handler -> BOOLEAN]
    /\ direct \in BOOLEAN

Init ==
    /\ level = "low" /\ status = "NORMAL" /\ line = "basic"
    /\ limits = "basic" /\ host = "basic"
    /\ lock = None
    /\ pc = [h \in Handler |-> "idle"]
    /\ next = [h \in Handler |-> "idle"]
    /\ seen = [h \in Handler |-> "low"]
    /\ seenStatus = [h \in Handler |-> "NORMAL"]
    /\ speed = [h \in Handler |-> "basic"]
    /\ alone = [h \in Handler |-> FALSE]
    /\ direct = FALSE

-----------------------------------------------------------------------------

(* computeEffectiveBandwidth: the speed after an overrun is below any plan.*)
Effective == IF status = "LIMITED" THEN "throttled" ELSE line

Calculated(l) == IF l = "over" THEN "LIMITED" ELSE "NORMAL"

Goto(h, p) == pc' = [pc EXCEPT ![h] = p]
Act(h) == alone' = [g \in Handler |-> g = h /\ alone[h]]
Disturb == alone' = [g \in Handler |-> FALSE]
Unlock(h) == lock' = IF lock = h THEN None ELSE lock
Forget(h) ==
    /\ next' = [next EXCEPT ![h] = "idle"]
    /\ seen' = [seen EXCEPT ![h] = "low"]
    /\ seenStatus' = [seenStatus EXCEPT ![h] = "NORMAL"]
    /\ speed' = [speed EXCEPT ![h] = "basic"]

(* Traffic is metered.                                                     *)
Grow ==
    /\ level # "over"
    /\ level' = IF level = "low" THEN "high" ELSE "over"
    /\ Disturb
    /\ UNCHANGED <<status, line, limits, host, lock, pc, local, direct>>

-----------------------------------------------------------------------------
(* Reconciliation: by the job every five minutes, and after a request.     *)

Read(h) ==
    /\ pc[h] \in {"idle", "reconcile"}
    /\ seen' = [seen EXCEPT ![h] = level]
    /\ seenStatus' = [seenStatus EXCEPT ![h] = status]
    /\ Goto(h, CASE level = "over" -> "throttle"
                 [] level = "high" -> "warn"
                 [] OTHER -> "restore")
    /\ next' = [next EXCEPT ![h] = IF pc[h] = "idle" THEN "idle" ELSE @]
    /\ alone' = [g \in Handler |-> g = h /\ \A f \in Handler \ {h} : pc[f] = "idle"]
    /\ UNCHANGED <<row, host, lock, speed, direct>>

Throttle(h) ==
    /\ pc[h] = "throttle"
    /\ status' = "LIMITED"
    /\ Goto(h, "lock") /\ Act(h)
    /\ UNCHANGED <<level, line, limits, host, lock, local, direct>>

(* The warning is claimed by its status, and given back if not delivered.  *)
Warn(h) ==
    /\ pc[h] = "warn"
    /\ IF seenStatus[h] = "NORMAL" /\ status = "NORMAL"
       THEN status' = "WARNING" /\ Goto(h, "deliver")
       ELSE Goto(h, "restore") /\ UNCHANGED status
    /\ Act(h)
    /\ UNCHANGED <<level, line, limits, host, lock, local, direct>>

Deliver(h) ==
    /\ pc[h] = "deliver"
    /\ status' \in {status, IF status = "WARNING" THEN "NORMAL" ELSE status}
    /\ Goto(h, "restore") /\ Act(h)
    /\ UNCHANGED <<level, line, limits, host, lock, local, direct>>

Restore(h) ==
    /\ pc[h] = "restore"
    /\ status' = IF seenStatus[h] = "LIMITED" THEN "NORMAL" ELSE status
    /\ Goto(h, "lock") /\ Act(h)
    /\ UNCHANGED <<level, line, limits, host, lock, local, direct>>

(* The arbitration of the bandwidth.                                       *)
(* Mutation: arbitrations run beside each other.                           *)
Lock_Shared(h) ==
    /\ pc[h] = "lock"
    /\ lock' = h
    /\ Goto(h, "read") /\ Act(h)
    /\ UNCHANGED <<row, host, local, direct>>

Lock(h) ==
    /\ pc[h] = "lock" /\ lock = None
    /\ lock' = h
    /\ Goto(h, "read") /\ Act(h)
    /\ UNCHANGED <<row, host, local, direct>>

(* Mutation: the normal speed is taken from the limits the row has now.    *)
ReadRow_Captured(h) ==
    /\ pc[h] = "read"
    /\ speed' = [speed EXCEPT ![h] = IF status = "LIMITED" THEN Effective ELSE limits]
    /\ Goto(h, "patch") /\ Act(h)
    /\ UNCHANGED <<row, host, lock, next, seen, seenStatus, direct>>

ReadRow(h) ==
    /\ pc[h] = "read"
    /\ speed' = [speed EXCEPT ![h] = Effective]
    /\ Goto(h, "patch") /\ Act(h)
    /\ UNCHANGED <<row, host, lock, next, seen, seenStatus, direct>>

Patch(h) ==
    /\ pc[h] = "patch"
    /\ host' = speed[h] /\ direct' = FALSE
    /\ Goto(h, "write") /\ Act(h)
    /\ UNCHANGED <<row, lock, local>>

Write(h) ==
    /\ pc[h] = "write"
    /\ limits' = speed[h]
    /\ Unlock(h)
    /\ Goto(h, next[h]) /\ Forget(h) /\ Act(h)
    /\ UNCHANGED <<level, status, line, host, direct>>

(* An error ends the arbitration and is only logged.                       *)
ArbitrationFails(h) ==
    /\ \/ "wait" \in Faults /\ pc[h] = "lock" /\ lock # None
       \/ "host" \in Faults /\ pc[h] = "patch"
    /\ Unlock(h)
    /\ Goto(h, next[h]) /\ Forget(h) /\ Disturb
    /\ UNCHANGED <<row, host, direct>>

LockExpires(h) ==
    /\ "expire" \in Faults
    /\ lock = h
    /\ lock' = None
    /\ Disturb
    /\ UNCHANGED <<row, host, pc, local, direct>>

-----------------------------------------------------------------------------
(* Requests that change the row and then reconcile.                        *)

(* A reset of the usage, which the owner pays for.                         *)
Reset(h) ==
    /\ pc[h] = "idle"
    /\ level' = "low" /\ status' = "NORMAL"
    /\ Goto(h, "reconcile") /\ next' = [next EXCEPT ![h] = "idle"]
    /\ Disturb
    /\ UNCHANGED <<line, limits, host, lock, seen, seenStatus, speed, direct>>

(* An administrator sets the limit; the row is read again, then its status *)
(* is written.                                                             *)
SetLimit(h) ==
    /\ pc[h] = "idle"
    /\ level' \in Level
    /\ seen' = [seen EXCEPT ![h] = level']
    /\ Goto(h, "limit") /\ next' = [next EXCEPT ![h] = "idle"]
    /\ Disturb
    /\ UNCHANGED <<status, line, limits, host, lock, seenStatus, speed, direct>>

SetStatus(h) ==
    /\ pc[h] = "limit"
    /\ status' = Calculated(seen[h])
    /\ Goto(h, "reconcile") /\ Act(h)
    /\ UNCHANGED <<level, line, limits, host, lock, local, direct>>

(* The owner changes the plan: the row as read when the request came, one  *)
(* transaction, a reconciliation, and then the speed of the new plan.      *)
ChangePlan(h) ==
    /\ pc[h] = "idle" /\ line = "basic"
    /\ seen' = [seen EXCEPT ![h] = level]
    /\ Goto(h, "plan") /\ next' = [next EXCEPT ![h] = "direct"]
    /\ Disturb
    /\ UNCHANGED <<row, host, lock, seenStatus, speed, direct>>

SetPlan(h) ==
    /\ pc[h] = "plan"
    /\ IF line = "basic"
       THEN /\ line' = "fast" /\ limits' = "fast"
            /\ \E more \in BOOLEAN :
                  /\ level' = IF more THEN "low" ELSE level
                  /\ status' = IF more THEN "NORMAL" ELSE Calculated(seen[h])
            /\ Goto(h, "reconcile") /\ UNCHANGED local
       ELSE Goto(h, "idle") /\ Forget(h) /\ UNCHANGED row
    /\ Disturb
    /\ UNCHANGED <<host, lock, direct>>

SetDirectly(h) ==
    /\ pc[h] = "direct"
    /\ \/ host' = line /\ direct' = TRUE
       \/ "host" \in Faults /\ UNCHANGED <<host, direct>>
    /\ Goto(h, "idle") /\ Act(h)
    /\ UNCHANGED <<row, lock, local>>

(* A process dies; its lock stays until it expires.                        *)
Crash(h) ==
    /\ "crash" \in Faults
    /\ pc[h] # "idle" /\ lock # h
    /\ Goto(h, "idle") /\ Forget(h) /\ Disturb
    /\ UNCHANGED <<row, host, lock, direct>>

-----------------------------------------------------------------------------

HandlerStep(h) ==
    \/ Read(h) \/ Throttle(h) \/ Warn(h) \/ Deliver(h) \/ Restore(h)
    \/ Lock(h) \/ ReadRow(h) \/ Patch(h) \/ Write(h)
    \/ ArbitrationFails(h) \/ LockExpires(h)
    \/ Reset(h) \/ SetLimit(h) \/ SetStatus(h)
    \/ ChangePlan(h) \/ SetPlan(h) \/ SetDirectly(h)
    \/ Crash(h)

Next == Grow \/ \E h \in Handler : HandlerStep(h)

Spec == Init /\ [][Next]_vars

-----------------------------------------------------------------------------

(* When nobody is about to arbitrate, the host and the row have the speed  *)
(* that the status calls for - if no call fails, no lock expires or is     *)
(* waited for in vain, and nobody dies.  services/traffic-bandwidth.ts 100 *)
(* calls the arbitration the single point that decides it; a change of the *)
(* plan sets the host without it, after which an instance that is over its *)
(* limit has the speed of its new plan.                                    *)
BandwidthFollows ==
    (\A h \in Handler : pc[h] \in {"idle", "limit", "plan"})
        => /\ host = Effective \/ (direct /\ host = line)
           /\ limits = Effective

(* Whatever went wrong before, a reconciliation that is alone and does not *)
(* fail leaves a status that agrees with the usage and a host that agrees  *)
(* with the status (services/traffic-scheduler.ts 190, 278).               *)
NextPassHeals ==
    [][\A h \in Handler :
          pc[h] = "write" /\ pc'[h] = "idle" /\ alone[h]
              => /\ status' = "LIMITED" <=> level' = "over"
                 /\ host' = Effective' /\ limits' = Effective']_vars
=============================================================================
