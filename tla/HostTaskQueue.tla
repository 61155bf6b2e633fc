--------------------------- MODULE HostTaskQueue ---------------------------
(***************************************************************************)
(* The three background queues of the panel: instance tasks (light: start, *)
(* stop, restart; heavy: rebuild, clone, recreate, change_host), backup    *)
(* restores and backup uploads.  Every backend node polls all three tables *)
(* and claims tasks under one advisory lock per host, so that one host     *)
(* does one heavy thing at a time.                                         *)
(*                                                                         *)
(* A claim, a creation, a cancellation or a deletion is one database       *)
(* transaction under an advisory lock and is one action.  Between claim,   *)
(* begin and end of an execution any other action may happen.  Time is a   *)
(* set: a PROCESSING row joins `overdue' when its startedAt falls behind   *)
(* the timeout of its kind.                                                *)
(***************************************************************************)
EXTENDS Naturals, FiniteSets

CONSTANTS Node,        \* backend processes
          Host,        \* Incus hosts
          Instance,    \* instances, each on one host
          User,        \* users who request uploads
          HostOf,      \* the host of an instance
          MaxTasks,    \* bound: rows at a time
          MaxAsked,    \* bound: requests past their checks, not yet inserted
          MaxRetry,    \* MAX_RETRY_COUNT of the upload worker
          MaxCrashes,  \* bound: crashes of backend processes
          MaxDeletes   \* bound: deletion claims on instances

Idle == "idle"               \* runs nothing

ASSUME QueueConstants ==
    /\ Idle \notin Node
    /\ HostOf \in [Instance -> Host]
    /\ MaxTasks \in Nat
    /\ MaxAsked \in Nat
    /\ MaxRetry \in Nat
    /\ MaxCrashes \in Nat
    /\ MaxDeletes \in Nat

TaskId == 1 .. MaxTasks      \* used again when the row is gone
Kind == {"light", "heavy", "restore", "upload"}
Table == {"instance", "restore", "upload"}

VARIABLES
    job,      \* what the rows of the three task tables ask for, in one array
    status,   \* their status; "none" where there is no row
    retry,    \* their retryCount
    older,    \* the rows created before it: the order of createdAt
    overdue,  \* PROCESSING rows started longer ago than their timeout
    asked,    \* create requests that passed the route's checks
    inst,     \* "live", or deleted by a claim of the "owner" or of "expiry"
    deletes,  \* deletion claims made so far
    runner,   \* runner[t]: the node that executes t, or Idle
    working,  \* executions past their own checks, acting on the host
    up,       \* the running backend nodes
    found,    \* found[n]: rows the timeout sweep of node n is about to fail
    crashes   \* crashes so far

requests == <<asked, inst, deletes>>
executions == <<runner, working>>
nodes == <<up, found, crashes>>
rows == <<job, status, retry, older, overdue>>
vars == <<rows, requests, executions, nodes>>

Request == [kind : Kind, inst : Instance, user : User]
NoJob == [kind |-> "none", inst |-> "none", user |-> "none"]

TableOf(k) == IF k \in {"light", "heavy"} THEN "instance" ELSE k
Is(t, s) == status[t] = s
Active(t) == status[t] \in {"PENDING", "PROCESSING"}
Exclusive(t) == job[t].kind # "light"
OnHost(t, h) == HostOf[job[t].inst] = h
Processing(h) == {t \in TaskId : Is(t, "PROCESSING") /\ OnHost(t, h)}
Pending(h, tbl) == {t \in TaskId : Is(t, "PENDING") /\ OnHost(t, h) /\ TableOf(job[t].kind) = tbl}
IsEarliest(t, S) == t \in S /\ S \cap older[t] = {}

Init ==
    /\ job = [t \in TaskId |-> NoJob]
    /\ status = [t \in TaskId |-> "none"]
    /\ retry = [t \in TaskId |-> 0]
    /\ older = [t \in TaskId |-> {}]
    /\ overdue = {}
    /\ asked = {}
    /\ inst = [i \in Instance |-> "live"]
    /\ deletes = 0
    /\ runner = [t \in TaskId |-> Idle]
    /\ working = {}
    /\ up = Node
    /\ found = [n \in Node |-> {}]
    /\ crashes = 0

----------------------------------------------------------------------------
(* Requests of users                                                       *)

(* A route has found the instance live and without active workflow.  What  *)
(* it saw is stale by the time the row is inserted.                        *)
Ask(r) ==
    /\ Cardinality(asked) < MaxAsked
    /\ r \notin asked
    /\ inst[r.inst] = "live"
    /\ asked' = asked \cup {r}
    /\ UNCHANGED <<rows, inst, deletes, executions, nodes>>

(* The active row that makes a create transaction refuse: of the same      *)
(* instance for instance and restore tasks, of the same user for uploads.  *)
(* Each create function looks at its own table only.                       *)
SameSubject(r, s) ==
    /\ TableOf(r.kind) = TableOf(s.kind)
    /\ IF r.kind = "upload" THEN r.user = s.user ELSE r.inst = s.inst
(* Mutation: Conflict looks at PENDING rows only.                          *)
Conflict_PendingOnly(r) == \E t \in TaskId : Is(t, "PENDING") /\ SameSubject(r, job[t])
Conflict(r) == \E t \in TaskId : Active(t) /\ SameSubject(r, job[t])

(* createInstanceTask, createRestoreTask, createBackupUploadTask: the      *)
(* check for an active row and the insert are one transaction.  The status *)
(* of the instance is not read again.  The row gets the first free id.     *)
NextId(t) == Is(t, "none") /\ \A u \in TaskId : Is(u, "none") => t <= u

Create(r) ==
    /\ r \in asked
    /\ asked' = asked \ {r}
    /\ \/ Conflict(r) /\ UNCHANGED <<job, status, older>>
       \/ /\ ~Conflict(r)
          /\ \E t \in TaskId :
               /\ NextId(t)
               /\ job' = [job EXCEPT ![t] = r]
               /\ status' = [status EXCEPT ![t] = "PENDING"]
               /\ older' = [older EXCEPT ![t] = {u \in TaskId : ~Is(u, "none")}]
    /\ UNCHANGED <<retry, overdue, inst, deletes, executions, nodes>>

(* cancelInstanceTask, cancelRestoreTask, cancelBackupUploadTask.          *)
Cancel(t) ==
    /\ Is(t, "PENDING")
    /\ status' = [status EXCEPT ![t] = "FAILED"]
    /\ UNCHANGED <<job, retry, older, overdue, requests, executions, nodes>>

(* Mutation: the deletion does not look at the upload table.               *)
ClaimDelete_ForgetsUploads(i) ==
    /\ deletes < MaxDeletes
    /\ inst[i] = "live"
    /\ \A t \in TaskId : Active(t) /\ job[t].kind # "upload" => job[t].inst # i
    /\ inst' = [inst EXCEPT ![i] = "owner"]
    /\ deletes' = deletes + 1
    /\ UNCHANGED <<rows, asked, executions, nodes>>

(* claimInstanceForDelete and its twins for hosts and owners: refused      *)
(* while any of the three tables has an active row of the instance.        *)
ClaimDelete(i) ==
    /\ deletes < MaxDeletes
    /\ inst[i] = "live"
    /\ \A t \in TaskId : Active(t) => job[t].inst # i
    /\ inst' = [inst EXCEPT ![i] = "owner"]
    /\ deletes' = deletes + 1
    /\ UNCHANGED <<rows, asked, executions, nodes>>

(* processExpiryDelete claims a suspended, expired instance without the    *)
(* instance lock and without looking at the task tables.                   *)
ClaimExpiryDelete(i) ==
    /\ deletes < MaxDeletes
    /\ inst[i] = "live"
    /\ inst' = [inst EXCEPT ![i] = "expiry"]
    /\ deletes' = deletes + 1
    /\ UNCHANGED <<rows, asked, executions, nodes>>

(* The deletion on the host failed: the claim is taken back.               *)
RestoreClaim(i) ==
    /\ inst[i] # "live"
    /\ inst' = [inst EXCEPT ![i] = "live"]
    /\ UNCHANGED <<rows, asked, deletes, executions, nodes>>

(* cleanupOldTasks deletes instance tasks that finished seven days ago; no *)
(* execution and no sweep has to do with them by then.  Finished rows of   *)
(* the other tables stay in the code, where nothing reads them again: here *)
(* they go too, so that tasks come without end under finitely many ids.    *)
PurgeOld(t) ==
    /\ status[t] \in {"COMPLETED", "FAILED"}
    /\ runner[t] = Idle
    /\ \A n \in Node : t \notin found[n]
    /\ job' = [job EXCEPT ![t] = NoJob]
    /\ status' = [status EXCEPT ![t] = "none"]
    /\ retry' = [retry EXCEPT ![t] = 0]
    /\ older' = [u \in TaskId |-> IF u = t THEN {} ELSE older[u] \ {t}]
    /\ UNCHANGED <<overdue, requests, executions, nodes>>
----------------------------------------------------------------------------
(* The workers                                                             *)

(* What every claim transaction does once its checks have passed: the row  *)
(* is PROCESSING with startedAt = now, and node n will execute it.         *)
Claim(n, t) ==
    /\ n \in up
    /\ inst[job[t].inst] = "live"
    /\ status' = [status EXCEPT ![t] = "PROCESSING"]
    /\ runner' = [runner EXCEPT ![t] = n]
    /\ UNCHANGED <<job, retry, older, overdue, requests, working, nodes>>

(* Mutation: the light claim checks the instance table only.               *)
ClaimLight_OwnTable(n, h, t) ==
    /\ Is(t, "PENDING") /\ OnHost(t, h) /\ ~Exclusive(t)
    /\ \A u \in Processing(h) : TableOf(job[u].kind) = "instance" => ~Exclusive(u)
    /\ Claim(n, t)

(* claimLightTask: any pending light task, beside other light tasks.       *)
ClaimLight(n, h, t) ==
    /\ Is(t, "PENDING") /\ OnHost(t, h) /\ ~Exclusive(t)
    /\ \A u \in Processing(h) : ~Exclusive(u)
    /\ Claim(n, t)

(* Mutation: the heavy claim tolerates light tasks in progress.            *)
ClaimNextInstance_BesideLight(n, h) ==
    /\ \E t \in Pending(h, "instance") : Exclusive(t)
    /\ \A u \in Processing(h) : ~Exclusive(u)
    /\ \E t \in TaskId : IsEarliest(t, Pending(h, "instance")) /\ Claim(n, t)

(* claimNextTask of the instance worker, called when a heavy task waits:   *)
(* the host must be idle, and the earliest pending task, whatever its      *)
(* type, is the one that is claimed or blocks.                             *)
ClaimNextInstance(n, h) ==
    /\ \E t \in Pending(h, "instance") : Exclusive(t)
    /\ Processing(h) = {}
    /\ \E t \in TaskId : IsEarliest(t, Pending(h, "instance")) /\ Claim(n, t)

(* Mutations: a claim that checks its own table only; an upload worker     *)
(* that is never started.                                                  *)
ClaimNextTransfer_OwnTable(n, h, tbl) ==
    /\ tbl \in {"restore", "upload"}
    /\ \A u \in Processing(h) : TableOf(job[u].kind) # tbl
    /\ \E t \in TaskId : IsEarliest(t, Pending(h, tbl)) /\ Claim(n, t)
ClaimNextTransfer_NoUploads(n, h, tbl) ==
    /\ tbl = "restore"
    /\ Processing(h) = {}
    /\ \E t \in TaskId : IsEarliest(t, Pending(h, tbl)) /\ Claim(n, t)

(* claimNextTask of the restore worker and claimNextUploadTask.            *)
ClaimNextTransfer(n, h, tbl) ==
    /\ tbl \in {"restore", "upload"}
    /\ Processing(h) = {}
    /\ \E t \in TaskId : IsEarliest(t, Pending(h, tbl)) /\ Claim(n, t)

(* Mutation: the final write of an execution is unconditional.             *)
End_Unconditional(t, s) ==
    /\ status' = [status EXCEPT ![t] = s]
    /\ overdue' = overdue \ {t}
    /\ runner' = [runner EXCEPT ![t] = Idle]
    /\ working' = working \ {t}
    /\ UNCHANGED <<job, older, requests, nodes>>

(* How an execution ends: its conditional write takes effect only if the   *)
(* row is still PROCESSING.                                                *)
End(t, s) ==
    /\ status' = [status EXCEPT ![t] = IF @ = "PROCESSING" THEN s ELSE @]
    /\ overdue' = overdue \ {t}
    /\ runner' = [runner EXCEPT ![t] = Idle]
    /\ working' = working \ {t}
    /\ UNCHANGED <<job, older, requests, nodes>>

(* The checks an execution makes before it touches the host: the instance  *)
(* is not deleted and, for instance tasks, no earlier active one exists.   *)
EarlierActive(t) ==
    /\ TableOf(job[t].kind) = "instance"
    /\ LET active == {u \in TaskId : Active(u) /\ SameSubject(job[t], job[u])}
       IN active # {} /\ ~IsEarliest(t, active)
MayStart(t) == inst[job[t].inst] = "live" /\ ~EarlierActive(t)

Begin(t) ==
    /\ runner[t] # Idle /\ t \notin working
    /\ MayStart(t)
    /\ working' = working \cup {t}
    /\ UNCHANGED <<rows, requests, runner, nodes>>

Refuse(t) ==
    /\ runner[t] # Idle /\ t \notin working
    /\ ~MayStart(t)
    /\ End(t, "FAILED")
    /\ UNCHANGED retry

Complete(t) == t \in working /\ End(t, "COMPLETED") /\ UNCHANGED retry

(* An execution fails for good.                                            *)
Fail(t) == t \in working /\ End(t, "FAILED") /\ UNCHANGED retry

(* An upload fails with a network error and goes back to the queue, at     *)
(* once: RETRY_DELAY is only named in the log line.                        *)
Retry(t) ==
    /\ t \in working
    /\ job[t].kind = "upload"
    /\ retry[t] < MaxRetry
    /\ End(t, "PENDING")
    /\ retry' = [retry EXCEPT ![t] = IF Is(t, "PROCESSING") THEN @ + 1 ELSE @]

----------------------------------------------------------------------------
(* Time, sweeps, crashes                                                   *)

(* startedAt of a PROCESSING row falls behind the timeout of its kind.     *)
FallBehind(t) ==
    /\ Is(t, "PROCESSING")
    /\ t \notin overdue
    /\ overdue' = overdue \cup {t}
    /\ UNCHANGED <<job, status, retry, older, requests, executions, nodes>>

FailRows(S) ==
    /\ status' = [t \in TaskId |-> IF t \in S THEN "FAILED" ELSE status[t]]
    /\ overdue' = overdue \ S
    /\ UNCHANGED <<job, retry, older>>

(* Mutations: the sweep forgets the set of its own running tasks; no sweep *)
(* watches the upload table.                                               *)
SweepFind_OwnToo(n, tbl) ==
    /\ n \in up
    /\ found[n] = {}
    /\ found' = [found EXCEPT ![n] = {t \in overdue : TableOf(job[t].kind) = tbl}]
    /\ found'[n] # {}
    /\ UNCHANGED <<rows, requests, executions, up, crashes>>
SweepFind_NoUploads(n, tbl) ==
    /\ n \in up
    /\ found[n] = {}
    /\ tbl # "upload"
    /\ found' = [found EXCEPT ![n] =
           {t \in overdue : TableOf(job[t].kind) = tbl /\ runner[t] # n}]
    /\ found'[n] # {}
    /\ UNCHANGED <<rows, requests, executions, up, crashes>>

(* The periodic sweep first reads the overdue rows, leaves out those its   *)
(* own process executes, and fails the rest in a second statement, if they *)
(* are PROCESSING by then.                                                 *)
SweepFind(n, tbl) ==
    /\ n \in up
    /\ found[n] = {}
    /\ found' = [found EXCEPT ![n] =
           {t \in overdue : TableOf(job[t].kind) = tbl /\ runner[t] # n}]
    /\ found'[n] # {}
    /\ UNCHANGED <<rows, requests, executions, up, crashes>>

SweepFail(n) ==
    /\ n \in up
    /\ found[n] # {}
    /\ FailRows({t \in found[n] : Is(t, "PROCESSING")})
    /\ found' = [found EXCEPT ![n] = {}]
    /\ UNCHANGED <<requests, executions, up, crashes>>

(* Mutation: the running set survives the process.                         *)
Crash_KeepsExecutions(n) ==
    /\ n \in up
    /\ crashes < MaxCrashes
    /\ crashes' = crashes + 1
    /\ up' = up \ {n}
    /\ found' = [found EXCEPT ![n] = {}]
    /\ UNCHANGED <<rows, requests, executions>>

(* A backend process dies: its executions vanish, its rows stay.           *)
Crash(n) ==
    /\ n \in up
    /\ crashes < MaxCrashes
    /\ crashes' = crashes + 1
    /\ up' = up \ {n}
    /\ runner' = [t \in TaskId |-> IF runner[t] = n THEN Idle ELSE runner[t]]
    /\ working' = {t \in working : runner[t] # n}
    /\ found' = [found EXCEPT ![n] = {}]
    /\ UNCHANGED <<rows, requests>>

(* Startup fails every row that is overdue, whoever executes it, and then  *)
(* starts the workers.                                                     *)
Restart(n) ==
    /\ n \notin up
    /\ FailRows(overdue)
    /\ up' = up \cup {n}
    /\ UNCHANGED <<requests, executions, found, crashes>>

----------------------------------------------------------------------------
Users ==
    \/ \E r \in Request : Ask(r) \/ Create(r)
    \/ \E t \in TaskId : Cancel(t) \/ PurgeOld(t)
    \/ \E i \in Instance : ClaimDelete(i) \/ ClaimExpiryDelete(i) \/ RestoreClaim(i)
Claims(n, h) ==
    \/ \E t \in TaskId : ClaimLight(n, h, t)
    \/ ClaimNextInstance(n, h)
    \/ \E tbl \in Table : ClaimNextTransfer(n, h, tbl)
Executes(t) == Begin(t) \/ Refuse(t) \/ Complete(t) \/ Fail(t) \/ Retry(t)
Sweeps(n) == SweepFail(n) \/ \E tbl \in Table : SweepFind(n, tbl)

Next ==
    \/ Users
    \/ \E n \in Node : Crash(n) \/ Restart(n) \/ Sweeps(n) \/ \E h \in Host : Claims(n, h)
    \/ \E t \in TaskId : Executes(t) \/ FallBehind(t)

Spec == Init /\ [][Next]_vars

(* The poll and sweep timers of a running node fire again and again, every *)
(* call on a host returns or throws, processes are restarted, and time     *)
(* passes.                                                                 *)
Fairness ==
    /\ \A n \in Node : WF_vars(Restart(n)) /\ WF_vars(SweepFail(n))
    /\ \A n \in Node, tbl \in Table : WF_vars(SweepFind(n, tbl))
    /\ \A n \in Node, h \in Host :
         /\ WF_vars(ClaimNextInstance(n, h))
         /\ \A tbl \in Table : WF_vars(ClaimNextTransfer(n, h, tbl))
         /\ \A t \in TaskId : WF_vars(ClaimLight(n, h, t))
    /\ \A t \in TaskId : WF_vars(Executes(t)) /\ WF_vars(FallBehind(t))

FairSpec == Spec /\ Fairness

----------------------------------------------------------------------------
(* Properties                                                              *)

(* Types of the rows, the executions and the sets that watch them.         *)
TypeOK ==
    /\ job \in [TaskId -> Request \cup {NoJob}]
    /\ status \in [TaskId -> {"none", "PENDING", "PROCESSING", "COMPLETED", "FAILED"}]
    /\ retry \in [TaskId -> 0 .. MaxRetry]
    /\ \A t \in TaskId : status[t] # "none" => job[t] \in Request
    /\ older \in [TaskId -> SUBSET TaskId]
    /\ overdue \subseteq {t \in TaskId : Is(t, "PROCESSING")}
    /\ asked \subseteq Request
    /\ inst \in [Instance -> {"live", "owner", "expiry"}]
    /\ deletes \in 0 .. MaxDeletes
    /\ runner \in [TaskId -> Node \cup {Idle}]
    /\ working \subseteq {t \in TaskId : runner[t] # Idle}
    /\ \A t \in TaskId : runner[t] # Idle => runner[t] \in up /\ status[t] # "none"
    /\ up \subseteq Node
    /\ found \in [Node -> SUBSET TaskId]
    /\ crashes \in 0 .. MaxCrashes

(* At most one active row per instance in instance_tasks and in            *)
(* restore_tasks, and per user in backup_upload_tasks, whatever the order  *)
(* of concurrent requests, retries and sweeps.                             *)
OneActivePerSubject ==
    \A t, u \in TaskId :
        t # u /\ Active(t) /\ Active(u) => ~SameSubject(job[t], job[u])

(* The three claim functions of three workers share one host: a heavy      *)
(* task, a restore or an upload is the only PROCESSING row of its host.    *)
HostExclusive ==
    \A h \in Host : \A t, u \in Processing(h) : t # u => ~Exclusive(t) /\ ~Exclusive(u)

(* The claims and the deletion by an owner take the same instance lock: no *)
(* task is PROCESSING on an instance an owner or administrator deleted.    *)
OwnerDeletesIdleOnly ==
    \A t \in TaskId : Is(t, "PROCESSING") => inst[job[t].inst] # "owner"

(* A late worker, a sweep or a cancellation never overwrites a row that    *)
(* has reached COMPLETED or FAILED.                                        *)
TerminalIsFinal ==
    [][\A t \in TaskId :
         status[t] \in {"COMPLETED", "FAILED"} => status'[t] \in {status[t], "none"}]_vars

(* What executions do on the hosts: two at a time only if both are light.  *)
(* The header comments of the workers promise it.                          *)
OneHeavyWorkPerHost ==
    \A h \in Host : \A t, u \in working :
        t # u /\ OnHost(t, h) /\ OnHost(u, h) => ~Exclusive(t) /\ ~Exclusive(u)

(* The timeout sweeps fail only rows nobody executes any more: what the    *)
(* comments of cleanupStaleTasks promise.                                  *)
ExecutedRowIsProcessing ==
    \A t \in TaskId : runner[t] # Idle => Is(t, "PROCESSING")

(* A claimed row does not hold its host for ever: crash, hang or lost      *)
(* answer, it leaves PROCESSING.                                           *)
HostFreed == \A t \in TaskId : Is(t, "PROCESSING") ~> ~Is(t, "PROCESSING")

(* No queued task is forgotten: one that waits for ever does so because    *)
(* its host works again and again for tasks that may pass it - for another *)
(* queue, or for light tasks beside which no heavy one is claimed, which   *)
(* nothing limits - and not because its worker stopped, a process crashed, *)
(* or a later task of its own queue went first.  The exception is a task   *)
(* of a deleted instance at the head of a queue, which no worker skips.    *)
NoStranded == \A t \in TaskId : Is(t, "PENDING") => inst[job[t].inst] = "live"
MayPass(u, t) ==
    \/ TableOf(job[u].kind) # TableOf(job[t].kind)
    \/ Exclusive(t) /\ ~Exclusive(u)
Passed(t) == \E u \in TaskId : Is(u, "PROCESSING") /\ u # t /\ MayPass(u, t)
                                 /\ HostOf[job[u].inst] = HostOf[job[t].inst]
PendingServed ==
    <>[]NoStranded =>
        \A t \in TaskId : <>[]Is(t, "PENDING") => []<>(Is(t, "PENDING") /\ Passed(t))

(* The PROCESSING rows are the slots of their hosts.                       *)
Slots == INSTANCE HostSlots WITH
    Job <- TaskId,
    light <- [h \in Host |-> {t \in Processing(h) : ~Exclusive(t)}],
    exclusive <- [h \in Host |-> {t \in Processing(h) : Exclusive(t)}]
SlotsSpec == Slots!Spec
=============================================================================
