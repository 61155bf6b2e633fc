------------------------ MODULE HostTaskQueueProofs ------------------------
(***************************************************************************)
(* Proofs about HostTaskQueue for every number of nodes, hosts, instances, *)
(* users, tasks, retries and crashes.  The safety argument does not use    *)
(* the bounds and holds whatever the sweeps of other nodes do.             *)
(***************************************************************************)
EXTENDS HostTaskQueue, TLAPS

(* The way an execution ends keeps the types.                              *)
LEMMA EndTypes ==
    ASSUME QueueConstants, TypeOK, NEW t \in TaskId, runner[t] # Idle,
           NEW s \in {"PENDING", "COMPLETED", "FAILED"}, End(t, s),
           retry' \in [TaskId -> 0 .. MaxRetry]
    PROVE  TypeOK'
  BY DEF End, TypeOK, requests, nodes, Is

(* So does a sweep that fails a set of PROCESSING rows.                    *)
LEMMA FailRowsTypes ==
    ASSUME QueueConstants, TypeOK, NEW S, S \subseteq {t \in TaskId : Is(t, "PROCESSING")},
           FailRows(S), UNCHANGED <<requests, executions, crashes>>,
           up \subseteq up', up' \subseteq Node, found' \in [Node -> SUBSET TaskId]
    PROVE  TypeOK'
  BY DEF FailRows, TypeOK, requests, executions, Is

(* And the claim every worker makes.                                       *)
LEMMA ClaimTypes ==
    ASSUME QueueConstants, TypeOK, NEW n \in Node, NEW t \in TaskId,
           Is(t, "PENDING"), Claim(n, t)
    PROVE  TypeOK'
  <1>1. runner' \in [TaskId -> Node \cup {Idle}]
    BY DEF Claim, TypeOK
  <1>2. \A u \in TaskId : runner'[u] # Idle => runner'[u] \in up' /\ status'[u] # "none"
    BY DEF Claim, TypeOK, nodes
  <1>3. working' \subseteq {u \in TaskId : runner'[u] # Idle}
    BY QueueConstants DEF Claim, TypeOK
  <1> QED BY <1>1, <1>2, <1>3 DEF Claim, TypeOK, requests, nodes, Is

(* The rows, the executions and the sets that watch them keep their types; *)
(* every execution belongs to a running process and to an existing row.    *)
THEOREM TypeCorrect == Spec => []TypeOK
<1>1. Init => TypeOK
  BY QueueConstants DEF Init, TypeOK, TaskId, Is
<1>2. TypeOK /\ [Next]_vars => TypeOK'
  <2> SUFFICES ASSUME TypeOK, [Next]_vars PROVE TypeOK'
    OBVIOUS
  <2> USE QueueConstants
  <2>1. ASSUME NEW r \in Request, Ask(r) PROVE TypeOK'
    BY <2>1 DEF Ask, TypeOK, rows, executions, nodes, Is
  <2>2. ASSUME NEW r \in Request, Create(r) PROVE TypeOK'
    <3>1. CASE Conflict(r)
      BY <2>2, <3>1 DEF Create, TypeOK, executions, nodes, Is
    <3>2. CASE ~Conflict(r)
      <4>1. PICK t \in TaskId : /\ status[t] = "none"
                               /\ job' = [job EXCEPT ![t] = r]
                               /\ status' = [status EXCEPT ![t] = "PENDING"]
                               /\ older' = [older EXCEPT ![t] = {u \in TaskId : ~Is(u, "none")}]
        BY <2>2, <3>2 DEF Create, NextId, Is
      <4>2. /\ job' \in [TaskId -> Request \cup {NoJob}]
            /\ status' \in [TaskId -> {"none", "PENDING", "PROCESSING", "COMPLETED", "FAILED"}]
            /\ older' \in [TaskId -> SUBSET TaskId]
        BY <4>1 DEF TypeOK
      <4>3. \A u \in TaskId : status'[u] # "none" => job'[u] \in Request
        BY <4>1 DEF TypeOK
      <4>4. overdue' \subseteq {u \in TaskId : Is(u, "PROCESSING")'}
        BY <2>2, <4>1 DEF Create, TypeOK, Is
      <4>5. \A u \in TaskId : status'[u] = "none" => status[u] = "none"
        BY <4>1 DEF TypeOK
      <4> QED BY <2>2, <3>2, <4>2, <4>3, <4>4, <4>5
              DEF Create, TypeOK, executions, nodes, Is
    <3> QED BY <3>1, <3>2
  <2>3. ASSUME NEW t \in TaskId, Cancel(t) PROVE TypeOK'
    BY <2>3 DEF Cancel, TypeOK, requests, executions, nodes, Is
  <2>4. ASSUME NEW t \in TaskId, PurgeOld(t) PROVE TypeOK'
    BY <2>4 DEF PurgeOld, TypeOK, requests, executions, nodes, Is
  <2>5. ASSUME NEW i \in Instance, ClaimDelete(i) \/ ClaimExpiryDelete(i) \/ RestoreClaim(i)
        PROVE TypeOK'
    BY <2>5
       DEF ClaimDelete, ClaimExpiryDelete, RestoreClaim, TypeOK, rows,
           executions, nodes, Is
  <2>6. ASSUME NEW n \in Node, NEW h \in Host, Claims(n, h) PROVE TypeOK'
    BY <2>6, ClaimTypes
       DEF Claims, ClaimLight, ClaimNextInstance, ClaimNextTransfer,
                            IsEarliest, Pending
  <2>7. ASSUME NEW t \in TaskId, Begin(t) PROVE TypeOK'
    BY <2>7 DEF Begin, TypeOK, rows, requests, nodes, Is
  <2>8. ASSUME NEW t \in TaskId, Refuse(t) \/ Complete(t) \/ Fail(t) PROVE TypeOK'
    <3>1. runner[t] # Idle
      BY <2>8 DEF Refuse, Complete, Fail, TypeOK
    <3>2. retry' \in [TaskId -> 0 .. MaxRetry]
      BY <2>8 DEF Refuse, Complete, Fail, TypeOK
    <3>3. End(t, "FAILED") \/ End(t, "COMPLETED")
      BY <2>8 DEF Refuse, Complete, Fail
    <3> QED BY <3>1, <3>2, <3>3, EndTypes
  <2>9. ASSUME NEW t \in TaskId, Retry(t) PROVE TypeOK'
    <3>1. runner[t] # Idle
      BY <2>9 DEF Retry, TypeOK
    <3>2. retry' \in [TaskId -> 0 .. MaxRetry]
      BY <2>9 DEF Retry, TypeOK, QueueConstants
    <3> QED BY <2>9, <3>1, <3>2, EndTypes DEF Retry
  <2>10. ASSUME NEW t \in TaskId, FallBehind(t) PROVE TypeOK'
    BY <2>10 DEF FallBehind, TypeOK, requests, executions, nodes, Is
  <2>11. ASSUME NEW n \in Node, Sweeps(n) PROVE TypeOK'
    <3>1. CASE SweepFail(n)
      BY <3>1, FailRowsTypes DEF SweepFail, TypeOK
    <3>2. ASSUME NEW tbl \in Table, SweepFind(n, tbl) PROVE TypeOK'
      BY <3>2 DEF SweepFind, TypeOK, rows, requests, executions, Is
    <3> QED BY <2>11, <3>1, <3>2 DEF Sweeps
  <2>12. ASSUME NEW n \in Node, Crash(n) PROVE TypeOK'
    BY <2>12 DEF Crash, TypeOK, rows, requests, Is
  <2>13. ASSUME NEW n \in Node, Restart(n) PROVE TypeOK'
    BY <2>13, FailRowsTypes DEF Restart, TypeOK
  <2>14. CASE UNCHANGED vars
    BY <2>14 DEF vars, TypeOK, rows, requests, executions, nodes, Is
  <2> QED
    BY <2>1, <2>2, <2>3, <2>4, <2>5, <2>6, <2>7, <2>8, <2>9, <2>10, <2>11, <2>12, <2>13, <2>14
       DEF Next, Users, Executes
<1> QED BY <1>1, <1>2, PTL DEF Spec

----------------------------------------------------------------------------
(* Seen from the rows, every step is one of three: a worker claims a       *)
(* pending row, a request inserts one, or the active rows only get fewer   *)
(* and the PROCESSING ones too.                                            *)
ClaimStep(t) ==
    /\ Is(t, "PENDING")
    /\ \A u \in TaskId :
         Is(u, "PROCESSING") /\ HostOf[job[u].inst] = HostOf[job[t].inst] =>
           ~Exclusive(t) /\ ~Exclusive(u)
    /\ inst[job[t].inst] = "live"
    /\ status' = [status EXCEPT ![t] = "PROCESSING"]
    /\ job' = job
    /\ inst' = inst

CreateStep(r, t) ==
    /\ status[t] = "none"
    /\ ~Conflict(r)
    /\ job' = [job EXCEPT ![t] = r]
    /\ status' = [status EXCEPT ![t] = "PENDING"]
    /\ inst' = inst

QuietStep ==
    /\ \A t \in TaskId :
         /\ Active(t)' => Active(t) /\ job'[t] = job[t]
         /\ Is(t, "PROCESSING")' => Is(t, "PROCESSING")
         /\ status[t] \in {"COMPLETED", "FAILED"} => status'[t] \in {status[t], "none"}
    /\ \A i \in Instance : inst'[i] = "owner" =>
         inst[i] = "owner" \/ \A t \in TaskId : Active(t) => job[t].inst # i

(* The end of an execution and a sweep are quiet.                          *)
LEMMA EndIsQuiet ==
    ASSUME TypeOK, NEW t \in TaskId, NEW s \in {"PENDING", "COMPLETED", "FAILED"}, End(t, s)
    PROVE  QuietStep
  BY DEF TypeOK, End, QuietStep, Active, Is, requests

LEMMA FailRowsIsQuiet ==
    ASSUME TypeOK, NEW S, S \subseteq {t \in TaskId : Is(t, "PROCESSING")},
           FailRows(S), UNCHANGED requests
    PROVE  QuietStep
  BY DEF TypeOK, FailRows, QuietStep, Active, Is, requests

(* The checks of the three claim functions amount to those of ClaimStep.   *)
LEMMA ClaimsAreClaimSteps ==
    ASSUME TypeOK, NEW n \in Node, NEW h \in Host, Claims(n, h)
    PROVE  \E t \in TaskId : ClaimStep(t)
<1>1. ASSUME NEW t \in TaskId, ClaimLight(n, h, t) PROVE ClaimStep(t)
  BY <1>1
     DEF ClaimLight, ClaimStep, Claim, Processing, OnHost, Exclusive, Is,
         requests
<1>2. ASSUME NEW t \in TaskId, NEW tbl \in Table, Processing(h) = {},
             IsEarliest(t, Pending(h, tbl)), Claim(n, t)
      PROVE  ClaimStep(t)
  BY <1>2
     DEF ClaimStep, Claim, IsEarliest, Pending, Processing, OnHost, Is,
         requests
<1> QED BY <1>1, <1>2 DEF Claims, ClaimNextInstance, ClaimNextTransfer, Table

LEMMA StepKinds ==
    ASSUME QueueConstants, TypeOK, [Next]_vars
    PROVE  \/ \E t \in TaskId : ClaimStep(t)
           \/ \E r \in Request, t \in TaskId : CreateStep(r, t)
           \/ QuietStep
<1>1. ASSUME NEW r \in Request, Ask(r) PROVE QuietStep
  BY <1>1 DEF Ask, QuietStep, TypeOK, rows, Active, Is
<1>2. ASSUME NEW r \in Request, Create(r)
      PROVE  QuietStep \/ \E t \in TaskId : CreateStep(r, t)
  <2>1. CASE Conflict(r)
    BY <1>2, <2>1 DEF Create, QuietStep, TypeOK, Active, Is
  <2>2. CASE ~Conflict(r)
    BY <1>2, <2>2 DEF Create, CreateStep, NextId, Is
  <2> QED BY <2>1, <2>2
<1>3. ASSUME NEW t \in TaskId, Cancel(t) \/ PurgeOld(t) PROVE QuietStep
  BY <1>3 DEF Cancel, PurgeOld, QuietStep, TypeOK, requests, Active, Is
<1>4. ASSUME NEW i \in Instance, ClaimDelete(i) \/ ClaimExpiryDelete(i) \/ RestoreClaim(i)
      PROVE QuietStep
  BY <1>4
     DEF ClaimDelete, ClaimExpiryDelete, RestoreClaim, QuietStep, TypeOK,
         rows, Active, Is
<1>5. ASSUME NEW n \in Node, NEW h \in Host, Claims(n, h) PROVE \E t \in TaskId : ClaimStep(t)
  BY <1>5, ClaimsAreClaimSteps
<1>6. ASSUME NEW t \in TaskId, Executes(t) PROVE QuietStep
  <2>1. CASE Begin(t)
    BY <2>1 DEF Begin, QuietStep, TypeOK, rows, requests, Active, Is
  <2> QED BY <1>6, <2>1, EndIsQuiet DEF Executes, Refuse, Complete, Fail, Retry
<1>7. ASSUME NEW t \in TaskId, FallBehind(t) PROVE QuietStep
  BY <1>7 DEF FallBehind, QuietStep, TypeOK, requests, Active, Is
<1>8. ASSUME NEW n \in Node, Sweeps(n) \/ Crash(n) \/ Restart(n) PROVE QuietStep
  <2>1. CASE SweepFail(n)
    BY <2>1, FailRowsIsQuiet DEF SweepFail, TypeOK
  <2>2. CASE Restart(n)
    BY <2>2, FailRowsIsQuiet DEF Restart, TypeOK
  <2>3. CASE Crash(n) \/ \E tbl \in Table : SweepFind(n, tbl)
    BY <2>3 DEF Crash, SweepFind, QuietStep, TypeOK, rows, requests, Active, Is
  <2> QED BY <1>8, <2>1, <2>2, <2>3 DEF Sweeps
<1>9. CASE UNCHANGED vars
  BY <1>9 DEF vars, QuietStep, TypeOK, rows, requests, Active, Is
<1> QED BY <1>1, <1>2, <1>3, <1>4, <1>5, <1>6, <1>7, <1>8, <1>9 DEF Next, Users

(* A heavy task, a restore or an upload is the only PROCESSING row of its  *)
(* host, however many nodes poll, sweep, crash and restart.                *)
THEOREM HostExclusiveAlways == Spec => []HostExclusive
<1>1. Init => HostExclusive
  BY DEF Init, HostExclusive, Processing, Is
<1>2. TypeOK /\ HostExclusive /\ [Next]_vars => HostExclusive'
  <2> SUFFICES ASSUME TypeOK, HostExclusive, [Next]_vars PROVE HostExclusive'
    OBVIOUS
  <2>1. ASSUME NEW t \in TaskId, ClaimStep(t) PROVE HostExclusive'
    <3>1. \A u \in TaskId : Is(u, "PROCESSING")' => u = t \/ Is(u, "PROCESSING")
      BY <2>1 DEF ClaimStep, Is, TypeOK
    <3>2. \A u \in TaskId : Exclusive(u)' = Exclusive(u) /\ job'[u] = job[u]
      BY <2>1 DEF ClaimStep, Exclusive
    <3>3. \A u, v \in TaskId :
             (u # v /\ Is(u, "PROCESSING")' /\ Is(v, "PROCESSING")'
                    /\ HostOf[job[u].inst] = HostOf[job[v].inst]) =>
               ~Exclusive(u) /\ ~Exclusive(v)
      <4>1. \A u \in TaskId : Is(u, "PROCESSING") => HostOf[job[u].inst] \in Host
        BY QueueConstants DEF TypeOK, Request, Is
      <4>2. \A u, v \in TaskId :
               (u # v /\ Is(u, "PROCESSING") /\ Is(v, "PROCESSING")
                      /\ HostOf[job[u].inst] = HostOf[job[v].inst]) =>
                 ~Exclusive(u) /\ ~Exclusive(v)
        BY <4>1 DEF HostExclusive, Processing, OnHost
      <4>3. \A u \in TaskId :
               Is(u, "PROCESSING") /\ HostOf[job[u].inst] = HostOf[job[t].inst] =>
                 ~Exclusive(t) /\ ~Exclusive(u)
        BY <2>1 DEF ClaimStep
      <4> QED BY <3>1, <4>2, <4>3
    <3> QED BY <3>2, <3>3 DEF HostExclusive, Processing, OnHost
  <2>2. ASSUME NEW r \in Request, NEW c \in TaskId, CreateStep(r, c) PROVE HostExclusive'
    <3>1. \A t \in TaskId : Is(t, "PROCESSING")' => Is(t, "PROCESSING") /\ job'[t] = job[t]
      BY <2>2 DEF CreateStep, Is, TypeOK
    <3> QED BY <3>1 DEF HostExclusive, Processing, OnHost, Exclusive
  <2>3. CASE QuietStep
    <3>1. \A t \in TaskId : Is(t, "PROCESSING")' => Is(t, "PROCESSING") /\ job'[t] = job[t]
      BY <2>3 DEF QuietStep, Active, Is
    <3> QED BY <3>1 DEF HostExclusive, Processing, OnHost, Exclusive
  <2> QED BY <2>1, <2>2, <2>3, StepKinds, QueueConstants
<1> QED BY <1>1, <1>2, TypeCorrect, PTL DEF Spec

(* No two concurrent requests, retries or sweeps leave two active rows of  *)
(* one instance, or two active uploads of one user.                        *)
THEOREM OneActiveAlways == Spec => []OneActivePerSubject
<1>1. Init => OneActivePerSubject
  BY DEF Init, OneActivePerSubject, Active
<1>2. TypeOK /\ OneActivePerSubject /\ [Next]_vars => OneActivePerSubject'
  <2> SUFFICES ASSUME TypeOK, OneActivePerSubject, [Next]_vars,
                      NEW t \in TaskId, NEW u \in TaskId, t # u, Active(t)', Active(u)'
               PROVE  ~SameSubject(job'[t], job'[u])
    BY DEF OneActivePerSubject, SameSubject
  <2>1. ASSUME NEW c \in TaskId, ClaimStep(c) PROVE ~SameSubject(job'[t], job'[u])
    BY <2>1 DEF ClaimStep, OneActivePerSubject, Active, Is, TypeOK
  <2>2. ASSUME NEW r \in Request, NEW c \in TaskId, CreateStep(r, c) PROVE ~SameSubject(job'[t], job'[u])
    <3>1. \A v \in TaskId : v # c /\ Active(v)' => Active(v) /\ job'[v] = job[v]
      BY <2>2 DEF CreateStep, Active, TypeOK
    <3>2. job'[c] = r
      BY <2>2 DEF CreateStep, TypeOK
    <3>3. \A v \in TaskId : Active(v) => ~SameSubject(r, job[v]) /\ ~SameSubject(job[v], r)
      BY <2>2 DEF CreateStep, Conflict, SameSubject, TableOf
    <3>4. CASE t = c
      BY <3>1, <3>2, <3>3, <3>4
    <3>5. CASE u = c
      BY <3>1, <3>2, <3>3, <3>5
    <3>6. CASE t # c /\ u # c
      BY <3>1, <3>6 DEF OneActivePerSubject
    <3> QED BY <3>4, <3>5, <3>6
  <2>3. CASE QuietStep
    BY <2>3 DEF QuietStep, OneActivePerSubject
  <2> QED BY <2>1, <2>2, <2>3, StepKinds, QueueConstants
<1> QED BY <1>1, <1>2, TypeCorrect, PTL DEF Spec

(* A deletion by an owner or administrator never meets a task in progress. *)
THEOREM OwnerDeletesIdleOnlyAlways == Spec => []OwnerDeletesIdleOnly
<1>1. Init => OwnerDeletesIdleOnly
  BY DEF Init, OwnerDeletesIdleOnly, Is
<1>2. TypeOK /\ OwnerDeletesIdleOnly /\ [Next]_vars => OwnerDeletesIdleOnly'
  <2> SUFFICES ASSUME TypeOK, OwnerDeletesIdleOnly, [Next]_vars,
                      NEW t \in TaskId, Is(t, "PROCESSING")'
               PROVE  inst'[job'[t].inst] # "owner"
    BY DEF OwnerDeletesIdleOnly
  <2>1. ASSUME NEW c \in TaskId, ClaimStep(c) PROVE inst'[job'[t].inst] # "owner"
    BY <2>1 DEF ClaimStep, OwnerDeletesIdleOnly, Is, TypeOK
  <2>2. ASSUME NEW r \in Request, NEW c \in TaskId, CreateStep(r, c) PROVE inst'[job'[t].inst] # "owner"
    BY <2>2 DEF CreateStep, OwnerDeletesIdleOnly, Is, TypeOK
  <2>3. CASE QuietStep
    <3>1. Active(t) /\ Is(t, "PROCESSING") /\ job'[t] = job[t]
      BY <2>3 DEF QuietStep, Active, Is
    <3>2. job[t] \in Request
      BY <3>1 DEF TypeOK, Is
    <3> QED BY <2>3, <3>1, <3>2 DEF QuietStep, OwnerDeletesIdleOnly, Request
  <2> QED BY <2>1, <2>2, <2>3, StepKinds, QueueConstants
<1> QED BY <1>1, <1>2, TypeCorrect, PTL DEF Spec

(* No step rewrites a COMPLETED or FAILED row.                             *)
THEOREM TerminalIsFinalAlways == Spec => TerminalIsFinal
<1>1. TypeOK /\ [Next]_vars =>
        [\A t \in TaskId :
           status[t] \in {"COMPLETED", "FAILED"} => status'[t] \in {status[t], "none"}]_vars
  <2> SUFFICES ASSUME TypeOK, [Next]_vars, NEW t \in TaskId, status[t] \in {"COMPLETED", "FAILED"}
               PROVE  status'[t] \in {status[t], "none"}
    OBVIOUS
  <2>1. ASSUME NEW c \in TaskId, ClaimStep(c) PROVE status'[t] \in {status[t], "none"}
    BY <2>1 DEF ClaimStep, Is, TypeOK
  <2>2. ASSUME NEW r \in Request, NEW c \in TaskId, CreateStep(r, c) PROVE status'[t] \in {status[t], "none"}
    BY <2>2 DEF CreateStep, TypeOK
  <2>3. CASE QuietStep
    BY <2>3 DEF QuietStep
  <2> QED BY <2>1, <2>2, <2>3, StepKinds, QueueConstants
<1> QED BY <1>1, TypeCorrect, PTL DEF Spec, TerminalIsFinal

(* The PROCESSING rows of the three tables implement the host slots: a     *)
(* claim acquires, the end of an execution or a sweep releases, and every  *)
(* other step leaves the slots alone.                                      *)
THEOREM ImplementsHostSlots == Spec => SlotsSpec
<1> DEFINE L(h) == {t \in Processing(h) : ~Exclusive(t)}
           X(h) == {t \in Processing(h) : Exclusive(t)}
<1>1. Init => Slots!Init
  BY DEF Init, Slots!Init, Processing, Is
<1>2. TypeOK /\ [Next]_vars => [Slots!Next]_(Slots!slots)
  <2> SUFFICES ASSUME TypeOK, [Next]_vars PROVE [Slots!Next]_(Slots!slots)
    OBVIOUS
  <2>1. ASSUME NEW t \in TaskId, ClaimStep(t) PROVE Slots!Next
    <3> DEFINE g == HostOf[job[t].inst]
    <3>1. g \in Host /\ status[t] = "PENDING"
      BY <2>1, QueueConstants DEF ClaimStep, TypeOK, Request, Is
    <3>2. \A h \in Host : Processing(h)' = IF h = g THEN Processing(h) \cup {t} ELSE Processing(h)
      BY <2>1 DEF ClaimStep, Processing, OnHost, Is, TypeOK
    <3>3. \A u \in TaskId : Exclusive(u)' = Exclusive(u)
      BY <2>1 DEF ClaimStep, Exclusive
    <3>4. \A u \in Processing(g) : ~Exclusive(t) /\ ~Exclusive(u)
      BY <2>1 DEF ClaimStep, Processing, OnHost
    <3>5. CASE Exclusive(t)
      <4>1. Slots!AcquireExclusive(g, t)
        BY <3>1, <3>2, <3>3, <3>4, <3>5 DEF Slots!AcquireExclusive, Processing
      <4> QED BY <3>1, <4>1 DEF Slots!Next
    <3>6. CASE ~Exclusive(t)
      <4>1. Slots!AcquireLight(g, t)
        BY <3>1, <3>2, <3>3, <3>4, <3>6 DEF Slots!AcquireLight, Processing
      <4> QED BY <3>1, <4>1 DEF Slots!Next
    <3> QED BY <3>5, <3>6
  <2>2. ASSUME NEW r \in Request, NEW c \in TaskId, CreateStep(r, c) PROVE UNCHANGED Slots!slots
    <3>1. \A t \in TaskId : /\ Is(t, "PROCESSING")' = Is(t, "PROCESSING")
                            /\ Is(t, "PROCESSING") => job'[t] = job[t]
      BY <2>2 DEF CreateStep, TypeOK, Is
    <3> QED BY <3>1 DEF Slots!slots, Processing, OnHost, Exclusive
  <2>3. ASSUME QuietStep PROVE Slots!Next \/ UNCHANGED Slots!slots
    <3> DEFINE gone == {t \in TaskId : Is(t, "PROCESSING") /\ ~Is(t, "PROCESSING")'}
    <3>1. \A t \in TaskId : Is(t, "PROCESSING")' => Is(t, "PROCESSING") /\ job'[t] = job[t]
      BY <2>3 DEF QuietStep, Active, Is
    <3>2. \A h \in Host : L(h)' = L(h) \ gone /\ X(h)' = X(h) \ gone
      BY <3>1 DEF Processing, OnHost, Exclusive
    <3>3. CASE gone = {}
      BY <3>2, <3>3 DEF Slots!slots
    <3>4. CASE gone # {}
      <4>1. Slots!Release(gone)
        BY <3>2, <3>4 DEF Slots!Release
      <4> QED BY <4>1 DEF Slots!Next
    <3> QED BY <3>3, <3>4
  <2> QED BY <2>1, <2>2, <2>3, StepKinds, QueueConstants
<1> QED BY <1>1, <1>2, TypeCorrect, PTL DEF Spec, SlotsSpec, Slots!Spec
----------------------------------------------------------------------------
(* One backend process, as the deployment runs it.  A sweep may fail late  *)
(* what it found, but then nobody has taken up the row since.              *)
FoundIsLeft ==
    \A n \in Node : \A t \in found[n] :
        runner[t] = Idle /\ status[t] \notin {"PENDING", "none"}
OneProcessInv == TypeOK /\ ExecutedRowIsProcessing /\ FoundIsLeft

LEMMA OneProcessStep ==
    ASSUME QueueConstants, \A m, n \in Node : m = n, OneProcessInv, [Next]_vars
    PROVE  ExecutedRowIsProcessing' /\ FoundIsLeft'
<1> USE DEF OneProcessInv, TypeOK, ExecutedRowIsProcessing, FoundIsLeft, Is
<1> DEFINE Goal == ExecutedRowIsProcessing' /\ FoundIsLeft'
<1>1. ASSUME NEW r \in Request, Ask(r) PROVE Goal
  BY <1>1 DEF Ask, rows, executions, nodes
<1>2. ASSUME NEW r \in Request, Create(r) PROVE Goal
  <2>1. CASE Conflict(r)
    BY <1>2, <2>1 DEF Create, executions, nodes
  <2>2. CASE ~Conflict(r)
    <3>1. PICK t \in TaskId : /\ status[t] = "none"
                             /\ status' = [status EXCEPT ![t] = "PENDING"]
      BY <1>2, <2>2 DEF Create, NextId
    <3>2. runner[t] = Idle /\ \A n \in Node : t \notin found[n]
      BY <3>1
    <3> QED BY <1>2, <3>1, <3>2 DEF Create, executions, nodes
  <2> QED BY <2>1, <2>2
<1>3. ASSUME NEW t \in TaskId, Cancel(t) \/ PurgeOld(t) PROVE Goal
  BY <1>3 DEF Cancel, PurgeOld, requests, executions, nodes
<1>4. ASSUME NEW i \in Instance, ClaimDelete(i) \/ ClaimExpiryDelete(i) \/ RestoreClaim(i)
      PROVE  Goal
  BY <1>4 DEF ClaimDelete, ClaimExpiryDelete, RestoreClaim, rows, executions, nodes
<1>5. ASSUME NEW n \in Node, NEW h \in Host, Claims(n, h) PROVE Goal
  <2>1. PICK t \in TaskId : Is(t, "PENDING") /\ Claim(n, t)
    BY <1>5 DEF Claims, ClaimLight, ClaimNextInstance, ClaimNextTransfer, IsEarliest,
                Pending
  <2> QED BY <2>1 DEF Claim, nodes
<1>6. ASSUME NEW t \in TaskId, Executes(t) PROVE Goal
  <2>1. CASE Begin(t)
    BY <2>1 DEF Begin, rows, nodes
  <2>2. ASSUME NEW s, End(t, s), runner[t] # Idle PROVE Goal
    BY <2>2 DEF End, nodes
  <2> QED BY <1>6, <2>1, <2>2 DEF Executes, Refuse, Complete, Fail, Retry
<1>7. ASSUME NEW t \in TaskId, FallBehind(t) PROVE Goal
  BY <1>7 DEF FallBehind, executions, nodes
<1>8. ASSUME NEW n \in Node, Sweeps(n) PROVE Goal
  <2>1. CASE SweepFail(n)
    BY <2>1 DEF SweepFail, FailRows, executions
  <2>2. ASSUME NEW tbl \in Table, SweepFind(n, tbl) PROVE Goal
    <3>1. \A t \in overdue : runner[t] # n => runner[t] = Idle
      BY <2>2
    <3> QED BY <2>2, <3>1 DEF SweepFind, rows, executions
  <2> QED BY <1>8, <2>1, <2>2 DEF Sweeps
<1>9. ASSUME NEW n \in Node, Crash(n) PROVE Goal
  BY <1>9 DEF Crash, rows
<1>10. ASSUME NEW n \in Node, Restart(n) PROVE Goal
  <2>1. \A t \in TaskId : runner[t] = Idle
    BY <1>10 DEF Restart
  <2> QED BY <1>10, <2>1 DEF Restart, FailRows, executions
<1>11. CASE UNCHANGED vars
  BY <1>11 DEF vars, rows, executions, nodes
<1> QED BY <1>1, <1>2, <1>3, <1>4, <1>5, <1>6, <1>7, <1>8, <1>9, <1>10, <1>11
        DEF Next, Users

(* The timeout sweep and the sweep at startup fail only rows nobody        *)
(* executes: whatever crashes, times out or retries, an execution has its  *)
(* row in PROCESSING (the comments of cleanupStaleTasks).                  *)
THEOREM SweepsSpareExecutions ==
    ASSUME \A m, n \in Node : m = n
    PROVE  Spec => []ExecutedRowIsProcessing
<1>1. Init => ExecutedRowIsProcessing /\ FoundIsLeft
  BY DEF Init, ExecutedRowIsProcessing, FoundIsLeft
<1>2. TypeOK /\ (ExecutedRowIsProcessing /\ FoundIsLeft) /\ [Next]_vars
        => (ExecutedRowIsProcessing /\ FoundIsLeft)'
  BY OneProcessStep, QueueConstants DEF OneProcessInv
<1> QED BY <1>1, <1>2, TypeCorrect, PTL DEF Spec

(* So what one process does on a host is what the rows say: two executions *)
(* at a time only if both are light (the header comments of the workers).  *)
THEOREM OneHeavyWorkAlways ==
    ASSUME \A m, n \in Node : m = n
    PROVE  Spec => []OneHeavyWorkPerHost
<1>1. TypeOK /\ ExecutedRowIsProcessing /\ HostExclusive => OneHeavyWorkPerHost
  BY DEF TypeOK, ExecutedRowIsProcessing, HostExclusive, OneHeavyWorkPerHost, Processing
<1> QED BY <1>1, TypeCorrect, SweepsSpareExecutions, HostExclusiveAlways, PTL

=============================================================================
