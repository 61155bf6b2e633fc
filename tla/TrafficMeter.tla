--------------------------- MODULE TrafficMeter ----------------------------
(***************************************************************************)
(* The metering of monthly traffic: the counters of the machines, the      *)
(* baseline (TrafficSnapshot) they are compared with, the usage of         *)
(* instances and of their owners, and the three kinds of work that write   *)
(* them: collections by the panel, reports by the agent of a host, resets. *)
(*                                                                         *)
(* All three hold the lease of the instance (distributed_locks, 30 s) and, *)
(* while they write, that of its owner.  Collections and resets read the   *)
(* counter under the lease of the instance, reports long before it.        *)
(* tot, mark and baseTot are history variables.                            *)
(***************************************************************************)
EXTENDS Naturals

CONSTANTS Instance, User,
          Collector, Reporter, Resetter,  \* work in flight at most
          Ops,        \* what else happens, of AllOps
          MaxTraffic, \* bound on what a machine carries
          MaxTime     \* bound on the samples taken

AllOps == {"restart", "power", "replace", "transfer", "delete", "crash",
           "slow",    \* a host may answer after the lease of a reset
           "undated"} \* agents send no reportedAt

Worker == Collector \cup Reporter \cup Resetter

ASSUME TrafficConstants ==
    /\ Instance # {} /\ User # {}
    /\ Collector \cap Reporter = {}
    /\ Collector \cap Resetter = {}
    /\ Reporter \cap Resetter = {}
    /\ Ops \subseteq AllOps
    /\ MaxTraffic \in Nat /\ MaxTime \in Nat

CONSTANTS Free, Lost  \* a lease that nobody holds, one of a dead process

ASSUME LeaseConstants ==
    Free # Lost /\ {Free, Lost} \cap Worker = {}

VARIABLES
    tot, raw,         \* bytes carried by a machine; its counter
    on,               \* it runs
    fresh,            \* it was replaced, its baseline not yet deleted
    status, owner,    \* the row of the instance
    used, userUsed,   \* monthlyTrafficUsed of instances and of users
    hasBase, baseRaw, baseAt, baseTot,  \* the baseline
    lease, userLease,
    now,              \* a clock all agree on; no two samples share a time
    mark,             \* tot as the last reset saw it
    pc, inst, user, todo,     \* work: its step, instance, owner read, rest
    sRaw, sAt, sTot, sOn,     \* its sample
    readOwner, readUsed, readUser  \* read by the transaction of a reset

machine == <<tot, raw, on, fresh>>
row == <<status, owner>>
usage == <<used, userUsed, mark>>
base == <<hasBase, baseRaw, baseAt, baseTot>>
leases == <<lease, userLease>>
sample == <<sRaw, sAt, sTot, sOn>>
reads == <<readOwner, readUsed, readUser>>
work == <<pc, inst, user, todo, sample, reads>>
vars == <<machine, row, usage, base, leases, now, work>>

Zero(S) == [x \in S |-> 0]
SomeInstance == CHOOSE i \in Instance : TRUE
SomeUser == CHOOSE u \in User : TRUE

Init ==
    /\ tot = Zero(Instance) /\ raw = Zero(Instance)
    /\ on = [i \in Instance |-> TRUE]
    /\ fresh = [i \in Instance |-> FALSE]
    /\ status = [i \in Instance |-> "running"]
    /\ owner \in [Instance -> User]
    /\ used = Zero(Instance) /\ userUsed = Zero(User)
    /\ hasBase = [i \in Instance |-> FALSE]
    /\ baseRaw = Zero(Instance) /\ baseAt = Zero(Instance)
    /\ baseTot = Zero(Instance)
    /\ lease = [i \in Instance |-> Free] /\ userLease = [u \in User |-> Free]
    /\ now = 0
    /\ mark = Zero(Instance)
    /\ pc = [p \in Worker |-> "idle"]
    /\ inst = [p \in Worker |-> SomeInstance]
    /\ user = [p \in Worker |-> SomeUser]
    /\ todo = [p \in Worker |-> {}]
    /\ sRaw = Zero(Worker) /\ sAt = Zero(Worker) /\ sTot = Zero(Worker)
    /\ sOn = [p \in Worker |-> TRUE]
    /\ readOwner = user
    /\ readUsed = Zero(Worker) /\ readUser = Zero(Worker)

----------------------------------------------------------------------------
(* The machines and what others do to an instance                          *)

Carry(i) ==
    /\ on[i] /\ tot[i] < MaxTraffic
    /\ tot' = [tot EXCEPT ![i] = @ + 1]
    /\ raw' = [raw EXCEPT ![i] = @ + 1]
    /\ UNCHANGED <<on, fresh, row, usage, base, leases, now, work>>

(* The interface of a machine is made anew; its counter starts at zero.    *)
Restart(i) ==
    /\ "restart" \in Ops /\ on[i]
    /\ raw' = [raw EXCEPT ![i] = 0]
    /\ UNCHANGED <<tot, on, fresh, row, usage, base, leases, now, work>>

(* Started and stopped, by the panel or from within.  The row follows.     *)
Power(i) ==
    /\ "power" \in Ops /\ ~fresh[i] /\ status[i] # "deleted"
    /\ on' = [on EXCEPT ![i] = ~@]
    /\ raw' = [raw EXCEPT ![i] = 0]
    /\ UNCHANGED <<tot, fresh, row, usage, base, leases, now, work>>

RowOf(running) == IF running THEN "running" ELSE "stopped"

SyncRow(i) ==
    /\ status[i] \in {"running", "stopped"}
    /\ status' = [status EXCEPT ![i] = RowOf(on[i])]
    /\ UNCHANGED <<machine, owner, usage, base, leases, now, work>>

(* A rebuild or restore puts another machine in the place of this one,     *)
(* deletes the baseline, and starts it.                                    *)
Replace(i) ==
    /\ "replace" \in Ops /\ ~fresh[i] /\ status[i] # "deleted"
    /\ on' = [on EXCEPT ![i] = FALSE]
    /\ raw' = [raw EXCEPT ![i] = 0]
    /\ fresh' = [fresh EXCEPT ![i] = TRUE]
    /\ UNCHANGED <<tot, row, usage, base, leases, now, work>>

Forget(i) ==
    /\ fresh[i]
    /\ fresh' = [fresh EXCEPT ![i] = FALSE]
    /\ on' = [on EXCEPT ![i] = TRUE]
    /\ hasBase' = [hasBase EXCEPT ![i] = FALSE]
    /\ UNCHANGED <<tot, raw, row, usage, baseRaw, baseAt, baseTot,
                   leases, now, work>>

(* The usage of a deleted row stays where it was counted.                  *)
Delete(i) ==
    /\ "delete" \in Ops /\ status[i] # "deleted"
    /\ status' = [status EXCEPT ![i] = "deleted"]
    /\ on' = [on EXCEPT ![i] = FALSE]
    /\ fresh' = [fresh EXCEPT ![i] = FALSE]
    /\ hasBase' = [hasBase EXCEPT ![i] = FALSE]
    /\ UNCHANGED <<tot, raw, owner, usage, baseRaw, baseAt, baseTot,
                   leases, now, work>>

(* executeTransfer writes the owner and no usage.                          *)
Transfer(i) ==
    /\ "transfer" \in Ops /\ status[i] # "deleted"
    /\ \E u \in User \ {owner[i]} : owner' = [owner EXCEPT ![i] = u]
    /\ UNCHANGED <<machine, status, usage, base, leases, now, work>>

----------------------------------------------------------------------------
(* Leases                                                                  *)

Released(p) == [lease EXCEPT ![inst[p]] = IF @ = p THEN Free ELSE @]

Expire(i) ==
    /\ lease[i] = Lost
    /\ lease' = [lease EXCEPT ![i] = Free]
    /\ UNCHANGED <<machine, row, usage, base, userLease, now, work>>

ExpireUser(u) ==
    /\ userLease[u] = Lost
    /\ userLease' = [userLease EXCEPT ![u] = Free]
    /\ UNCHANGED <<machine, row, usage, base, lease, now, work>>

(* A collection extends its lease while it waits for the host, a reset     *)
(* does not; the host may take 120 seconds, the lease lasts 30.            *)
Outlast(p) ==
    /\ "slow" \in Ops /\ pc[p] \in {"ask", "seen"}
    /\ lease[inst[p]] = p
    /\ lease' = [lease EXCEPT ![inst[p]] = Free]
    /\ UNCHANGED <<machine, row, usage, base, userLease, now, work>>

----------------------------------------------------------------------------
(* The steps of work                                                       *)

Goto(p, s) == pc' = [pc EXCEPT ![p] = s]

(* Work ends, and with it what it has read.                                *)
Leave(p) ==
    /\ Goto(p, "idle")
    /\ inst' = [inst EXCEPT ![p] = SomeInstance]
    /\ user' = [user EXCEPT ![p] = SomeUser]
    /\ todo' = [todo EXCEPT ![p] = {}]
    /\ sRaw' = [sRaw EXCEPT ![p] = 0]
    /\ sAt' = [sAt EXCEPT ![p] = 0]
    /\ sTot' = [sTot EXCEPT ![p] = 0]
    /\ sOn' = [sOn EXCEPT ![p] = TRUE]
    /\ readOwner' = [readOwner EXCEPT ![p] = SomeUser]
    /\ readUsed' = [readUsed EXCEPT ![p] = 0]
    /\ readUser' = [readUser EXCEPT ![p] = 0]

(* An exception: a reset of many instances does not go on with the others. *)
Fail(p) ==
    /\ pc[p] \in {"want", "ask", "seen", "sampled", "write"}
    /\ lease' = Released(p)
    /\ userLease' = [userLease EXCEPT ![user[p]] = IF @ = p THEN Free ELSE @]
    /\ Leave(p)
    /\ UNCHANGED <<machine, row, usage, base, now>>

Crash(p) ==
    /\ "crash" \in Ops /\ pc[p] # "idle"
    /\ lease' = [i \in Instance |-> IF lease[i] = p THEN Lost ELSE lease[i]]
    /\ userLease' = [u \in User |->
                        IF userLease[u] = p THEN Lost ELSE userLease[u]]
    /\ Leave(p)
    /\ UNCHANGED <<machine, row, usage, base, now>>

BeginCollect(p, i) ==
    /\ pc[p] = "idle" /\ status[i] = "running"
    /\ inst' = [inst EXCEPT ![p] = i]
    /\ user' = [user EXCEPT ![p] = owner[i]]
    /\ Goto(p, "want")
    /\ UNCHANGED <<machine, row, usage, base, leases, now, todo, sample,
                   reads>>

Live == {i \in Instance : status[i] # "deleted"}

(* A reset of one instance, asked for, or of all of a host, by the job.    *)
BeginReset(p) ==
    /\ pc[p] = "idle"
    /\ \E S \in ({{i} : i \in Live} \cup {Live}) \ {{}} :
           todo' = [todo EXCEPT ![p] = S]
    /\ Goto(p, "next")
    /\ UNCHANGED <<machine, row, usage, base, leases, now, inst, user, sample,
                   reads>>

NextReset(p) ==
    /\ pc[p] = "next"
    /\ \/ todo[p] = {} /\ Leave(p)
       \/ \E i \in todo[p] :
              /\ inst' = [inst EXCEPT ![p] = i]
              /\ todo' = [todo EXCEPT ![p] = @ \ {i}]
              /\ Goto(p, "want")
              /\ UNCHANGED <<user, sample, reads>>
    /\ UNCHANGED <<machine, row, usage, base, leases, now>>

(* The agent reads the counter and puts its time in the report.            *)
Post(p, i) ==
    /\ pc[p] = "idle" /\ now < MaxTime
    /\ inst' = [inst EXCEPT ![p] = i]
    /\ now' = now + 1
    /\ sRaw' = [sRaw EXCEPT ![p] = raw[i]]
    /\ sTot' = [sTot EXCEPT ![p] = tot[i]]
    /\ sOn' = [sOn EXCEPT ![p] = on[i]]
    /\ sAt' = [sAt EXCEPT ![p] = now + 1]
    /\ Goto(p, "posted")
    /\ UNCHANGED <<machine, row, usage, base, leases, user, todo,
                   reads>>

(* A report arrives, perhaps again: it is dated if it is not, the row      *)
(* takes its status, and only a running instance is metered.               *)
Receive(p) ==
    /\ pc[p] \in {"posted", "sent"}
    /\ status[inst[p]] \in {"running", "stopped"}
    /\ \/ UNCHANGED <<now, sAt>>
       \/ /\ "undated" \in Ops /\ now < MaxTime
          /\ now' = now + 1
          /\ sAt' = [sAt EXCEPT ![p] = now + 1]
    /\ status' = [status EXCEPT ![inst[p]] = RowOf(sOn[p])]
    /\ user' = [user EXCEPT ![p] = owner[inst[p]]]
    /\ Goto(p, IF sOn[p] THEN "want" ELSE "sent")
    /\ UNCHANGED <<machine, owner, usage, base, leases, inst, todo, sRaw,
                   sTot, sOn, reads>>

Drop(p) ==
    /\ pc[p] \in {"posted", "sent"}
    /\ Leave(p)
    /\ UNCHANGED <<machine, row, usage, base, leases, now>>

(* acquireLock, and for a reset the row read under it.                     *)
Acquire(p) ==
    /\ pc[p] = "want" /\ lease[inst[p]] = Free
    /\ lease' = [lease EXCEPT ![inst[p]] = p]
    /\ UNCHANGED <<machine, row, usage, base, userLease, inst, todo,
                   reads, sOn>>
    /\ \/ /\ p \in Collector
          /\ Goto(p, "ask")
          /\ UNCHANGED <<now, user, sRaw, sAt, sTot>>
       \/ /\ p \in Reporter
          /\ Goto(p, "sampled")
          /\ UNCHANGED <<now, user, sRaw, sAt, sTot>>
       \/ /\ p \in Resetter /\ status[inst[p]] = "running"
          /\ user' = [user EXCEPT ![p] = owner[inst[p]]]
          /\ Goto(p, "ask")
          /\ UNCHANGED <<now, sRaw, sAt, sTot>>
       \/ (* the counter of a stopped machine is taken to stand still *)
          /\ p \in Resetter /\ status[inst[p]] = "stopped" /\ now < MaxTime
          /\ user' = [user EXCEPT ![p] = owner[inst[p]]]
          /\ now' = now + 1
          /\ sRaw' = [sRaw EXCEPT ![p] = IF hasBase[inst[p]]
                                         THEN baseRaw[inst[p]] ELSE 0]
          /\ sTot' = [sTot EXCEPT ![p] = tot[inst[p]]]
          /\ sAt' = [sAt EXCEPT ![p] = now + 1]
          /\ Goto(p, "sampled")

(* The host reads the counter; its answer is dated when it arrives.        *)
Observe(p) ==
    /\ pc[p] = "ask"
    /\ sRaw' = [sRaw EXCEPT ![p] = raw[inst[p]]]
    /\ sTot' = [sTot EXCEPT ![p] = tot[inst[p]]]
    /\ Goto(p, "seen")
    /\ UNCHANGED <<machine, row, usage, base, leases, now, inst, user, todo,
                   sAt, sOn, reads>>

Answer(p) ==
    /\ pc[p] = "seen" /\ now < MaxTime
    /\ now' = now + 1
    /\ sAt' = [sAt EXCEPT ![p] = now + 1]
    /\ Goto(p, "sampled")
    /\ UNCHANGED <<machine, row, usage, base, leases, inst, user, todo, sRaw,
                   sTot, sOn, reads>>

----------------------------------------------------------------------------
(* The transactions                                                        *)

(* Mutation: late samples are not refused.                                  *)
Accepted_Always(p) == TRUE

(* The condition of the updateMany in advanceTrafficSnapshot.              *)
Accepted(p) == hasBase[inst[p]] => baseAt[inst[p]] <= sAt[p]

(* advanceTrafficSnapshot                                                  *)
Advance(p) ==
    IF Accepted(p)
    THEN /\ hasBase' = [hasBase EXCEPT ![inst[p]] = TRUE]
         /\ baseRaw' = [baseRaw EXCEPT ![inst[p]] = sRaw[p]]
         /\ baseAt' = [baseAt EXCEPT ![inst[p]] = sAt[p]]
         /\ baseTot' = [baseTot EXCEPT ![inst[p]] = sTot[p]]
    ELSE UNCHANGED base

(* Mutation: a counter that went back is subtracted.                       *)
Increment_Signed(p) ==
    IF hasBase[inst[p]] THEN sRaw[p] - baseRaw[inst[p]] ELSE 0

(* calculateIncrement; a first sample only makes the baseline.             *)
Increment(p) ==
    IF hasBase[inst[p]] /\ sRaw[p] > baseRaw[inst[p]]
    THEN sRaw[p] - baseRaw[inst[p]] ELSE 0

(* The end of a collection or of a report.                                 *)
Meter(p) ==
    /\ pc[p] = "sampled" /\ userLease[user[p]] = Free
    /\ IF status[inst[p]] = "running" /\ Accepted(p)
       THEN /\ Advance(p)
            /\ used' = [used EXCEPT ![inst[p]] = @ + Increment(p)]
            /\ userUsed' = [userUsed EXCEPT ![user[p]] = @ + Increment(p)]
            /\ UNCHANGED mark
       ELSE UNCHANGED <<usage, base>>
    /\ lease' = Released(p)
    /\ \/ p \in Collector /\ Leave(p)
       \/ /\ p \in Reporter /\ Goto(p, "sent")
          /\ UNCHANGED <<inst, user, todo, sample, reads>>
    /\ UNCHANGED <<machine, row, userLease, now>>

(* Mutation: the lease of the owner is not taken.                          *)
ReadUsage_Unlocked(p) ==
    /\ pc[p] = "sampled" /\ status[inst[p]] # "deleted"
    /\ readOwner' = [readOwner EXCEPT ![p] = owner[inst[p]]]
    /\ readUsed' = [readUsed EXCEPT ![p] = used[inst[p]]]
    /\ readUser' = [readUser EXCEPT ![p] = userUsed[owner[inst[p]]]]
    /\ Goto(p, "write")
    /\ UNCHANGED <<machine, row, usage, base, leases, now, inst, user, todo,
                   sample>>

(* The transaction of a reset begins: it reads both usages.                *)
ReadUsage(p) ==
    /\ pc[p] = "sampled" /\ userLease[user[p]] = Free
    /\ status[inst[p]] # "deleted"
    /\ userLease' = [userLease EXCEPT ![user[p]] = p]
    /\ readOwner' = [readOwner EXCEPT ![p] = owner[inst[p]]]
    /\ readUsed' = [readUsed EXCEPT ![p] = used[inst[p]]]
    /\ readUser' = [readUser EXCEPT ![p] = userUsed[owner[inst[p]]]]
    /\ Goto(p, "write")
    /\ UNCHANGED <<machine, row, usage, base, lease, now, inst, user, todo,
                   sample>>

(* Mutations: the owner's whole usage is cleared, or kept.                 *)
Rest_Cleared(p) == 0
Rest_Kept(p) == readUser[p]

(* What is left to the owner.                                              *)
Rest(p) ==
    IF readUser[p] > readUsed[p] THEN readUser[p] - readUsed[p] ELSE 0

(* The whole usage of the owner is written, from what was read.            *)
Reset(p) ==
    /\ pc[p] = "write"
    /\ Advance(p)
    /\ IF status[inst[p]] # "deleted"
       THEN /\ used' = [used EXCEPT ![inst[p]] = 0]
            /\ userUsed' = [userUsed EXCEPT ![readOwner[p]] = Rest(p)]
            /\ mark' = [mark EXCEPT ![inst[p]] = sTot[p]]
       ELSE UNCHANGED usage
    /\ lease' = Released(p)
    /\ userLease' = [userLease EXCEPT ![user[p]] = Free]
    /\ Goto(p, "next")
    /\ UNCHANGED <<machine, row, now, inst, user, todo, sample, reads>>

Next ==
    \/ \E i \in Instance :
           \/ Carry(i) \/ Restart(i) \/ Power(i) \/ SyncRow(i)
           \/ Replace(i) \/ Forget(i) \/ Delete(i) \/ Transfer(i)
           \/ Expire(i)
           \/ \E p \in Collector : BeginCollect(p, i)
           \/ \E p \in Reporter : Post(p, i)
    \/ \E u \in User : ExpireUser(u)
    \/ \E p \in Collector \cup Reporter : Meter(p)
    \/ \E p \in Reporter : Receive(p) \/ Drop(p)
    \/ \E p \in Collector \cup Resetter : Observe(p) \/ Answer(p)
    \/ \E p \in Resetter :
           \/ BeginReset(p) \/ NextReset(p) \/ Outlast(p)
           \/ ReadUsage(p) \/ Reset(p)
    \/ \E p \in Worker : Acquire(p) \/ Fail(p) \/ Crash(p)

Spec == Init /\ [][Next]_vars

----------------------------------------------------------------------------
(* Properties                                                              *)

Steps == {"idle", "next", "posted", "sent", "want", "ask", "seen", "sampled",
          "write"}

(* Every variable has its type.                                            *)
TypeOK ==
    /\ tot \in [Instance -> Nat] /\ raw \in [Instance -> Nat]
    /\ on \in [Instance -> BOOLEAN] /\ fresh \in [Instance -> BOOLEAN]
    /\ status \in [Instance -> {"running", "stopped", "deleted"}]
    /\ owner \in [Instance -> User]
    /\ used \in [Instance -> Nat] /\ userUsed \in [User -> Nat]
    /\ hasBase \in [Instance -> BOOLEAN]
    /\ baseRaw \in [Instance -> Nat] /\ baseAt \in [Instance -> Nat]
    /\ baseTot \in [Instance -> Nat]
    /\ lease \in [Instance -> Worker \cup {Free, Lost}]
    /\ userLease \in [User -> Worker \cup {Free, Lost}]
    /\ now \in Nat
    /\ mark \in [Instance -> Nat]
    /\ pc \in [Worker -> Steps]
    /\ inst \in [Worker -> Instance] /\ user \in [Worker -> User]
    /\ todo \in [Worker -> SUBSET Instance]
    /\ sRaw \in [Worker -> Nat] /\ sAt \in [Worker -> Nat]
    /\ sTot \in [Worker -> Nat] /\ sOn \in [Worker -> BOOLEAN]
    /\ readOwner \in [Worker -> User]
    /\ readUsed \in [Worker -> Nat] /\ readUser \in [Worker -> Nat]

(* An instance is charged at most what its machine carried since the       *)
(* sample of its last reset: no byte is counted twice by the collections   *)
(* and reports that overlap, and none from before a reset after it.        *)
OldTrafficStaysOut == \A i \in Instance : used[i] + mark[i] <= tot[i]

(* advanceTrafficSnapshot never puts a baseline back to an earlier one.    *)
BaselineForward ==
    [][\A i \in Instance :
           hasBase[i] /\ hasBase'[i] => baseTot[i] <= baseTot'[i]]_vars

(* What the transaction of a reset has read stays true until it writes: no *)
(* increment of a collection or report is lost under it.                   *)
NoLostUpdate ==
    \A p \in Resetter :
        pc[p] = "write" => /\ readUsed[p] = used[inst[p]]
                           /\ readUser[p] = userUsed[readOwner[p]]
=============================================================================
