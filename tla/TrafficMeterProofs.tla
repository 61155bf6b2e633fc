------------------------ MODULE TrafficMeterProofs -------------------------
(***************************************************************************)
(* Safety of TrafficMeter for every value of its constants.                *)
(*                                                                         *)
(* No traffic is charged twice.  Of two samples of one instance the one    *)
(* with the later time has seen at least as much traffic, and its counter  *)
(* is ahead of the other by no more than that.  Collections and resets     *)
(* take theirs under the lease, so it is later than the baseline they find *)
(* there; the time of a report decides.  Hence the baseline only moves     *)
(* forward and increments never exceed what was carried in between.  For   *)
(* this a host must not answer after the lease (slow), a report must be    *)
(* dated (undated), and a machine must not run or stop while its row says  *)
(* otherwise (power, replace).                                             *)
(*                                                                         *)
(* No update is lost.  Whoever writes the usage of a user holds the lease  *)
(* of that user, if no instance changes hands (transfer).                  *)
(*                                                                         *)
(* What a user has used is the sum of what his instances have: each write  *)
(* of one changes the other by as much, if no instance changes hands or is *)
(* deleted, for its usage stays where it was counted.                      *)
(***************************************************************************)
EXTENDS MCTrafficMeter, TLAPS, FiniteSetTheorems, WellFoundedInduction

Orderly == Ops \cap {"slow", "undated", "power", "replace"} = {}
Settled == "transfer" \notin Ops

(* Rows and reports tell the truth of their machines.                      *)
TrueRow(i) ==
    /\ ~fresh[i]
    /\ \/ status[i] = "running" /\ on[i]
       \/ status[i] = "deleted"

TrueReport(p) ==
    \/ sOn[p]
    \/ p \in Reporter /\ pc[p] # "idle" /\ status[inst[p]] = "deleted"

(* Each kind of work has steps of its own.                                 *)
OwnSteps(p) ==
    /\ p \in Collector => pc[p] \in {"idle", "want", "ask", "seen", "sampled"}
    /\ p \in Reporter => pc[p] \in {"idle", "posted", "sent", "want", "sampled"}
    /\ p \in Resetter => pc[p] \in {"idle", "next", "want", "ask", "seen",
                                    "sampled", "write"}

(* One worker at a time is at an instance.                                 *)
Leased(p) ==
    pc[p] \in {"ask", "seen", "sampled", "write"} => lease[inst[p]] = p

(* A counter shows no more than was carried since it was at zero.          *)
Counter(i) == raw[i] <= tot[i]

(* A point of the count of a machine: what its counter showed, what it had *)
(* carried.  From one to another the counter grows by at most the traffic. *)
Ahead(r, t, rr, tt) == t <= tt /\ t + rr <= tt + r

(* The baseline is of the past, and covers what was charged.               *)
Baseline(i) ==
    hasBase[i] =>
        /\ Ahead(baseRaw[i], baseTot[i], raw[i], tot[i])
        /\ baseAt[i] <= now
        /\ status[i] # "deleted" => used[i] + mark[i] <= baseTot[i]

(* Nothing is charged before there is a baseline.                          *)
Unbased(i) ==
    ~hasBase[i] /\ status[i] # "deleted" => used[i] = 0 /\ mark[i] = 0

(* The sample of p was taken, and its time.                                *)
Sampled(p) ==
    \/ pc[p] \in {"seen", "sampled", "write"}
    \/ p \in Reporter /\ pc[p] # "idle"
Dated(p) == Sampled(p) /\ pc[p] # "seen"

PastSample(p) ==
    /\ sAt[p] <= now
    /\ Sampled(p) => Ahead(sRaw[p], sTot[p], raw[inst[p]], tot[inst[p]])

(* A sample is ahead of the baseline if it is later, or taken under the    *)
(* lease that is still held; and then it is later.                         *)
AheadOfBase(p) ==
    Sampled(p) /\ hasBase[inst[p]]
    /\ (p \in Reporter => baseAt[inst[p]] <= sAt[p])
        => Ahead(baseRaw[inst[p]], baseTot[inst[p]], sRaw[p], sTot[p])

LateIfHeld(p) ==
    p \notin Reporter /\ Dated(p) /\ hasBase[inst[p]]
        => baseAt[inst[p]] <= sAt[p]

(* Times order the samples.                                                *)
Ordered(p, q) ==
    p \in Reporter /\ Sampled(p) /\ Dated(q)
    /\ inst[p] = inst[q] /\ sAt[q] <= sAt[p]
        => Ahead(sRaw[q], sTot[q], sRaw[p], sTot[p])

(* The usage of a deleted instance is kept.                                *)
Buried(i) == status[i] = "deleted" => used[i] + mark[i] <= tot[i]

Instances == \A i \in Instance : TrueRow(i) /\ Counter(i)
Baselines == \A i \in Instance : Baseline(i) /\ Unbased(i)
Workings == \A p \in Worker : TrueReport(p) /\ OwnSteps(p) /\ Leased(p)
Samples ==
    \A p \in Worker : PastSample(p) /\ AheadOfBase(p) /\ LateIfHeld(p)
Times == \A p, q \in Worker : Ordered(p, q)

IInv ==
    /\ TypeOK
    /\ Instances
    /\ Workings
    /\ Baselines
    /\ Samples
    /\ Times
    /\ OldTrafficStaysOut

(* Work is for the owner of its instance.                                  *)
KnowsOwner(p) ==
    (\/ pc[p] \in {"ask", "seen", "sampled", "write"}
     \/ pc[p] = "want" /\ p \notin Resetter)
        => user[p] = owner[inst[p]]

(* Resets write under the lease of the owner they have read.               *)
WritesLeased(p) ==
    pc[p] = "write" => userLease[user[p]] = p /\ readOwner[p] = user[p]

----------------------------------------------------------------------------
(* Types                                                                   *)

LEMMA SomeTypes == SomeInstance \in Instance /\ SomeUser \in User
BY TrafficConstants DEF SomeInstance, SomeUser

LEMMA Workers ==
    /\ Collector \subseteq Worker /\ Reporter \subseteq Worker
    /\ Resetter \subseteq Worker
    /\ \A p \in Worker : p \in Collector \/ p \in Reporter \/ p \in Resetter
    /\ Free \notin Worker /\ Lost \notin Worker /\ Free # Lost
BY LeaseConstants DEF Worker

LEMMA TypeInit == Init => TypeOK
BY TrafficConstants, LeaseConstants, SomeTypes
   DEF Init, TypeOK, Steps, Zero, Worker

(* The parts of TypeOK that one or two actions write.                      *)
TypeUsage ==
    /\ used \in [Instance -> Nat] /\ userUsed \in [User -> Nat]
    /\ mark \in [Instance -> Nat]

TypeBase ==
    /\ hasBase \in [Instance -> BOOLEAN]
    /\ baseRaw \in [Instance -> Nat] /\ baseAt \in [Instance -> Nat]
    /\ baseTot \in [Instance -> Nat]

TypeWork ==
    /\ pc \in [Worker -> Steps]
    /\ inst \in [Worker -> Instance] /\ user \in [Worker -> User]
    /\ todo \in [Worker -> SUBSET Instance]

TypeSample ==
    /\ sRaw \in [Worker -> Nat] /\ sAt \in [Worker -> Nat]
    /\ sTot \in [Worker -> Nat] /\ sOn \in [Worker -> BOOLEAN]

TypeReads ==
    /\ readOwner \in [Worker -> User]
    /\ readUsed \in [Worker -> Nat] /\ readUser \in [Worker -> Nat]

TypeOthers ==
    /\ tot \in [Instance -> Nat] /\ raw \in [Instance -> Nat]
    /\ on \in [Instance -> BOOLEAN] /\ fresh \in [Instance -> BOOLEAN]
    /\ status \in [Instance -> {"running", "stopped", "deleted"}]
    /\ owner \in [Instance -> User]
    /\ lease \in [Instance -> Worker \cup {Free, Lost}]
    /\ userLease \in [User -> Worker \cup {Free, Lost}]
    /\ now \in Nat

LEMMA TypeParts ==
    TypeOK <=> /\ TypeUsage /\ TypeBase /\ TypeWork
               /\ TypeSample /\ TypeReads /\ TypeOthers
BY DEF TypeOK, TypeUsage, TypeBase, TypeWork, TypeSample, TypeReads, TypeOthers

LEMMA TypePartsNext ==
    (TypeUsage /\ TypeBase /\ TypeWork /\ TypeSample /\ TypeReads /\ TypeOthers)'
        => TypeOK'
BY DEF TypeOK, TypeUsage, TypeBase, TypeWork, TypeSample, TypeReads, TypeOthers

LEMMA LeaveTypes ==
    ASSUME TypeOK, NEW p \in Worker, Leave(p)
    PROVE  TypeWork' /\ TypeSample' /\ TypeReads'
BY SomeTypes DEF TypeOK, Steps, Leave, Goto, TypeWork, TypeSample, TypeReads

LEMMA AdvanceTypes ==
    ASSUME TypeOK, NEW p \in Worker, Advance(p)
    PROVE  TypeBase'
<1>1. CASE Accepted(p)
    <2>1. /\ hasBase' = [hasBase EXCEPT ![inst[p]] = TRUE]
          /\ baseRaw' = [baseRaw EXCEPT ![inst[p]] = sRaw[p]]
          /\ baseAt' = [baseAt EXCEPT ![inst[p]] = sAt[p]]
          /\ baseTot' = [baseTot EXCEPT ![inst[p]] = sTot[p]]
        BY <1>1 DEF Advance
    <2> QED BY <2>1 DEF TypeOK, TypeBase
<1>2. CASE ~Accepted(p)
    BY <1>2 DEF TypeOK, TypeBase, Advance, base
<1> QED BY <1>1, <1>2

LEMMA IncrementType ==
    ASSUME TypeOK, NEW p \in Worker
    PROVE  Increment(p) \in Nat
BY DEF TypeOK, Increment

LEMMA MeterUsageTypes ==
    ASSUME TypeOK, NEW p \in Worker, Meter(p)
    PROVE  TypeUsage' /\ TypeBase'
<1>1. CASE status[inst[p]] = "running" /\ Accepted(p)
    <2>1. /\ used' = [used EXCEPT ![inst[p]] = @ + Increment(p)]
          /\ userUsed' = [userUsed EXCEPT ![user[p]] = @ + Increment(p)]
          /\ mark' = mark
          /\ Advance(p)
        BY <1>1 DEF Meter
    <2>2. used[inst[p]] + Increment(p) \in Nat
          /\ userUsed[user[p]] + Increment(p) \in Nat
        BY IncrementType DEF TypeOK
    <2>3. used' \in [Instance -> Nat] /\ userUsed' \in [User -> Nat]
          /\ mark' \in [Instance -> Nat]
        BY <2>1, <2>2 DEF TypeOK
    <2> QED BY <2>1, <2>3, AdvanceTypes DEF TypeUsage
<1>2. CASE ~(status[inst[p]] = "running" /\ Accepted(p))
    BY <1>2 DEF Meter, TypeOK, TypeUsage, TypeBase, usage, base
<1> QED BY <1>1, <1>2

LEMMA ResetUsageTypes ==
    ASSUME TypeOK, NEW p \in Worker, Reset(p)
    PROVE  TypeUsage' /\ TypeBase'
<1>1. CASE status[inst[p]] # "deleted"
    <2>1. Rest(p) \in Nat
        BY DEF TypeOK, Rest
    <2>2. /\ used' = [used EXCEPT ![inst[p]] = 0]
          /\ userUsed' = [userUsed EXCEPT ![readOwner[p]] = Rest(p)]
          /\ mark' = [mark EXCEPT ![inst[p]] = sTot[p]]
          /\ Advance(p)
        BY <1>1 DEF Reset
    <2>3. used' \in [Instance -> Nat] /\ userUsed' \in [User -> Nat]
          /\ mark' \in [Instance -> Nat]
        BY <2>1, <2>2 DEF TypeOK
    <2> QED BY <2>2, <2>3, AdvanceTypes DEF TypeUsage
<1>2. CASE status[inst[p]] = "deleted"
    BY <1>2, AdvanceTypes DEF Reset, TypeOK, TypeUsage, usage
<1> QED BY <1>1, <1>2

LEMMA TypeStep ==
    ASSUME TypeOK, [Next]_vars
    PROVE  TypeOK'
<1> USE TrafficConstants, LeaseConstants, SomeTypes, Workers DEF TypeOK,
        machine, row, usage, base, leases, sample, reads, work, Goto, Steps
<1>1. ASSUME NEW i \in Instance, Carry(i) PROVE TypeOK'
    BY <1>1 DEF Carry
<1>2. ASSUME NEW i \in Instance, Restart(i) PROVE TypeOK'
    BY <1>2 DEF Restart
<1>3. ASSUME NEW i \in Instance, Power(i) PROVE TypeOK'
    BY <1>3 DEF Power
<1>4. ASSUME NEW i \in Instance, SyncRow(i) PROVE TypeOK'
    BY <1>4 DEF SyncRow, RowOf
<1>5. ASSUME NEW i \in Instance, Replace(i) PROVE TypeOK'
    BY <1>5 DEF Replace
<1>6. ASSUME NEW i \in Instance, Forget(i) PROVE TypeOK'
    BY <1>6 DEF Forget
<1>7. ASSUME NEW i \in Instance, Delete(i) PROVE TypeOK'
    BY <1>7 DEF Delete
<1>8. ASSUME NEW i \in Instance, Transfer(i) \/ Expire(i) PROVE TypeOK'
    <2>1. ASSUME Transfer(i) PROVE TypeOK'
        BY <2>1 DEF Transfer
    <2>2. ASSUME Expire(i) PROVE TypeOK'
        BY <2>2 DEF Expire
    <2> QED BY <1>8, <2>1, <2>2
<1>9. ASSUME NEW u \in User, ExpireUser(u) PROVE TypeOK'
    BY <1>9 DEF ExpireUser
<1>10. ASSUME NEW i \in Instance, NEW p \in Collector, BeginCollect(p, i)
      PROVE  TypeOK'
    BY <1>10 DEF BeginCollect
<1>11. ASSUME NEW i \in Instance, NEW p \in Reporter, Post(p, i)
      PROVE  TypeOK'
    BY <1>11 DEF Post
<1>12. ASSUME NEW p \in Collector \cup Reporter, Meter(p) PROVE TypeOK'
    <2>1. TypeUsage' /\ TypeBase'
        BY <1>12, MeterUsageTypes
    <2>2. TypeOthers'
        BY <1>12 DEF Meter, Released, TypeOthers
    <2>3. CASE p \in Collector /\ Leave(p)
        BY <2>1, <2>2, <2>3, LeaveTypes, TypePartsNext
    <2>4. CASE p \in Reporter /\ Goto(p, "sent") /\ UNCHANGED <<inst, user, todo, sample, reads>>
        BY <2>1, <2>2, <2>4, TypePartsNext DEF TypeWork, TypeSample, TypeReads
    <2> QED BY <1>12, <2>3, <2>4 DEF Meter
<1>13. ASSUME NEW p \in Reporter, Receive(p) PROVE TypeOK'
    <2>1. CASE UNCHANGED <<now, sAt>>
        BY <1>13, <2>1 DEF Receive, RowOf
    <2>2. CASE "undated" \in Ops /\ now < MaxTime /\ now' = now + 1
               /\ sAt' = [sAt EXCEPT ![p] = now + 1]
        BY <1>13, <2>2 DEF Receive, RowOf
    <2> QED BY <1>13, <2>1, <2>2 DEF Receive
<1>14. ASSUME NEW p \in Reporter, Drop(p) PROVE TypeOK'
    BY <1>14 DEF Drop, Leave
<1>15. ASSUME NEW p \in Collector \cup Resetter, Observe(p) PROVE TypeOK'
    BY <1>15 DEF Observe
<1>16. ASSUME NEW p \in Collector \cup Resetter, Answer(p) PROVE TypeOK'
    BY <1>16 DEF Answer
<1>17. ASSUME NEW p \in Resetter, BeginReset(p) PROVE TypeOK'
    BY <1>17 DEF BeginReset, Live
<1>18. ASSUME NEW p \in Resetter, NextReset(p) PROVE TypeOK'
    <2>1. TypeUsage' /\ TypeBase' /\ TypeOthers'
        BY <1>18 DEF NextReset, TypeUsage, TypeBase, TypeOthers
    <2>2. CASE Leave(p)
        BY <2>1, <2>2, LeaveTypes, TypePartsNext
    <2>3. ASSUME NEW i \in todo[p],
                 inst' = [inst EXCEPT ![p] = i],
                 todo' = [todo EXCEPT ![p] = @ \ {i}],
                 Goto(p, "want"), UNCHANGED <<user, sample, reads>>
          PROVE  TypeOK'
        <3>1. inst' \in [Worker -> Instance]
            BY <2>3
        <3>5. todo' \in [Worker -> SUBSET Instance]
            BY <2>3
        <3>2. pc' \in [Worker -> Steps]
            BY <2>3
        <3>3. TypeWork'
            BY <2>3, <3>1, <3>2, <3>5 DEF TypeWork
        <3>4. TypeSample' /\ TypeReads'
            BY <2>3 DEF TypeSample, TypeReads
        <3> QED BY <2>1, <3>3, <3>4, TypePartsNext
    <2> QED BY <1>18, <2>2, <2>3, Zenon DEF NextReset
<1>19. ASSUME NEW p \in Resetter, Outlast(p) PROVE TypeOK'
    BY <1>19 DEF Outlast
<1>20. ASSUME NEW p \in Resetter, ReadUsage(p) PROVE TypeOK'
    BY <1>20 DEF ReadUsage
<1>21. ASSUME NEW p \in Resetter, Reset(p) PROVE TypeOK'
    <2>1. TypeUsage' /\ TypeBase'
        BY <1>21, ResetUsageTypes
    <2>2. TypeOthers'
        BY <1>21 DEF Reset, Released, TypeOthers
    <2>3. TypeWork' /\ TypeSample' /\ TypeReads'
        BY <1>21 DEF Reset, TypeWork, TypeSample, TypeReads
    <2> QED BY <2>1, <2>2, <2>3, TypePartsNext
<1>22. ASSUME NEW p \in Worker, Acquire(p) PROVE TypeOK'
    <2>1. TypeUsage' /\ TypeBase' /\ TypeOthers' /\ TypeReads'
        BY <1>22 DEF Acquire, TypeUsage, TypeBase, TypeOthers, TypeReads
    <2>2. /\ inst' = inst /\ todo' = todo /\ sOn' = sOn
          /\ user' = user \/ user' = [user EXCEPT ![p] = owner[inst[p]]]
          /\ Goto(p, "ask") \/ Goto(p, "sampled")
        BY <1>22, Zenon DEF Acquire
    <2>3. \/ UNCHANGED <<sRaw, sAt, sTot>>
          \/ /\ sRaw' = [sRaw EXCEPT ![p] = IF hasBase[inst[p]]
                                            THEN baseRaw[inst[p]] ELSE 0]
             /\ sTot' = [sTot EXCEPT ![p] = tot[inst[p]]]
             /\ sAt' = [sAt EXCEPT ![p] = now + 1]
        BY <1>22, Zenon DEF Acquire
    <2>4. user' \in [Worker -> User]
        BY <2>2
    <2>5. pc' \in [Worker -> Steps]
        BY <2>2
    <2>6. TypeWork'
        BY <2>2, <2>4, <2>5 DEF TypeWork
    <2>7. TypeSample'
        <3>1. CASE UNCHANGED <<sRaw, sAt, sTot>>
            BY <2>2, <3>1 DEF TypeSample
        <3>2. ASSUME sRaw' = [sRaw EXCEPT ![p] = IF hasBase[inst[p]]
                                                THEN baseRaw[inst[p]] ELSE 0],
                     sTot' = [sTot EXCEPT ![p] = tot[inst[p]]],
                     sAt' = [sAt EXCEPT ![p] = now + 1]
              PROVE  TypeSample'
            <4>1. sRaw' \in [Worker -> Nat]
                BY <3>2
            <4>2. sTot' \in [Worker -> Nat] /\ sAt' \in [Worker -> Nat]
                BY <3>2
            <4> QED BY <2>2, <4>1, <4>2 DEF TypeSample
        <3> QED BY <2>3, <3>1, <3>2, Zenon
    <2> QED BY <2>1, <2>6, <2>7, TypePartsNext
<1>23. ASSUME NEW p \in Worker, Fail(p) PROVE TypeOK'
    <2>1. TypeUsage' /\ TypeBase'
        BY <1>23 DEF Fail, TypeUsage, TypeBase
    <2>2. TypeOthers'
        BY <1>23 DEF Fail, Released, TypeOthers
    <2> QED BY <1>23, <2>1, <2>2, LeaveTypes, TypePartsNext DEF Fail
<1>24. ASSUME NEW p \in Worker, Crash(p) PROVE TypeOK'
    <2>1. TypeUsage' /\ TypeBase'
        BY <1>24 DEF Crash, TypeUsage, TypeBase
    <2>2. TypeOthers'
        BY <1>24 DEF Crash, TypeOthers
    <2> QED BY <1>24, <2>1, <2>2, LeaveTypes, TypePartsNext DEF Crash
<1>25. CASE UNCHANGED vars
    BY <1>25 DEF vars
<1> QED BY <1>1, <1>2, <1>3, <1>4, <1>5, <1>6, <1>7, <1>8, <1>9, <1>10,
       <1>11, <1>12, <1>13, <1>14, <1>15, <1>16, <1>17, <1>18, <1>19, <1>20,
       <1>21, <1>22, <1>23, <1>24, <1>25
        DEF Next

(* The variables keep their types in every behaviour.                      *)
THEOREM TypeCorrect == Spec => []TypeOK
BY TypeInit, TypeStep, PTL DEF Spec

----------------------------------------------------------------------------
(* The rest of the work goes on as it was.                                 *)
Stays(q) ==
    /\ inst'[q] = inst[q] /\ user'[q] = user[q]
    /\ sRaw'[q] = sRaw[q] /\ sAt'[q] = sAt[q]
    /\ sTot'[q] = sTot[q] /\ sOn'[q] = sOn[q]
    /\ readOwner'[q] = readOwner[q] /\ readUsed'[q] = readUsed[q]
    /\ readUser'[q] = readUser[q]

Same(q) == pc'[q] = pc[q] /\ Stays(q)

OthersSame(p) == \A q \in Worker : q # p => Same(q)

(* What the larger actions do to work and leases.                          *)
LeaveDone(p) == OthersSame(p) /\ pc'[p] = "idle" /\ sAt'[p] = 0 /\ sOn'[p]

MeterDone(p) ==
    /\ pc[p] = "sampled" /\ userLease[user[p]] = Free
    /\ OthersSame(p) /\ UNCHANGED <<machine, row, userLease, now>>
    /\ \A i \in Instance : lease[i] # p => lease'[i] = lease[i]
    /\ \/ p \in Collector /\ LeaveDone(p)
       \/ p \in Reporter /\ pc'[p] = "sent" /\ Stays(p)

NextResetDone(p) ==
    /\ UNCHANGED <<machine, row, usage, base, leases, now>>
    /\ OthersSame(p) /\ pc'[p] \in {"idle", "want"}
    /\ sAt'[p] \in {sAt[p], 0} /\ (sOn[p] => sOn'[p])

EndDone(p) ==
    /\ LeaveDone(p) /\ UNCHANGED <<machine, row, usage, base, now>>
    /\ \A i \in Instance : lease[i] # p => lease'[i] = lease[i]
    /\ \A u \in User : userLease[u] # p => userLease'[u] = userLease[u]

AcquireDone(p) ==
    /\ UNCHANGED <<machine, row, usage, base, userLease>>
    /\ OthersSame(p) /\ pc[p] = "want" /\ lease[inst[p]] = Free
    /\ lease'[inst[p]] = p
    /\ \A i \in Instance : i # inst[p] => lease'[i] = lease[i]
    /\ inst'[p] = inst[p] /\ sOn'[p] = sOn[p]
    /\ \/ /\ p \in Collector \cup Resetter /\ pc'[p] = "ask"
          /\ sAt'[p] = sAt[p] /\ now' = now
          /\ user'[p] = IF p \in Resetter THEN owner[inst[p]] ELSE user[p]
       \/ p \in Reporter /\ pc'[p] = "sampled" /\ Stays(p) /\ now' = now
       \/ /\ p \in Resetter /\ pc'[p] = "sampled"
          /\ status[inst[p]] = "stopped" /\ user'[p] = owner[inst[p]]

LEMMA LeaveEffect ==
    ASSUME TypeOK, NEW p \in Worker, Leave(p) PROVE LeaveDone(p)
BY DEF LeaveDone, TypeOK, Leave, Goto, OthersSame, Same, Stays

LEMMA MeterEffect ==
    ASSUME TypeOK, NEW p \in Collector \cup Reporter, Meter(p) PROVE MeterDone(p)
<1>1. \A i \in Instance : lease[i] # p => lease'[i] = lease[i]
    BY Workers DEF TypeOK, Meter, Released
<1>2. /\ pc[p] = "sampled" /\ userLease[user[p]] = Free
      /\ UNCHANGED <<machine, row, userLease, now>>
    BY DEF Meter
<1>3. CASE p \in Collector /\ Leave(p)
    <2>1. LeaveDone(p)
        BY <1>3, LeaveEffect, Workers
    <2> QED BY <1>1, <1>2, <1>3, <2>1 DEF MeterDone, LeaveDone
<1>4. CASE p \in Reporter /\ Goto(p, "sent")
           /\ UNCHANGED <<inst, user, todo, sample, reads>>
    <2>1. OthersSame(p) /\ pc'[p] = "sent" /\ Stays(p)
        BY <1>4, Workers
           DEF TypeOK, Goto, OthersSame, Same, Stays, sample, reads
    <2> QED BY <1>1, <1>2, <1>4, <2>1 DEF MeterDone
<1> QED BY <1>3, <1>4 DEF Meter

LEMMA NextResetEffect ==
    ASSUME TypeOK, NEW p \in Resetter, NextReset(p) PROVE NextResetDone(p)
<1>1. UNCHANGED <<machine, row, usage, base, leases, now>>
    BY DEF NextReset
<1>2. CASE Leave(p)
    <2>1. LeaveDone(p)
        BY <1>2, LeaveEffect, Workers
    <2> QED BY <1>1, <2>1 DEF NextResetDone, LeaveDone
<1>3. ASSUME NEW i \in todo[p],
             inst' = [inst EXCEPT ![p] = i],
             Goto(p, "want"), UNCHANGED <<user, sample, reads>>
      PROVE  NextResetDone(p)
    <2>1. OthersSame(p) /\ pc'[p] = "want" /\ sAt' = sAt /\ sOn' = sOn
        BY <1>3, Workers
           DEF TypeOK, Goto, OthersSame, Same, Stays, sample, reads
    <2> QED BY <1>1, <2>1 DEF NextResetDone
<1> QED BY <1>2, <1>3 DEF NextReset

LEMMA EndEffect ==
    ASSUME TypeOK, NEW p \in Worker, Fail(p) \/ Crash(p) PROVE EndDone(p)
<1>1. \A i \in Instance : lease[i] # p => lease'[i] = lease[i]
    BY DEF TypeOK, Fail, Crash, Released
<1>2. \A u \in User : userLease[u] # p => userLease'[u] = userLease[u]
    BY DEF TypeOK, Fail, Crash
<1>3. Leave(p) /\ UNCHANGED <<machine, row, usage, base, now>>
    BY DEF Fail, Crash
<1> QED BY <1>1, <1>2, <1>3, LeaveEffect DEF EndDone

LEMMA AcquireEffect ==
    ASSUME TypeOK, NEW p \in Worker, Acquire(p) PROVE AcquireDone(p)
<1>1. /\ UNCHANGED <<machine, row, usage, base, userLease>>
      /\ pc[p] = "want" /\ lease[inst[p]] = Free
      /\ lease'[inst[p]] = p
      /\ \A i \in Instance : i # inst[p] => lease'[i] = lease[i]
      /\ UNCHANGED <<inst, reads, sOn>>
    BY DEF TypeOK, Acquire
<1>2. ASSUME p \in Collector, Goto(p, "ask"),
             UNCHANGED <<now, user, sRaw, sAt, sTot>>
      PROVE  AcquireDone(p)
    <2>1. OthersSame(p) /\ pc'[p] = "ask"
        BY <1>1, <1>2, Workers DEF TypeOK, Goto, OthersSame, Same, Stays, reads
    <2> QED BY <1>1, <1>2, <2>1, TrafficConstants DEF AcquireDone
<1>3. ASSUME p \in Reporter, Goto(p, "sampled"),
             UNCHANGED <<now, user, sRaw, sAt, sTot>>
      PROVE  AcquireDone(p)
    <2>1. OthersSame(p) /\ pc'[p] = "sampled" /\ Stays(p)
        BY <1>1, <1>3, Workers DEF TypeOK, Goto, OthersSame, Same, Stays, reads
    <2> QED BY <1>1, <1>3, <2>1 DEF AcquireDone
<1>4. ASSUME p \in Resetter, Goto(p, "ask"),
             user' = [user EXCEPT ![p] = owner[inst[p]]],
             UNCHANGED <<now, sRaw, sAt, sTot>>
      PROVE  AcquireDone(p)
    <2>1. OthersSame(p) /\ pc'[p] = "ask" /\ user'[p] = owner[inst[p]]
        BY <1>1, <1>4, Workers DEF TypeOK, Goto, OthersSame, Same, Stays, reads
    <2> QED BY <1>1, <1>4, <2>1 DEF AcquireDone
<1>5. ASSUME NEW r, NEW t, NEW a,
             p \in Resetter, status[inst[p]] = "stopped", Goto(p, "sampled"),
             user' = [user EXCEPT ![p] = owner[inst[p]]],
             sRaw' = [sRaw EXCEPT ![p] = r],
             sTot' = [sTot EXCEPT ![p] = t],
             sAt' = [sAt EXCEPT ![p] = a]
      PROVE  AcquireDone(p)
    <2>1. OthersSame(p) /\ pc'[p] = "sampled" /\ user'[p] = owner[inst[p]]
        BY <1>1, <1>5, Workers DEF TypeOK, Goto, OthersSame, Same, Stays, reads
    <2> QED BY <1>1, <1>5, <2>1 DEF AcquireDone
<1> QED BY <1>2, <1>3, <1>4, <1>5 DEF Acquire

(* What charging and resetting do to an instance.                          *)
BaseKept(j) ==
    /\ hasBase'[j] <=> hasBase[j]
    /\ baseRaw'[j] = baseRaw[j] /\ baseAt'[j] = baseAt[j]
    /\ baseTot'[j] = baseTot[j]

BaseTaken(p) ==
    /\ hasBase'[inst[p]]
    /\ baseRaw'[inst[p]] = sRaw[p] /\ baseAt'[inst[p]] = sAt[p]
    /\ baseTot'[inst[p]] = sTot[p]

ChargeDone(p) ==
    /\ mark' = mark
    /\ \A j \in Instance : j # inst[p] => BaseKept(j) /\ used'[j] = used[j]
    /\ \/ /\ status[inst[p]] = "running" /\ Accepted(p) /\ BaseTaken(p)
          /\ used'[inst[p]] = used[inst[p]] + Increment(p)
       \/ BaseKept(inst[p]) /\ used'[inst[p]] = used[inst[p]]

ResetDone(p) ==
    /\ pc[p] = "write" /\ pc'[p] = "next" /\ Stays(p) /\ OthersSame(p)
    /\ UNCHANGED <<machine, row, now>>
    /\ \A i \in Instance : lease[i] # p => lease'[i] = lease[i]
    /\ \A j \in Instance :
           j # inst[p] => /\ BaseKept(j)
                          /\ used'[j] = used[j] /\ mark'[j] = mark[j]
    /\ \/ Accepted(p) /\ BaseTaken(p)
       \/ ~Accepted(p) /\ BaseKept(inst[p])
    /\ \/ /\ status[inst[p]] # "deleted"
          /\ used'[inst[p]] = 0 /\ mark'[inst[p]] = sTot[p]
       \/ /\ status[inst[p]] = "deleted"
          /\ used'[inst[p]] = used[inst[p]] /\ mark'[inst[p]] = mark[inst[p]]

AdvanceDone(p) ==
    /\ \A j \in Instance : j # inst[p] => BaseKept(j)
    /\ \/ Accepted(p) /\ BaseTaken(p)
       \/ ~Accepted(p) /\ BaseKept(inst[p])

LEMMA AdvanceEffect ==
    ASSUME TypeOK, NEW p \in Worker, Advance(p) PROVE AdvanceDone(p)
<1>1. CASE Accepted(p)
    <2>1. /\ hasBase' = [hasBase EXCEPT ![inst[p]] = TRUE]
          /\ baseRaw' = [baseRaw EXCEPT ![inst[p]] = sRaw[p]]
          /\ baseAt' = [baseAt EXCEPT ![inst[p]] = sAt[p]]
          /\ baseTot' = [baseTot EXCEPT ![inst[p]] = sTot[p]]
        BY <1>1 DEF Advance
    <2> QED BY <1>1, <2>1 DEF AdvanceDone, TypeOK, BaseKept, BaseTaken
<1>2. CASE ~Accepted(p)
    BY <1>2 DEF AdvanceDone, TypeOK, Advance, base, BaseKept
<1> QED BY <1>1, <1>2

LEMMA ChargeEffect ==
    ASSUME TypeOK, NEW p \in Collector \cup Reporter, Meter(p)
    PROVE  ChargeDone(p)
<1>1. CASE status[inst[p]] = "running" /\ Accepted(p)
    <2>1. /\ used' = [used EXCEPT ![inst[p]] = @ + Increment(p)]
          /\ mark' = mark
          /\ Advance(p)
        BY <1>1 DEF Meter
    <2>2. AdvanceDone(p)
        BY <2>1, AdvanceEffect, Workers
    <2> QED BY <1>1, <2>1, <2>2, Workers
          DEF AdvanceDone, TypeOK, ChargeDone
<1>2. CASE ~(status[inst[p]] = "running" /\ Accepted(p))
    <2>1. UNCHANGED <<usage, base>>
        BY <1>2 DEF Meter
    <2> QED BY <2>1, Workers DEF TypeOK, ChargeDone, BaseKept, usage, base
<1> QED BY <1>1, <1>2

LEMMA ResetEffect ==
    ASSUME TypeOK, NEW p \in Resetter, Reset(p) PROVE ResetDone(p)
<1>1. /\ pc[p] = "write" /\ pc'[p] = "next" /\ Stays(p) /\ OthersSame(p)
      /\ UNCHANGED <<machine, row, now>>
    BY Workers
       DEF TypeOK, Reset, Goto, OthersSame, Same, Stays, sample, reads
<1>2. \A i \in Instance : lease[i] # p => lease'[i] = lease[i]
    BY Workers DEF TypeOK, Reset, Released
<1>3. AdvanceDone(p)
    BY AdvanceEffect, Workers DEF Reset
<1>4. CASE status[inst[p]] # "deleted"
    <2>1. /\ used' = [used EXCEPT ![inst[p]] = 0]
          /\ mark' = [mark EXCEPT ![inst[p]] = sTot[p]]
        BY <1>4 DEF Reset
    <2> QED BY <1>1, <1>2, <1>3, <1>4, <2>1, Workers
          DEF AdvanceDone, TypeOK, ResetDone
<1>5. CASE status[inst[p]] = "deleted"
    <2>1. UNCHANGED usage
        BY <1>5 DEF Reset
    <2> QED BY <1>1, <1>2, <1>3, <1>5, <2>1 DEF AdvanceDone, usage, ResetDone
<1> QED BY <1>4, <1>5

(* The steps that leave machines, rows, usages and baselines alone.        *)
Quiet == UNCHANGED <<machine, row, usage, base>> /\ now' \in Nat /\ now <= now'

LEMMA NextCases ==
    ASSUME TypeOK, [Next]_vars
    PROVE  \/ \E i \in Instance :
                  \/ Carry(i) \/ Restart(i) \/ Power(i) \/ SyncRow(i)
                  \/ Replace(i) \/ Forget(i) \/ Delete(i) \/ Transfer(i)
           \/ \E p \in Collector \cup Reporter : Meter(p)
           \/ \E p \in Reporter : Receive(p)
           \/ \E p \in Resetter : Reset(p)
           \/ Quiet
<1> USE DEF Quiet
<1>0. now \in Nat
    BY DEF TypeOK
<1>1. ASSUME NEW i \in Instance,
             \/ Expire(i)
             \/ \E p \in Collector : BeginCollect(p, i)
             \/ \E p \in Reporter : Post(p, i)
      PROVE  Quiet
    BY <1>0, <1>1 DEF Expire, BeginCollect, Post
<1>2. ASSUME NEW p \in Worker,
             Drop(p) \/ Observe(p) \/ Answer(p) \/ BeginReset(p) \/ NextReset(p)
      PROVE  Quiet
    BY <1>0, <1>2 DEF Drop, Observe, Answer, BeginReset, NextReset
<1>3. ASSUME NEW p \in Worker,
             Outlast(p) \/ ReadUsage(p) \/ Acquire(p) \/ Fail(p) \/ Crash(p)
      PROVE  Quiet
    BY <1>0, <1>3 DEF Outlast, ReadUsage, Acquire, Fail, Crash
<1>4. ASSUME NEW u \in User, ExpireUser(u) PROVE Quiet
    BY <1>0, <1>4 DEF ExpireUser
<1>5. CASE UNCHANGED vars
    BY <1>0, <1>5 DEF vars
<1> QED BY <1>1, <1>2, <1>3, <1>4, <1>5, Workers DEF Next

LEMMA TrueRowStep ==
    ASSUME NEW j \in Instance, Orderly, TypeOK, Instances, Workings,
           [Next]_vars
    PROVE  TrueRow(j)'
<1> USE TrafficConstants, LeaseConstants, SomeTypes, Workers DEF TypeOK,
        Orderly, machine, row, usage, base, leases, sample, reads, work,
        Goto, TrueRow, TrueReport, Instances, Workings
<1>1. ASSUME NEW i \in Instance, Carry(i) PROVE TrueRow(j)'
    BY <1>1 DEF Carry
<1>2. ASSUME NEW i \in Instance, Restart(i) PROVE TrueRow(j)'
    BY <1>2 DEF Restart
<1>3. ASSUME NEW i \in Instance, Power(i) \/ SyncRow(i) \/ Replace(i)
      PROVE  TrueRow(j)'
    BY <1>3 DEF Power, SyncRow, RowOf, Replace
<1>4. ASSUME NEW i \in Instance, Forget(i) PROVE TrueRow(j)'
    BY <1>4 DEF Forget
<1>5. ASSUME NEW i \in Instance, Delete(i) PROVE TrueRow(j)'
    BY <1>5 DEF Delete
<1>6. ASSUME NEW i \in Instance, Transfer(i) PROVE TrueRow(j)'
    BY <1>6 DEF Transfer
<1>7. ASSUME NEW p \in Collector \cup Reporter, Meter(p)
      PROVE  TrueRow(j)'
    <2>1. MeterDone(p)
        BY <1>7, MeterEffect
    <2> QED BY <2>1 DEF MeterDone, LeaveDone
<1>8. ASSUME NEW p \in Reporter, Receive(p) PROVE TrueRow(j)'
    BY <1>8 DEF Receive, RowOf
<1>9. ASSUME NEW p \in Resetter, Reset(p) PROVE TrueRow(j)'
    BY <1>9 DEF Reset, Accepted, Advance, Rest, Released
<1>10. CASE Quiet
    BY <1>10 DEF Quiet
<1> QED BY <1>1, <1>2, <1>3, <1>4, <1>5, <1>6, <1>7, <1>8, <1>9, <1>10, NextCases

LEMMA CounterStep ==
    ASSUME NEW j \in Instance, TypeOK, Instances, [Next]_vars
    PROVE  Counter(j)'
<1> USE TrafficConstants, LeaseConstants, SomeTypes, Workers DEF TypeOK,
        machine, row, usage, base, leases, sample, reads, work, Goto,
        Instances, Counter
<1>1. ASSUME NEW i \in Instance, Carry(i) PROVE Counter(j)'
    BY <1>1 DEF Carry
<1>2. ASSUME NEW i \in Instance, Restart(i) PROVE Counter(j)'
    BY <1>2 DEF Restart
<1>3. ASSUME NEW i \in Instance, Power(i) \/ SyncRow(i) \/ Replace(i)
      PROVE  Counter(j)'
    BY <1>3 DEF Power, SyncRow, RowOf, Replace
<1>4. ASSUME NEW i \in Instance, Forget(i) PROVE Counter(j)'
    BY <1>4 DEF Forget
<1>5. ASSUME NEW i \in Instance, Delete(i) PROVE Counter(j)'
    BY <1>5 DEF Delete
<1>6. ASSUME NEW i \in Instance, Transfer(i) PROVE Counter(j)'
    BY <1>6 DEF Transfer
<1>7. ASSUME NEW p \in Collector \cup Reporter, Meter(p)
      PROVE  Counter(j)'
    <2>1. MeterDone(p)
        BY <1>7, MeterEffect
    <2> QED BY <2>1 DEF MeterDone, LeaveDone
<1>8. ASSUME NEW p \in Reporter, Receive(p) PROVE Counter(j)'
    BY <1>8 DEF Receive, RowOf
<1>9. ASSUME NEW p \in Resetter, Reset(p) PROVE Counter(j)'
    BY <1>9 DEF Reset, Accepted, Advance, Rest, Released
<1>10. CASE Quiet
    BY <1>10 DEF Quiet
<1> QED BY <1>1, <1>2, <1>3, <1>4, <1>5, <1>6, <1>7, <1>8, <1>9, <1>10, NextCases

LEMMA TrueReportStep ==
    ASSUME NEW q \in Worker, Orderly, TypeOK, Instances, Workings,
           [Next]_vars
    PROVE  TrueReport(q)'
<1> USE TrafficConstants, LeaseConstants, SomeTypes, Workers DEF TypeOK,
        Orderly, machine, row, usage, base, leases, sample, reads, work,
        Goto, Instances, TrueRow, TrueReport, Workings
<1>1. ASSUME NEW i \in Instance, Carry(i) PROVE TrueReport(q)'
    BY <1>1 DEF Carry
<1>2. ASSUME NEW i \in Instance, Restart(i) PROVE TrueReport(q)'
    BY <1>2 DEF Restart
<1>3. ASSUME NEW i \in Instance, Power(i) \/ SyncRow(i) \/ Replace(i)
      PROVE  TrueReport(q)'
    BY <1>3 DEF Power, SyncRow, RowOf, Replace
<1>4. ASSUME NEW i \in Instance, Forget(i) PROVE TrueReport(q)'
    BY <1>4 DEF Forget
<1>5. ASSUME NEW i \in Instance, Delete(i) PROVE TrueReport(q)'
    BY <1>5 DEF Delete
<1>6. ASSUME NEW i \in Instance, Transfer(i) \/ Expire(i)
      PROVE  TrueReport(q)'
    BY <1>6 DEF Transfer, Expire
<1>7. ASSUME NEW u \in User, ExpireUser(u) PROVE TrueReport(q)'
    BY <1>7 DEF ExpireUser
<1>8. ASSUME NEW i \in Instance, NEW p \in Collector, BeginCollect(p, i)
      PROVE  TrueReport(q)'
    BY <1>8 DEF BeginCollect
<1>9. ASSUME NEW i \in Instance, NEW p \in Reporter, Post(p, i)
      PROVE  TrueReport(q)'
    BY <1>9 DEF Post
<1>10. ASSUME NEW p \in Collector \cup Reporter, Meter(p)
      PROVE  TrueReport(q)'
    <2>1. MeterDone(p) /\ (q # p => Same(q))
        BY <1>10, MeterEffect DEF MeterDone, LeaveDone, OthersSame
    <2> QED BY <2>1 DEF MeterDone, LeaveDone, Same, Stays
<1>11. ASSUME NEW p \in Reporter, Receive(p) PROVE TrueReport(q)'
    BY <1>11 DEF Receive, RowOf
<1>12. ASSUME NEW p \in Reporter, Drop(p) PROVE TrueReport(q)'
    <2>1. LeaveDone(p) /\ (q # p => Same(q))
        BY <1>12, LeaveEffect DEF Drop, LeaveDone, OthersSame
    <2>2. UNCHANGED <<machine, row, usage, base, leases, now>>
        BY <1>12 DEF Drop
    <2> QED BY <2>1, <2>2 DEF LeaveDone, Same, Stays
<1>13. ASSUME NEW p \in Collector \cup Resetter, Observe(p)
      PROVE  TrueReport(q)'
    BY <1>13 DEF Observe
<1>14. ASSUME NEW p \in Collector \cup Resetter, Answer(p)
      PROVE  TrueReport(q)'
    BY <1>14 DEF Answer
<1>15. ASSUME NEW p \in Resetter, BeginReset(p) \/ Outlast(p)
      PROVE  TrueReport(q)'
    BY <1>15 DEF BeginReset, Live, Outlast
<1>16. ASSUME NEW p \in Resetter, NextReset(p) PROVE TrueReport(q)'
    <2>1. NextResetDone(p) /\ (q # p => Same(q))
        BY <1>16, NextResetEffect DEF NextResetDone, LeaveDone, OthersSame
    <2> QED BY <2>1 DEF NextResetDone, LeaveDone, Same, Stays
<1>17. ASSUME NEW p \in Resetter, ReadUsage(p) PROVE TrueReport(q)'
    BY <1>17 DEF ReadUsage
<1>18. ASSUME NEW p \in Resetter, Reset(p) PROVE TrueReport(q)'
    BY <1>18 DEF Reset, Accepted, Advance, Rest, Released
<1>19. ASSUME NEW p \in Worker, Acquire(p) PROVE TrueReport(q)'
    <2>1. AcquireDone(p) /\ (q # p => Same(q))
        BY <1>19, AcquireEffect DEF AcquireDone, LeaveDone, OthersSame
    <2> QED BY <2>1 DEF AcquireDone, LeaveDone, Same, Stays
<1>20. ASSUME NEW p \in Worker, Fail(p) \/ Crash(p) PROVE TrueReport(q)'
    <2>1. EndDone(p) /\ (q # p => Same(q))
        BY <1>20, EndEffect DEF EndDone, LeaveDone, OthersSame
    <2> QED BY <2>1 DEF EndDone, LeaveDone, Same, Stays
<1>21. CASE UNCHANGED vars
    BY <1>21 DEF vars
<1> QED BY <1>1, <1>2, <1>3, <1>4, <1>5, <1>6, <1>7, <1>8, <1>9, <1>10,
       <1>11, <1>12, <1>13, <1>14, <1>15, <1>16, <1>17, <1>18, <1>19, <1>20,
       <1>21
        DEF Next

LEMMA OwnStepsStep ==
    ASSUME NEW q \in Worker, TypeOK, OwnSteps(q), [Next]_vars
    PROVE  OwnSteps(q)'
<1> USE TrafficConstants, LeaseConstants, SomeTypes, Workers DEF TypeOK,
        machine, row, usage, base, leases, sample, reads, work, Goto,
        OwnSteps
<1>1. ASSUME NEW i \in Instance, 
             \/ Carry(i) \/ Restart(i) \/ Power(i) \/ SyncRow(i) \/ Replace(i)
             \/ Forget(i) \/ Delete(i) \/ Transfer(i) \/ Expire(i)
      PROVE  OwnSteps(q)'
    BY <1>1 DEF Carry, Restart, Power, SyncRow, Replace, Forget, Delete,
       Transfer, Expire
<1>2. ASSUME NEW u \in User, ExpireUser(u) PROVE OwnSteps(q)'
    BY <1>2 DEF ExpireUser
<1>3. ASSUME NEW i \in Instance, NEW p \in Collector, BeginCollect(p, i)
      PROVE  OwnSteps(q)'
    BY <1>3 DEF BeginCollect
<1>4. ASSUME NEW i \in Instance, NEW p \in Reporter, Post(p, i)
      PROVE  OwnSteps(q)'
    BY <1>4 DEF Post
<1>5. ASSUME NEW p \in Collector \cup Reporter, Meter(p)
      PROVE  OwnSteps(q)'
    <2>1. MeterDone(p) /\ (q # p => Same(q))
        BY <1>5, MeterEffect DEF MeterDone, LeaveDone, OthersSame
    <2> QED BY <2>1 DEF MeterDone, LeaveDone, Same, Stays
<1>6. ASSUME NEW p \in Reporter, Receive(p) PROVE OwnSteps(q)'
    BY <1>6 DEF Receive, RowOf
<1>7. ASSUME NEW p \in Reporter, Drop(p) PROVE OwnSteps(q)'
    <2>1. LeaveDone(p) /\ (q # p => Same(q))
        BY <1>7, LeaveEffect DEF Drop, LeaveDone, OthersSame
    <2>2. UNCHANGED <<machine, row, usage, base, leases, now>>
        BY <1>7 DEF Drop
    <2> QED BY <2>1, <2>2 DEF LeaveDone, Same, Stays
<1>8. ASSUME NEW p \in Collector \cup Resetter, Observe(p)
      PROVE  OwnSteps(q)'
    BY <1>8 DEF Observe
<1>9. ASSUME NEW p \in Collector \cup Resetter, Answer(p)
      PROVE  OwnSteps(q)'
    BY <1>9 DEF Answer
<1>10. ASSUME NEW p \in Resetter, BeginReset(p) \/ Outlast(p)
      PROVE  OwnSteps(q)'
    BY <1>10 DEF BeginReset, Live, Outlast
<1>11. ASSUME NEW p \in Resetter, NextReset(p) PROVE OwnSteps(q)'
    <2>1. NextResetDone(p) /\ (q # p => Same(q))
        BY <1>11, NextResetEffect DEF NextResetDone, LeaveDone, OthersSame
    <2> QED BY <2>1 DEF NextResetDone, LeaveDone, Same, Stays
<1>12. ASSUME NEW p \in Resetter, ReadUsage(p) PROVE OwnSteps(q)'
    BY <1>12 DEF ReadUsage
<1>13. ASSUME NEW p \in Resetter, Reset(p) PROVE OwnSteps(q)'
    BY <1>13 DEF Reset, Accepted, Advance, Rest, Released
<1>14. ASSUME NEW p \in Worker, Acquire(p) PROVE OwnSteps(q)'
    <2>1. AcquireDone(p) /\ (q # p => Same(q))
        BY <1>14, AcquireEffect DEF AcquireDone, LeaveDone, OthersSame
    <2> QED BY <2>1 DEF AcquireDone, LeaveDone, Same, Stays
<1>15. ASSUME NEW p \in Worker, Fail(p) \/ Crash(p) PROVE OwnSteps(q)'
    <2>1. EndDone(p) /\ (q # p => Same(q))
        BY <1>15, EndEffect DEF EndDone, LeaveDone, OthersSame
    <2> QED BY <2>1 DEF EndDone, LeaveDone, Same, Stays
<1>16. CASE UNCHANGED vars
    BY <1>16 DEF vars
<1> QED BY <1>1, <1>2, <1>3, <1>4, <1>5, <1>6, <1>7, <1>8, <1>9, <1>10,
       <1>11, <1>12, <1>13, <1>14, <1>15, <1>16
        DEF Next

LEMMA LeasedStep ==
    ASSUME NEW q \in Worker, Orderly, TypeOK, Workings, [Next]_vars
    PROVE  Leased(q)'
<1> USE TrafficConstants, LeaseConstants, SomeTypes, Workers DEF TypeOK,
        Orderly, machine, row, usage, base, leases, sample, reads, work,
        Goto, OwnSteps, Leased, Workings
<1>1. ASSUME NEW i \in Instance, 
             \/ Carry(i) \/ Restart(i) \/ Power(i) \/ SyncRow(i) \/ Replace(i)
             \/ Forget(i) \/ Delete(i) \/ Transfer(i) \/ Expire(i)
      PROVE  Leased(q)'
    BY <1>1 DEF Carry, Restart, Power, SyncRow, Replace, Forget, Delete,
       Transfer, Expire
<1>2. ASSUME NEW u \in User, ExpireUser(u) PROVE Leased(q)'
    BY <1>2 DEF ExpireUser
<1>3. ASSUME NEW i \in Instance, NEW p \in Collector, BeginCollect(p, i)
      PROVE  Leased(q)'
    BY <1>3 DEF BeginCollect
<1>4. ASSUME NEW i \in Instance, NEW p \in Reporter, Post(p, i)
      PROVE  Leased(q)'
    BY <1>4 DEF Post
<1>5. ASSUME NEW p \in Collector \cup Reporter, Meter(p) PROVE Leased(q)'
    <2>1. MeterDone(p) /\ (q # p => Same(q))
        BY <1>5, MeterEffect DEF MeterDone, LeaveDone, OthersSame
    <2> QED BY <2>1 DEF MeterDone, LeaveDone, Same, Stays
<1>6. ASSUME NEW p \in Reporter, Receive(p) PROVE Leased(q)'
    BY <1>6 DEF Receive, RowOf
<1>7. ASSUME NEW p \in Reporter, Drop(p) PROVE Leased(q)'
    <2>1. LeaveDone(p) /\ (q # p => Same(q))
        BY <1>7, LeaveEffect DEF Drop, LeaveDone, OthersSame
    <2>2. UNCHANGED <<machine, row, usage, base, leases, now>>
        BY <1>7 DEF Drop
    <2> QED BY <2>1, <2>2 DEF LeaveDone, Same, Stays
<1>8. ASSUME NEW p \in Collector \cup Resetter, Observe(p)
      PROVE  Leased(q)'
    BY <1>8 DEF Observe
<1>9. ASSUME NEW p \in Collector \cup Resetter, Answer(p)
      PROVE  Leased(q)'
    BY <1>9 DEF Answer
<1>10. ASSUME NEW p \in Resetter, BeginReset(p) \/ Outlast(p)
      PROVE  Leased(q)'
    BY <1>10 DEF BeginReset, Live, Outlast
<1>11. ASSUME NEW p \in Resetter, NextReset(p) PROVE Leased(q)'
    <2>1. NextResetDone(p) /\ (q # p => Same(q))
        BY <1>11, NextResetEffect DEF NextResetDone, LeaveDone, OthersSame
    <2> QED BY <2>1 DEF NextResetDone, LeaveDone, Same, Stays
<1>12. ASSUME NEW p \in Resetter, ReadUsage(p) PROVE Leased(q)'
    BY <1>12 DEF ReadUsage
<1>13. ASSUME NEW p \in Resetter, Reset(p) PROVE Leased(q)'
    BY <1>13 DEF Reset, Accepted, Advance, Rest, Released
<1>14. ASSUME NEW p \in Worker, Acquire(p) PROVE Leased(q)'
    <2>1. AcquireDone(p) /\ (q # p => Same(q))
        BY <1>14, AcquireEffect DEF AcquireDone, LeaveDone, OthersSame
    <2> QED BY <2>1 DEF AcquireDone, LeaveDone, Same, Stays
<1>15. ASSUME NEW p \in Worker, Fail(p) \/ Crash(p) PROVE Leased(q)'
    <2>1. EndDone(p) /\ (q # p => Same(q))
        BY <1>15, EndEffect DEF EndDone, LeaveDone, OthersSame
    <2> QED BY <2>1 DEF EndDone, LeaveDone, Same, Stays
<1>16. CASE UNCHANGED vars
    BY <1>16 DEF vars
<1> QED BY <1>1, <1>2, <1>3, <1>4, <1>5, <1>6, <1>7, <1>8, <1>9, <1>10,
       <1>11, <1>12, <1>13, <1>14, <1>15, <1>16
        DEF Next

LEMMA BaselineStep ==
    ASSUME NEW j \in Instance, Orderly, TypeOK, Instances, Workings,
           Baselines, Samples, [Next]_vars
    PROVE  Baseline(j)'
<1> USE TrafficConstants, LeaseConstants, SomeTypes, Workers DEF TypeOK,
        Orderly, machine, row, usage, base, leases, sample, reads, work,
        Goto, Ahead, Sampled, Dated, Instances, TrueRow, Counter, OwnSteps,
        Leased, Workings, Baselines, Baseline, Unbased, Samples, PastSample,
        AheadOfBase, LateIfHeld
<1>1. ASSUME NEW i \in Instance, Carry(i) PROVE Baseline(j)'
    BY <1>1 DEF Carry
<1>2. ASSUME NEW i \in Instance, Restart(i) PROVE Baseline(j)'
    BY <1>2 DEF Restart
<1>3. ASSUME NEW i \in Instance, Power(i) \/ SyncRow(i) \/ Replace(i)
      PROVE  Baseline(j)'
    BY <1>3 DEF Power, SyncRow, RowOf, Replace
<1>4. ASSUME NEW i \in Instance, Forget(i) PROVE Baseline(j)'
    BY <1>4 DEF Forget
<1>5. ASSUME NEW i \in Instance, Delete(i) PROVE Baseline(j)'
    BY <1>5 DEF Delete
<1>6. ASSUME NEW i \in Instance, Transfer(i) PROVE Baseline(j)'
    BY <1>6 DEF Transfer
<1>7. ASSUME NEW p \in Collector \cup Reporter, Meter(p)
      PROVE  Baseline(j)'
    <2>1. MeterDone(p) /\ ChargeDone(p)
        BY <1>7, MeterEffect, ChargeEffect
    <2>2. CASE \/ j # inst[p]
               \/ BaseKept(inst[p]) /\ used'[inst[p]] = used[inst[p]]
        BY <2>1, <2>2 DEF MeterDone, ChargeDone, BaseKept
    <2>3. CASE /\ j = inst[p]
               /\ status[inst[p]] = "running" /\ Accepted(p) /\ BaseTaken(p)
               /\ used'[inst[p]] = used[inst[p]] + Increment(p)
        <3>1. Sampled(p) /\ PastSample(p)
            BY <2>1 DEF MeterDone
        <3>2. used[j] + Increment(p) + mark[j] <= sTot[p]
            <4>1. CASE hasBase[j]
                <5>1. Ahead(baseRaw[j], baseTot[j], sRaw[p], sTot[p])
                    BY <2>3, <3>1, <4>1 DEF Accepted
                <5>2. used[j] + mark[j] <= baseTot[j]
                    BY <2>3, <4>1
                <5> QED BY <2>3, <4>1, <5>1, <5>2 DEF Increment
            <4>2. CASE ~hasBase[j]
                <5>1. used[j] = 0 /\ mark[j] = 0
                    BY <2>3, <4>2
                <5>2. Increment(p) = 0
                    BY <2>3, <4>2 DEF Increment
                <5> QED BY <5>1, <5>2
            <4> QED BY <4>1, <4>2
        <3>3. UNCHANGED <<machine, row, now, mark>>
            BY <2>1 DEF MeterDone, ChargeDone
        <3>4. used[j] \in Nat /\ Increment(p) \in Nat /\ mark[j] \in Nat
            BY IncrementType
        <3> QED BY <2>3, <3>1, <3>2, <3>3, <3>4 DEF BaseTaken
    <2>4. \/ /\ status[inst[p]] = "running" /\ Accepted(p) /\ BaseTaken(p)
             /\ used'[inst[p]] = used[inst[p]] + Increment(p)
          \/ BaseKept(inst[p]) /\ used'[inst[p]] = used[inst[p]]
        BY <2>1, Zenon DEF ChargeDone
    <2> QED BY <2>2, <2>3, <2>4
<1>8. ASSUME NEW p \in Reporter, Receive(p) PROVE Baseline(j)'
    BY <1>8 DEF Receive, RowOf
<1>9. ASSUME NEW p \in Resetter, Reset(p) PROVE Baseline(j)'
    <2>1. ResetDone(p)
        BY <1>9, ResetEffect
    <2>2. CASE j # inst[p]
        BY <2>1, <2>2 DEF ResetDone, BaseKept
    <2>3. CASE j = inst[p]
        <3>1. Sampled(p) /\ Dated(p) /\ p \notin Reporter
            BY <2>1 DEF ResetDone
        <3>2. Accepted(p)
            BY <3>1 DEF Accepted
        <3>3. BaseTaken(p)
            BY <2>1, <3>2 DEF ResetDone
        <3>4. PastSample(p)
            OBVIOUS
        <3> QED BY <2>1, <2>3, <3>1, <3>3, <3>4 DEF ResetDone, BaseTaken
    <2> QED BY <2>2, <2>3
<1>10. CASE Quiet
    BY <1>10 DEF Quiet
<1> QED BY <1>1, <1>2, <1>3, <1>4, <1>5, <1>6, <1>7, <1>8, <1>9, <1>10, NextCases

LEMMA UnbasedStep ==
    ASSUME NEW j \in Instance, Orderly, TypeOK, Instances, Baselines,
           [Next]_vars
    PROVE  Unbased(j)'
<1> USE TrafficConstants, LeaseConstants, SomeTypes, Workers DEF TypeOK,
        Orderly, machine, row, usage, base, leases, sample, reads, work,
        Goto, Instances, TrueRow, Baselines, Unbased, Sampled, Dated
<1>1. ASSUME NEW i \in Instance, Carry(i) PROVE Unbased(j)'
    BY <1>1 DEF Carry
<1>2. ASSUME NEW i \in Instance, Restart(i) PROVE Unbased(j)'
    BY <1>2 DEF Restart
<1>3. ASSUME NEW i \in Instance, Power(i) \/ SyncRow(i) \/ Replace(i)
      PROVE  Unbased(j)'
    BY <1>3 DEF Power, SyncRow, RowOf, Replace
<1>4. ASSUME NEW i \in Instance, Forget(i) PROVE Unbased(j)'
    BY <1>4 DEF Forget
<1>5. ASSUME NEW i \in Instance, Delete(i) PROVE Unbased(j)'
    BY <1>5 DEF Delete
<1>6. ASSUME NEW i \in Instance, Transfer(i) PROVE Unbased(j)'
    BY <1>6 DEF Transfer
<1>7. ASSUME NEW p \in Collector \cup Reporter, Meter(p)
      PROVE  Unbased(j)'
    <2>1. MeterDone(p) /\ ChargeDone(p)
        BY <1>7, MeterEffect, ChargeEffect
    <2> QED BY <2>1
            DEF MeterDone, LeaveDone, ChargeDone, BaseKept, BaseTaken,
                Accepted, Increment
<1>8. ASSUME NEW p \in Reporter, Receive(p) PROVE Unbased(j)'
    BY <1>8 DEF Receive, RowOf
<1>9. ASSUME NEW p \in Resetter, Reset(p) PROVE Unbased(j)'
    <2>1. ResetDone(p)
        BY <1>9, ResetEffect
    <2> QED BY <2>1 DEF ResetDone, BaseKept, BaseTaken, Accepted
<1>10. CASE Quiet
    BY <1>10 DEF Quiet
<1> QED BY <1>1, <1>2, <1>3, <1>4, <1>5, <1>6, <1>7, <1>8, <1>9, <1>10, NextCases

LEMMA PastSampleStep ==
    ASSUME NEW q \in Worker, Orderly, TypeOK, Instances, Workings, Samples,
           [Next]_vars
    PROVE  PastSample(q)'
<1> USE TrafficConstants, LeaseConstants, SomeTypes, Workers DEF TypeOK,
        Orderly, machine, row, usage, base, leases, sample, reads, work,
        Goto, Ahead, Sampled, Instances, TrueRow, Counter, OwnSteps,
        Workings, Samples, PastSample
<1>1. ASSUME NEW i \in Instance, Carry(i) PROVE PastSample(q)'
    BY <1>1 DEF Carry
<1>2. ASSUME NEW i \in Instance, Restart(i) PROVE PastSample(q)'
    BY <1>2 DEF Restart
<1>3. ASSUME NEW i \in Instance, Power(i) \/ SyncRow(i) \/ Replace(i)
      PROVE  PastSample(q)'
    BY <1>3 DEF Power, SyncRow, RowOf, Replace
<1>4. ASSUME NEW i \in Instance, Forget(i) PROVE PastSample(q)'
    BY <1>4 DEF Forget
<1>5. ASSUME NEW i \in Instance, Delete(i) PROVE PastSample(q)'
    BY <1>5 DEF Delete
<1>6. ASSUME NEW i \in Instance, Transfer(i) \/ Expire(i)
      PROVE  PastSample(q)'
    BY <1>6 DEF Transfer, Expire
<1>7. ASSUME NEW u \in User, ExpireUser(u) PROVE PastSample(q)'
    BY <1>7 DEF ExpireUser
<1>8. ASSUME NEW i \in Instance, NEW p \in Collector, BeginCollect(p, i)
      PROVE  PastSample(q)'
    BY <1>8 DEF BeginCollect
<1>9. ASSUME NEW i \in Instance, NEW p \in Reporter, Post(p, i)
      PROVE  PastSample(q)'
    BY <1>9 DEF Post
<1>10. ASSUME NEW p \in Collector \cup Reporter, Meter(p)
      PROVE  PastSample(q)'
    <2>1. MeterDone(p) /\ (q # p => Same(q))
        BY <1>10, MeterEffect DEF MeterDone, LeaveDone, OthersSame
    <2> QED BY <2>1 DEF MeterDone, LeaveDone, Same, Stays
<1>11. ASSUME NEW p \in Reporter, Receive(p) PROVE PastSample(q)'
    BY <1>11 DEF Receive, RowOf
<1>12. ASSUME NEW p \in Reporter, Drop(p) PROVE PastSample(q)'
    <2>1. LeaveDone(p) /\ (q # p => Same(q))
        BY <1>12, LeaveEffect DEF Drop, LeaveDone, OthersSame
    <2>2. UNCHANGED <<machine, row, usage, base, leases, now>>
        BY <1>12 DEF Drop
    <2> QED BY <2>1, <2>2 DEF LeaveDone, Same, Stays
<1>13. ASSUME NEW p \in Collector \cup Resetter, Observe(p)
      PROVE  PastSample(q)'
    BY <1>13 DEF Observe
<1>14. ASSUME NEW p \in Collector \cup Resetter, Answer(p)
      PROVE  PastSample(q)'
    BY <1>14 DEF Answer
<1>15. ASSUME NEW p \in Resetter, BeginReset(p) \/ Outlast(p)
      PROVE  PastSample(q)'
    BY <1>15 DEF BeginReset, Live, Outlast
<1>16. ASSUME NEW p \in Resetter, NextReset(p) PROVE PastSample(q)'
    <2>1. NextResetDone(p) /\ (q # p => Same(q))
        BY <1>16, NextResetEffect DEF NextResetDone, LeaveDone, OthersSame
    <2> QED BY <2>1 DEF NextResetDone, LeaveDone, Same, Stays
<1>17. ASSUME NEW p \in Resetter, ReadUsage(p) PROVE PastSample(q)'
    BY <1>17 DEF ReadUsage
<1>18. ASSUME NEW p \in Resetter, Reset(p) PROVE PastSample(q)'
    BY <1>18 DEF Reset, Accepted, Advance, Rest, Released
<1>19. ASSUME NEW p \in Worker, Acquire(p) PROVE PastSample(q)'
    <2>1. AcquireDone(p) /\ (q # p => Same(q))
        BY <1>19, AcquireEffect DEF AcquireDone, OthersSame
    <2>2. status[inst[p]] # "stopped"
        OBVIOUS
    <2>3. UNCHANGED <<machine, row, usage, base, now>>
        BY <2>1, <2>2 DEF AcquireDone
    <2> QED BY <2>1, <2>2, <2>3 DEF AcquireDone, Same, Stays
<1>20. ASSUME NEW p \in Worker, Fail(p) \/ Crash(p) PROVE PastSample(q)'
    <2>1. EndDone(p) /\ (q # p => Same(q))
        BY <1>20, EndEffect DEF EndDone, LeaveDone, OthersSame
    <2> QED BY <2>1 DEF EndDone, LeaveDone, Same, Stays
<1>21. CASE UNCHANGED vars
    BY <1>21 DEF vars
<1> QED BY <1>1, <1>2, <1>3, <1>4, <1>5, <1>6, <1>7, <1>8, <1>9, <1>10,
       <1>11, <1>12, <1>13, <1>14, <1>15, <1>16, <1>17, <1>18, <1>19, <1>20,
       <1>21
        DEF Next

LEMMA AheadOfBaseStep ==
    ASSUME NEW q \in Worker, Orderly, TypeOK, Instances, Workings, Baselines,
           Samples, Times, [Next]_vars
    PROVE  AheadOfBase(q)'
<1> USE TrafficConstants, LeaseConstants, SomeTypes, Workers DEF TypeOK,
        Orderly, machine, row, usage, base, leases, sample, reads, work,
        Goto, Ahead, Sampled, Dated, Instances, TrueRow, OwnSteps, Leased,
        Workings, Baselines, Baseline, Samples, PastSample, AheadOfBase,
        Times, Ordered
<1>1. ASSUME NEW i \in Instance, Carry(i) PROVE AheadOfBase(q)'
    BY <1>1 DEF Carry
<1>2. ASSUME NEW i \in Instance, Restart(i) PROVE AheadOfBase(q)'
    BY <1>2 DEF Restart
<1>3. ASSUME NEW i \in Instance, Power(i) \/ SyncRow(i) \/ Replace(i)
      PROVE  AheadOfBase(q)'
    BY <1>3 DEF Power, SyncRow, RowOf, Replace
<1>4. ASSUME NEW i \in Instance, Forget(i) PROVE AheadOfBase(q)'
    BY <1>4 DEF Forget
<1>5. ASSUME NEW i \in Instance, Delete(i) PROVE AheadOfBase(q)'
    BY <1>5 DEF Delete
<1>6. ASSUME NEW i \in Instance, Transfer(i) \/ Expire(i)
      PROVE  AheadOfBase(q)'
    BY <1>6 DEF Transfer, Expire
<1>7. ASSUME NEW u \in User, ExpireUser(u) PROVE AheadOfBase(q)'
    BY <1>7 DEF ExpireUser
<1>8. ASSUME NEW i \in Instance, NEW p \in Collector, BeginCollect(p, i)
      PROVE  AheadOfBase(q)'
    BY <1>8 DEF BeginCollect
<1>9. ASSUME NEW i \in Instance, NEW p \in Reporter, Post(p, i)
      PROVE  AheadOfBase(q)'
    BY <1>9 DEF Post
<1>10. ASSUME NEW p \in Collector \cup Reporter, Meter(p)
      PROVE  AheadOfBase(q)'
    <2>1. MeterDone(p) /\ ChargeDone(p)
        BY <1>10, MeterEffect, ChargeEffect
    <2>2. CASE q # p
        <3>1. Same(q)
            BY <2>1, <2>2 DEF MeterDone, LeaveDone, OthersSame
        <3>2. CASE BaseKept(inst[q])
            BY <3>1, <3>2 DEF BaseKept, Same, Stays
        <3>3. CASE inst[q] = inst[p] /\ BaseTaken(p)
            <4>1. lease[inst[p]] = p /\ Dated(p)
                BY <2>1 DEF MeterDone
            <4>2. Ordered(q, p)
                OBVIOUS
            <4> QED BY <2>2, <3>1, <3>3, <4>1, <4>2 DEF BaseTaken, Same, Stays
        <3> QED BY <2>1, <3>2, <3>3 DEF ChargeDone
    <2>3. CASE q = p
        BY <2>1, <2>3
           DEF MeterDone, LeaveDone, ChargeDone, BaseKept, BaseTaken, Stays
    <2> QED BY <2>2, <2>3
<1>11. ASSUME NEW p \in Reporter, Receive(p) PROVE AheadOfBase(q)'
    BY <1>11 DEF Receive, RowOf
<1>12. ASSUME NEW p \in Reporter, Drop(p) PROVE AheadOfBase(q)'
    <2>1. LeaveDone(p) /\ (q # p => Same(q))
        BY <1>12, LeaveEffect DEF Drop, LeaveDone, OthersSame
    <2>2. UNCHANGED <<machine, row, usage, base, leases, now>>
        BY <1>12 DEF Drop
    <2> QED BY <2>1, <2>2 DEF LeaveDone, Same, Stays
<1>13. ASSUME NEW p \in Collector \cup Resetter, Observe(p)
      PROVE  AheadOfBase(q)'
    BY <1>13 DEF Observe
<1>14. ASSUME NEW p \in Collector \cup Resetter, Answer(p)
      PROVE  AheadOfBase(q)'
    BY <1>14 DEF Answer
<1>15. ASSUME NEW p \in Resetter, BeginReset(p) \/ Outlast(p)
      PROVE  AheadOfBase(q)'
    BY <1>15 DEF BeginReset, Live, Outlast
<1>16. ASSUME NEW p \in Resetter, NextReset(p) PROVE AheadOfBase(q)'
    <2>1. NextResetDone(p) /\ (q # p => Same(q))
        BY <1>16, NextResetEffect DEF NextResetDone, LeaveDone, OthersSame
    <2> QED BY <2>1 DEF NextResetDone, LeaveDone, Same, Stays
<1>17. ASSUME NEW p \in Resetter, ReadUsage(p) PROVE AheadOfBase(q)'
    BY <1>17 DEF ReadUsage
<1>18. ASSUME NEW p \in Resetter, Reset(p) PROVE AheadOfBase(q)'
    <2>1. ResetDone(p)
        BY <1>18, ResetEffect
    <2>2. CASE q # p
        <3>1. Same(q)
            BY <2>1, <2>2 DEF ResetDone, OthersSame
        <3> QED BY <2>1, <2>2, <3>1
                DEF ResetDone, BaseKept, BaseTaken, Same, Stays
    <2>3. CASE q = p
        BY <2>1, <2>3 DEF ResetDone, Stays
    <2> QED BY <2>2, <2>3
<1>19. ASSUME NEW p \in Worker, Acquire(p) PROVE AheadOfBase(q)'
    <2>1. AcquireDone(p) /\ (q # p => Same(q))
        BY <1>19, AcquireEffect DEF AcquireDone, OthersSame
    <2>2. status[inst[p]] # "stopped"
        OBVIOUS
    <2>3. UNCHANGED <<machine, row, usage, base, now>>
        BY <2>1, <2>2 DEF AcquireDone
    <2> QED BY <2>1, <2>2, <2>3 DEF AcquireDone, Same, Stays
<1>20. ASSUME NEW p \in Worker, Fail(p) \/ Crash(p) PROVE AheadOfBase(q)'
    <2>1. EndDone(p) /\ (q # p => Same(q))
        BY <1>20, EndEffect DEF EndDone, LeaveDone, OthersSame
    <2> QED BY <2>1 DEF EndDone, LeaveDone, Same, Stays
<1>21. CASE UNCHANGED vars
    BY <1>21 DEF vars
<1> QED BY <1>1, <1>2, <1>3, <1>4, <1>5, <1>6, <1>7, <1>8, <1>9, <1>10,
       <1>11, <1>12, <1>13, <1>14, <1>15, <1>16, <1>17, <1>18, <1>19, <1>20,
       <1>21
        DEF Next

LEMMA LateIfHeldStep ==
    ASSUME NEW q \in Worker, Orderly, TypeOK, Instances, Workings, Baselines,
           Samples, [Next]_vars
    PROVE  LateIfHeld(q)'
<1> USE TrafficConstants, LeaseConstants, SomeTypes, Workers DEF TypeOK,
        Orderly, machine, row, usage, base, leases, sample, reads, work,
        Goto, Sampled, Dated, Instances, TrueRow, OwnSteps, Leased, Workings,
        Baselines, Baseline, Samples, LateIfHeld
<1>1. ASSUME NEW i \in Instance, Carry(i) PROVE LateIfHeld(q)'
    BY <1>1 DEF Carry
<1>2. ASSUME NEW i \in Instance, Restart(i) PROVE LateIfHeld(q)'
    BY <1>2 DEF Restart
<1>3. ASSUME NEW i \in Instance, Power(i) \/ SyncRow(i) \/ Replace(i)
      PROVE  LateIfHeld(q)'
    BY <1>3 DEF Power, SyncRow, RowOf, Replace
<1>4. ASSUME NEW i \in Instance, Forget(i) PROVE LateIfHeld(q)'
    BY <1>4 DEF Forget
<1>5. ASSUME NEW i \in Instance, Delete(i) PROVE LateIfHeld(q)'
    BY <1>5 DEF Delete
<1>6. ASSUME NEW i \in Instance, Transfer(i) \/ Expire(i)
      PROVE  LateIfHeld(q)'
    BY <1>6 DEF Transfer, Expire
<1>7. ASSUME NEW u \in User, ExpireUser(u) PROVE LateIfHeld(q)'
    BY <1>7 DEF ExpireUser
<1>8. ASSUME NEW i \in Instance, NEW p \in Collector, BeginCollect(p, i)
      PROVE  LateIfHeld(q)'
    BY <1>8 DEF BeginCollect
<1>9. ASSUME NEW i \in Instance, NEW p \in Reporter, Post(p, i)
      PROVE  LateIfHeld(q)'
    BY <1>9 DEF Post
<1>10. ASSUME NEW p \in Collector \cup Reporter, Meter(p)
      PROVE  LateIfHeld(q)'
    <2>1. MeterDone(p) /\ ChargeDone(p)
        BY <1>10, MeterEffect, ChargeEffect
    <2>2. CASE q # p
        <3>1. Same(q)
            BY <2>1, <2>2 DEF MeterDone, LeaveDone, OthersSame
        <3> QED BY <2>1, <2>2, <3>1
                DEF MeterDone, ChargeDone, BaseKept, BaseTaken, Same, Stays
    <2>3. CASE q = p
        BY <2>1, <2>3
           DEF MeterDone, LeaveDone, ChargeDone, BaseKept, BaseTaken, Stays
    <2> QED BY <2>2, <2>3
<1>11. ASSUME NEW p \in Reporter, Receive(p) PROVE LateIfHeld(q)'
    BY <1>11 DEF Receive, RowOf
<1>12. ASSUME NEW p \in Reporter, Drop(p) PROVE LateIfHeld(q)'
    <2>1. LeaveDone(p) /\ (q # p => Same(q))
        BY <1>12, LeaveEffect DEF Drop, LeaveDone, OthersSame
    <2>2. UNCHANGED <<machine, row, usage, base, leases, now>>
        BY <1>12 DEF Drop
    <2> QED BY <2>1, <2>2 DEF LeaveDone, Same, Stays
<1>13. ASSUME NEW p \in Collector \cup Resetter, Observe(p)
      PROVE  LateIfHeld(q)'
    BY <1>13 DEF Observe
<1>14. ASSUME NEW p \in Collector \cup Resetter, Answer(p)
      PROVE  LateIfHeld(q)'
    BY <1>14 DEF Answer
<1>15. ASSUME NEW p \in Resetter, BeginReset(p) \/ Outlast(p)
      PROVE  LateIfHeld(q)'
    BY <1>15 DEF BeginReset, Live, Outlast
<1>16. ASSUME NEW p \in Resetter, NextReset(p) PROVE LateIfHeld(q)'
    <2>1. NextResetDone(p) /\ (q # p => Same(q))
        BY <1>16, NextResetEffect DEF NextResetDone, LeaveDone, OthersSame
    <2> QED BY <2>1 DEF NextResetDone, LeaveDone, Same, Stays
<1>17. ASSUME NEW p \in Resetter, ReadUsage(p) PROVE LateIfHeld(q)'
    BY <1>17 DEF ReadUsage
<1>18. ASSUME NEW p \in Resetter, Reset(p) PROVE LateIfHeld(q)'
    <2>1. ResetDone(p)
        BY <1>18, ResetEffect
    <2>2. CASE q # p
        <3>1. Same(q)
            BY <2>1, <2>2 DEF ResetDone, OthersSame
        <3>2. CASE inst[q] = inst[p]
            BY <2>1, <2>2, <3>1, <3>2 DEF ResetDone, Same, Stays
        <3>3. CASE inst[q] # inst[p]
            BY <2>1, <3>1, <3>3 DEF ResetDone, BaseKept, Same, Stays
        <3> QED BY <3>2, <3>3
    <2>3. CASE q = p
        BY <2>1, <2>3 DEF ResetDone, Stays
    <2> QED BY <2>2, <2>3
<1>19. ASSUME NEW p \in Worker, Acquire(p) PROVE LateIfHeld(q)'
    <2>1. AcquireDone(p) /\ (q # p => Same(q))
        BY <1>19, AcquireEffect DEF AcquireDone, OthersSame
    <2>2. status[inst[p]] # "stopped"
        OBVIOUS
    <2>3. UNCHANGED <<machine, row, usage, base, now>>
        BY <2>1, <2>2 DEF AcquireDone
    <2> QED BY <2>1, <2>2, <2>3 DEF AcquireDone, Same, Stays
<1>20. ASSUME NEW p \in Worker, Fail(p) \/ Crash(p) PROVE LateIfHeld(q)'
    <2>1. EndDone(p) /\ (q # p => Same(q))
        BY <1>20, EndEffect DEF EndDone, LeaveDone, OthersSame
    <2> QED BY <2>1 DEF EndDone, LeaveDone, Same, Stays
<1>21. CASE UNCHANGED vars
    BY <1>21 DEF vars
<1> QED BY <1>1, <1>2, <1>3, <1>4, <1>5, <1>6, <1>7, <1>8, <1>9, <1>10,
       <1>11, <1>12, <1>13, <1>14, <1>15, <1>16, <1>17, <1>18, <1>19, <1>20,
       <1>21
        DEF Next

LEMMA OrderedStep ==
    ASSUME NEW q \in Worker, NEW r \in Worker, Orderly, TypeOK, Instances,
           Workings, Samples, Times, [Next]_vars
    PROVE  Ordered(q, r)'
<1> USE TrafficConstants, LeaseConstants, SomeTypes, Workers DEF TypeOK,
        Orderly, machine, row, usage, base, leases, sample, reads, work,
        Goto, Ahead, Sampled, Dated, Instances, TrueRow, OwnSteps, Workings,
        Samples, PastSample, Times, Ordered
<1>1. ASSUME NEW i \in Instance, Carry(i) PROVE Ordered(q, r)'
    BY <1>1 DEF Carry
<1>2. ASSUME NEW i \in Instance, Restart(i) PROVE Ordered(q, r)'
    BY <1>2 DEF Restart
<1>3. ASSUME NEW i \in Instance, Power(i) \/ SyncRow(i) \/ Replace(i)
      PROVE  Ordered(q, r)'
    BY <1>3 DEF Power, SyncRow, RowOf, Replace
<1>4. ASSUME NEW i \in Instance, Forget(i) PROVE Ordered(q, r)'
    BY <1>4 DEF Forget
<1>5. ASSUME NEW i \in Instance, Delete(i) PROVE Ordered(q, r)'
    BY <1>5 DEF Delete
<1>6. ASSUME NEW i \in Instance, Transfer(i) \/ Expire(i)
      PROVE  Ordered(q, r)'
    BY <1>6 DEF Transfer, Expire
<1>7. ASSUME NEW u \in User, ExpireUser(u) PROVE Ordered(q, r)'
    BY <1>7 DEF ExpireUser
<1>8. ASSUME NEW i \in Instance, NEW p \in Collector, BeginCollect(p, i)
      PROVE  Ordered(q, r)'
    BY <1>8 DEF BeginCollect
<1>9. ASSUME NEW i \in Instance, NEW p \in Reporter, Post(p, i)
      PROVE  Ordered(q, r)'
    BY <1>9 DEF Post
<1>10. ASSUME NEW p \in Collector \cup Reporter, Meter(p)
      PROVE  Ordered(q, r)'
    <2>1. MeterDone(p)
        BY <1>10, MeterEffect
    <2>2. (q # p => Same(q)) /\ (r # p => Same(r))
        BY <2>1 DEF MeterDone, LeaveDone, OthersSame
    <2> QED BY <2>1, <2>2 DEF MeterDone, LeaveDone, Same, Stays
<1>11. ASSUME NEW p \in Reporter, Receive(p) PROVE Ordered(q, r)'
    BY <1>11 DEF Receive, RowOf
<1>12. ASSUME NEW p \in Reporter, Drop(p) PROVE Ordered(q, r)'
    <2>1. LeaveDone(p)
        BY <1>12, LeaveEffect DEF Drop
    <2>2. (q # p => Same(q)) /\ (r # p => Same(r))
        BY <2>1 DEF LeaveDone, OthersSame
    <2> QED BY <2>1, <2>2 DEF LeaveDone, Same, Stays
<1>13. ASSUME NEW p \in Collector \cup Resetter, Observe(p)
      PROVE  Ordered(q, r)'
    BY <1>13 DEF Observe
<1>14. ASSUME NEW p \in Collector \cup Resetter, Answer(p)
      PROVE  Ordered(q, r)'
    BY <1>14 DEF Answer
<1>15. ASSUME NEW p \in Resetter, BeginReset(p) \/ Outlast(p)
      PROVE  Ordered(q, r)'
    BY <1>15 DEF BeginReset, Live, Outlast
<1>16. ASSUME NEW p \in Resetter, NextReset(p) PROVE Ordered(q, r)'
    <2>1. NextResetDone(p)
        BY <1>16, NextResetEffect
    <2>2. (q # p => Same(q)) /\ (r # p => Same(r))
        BY <2>1 DEF NextResetDone, OthersSame
    <2> QED BY <2>1, <2>2 DEF NextResetDone, Same, Stays
<1>17. ASSUME NEW p \in Resetter, ReadUsage(p) PROVE Ordered(q, r)'
    BY <1>17 DEF ReadUsage
<1>18. ASSUME NEW p \in Resetter, Reset(p) PROVE Ordered(q, r)'
    <2>1. ResetDone(p)
        BY <1>18, ResetEffect
    <2>2. (q # p => Same(q)) /\ (r # p => Same(r))
        BY <2>1 DEF ResetDone, OthersSame
    <2> QED BY <2>1, <2>2 DEF ResetDone, Same, Stays
<1>19. ASSUME NEW p \in Worker, Acquire(p) PROVE Ordered(q, r)'
    <2>1. AcquireDone(p)
        BY <1>19, AcquireEffect
    <2>2. (q # p => Same(q)) /\ (r # p => Same(r))
        BY <2>1 DEF AcquireDone, OthersSame
    <2>3. status[inst[p]] # "stopped"
        OBVIOUS
    <2> QED BY <2>1, <2>3, <2>2 DEF AcquireDone, Same, Stays
<1>20. ASSUME NEW p \in Worker, Fail(p) \/ Crash(p) PROVE Ordered(q, r)'
    <2>1. EndDone(p)
        BY <1>20, EndEffect
    <2>2. (q # p => Same(q)) /\ (r # p => Same(r))
        BY <2>1 DEF EndDone, LeaveDone, OthersSame
    <2> QED BY <2>1, <2>2 DEF EndDone, LeaveDone, Same, Stays
<1>21. CASE UNCHANGED vars
    BY <1>21 DEF vars
<1> QED BY <1>1, <1>2, <1>3, <1>4, <1>5, <1>6, <1>7, <1>8, <1>9, <1>10,
       <1>11, <1>12, <1>13, <1>14, <1>15, <1>16, <1>17, <1>18, <1>19, <1>20,
       <1>21
        DEF Next

LEMMA BuriedStep ==
    ASSUME NEW j \in Instance, TypeOK, OldTrafficStaysOut, [Next]_vars
    PROVE  Buried(j)'
<1> USE TrafficConstants, LeaseConstants, SomeTypes, Workers DEF TypeOK,
        machine, row, usage, base, leases, sample, reads, work, Goto, Buried,
        OldTrafficStaysOut
<1>1. ASSUME NEW i \in Instance, Carry(i) PROVE Buried(j)'
    BY <1>1 DEF Carry
<1>2. ASSUME NEW i \in Instance, Restart(i) PROVE Buried(j)'
    BY <1>2 DEF Restart
<1>3. ASSUME NEW i \in Instance, Power(i) \/ SyncRow(i) \/ Replace(i)
      PROVE  Buried(j)'
    BY <1>3 DEF Power, SyncRow, RowOf, Replace
<1>4. ASSUME NEW i \in Instance, Forget(i) PROVE Buried(j)'
    BY <1>4 DEF Forget
<1>5. ASSUME NEW i \in Instance, Delete(i) PROVE Buried(j)'
    BY <1>5 DEF Delete
<1>6. ASSUME NEW i \in Instance, Transfer(i) PROVE Buried(j)'
    BY <1>6 DEF Transfer
<1>7. ASSUME NEW p \in Collector \cup Reporter, Meter(p) PROVE Buried(j)'
    <2>1. MeterDone(p) /\ ChargeDone(p)
        BY <1>7, MeterEffect, ChargeEffect
    <2> QED BY <2>1
            DEF MeterDone, LeaveDone, ChargeDone, BaseKept, BaseTaken,
                Accepted, Increment
<1>8. ASSUME NEW p \in Reporter, Receive(p) PROVE Buried(j)'
    BY <1>8 DEF Receive, RowOf
<1>9. ASSUME NEW p \in Resetter, Reset(p) PROVE Buried(j)'
    <2>1. ResetDone(p)
        BY <1>9, ResetEffect
    <2> QED BY <2>1 DEF ResetDone, BaseKept, BaseTaken, Accepted
<1>10. CASE Quiet
    BY <1>10 DEF Quiet
<1> QED BY <1>1, <1>2, <1>3, <1>4, <1>5, <1>6, <1>7, <1>8, <1>9, <1>10, NextCases

----------------------------------------------------------------------------
(* No traffic is charged twice                                             *)

LEMMA InvInit == Init => IInv
BY TypeInit, TrafficConstants, SomeTypes
   DEF Init, IInv, Instances, TrueRow, Counter, Workings, TrueReport, OwnSteps,
       Leased, Baselines, Baseline, Unbased, Samples, PastSample, AheadOfBase,
       LateIfHeld, Times, Ordered, Sampled, Dated, OldTrafficStaysOut, Zero

LEMMA ChargedNext ==
    ASSUME TypeOK', Baselines', \A i \in Instance : Buried(i)'
    PROVE  OldTrafficStaysOut'
<1> SUFFICES ASSUME NEW i \in Instance PROVE (used[i] + mark[i] <= tot[i])'
    BY DEF OldTrafficStaysOut
<1>1. used'[i] \in Nat /\ mark'[i] \in Nat /\ tot'[i] \in Nat
      /\ baseTot'[i] \in Nat
    BY DEF TypeOK
<1>2. Baseline(i)' /\ Unbased(i)' /\ Buried(i)'
    BY DEF Baselines
<1> QED BY <1>1, <1>2 DEF Baseline, Unbased, Buried, Ahead

LEMMA InvStep == ASSUME Orderly, IInv, [Next]_vars PROVE IInv'
<1>1. TypeOK'
    BY TypeStep DEF IInv
<1>2. Instances'
    BY TrueRowStep, CounterStep DEF IInv, Instances
<1>3. Workings'
    <2>1. \A q \in Worker : OwnSteps(q)'
        BY OwnStepsStep DEF IInv, Workings
    <2>2. \A q \in Worker : TrueReport(q)'
        BY TrueReportStep DEF IInv
    <2>3. \A q \in Worker : Leased(q)'
        BY LeasedStep DEF IInv
    <2> QED BY <2>1, <2>2, <2>3 DEF Workings
<1>4. Baselines'
    BY BaselineStep, UnbasedStep DEF IInv, Baselines
<1>5. Samples'
    BY PastSampleStep, AheadOfBaseStep, LateIfHeldStep DEF IInv, Samples
<1>6. Times'
    BY OrderedStep DEF IInv, Times
<1>7. \A j \in Instance : Buried(j)'
    BY BuriedStep DEF IInv
<1> QED BY <1>1, <1>2, <1>3, <1>4, <1>5, <1>6, <1>7, ChargedNext DEF IInv

(* Whatever the order in which collections, reports and resets take and    *)
(* commit their samples, fail or die, an instance is charged at most what  *)
(* its machine carried since the sample of its last reset.                 *)
THEOREM OldTrafficOut == Orderly => (Spec => []OldTrafficStaysOut)
<1> SUFFICES ASSUME Orderly PROVE Spec => []OldTrafficStaysOut
    OBVIOUS
<1>1. IInv /\ [Next]_vars => IInv'
    BY InvStep
<1>2. IInv => OldTrafficStaysOut
    BY DEF IInv
<1> QED BY InvInit, <1>1, <1>2, PTL DEF Spec

(* The baseline of an instance is not put back.                            *)
Forward(i) == hasBase[i] /\ hasBase'[i] => baseTot[i] <= baseTot'[i]

LEMMA ForwardStep ==
    ASSUME NEW j \in Instance, Orderly, TypeOK, Samples, [Next]_vars
    PROVE  Forward(j)
<1> USE TrafficConstants, LeaseConstants, SomeTypes, Workers DEF TypeOK,
        Orderly, machine, row, usage, base, leases, sample, reads, work,
        Goto, Forward, Ahead, Sampled, Samples, AheadOfBase
<1>1. ASSUME NEW i \in Instance, Carry(i) PROVE Forward(j)
    BY <1>1 DEF Carry
<1>2. ASSUME NEW i \in Instance, Restart(i) PROVE Forward(j)
    BY <1>2 DEF Restart
<1>3. ASSUME NEW i \in Instance, Power(i) \/ SyncRow(i) \/ Replace(i)
      PROVE  Forward(j)
    BY <1>3 DEF Power, SyncRow, RowOf, Replace
<1>4. ASSUME NEW i \in Instance, Forget(i) PROVE Forward(j)
    BY <1>4 DEF Forget
<1>5. ASSUME NEW i \in Instance, Delete(i) PROVE Forward(j)
    BY <1>5 DEF Delete
<1>6. ASSUME NEW i \in Instance, Transfer(i) PROVE Forward(j)
    BY <1>6 DEF Transfer
<1>7. ASSUME NEW p \in Collector \cup Reporter, Meter(p)
      PROVE  Forward(j)
    <2>1. MeterDone(p) /\ ChargeDone(p)
        BY <1>7, MeterEffect, ChargeEffect
    <2>2. CASE BaseKept(j)
        BY <2>2 DEF BaseKept
    <2>3. CASE j = inst[p] /\ Accepted(p) /\ BaseTaken(p)
        <3>1. Sampled(p) /\ AheadOfBase(p)
            BY <2>1 DEF MeterDone
        <3> QED BY <2>3, <3>1 DEF BaseTaken, Accepted
    <2> QED BY <2>1, <2>2, <2>3, Zenon DEF ChargeDone
<1>8. ASSUME NEW p \in Reporter, Receive(p) PROVE Forward(j)
    BY <1>8 DEF Receive, RowOf
<1>9. ASSUME NEW p \in Resetter, Reset(p) PROVE Forward(j)
    <2>1. ResetDone(p)
        BY <1>9, ResetEffect
    <2>2. CASE BaseKept(j)
        BY <2>2 DEF BaseKept
    <2>3. CASE j = inst[p] /\ BaseTaken(p)
        <3>1. Sampled(p) /\ AheadOfBase(p) /\ p \notin Reporter
            BY <2>1 DEF ResetDone
        <3> QED BY <2>3, <3>1 DEF BaseTaken
    <2> QED BY <2>1, <2>2, <2>3, Zenon DEF ResetDone
<1>10. CASE Quiet
    BY <1>10 DEF Quiet
<1> QED BY <1>1, <1>2, <1>3, <1>4, <1>5, <1>6, <1>7, <1>8, <1>9, <1>10, NextCases

(* A baseline only moves forward: no late sample is taken.                 *)
THEOREM BaselinesForward == Orderly => (Spec => BaselineForward)
<1> SUFFICES ASSUME Orderly PROVE Spec => BaselineForward
    OBVIOUS
<1>1. IInv /\ [Next]_vars => IInv'
    BY InvStep
<1>2. IInv /\ [Next]_vars =>
        [\A i \in Instance :
             hasBase[i] /\ hasBase'[i] => baseTot[i] <= baseTot'[i]]_vars
    BY ForwardStep DEF IInv, Forward
<1> QED BY InvInit, <1>1, <1>2, PTL DEF Spec, BaselineForward

----------------------------------------------------------------------------
(* No update of the usage of a user is lost                                *)

(* What charging and resetting do to the usage of users.                   *)
UserCharged(p) ==
    /\ \A u \in User : u # user[p] => userUsed'[u] = userUsed[u]
    /\ \A j \in Instance : j # inst[p] => used'[j] = used[j]

UserReset(p) ==
    /\ \A u \in User : u # readOwner[p] => userUsed'[u] = userUsed[u]
    /\ \A j \in Instance : j # inst[p] => used'[j] = used[j]
    /\ \A u \in User : u # user[p] => userLease'[u] = userLease[u]

LEMMA UserChargeEffect ==
    ASSUME TypeOK, NEW p \in Collector \cup Reporter, Meter(p)
    PROVE  UserCharged(p)
<1>1. CASE status[inst[p]] = "running" /\ Accepted(p)
    <2>1. /\ used' = [used EXCEPT ![inst[p]] = @ + Increment(p)]
          /\ userUsed' = [userUsed EXCEPT ![user[p]] = @ + Increment(p)]
        BY <1>1 DEF Meter
    <2> QED BY <2>1, Workers DEF TypeOK, UserCharged
<1>2. CASE ~(status[inst[p]] = "running" /\ Accepted(p))
    <2>1. UNCHANGED usage
        BY <1>2 DEF Meter
    <2> QED BY <2>1 DEF UserCharged, usage
<1> QED BY <1>1, <1>2

LEMMA UserResetEffect ==
    ASSUME TypeOK, NEW p \in Resetter, Reset(p) PROVE UserReset(p)
<1>1. \A u \in User : u # user[p] => userLease'[u] = userLease[u]
    BY Workers DEF TypeOK, Reset
<1>2. CASE status[inst[p]] # "deleted"
    <2>1. /\ used' = [used EXCEPT ![inst[p]] = 0]
          /\ userUsed' = [userUsed EXCEPT ![readOwner[p]] = Rest(p)]
        BY <1>2 DEF Reset
    <2> QED BY <1>1, <2>1, Workers DEF TypeOK, UserReset
<1>3. CASE status[inst[p]] = "deleted"
    <2>1. UNCHANGED usage
        BY <1>3 DEF Reset
    <2> QED BY <1>1, <2>1 DEF UserReset, usage
<1> QED BY <1>2, <1>3

ReadKept(p) ==
    pc[p] = "write" => /\ readUsed[p] = used[inst[p]]
                       /\ readUser[p] = userUsed[readOwner[p]]

Works ==
    \A p \in Worker :
        OwnSteps(p) /\ KnowsOwner(p) /\ WritesLeased(p) /\ ReadKept(p)

LEMMA KnowsOwnerStep ==
    ASSUME NEW q \in Worker, Settled, TypeOK, OwnSteps(q), KnowsOwner(q),
           [Next]_vars
    PROVE  KnowsOwner(q)'
<1> USE TrafficConstants, LeaseConstants, SomeTypes, Workers DEF TypeOK,
        Settled, machine, row, usage, base, leases, sample, reads, work,
        Goto, OwnSteps, KnowsOwner
<1>1. ASSUME NEW i \in Instance, 
             \/ Carry(i) \/ Restart(i) \/ Power(i) \/ SyncRow(i) \/ Replace(i)
             \/ Forget(i) \/ Delete(i) \/ Transfer(i) \/ Expire(i)
      PROVE  KnowsOwner(q)'
    BY <1>1 DEF Carry, Restart, Power, SyncRow, Replace, Forget, Delete,
       Transfer, Expire
<1>2. ASSUME NEW u \in User, ExpireUser(u) PROVE KnowsOwner(q)'
    BY <1>2 DEF ExpireUser
<1>3. ASSUME NEW i \in Instance, NEW p \in Collector, BeginCollect(p, i)
      PROVE  KnowsOwner(q)'
    BY <1>3 DEF BeginCollect
<1>4. ASSUME NEW i \in Instance, NEW p \in Reporter, Post(p, i)
      PROVE  KnowsOwner(q)'
    BY <1>4 DEF Post
<1>5. ASSUME NEW p \in Collector \cup Reporter, Meter(p)
      PROVE  KnowsOwner(q)'
    <2>1. MeterDone(p) /\ (q # p => Same(q))
        BY <1>5, MeterEffect DEF MeterDone, LeaveDone, OthersSame
    <2> QED BY <2>1 DEF MeterDone, LeaveDone, Same, Stays
<1>6. ASSUME NEW p \in Reporter, Receive(p) PROVE KnowsOwner(q)'
    BY <1>6 DEF Receive, RowOf
<1>7. ASSUME NEW p \in Reporter, Drop(p) PROVE KnowsOwner(q)'
    <2>1. LeaveDone(p) /\ (q # p => Same(q))
        BY <1>7, LeaveEffect DEF Drop, LeaveDone, OthersSame
    <2>2. UNCHANGED <<machine, row, usage, base, leases, now>>
        BY <1>7 DEF Drop
    <2> QED BY <2>1, <2>2 DEF LeaveDone, Same, Stays
<1>8. ASSUME NEW p \in Collector \cup Resetter, Observe(p)
      PROVE  KnowsOwner(q)'
    BY <1>8 DEF Observe
<1>9. ASSUME NEW p \in Collector \cup Resetter, Answer(p)
      PROVE  KnowsOwner(q)'
    BY <1>9 DEF Answer
<1>10. ASSUME NEW p \in Resetter, BeginReset(p) \/ Outlast(p)
      PROVE  KnowsOwner(q)'
    BY <1>10 DEF BeginReset, Live, Outlast
<1>11. ASSUME NEW p \in Resetter, NextReset(p) PROVE KnowsOwner(q)'
    <2>1. NextResetDone(p) /\ (q # p => Same(q))
        BY <1>11, NextResetEffect DEF NextResetDone, LeaveDone, OthersSame
    <2> QED BY <2>1 DEF NextResetDone, LeaveDone, Same, Stays
<1>12. ASSUME NEW p \in Resetter, ReadUsage(p) PROVE KnowsOwner(q)'
    BY <1>12 DEF ReadUsage
<1>13. ASSUME NEW p \in Resetter, Reset(p) PROVE KnowsOwner(q)'
    <2>1. ResetDone(p)
        BY <1>13, ResetEffect
    <2> QED BY <2>1 DEF ResetDone, OthersSame, Same, Stays
<1>14. ASSUME NEW p \in Worker, Acquire(p) PROVE KnowsOwner(q)'
    <2>1. AcquireDone(p) /\ (q # p => Same(q))
        BY <1>14, AcquireEffect DEF AcquireDone, LeaveDone, OthersSame
    <2> QED BY <2>1 DEF AcquireDone, LeaveDone, Same, Stays
<1>15. ASSUME NEW p \in Worker, Fail(p) \/ Crash(p) PROVE KnowsOwner(q)'
    <2>1. EndDone(p) /\ (q # p => Same(q))
        BY <1>15, EndEffect DEF EndDone, LeaveDone, OthersSame
    <2> QED BY <2>1 DEF EndDone, LeaveDone, Same, Stays
<1>16. CASE UNCHANGED vars
    BY <1>16 DEF vars
<1> QED BY <1>1, <1>2, <1>3, <1>4, <1>5, <1>6, <1>7, <1>8, <1>9, <1>10,
       <1>11, <1>12, <1>13, <1>14, <1>15, <1>16
        DEF Next

LEMMA WritesLeasedStep ==
    ASSUME NEW q \in Worker, Settled, TypeOK, Works, [Next]_vars
    PROVE  WritesLeased(q)'
<1> USE TrafficConstants, LeaseConstants, SomeTypes, Workers DEF TypeOK,
        Settled, machine, row, usage, base, leases, sample, reads, work,
        Goto, Works, OwnSteps, KnowsOwner, WritesLeased
<1>1. ASSUME NEW i \in Instance, 
             \/ Carry(i) \/ Restart(i) \/ Power(i) \/ SyncRow(i) \/ Replace(i)
             \/ Forget(i) \/ Delete(i) \/ Transfer(i) \/ Expire(i)
      PROVE  WritesLeased(q)'
    BY <1>1 DEF Carry, Restart, Power, SyncRow, Replace, Forget, Delete,
       Transfer, Expire
<1>2. ASSUME NEW u \in User, ExpireUser(u) PROVE WritesLeased(q)'
    BY <1>2 DEF ExpireUser
<1>3. ASSUME NEW i \in Instance, NEW p \in Collector, BeginCollect(p, i)
      PROVE  WritesLeased(q)'
    BY <1>3 DEF BeginCollect
<1>4. ASSUME NEW i \in Instance, NEW p \in Reporter, Post(p, i)
      PROVE  WritesLeased(q)'
    BY <1>4 DEF Post
<1>5. ASSUME NEW p \in Collector \cup Reporter, Meter(p)
      PROVE  WritesLeased(q)'
    <2>1. MeterDone(p) /\ UserCharged(p) /\ (q # p => Same(q))
        BY <1>5, MeterEffect, UserChargeEffect
           DEF MeterDone, LeaveDone, OthersSame
    <2>2. pc[q] = "write" =>
              q # p /\ user[q] # user[p] /\ inst[q] # inst[p]
        BY <2>1 DEF MeterDone
    <2>3. CASE q # p
        BY <2>1, <2>2, <2>3 DEF MeterDone, Same, Stays
    <2>4. CASE q = p
        BY <2>1, <2>4 DEF MeterDone, LeaveDone
    <2> QED BY <2>3, <2>4
<1>6. ASSUME NEW p \in Reporter, Receive(p) PROVE WritesLeased(q)'
    BY <1>6 DEF Receive, RowOf
<1>7. ASSUME NEW p \in Reporter, Drop(p) PROVE WritesLeased(q)'
    <2>1. LeaveDone(p) /\ (q # p => Same(q))
        BY <1>7, LeaveEffect DEF Drop, LeaveDone, OthersSame
    <2>2. UNCHANGED <<machine, row, usage, base, leases, now>>
        BY <1>7 DEF Drop
    <2> QED BY <2>1, <2>2 DEF LeaveDone, Same, Stays
<1>8. ASSUME NEW p \in Collector \cup Resetter, Observe(p)
      PROVE  WritesLeased(q)'
    BY <1>8 DEF Observe
<1>9. ASSUME NEW p \in Collector \cup Resetter, Answer(p)
      PROVE  WritesLeased(q)'
    BY <1>9 DEF Answer
<1>10. ASSUME NEW p \in Resetter, BeginReset(p) \/ Outlast(p)
      PROVE  WritesLeased(q)'
    BY <1>10 DEF BeginReset, Live, Outlast
<1>11. ASSUME NEW p \in Resetter, NextReset(p) PROVE WritesLeased(q)'
    <2>1. NextResetDone(p) /\ (q # p => Same(q))
        BY <1>11, NextResetEffect DEF NextResetDone, LeaveDone, OthersSame
    <2> QED BY <2>1 DEF NextResetDone, LeaveDone, Same, Stays
<1>12. ASSUME NEW p \in Resetter, ReadUsage(p) PROVE WritesLeased(q)'
    BY <1>12 DEF ReadUsage
<1>13. ASSUME NEW p \in Resetter, Reset(p) PROVE WritesLeased(q)'
    <2>1. ResetDone(p) /\ UserReset(p) /\ (q # p => Same(q))
        BY <1>13, ResetEffect, UserResetEffect DEF ResetDone, OthersSame
    <2>2. readOwner[p] = user[p]
        BY <2>1 DEF ResetDone
    <2>3. q # p /\ pc[q] = "write" => user[q] # user[p] /\ inst[q] # inst[p]
        BY <2>1 DEF ResetDone
    <2>4. CASE q # p
        BY <2>1, <2>2, <2>3, <2>4 DEF UserReset, Same, Stays
    <2>5. CASE q = p
        BY <2>1, <2>5 DEF ResetDone
    <2> QED BY <2>4, <2>5
<1>14. ASSUME NEW p \in Worker, Acquire(p) PROVE WritesLeased(q)'
    <2>1. AcquireDone(p) /\ (q # p => Same(q))
        BY <1>14, AcquireEffect DEF AcquireDone, LeaveDone, OthersSame
    <2> QED BY <2>1 DEF AcquireDone, LeaveDone, Same, Stays
<1>15. ASSUME NEW p \in Worker, Fail(p) \/ Crash(p) PROVE WritesLeased(q)'
    <2>1. EndDone(p) /\ (q # p => Same(q))
        BY <1>15, EndEffect DEF EndDone, LeaveDone, OthersSame
    <2> QED BY <2>1 DEF EndDone, LeaveDone, Same, Stays
<1>16. CASE UNCHANGED vars
    BY <1>16 DEF vars
<1> QED BY <1>1, <1>2, <1>3, <1>4, <1>5, <1>6, <1>7, <1>8, <1>9, <1>10,
       <1>11, <1>12, <1>13, <1>14, <1>15, <1>16
        DEF Next

LEMMA KeptStep ==
    ASSUME NEW q \in Worker, Settled, TypeOK, Works, [Next]_vars
    PROVE  ReadKept(q)'
<1> USE TrafficConstants, LeaseConstants, SomeTypes, Workers DEF TypeOK,
        Settled, machine, row, usage, base, leases, sample, reads, work,
        Goto, Works, OwnSteps, KnowsOwner, WritesLeased, ReadKept
<1>1. ASSUME NEW i \in Instance, 
             \/ Carry(i) \/ Restart(i) \/ Power(i) \/ SyncRow(i) \/ Replace(i)
             \/ Forget(i) \/ Delete(i) \/ Transfer(i) \/ Expire(i)
      PROVE  ReadKept(q)'
    BY <1>1 DEF Carry, Restart, Power, SyncRow, Replace, Forget, Delete,
       Transfer, Expire
<1>2. ASSUME NEW u \in User, ExpireUser(u) PROVE ReadKept(q)'
    BY <1>2 DEF ExpireUser
<1>3. ASSUME NEW i \in Instance, NEW p \in Collector, BeginCollect(p, i)
      PROVE  ReadKept(q)'
    BY <1>3 DEF BeginCollect
<1>4. ASSUME NEW i \in Instance, NEW p \in Reporter, Post(p, i)
      PROVE  ReadKept(q)'
    BY <1>4 DEF Post
<1>5. ASSUME NEW p \in Collector \cup Reporter, Meter(p)
      PROVE  ReadKept(q)'
    <2>1. MeterDone(p) /\ UserCharged(p) /\ (q # p => Same(q))
        BY <1>5, MeterEffect, UserChargeEffect
           DEF MeterDone, LeaveDone, OthersSame
    <2>2. pc[q] = "write" =>
              q # p /\ user[q] # user[p] /\ inst[q] # inst[p]
        BY <2>1 DEF MeterDone
    <2>3. CASE q # p
        BY <2>1, <2>2, <2>3 DEF UserCharged, Same, Stays
    <2>4. CASE q = p
        BY <2>1, <2>4 DEF MeterDone, LeaveDone
    <2> QED BY <2>3, <2>4
<1>6. ASSUME NEW p \in Reporter, Receive(p) PROVE ReadKept(q)'
    BY <1>6 DEF Receive, RowOf
<1>7. ASSUME NEW p \in Reporter, Drop(p) PROVE ReadKept(q)'
    <2>1. LeaveDone(p) /\ (q # p => Same(q))
        BY <1>7, LeaveEffect DEF Drop, LeaveDone, OthersSame
    <2>2. UNCHANGED <<machine, row, usage, base, leases, now>>
        BY <1>7 DEF Drop
    <2> QED BY <2>1, <2>2 DEF LeaveDone, Same, Stays
<1>8. ASSUME NEW p \in Collector \cup Resetter, Observe(p)
      PROVE  ReadKept(q)'
    BY <1>8 DEF Observe
<1>9. ASSUME NEW p \in Collector \cup Resetter, Answer(p)
      PROVE  ReadKept(q)'
    BY <1>9 DEF Answer
<1>10. ASSUME NEW p \in Resetter, BeginReset(p) \/ Outlast(p)
      PROVE  ReadKept(q)'
    BY <1>10 DEF BeginReset, Live, Outlast
<1>11. ASSUME NEW p \in Resetter, NextReset(p) PROVE ReadKept(q)'
    <2>1. NextResetDone(p) /\ (q # p => Same(q))
        BY <1>11, NextResetEffect DEF NextResetDone, LeaveDone, OthersSame
    <2> QED BY <2>1 DEF NextResetDone, LeaveDone, Same, Stays
<1>12. ASSUME NEW p \in Resetter, ReadUsage(p) PROVE ReadKept(q)'
    BY <1>12 DEF ReadUsage
<1>13. ASSUME NEW p \in Resetter, Reset(p) PROVE ReadKept(q)'
    <2>1. ResetDone(p) /\ UserReset(p) /\ (q # p => Same(q))
        BY <1>13, ResetEffect, UserResetEffect DEF ResetDone, OthersSame
    <2>2. readOwner[p] = user[p]
        BY <2>1 DEF ResetDone
    <2>3. q # p /\ pc[q] = "write" => user[q] # user[p] /\ inst[q] # inst[p]
        BY <2>1 DEF ResetDone
    <2>4. CASE q # p
        BY <2>1, <2>2, <2>3, <2>4 DEF UserReset, Same, Stays
    <2>5. CASE q = p
        BY <2>1, <2>5 DEF ResetDone
    <2> QED BY <2>4, <2>5
<1>14. ASSUME NEW p \in Worker, Acquire(p) PROVE ReadKept(q)'
    <2>1. AcquireDone(p) /\ (q # p => Same(q))
        BY <1>14, AcquireEffect DEF AcquireDone, LeaveDone, OthersSame
    <2> QED BY <2>1 DEF AcquireDone, LeaveDone, Same, Stays
<1>15. ASSUME NEW p \in Worker, Fail(p) \/ Crash(p) PROVE ReadKept(q)'
    <2>1. EndDone(p) /\ (q # p => Same(q))
        BY <1>15, EndEffect DEF EndDone, LeaveDone, OthersSame
    <2> QED BY <2>1 DEF EndDone, LeaveDone, Same, Stays
<1>16. CASE UNCHANGED vars
    BY <1>16 DEF vars
<1> QED BY <1>1, <1>2, <1>3, <1>4, <1>5, <1>6, <1>7, <1>8, <1>9, <1>10,
       <1>11, <1>12, <1>13, <1>14, <1>15, <1>16
        DEF Next

LEMMA WorksInit == Init => Works
BY TrafficConstants
   DEF Init, Works, OwnSteps, KnowsOwner, WritesLeased, ReadKept

LEMMA WorksStep == ASSUME Settled, TypeOK, Works, [Next]_vars PROVE Works'
<1>1. \A q \in Worker : OwnSteps(q)'
    BY OwnStepsStep DEF Works
<1>2. \A q \in Worker : KnowsOwner(q)'
    BY KnowsOwnerStep DEF Works
<1>3. \A q \in Worker : WritesLeased(q)'
    BY WritesLeasedStep
<1>4. \A q \in Worker : ReadKept(q)'
    BY KeptStep
<1> QED BY <1>1, <1>2, <1>3, <1>4 DEF Works

(* Unless an instance changes hands, what a reset has read of the usages   *)
(* is still so when it writes them, even after its lease of the instance   *)
(* was lost.                                                               *)
THEOREM NoUpdateLost == Settled => (Spec => []NoLostUpdate)
<1> SUFFICES ASSUME Settled PROVE Spec => []NoLostUpdate
    OBVIOUS
<1>1. Init => TypeOK /\ Works
    BY TypeInit, WorksInit
<1>2. TypeOK /\ Works /\ [Next]_vars => (TypeOK /\ Works)'
    BY TypeStep, WorksStep
<1>3. Works => NoLostUpdate
    BY Workers DEF Works, ReadKept, NoLostUpdate
<1> QED BY <1>1, <1>2, <1>3, PTL DEF Spec

----------------------------------------------------------------------------
(* Sums over finite sets, by the smallest set in a set of finite sets.     *)

SumOver(f, S) == MapThenSumSet(LAMBDA r : f[r], S)

(* Induction, for a set in place of a predicate.                           *)
Smallest(s, F) == s \in F /\ \A t \in F : t \subseteq s => t = s

LEMMA SmallestSet ==
    ASSUME NEW S, NEW F, F \subseteq SUBSET S, F # {}, \A s \in F : IsFiniteSet(s)
    PROVE  \E s : Smallest(s, F)
<1>1. F \subseteq FiniteSubsetsOf(S)
  BY DEF FiniteSubsetsOf
<1>2. PICK s \in F : \A t \in F : <<t, s>> \notin StrictSubsetOrdering(S)
  BY <1>1, WFMin, FS_StrictSubsetOrderingWellFounded, Zenon
<1>3. \A t \in F : t \subseteq s /\ t # s =>
         <<t, s>> \in StrictSubsetOrdering(S)
  BY DEF StrictSubsetOrdering
<1>4. ASSUME NEW t \in F, t \subseteq s PROVE t = s
  BY <1>2, <1>3, <1>4
<1>5. Smallest(s, F)
  BY <1>4 DEF Smallest
<1> QED BY <1>5

LEMMA NatSet ==
    ASSUME NEW Goal, 0 \in Goal, \A n \in Nat : n \in Goal => n + 1 \in Goal
    PROVE  \A n \in Nat : n \in Goal
<1> DEFINE F == {0 .. n : n \in Nat \ Goal}
<1> SUFFICES ASSUME NEW bad \in Nat, bad \notin Goal PROVE FALSE
  OBVIOUS
<1>1. F # {} /\ F \subseteq SUBSET Nat
  BY SMT
<1>2. \A s \in F : IsFiniteSet(s)
  BY FS_Interval
<1> HIDE DEF F
<1>3. PICK s : Smallest(s, F)
  BY <1>1, <1>2, SmallestSet
<1> USE DEF F
<1>4. PICK n \in Nat \ Goal : s = 0 .. n
  BY <1>3 DEF Smallest
<1>5. n # 0 /\ n - 1 \in Nat /\ (n - 1) + 1 = n
  BY <1>4
<1>6. n - 1 \notin Goal
  BY <1>4, <1>5
<1>7. 0 .. (n - 1) \in F
  BY <1>5, <1>6
<1>8. 0 .. (n - 1) \subseteq 0 .. n /\ n \in 0 .. n /\ n \notin 0 .. (n - 1)
  BY <1>4, <1>5
<1> QED BY <1>3, <1>4, <1>7, <1>8 DEF Smallest

Pick(s) == CHOOSE x \in s : TRUE
Body(f, g, D) == [s \in D |-> IF s = {} THEN 0 ELSE f[Pick(s)] + g[s \ {Pick(s)}]]

LEMMA SumIsIter == ASSUME NEW f, NEW S
   PROVE SumOver(f, S) = (CHOOSE g : g = Body(f, g, SUBSET S))[S]
  BY DEF SumOver, MapThenSumSet, MapThenFoldSet, Pick, Body

LEMMA Picks == ASSUME NEW s, s # {} PROVE Pick(s) \in s
  BY DEF Pick

LEMMA BodyExists == ASSUME NEW f, NEW S, IsFiniteSet(S)
   PROVE \E g : g = Body(f, g, SUBSET S)
<1> DEFINE Level(n) == {s \in SUBSET S : Cardinality(s) <= n}
           Goal == {n \in Nat : \E g : g = Body(f, g, Level(n))}
<1>1. 0 \in Goal
  <2> DEFINE g == [s \in Level(0) |-> 0]
  <2>1. \A s \in Level(0) : s = {}
    BY FS_Subset, FS_EmptySet, FS_CardinalityType
  <2>2. g = Body(f, g, Level(0))
    BY <2>1 DEF Body
  <2> QED BY <2>2
<1>2. ASSUME NEW n \in Nat, n \in Goal PROVE n + 1 \in Goal
  <2>1. PICK h : h = Body(f, h, Level(n))
    BY <1>2
  <2> DEFINE g == [s \in Level(n + 1) |-> IF s \in Level(n) THEN h[s]
                                          ELSE f[Pick(s)] + h[s \ {Pick(s)}]]
  <2>2. ASSUME NEW s \in Level(n + 1), s # {}
        PROVE  s \ {Pick(s)} \in Level(n)
    <3>1. IsFiniteSet(s) /\ Cardinality(s) \in Nat
      BY FS_Subset, FS_CardinalityType
    <3>2. Cardinality(s \ {Pick(s)}) = Cardinality(s) - 1
      BY <3>1, <2>2, Picks, FS_RemoveElement
    <3> QED BY <3>1, <3>2
  <2>3. {} \in Level(n) /\ Level(n) \subseteq Level(n + 1)
    BY FS_EmptySet, FS_Subset, FS_CardinalityType
  <2> HIDE DEF Level, Goal
  <2>4. ASSUME NEW s \in Level(n + 1)
        PROVE  g[s] = IF s = {} THEN 0 ELSE f[Pick(s)] + g[s \ {Pick(s)}]
    <3>1. CASE s = {}
      BY <3>1, <2>1, <2>3 DEF Body
    <3>2. CASE s # {}
      <4>1. g[s \ {Pick(s)}] = h[s \ {Pick(s)}]
        BY <3>2, <2>2, <2>3
      <4>2. s \in Level(n) => h[s] = f[Pick(s)] + h[s \ {Pick(s)}]
        BY <3>2, <2>1 DEF Body
      <4> QED BY <3>2, <4>1, <4>2
    <3> QED BY <3>1, <3>2
  <2>5. g = Body(f, g, Level(n + 1))
    BY <2>4 DEF Body
  <2> QED BY <2>5 DEF Goal
<1>3. Cardinality(S) \in Goal
  <2> HIDE DEF Goal
  <2> QED BY <1>1, <1>2, NatSet, FS_CardinalityType
<1>4. Level(Cardinality(S)) = SUBSET S
  BY FS_Subset, FS_CardinalityType
<1> QED BY <1>3, <1>4

LEMMA SumIs == ASSUME NEW f, NEW S, IsFiniteSet(S)
   PROVE \E g : /\ SumOver(f, S) = g[S]
                /\ g = Body(f, g, SUBSET S)
<1> DEFINE g == CHOOSE g : g = Body(f, g, SUBSET S)
<1>1. g = Body(f, g, SUBSET S)
  BY BodyExists
<1> QED BY <1>1, SumIsIter

LEMMA SumEmpty == ASSUME NEW f PROVE SumOver(f, {}) = 0
<1>1. PICK g : SumOver(f, {}) = g[{}] /\ g = Body(f, g, SUBSET {})
  BY SumIs, FS_EmptySet
<1>2. g[{}] = 0
  BY <1>1 DEF Body
<1> QED BY <1>1, <1>2

(* The function of one set agrees with that of a subset.                   *)
LEMMA SumOfSubset ==
    ASSUME NEW f, NEW S, IsFiniteSet(S), NEW g, g = Body(f, g, SUBSET S), NEW U \in SUBSET S
    PROVE  SumOver(f, U) = g[U]
<1>1. PICK h : SumOver(f, U) = h[U] /\ h = Body(f, h, SUBSET U)
  BY SumIs, FS_Subset
<1> DEFINE F == {s \in SUBSET U : g[s] # h[s]}
<1>2. SUFFICES ASSUME F # {} PROVE FALSE
  BY <1>1
<1>3. F \subseteq SUBSET U /\ \A s \in F : IsFiniteSet(s)
  BY FS_Subset
<1> HIDE DEF F
<1>4. PICK s : Smallest(s, F)
  BY <1>2, <1>3, SmallestSet
<1>5. s \in SUBSET U /\ s \in SUBSET S /\ g[s] # h[s]
  BY <1>4 DEF Smallest, F
<1>6. s # {}
  BY <1>1, <1>5 DEF Body
<1>7. /\ g[s] = f[Pick(s)] + g[s \ {Pick(s)}]
      /\ h[s] = f[Pick(s)] + h[s \ {Pick(s)}]
  BY <1>1, <1>5, <1>6 DEF Body
<1>8. s \ {Pick(s)} \in SUBSET U /\ s \ {Pick(s)} # s /\ s \ {Pick(s)} \subseteq s
  BY <1>5, <1>6, Picks
<1>9. s \ {Pick(s)} \notin F
  BY <1>4, <1>8 DEF Smallest
<1>10. g[s \ {Pick(s)}] = h[s \ {Pick(s)}]
  BY <1>8, <1>9 DEF F
<1> QED BY <1>5, <1>7, <1>10

LEMMA SumPick ==
    ASSUME NEW f, NEW S, IsFiniteSet(S), S # {}
    PROVE  SumOver(f, S) = f[Pick(S)] + SumOver(f, S \ {Pick(S)})
<1>1. PICK g : SumOver(f, S) = g[S] /\ g = Body(f, g, SUBSET S)
  BY SumIs
<1>2. g[S] = f[Pick(S)] + g[S \ {Pick(S)}]
  BY <1>1 DEF Body
<1>3. SumOver(f, S \ {Pick(S)}) = g[S \ {Pick(S)}]
  BY <1>1, SumOfSubset
<1> QED BY <1>1, <1>2, <1>3

LEMMA SumType ==
    ASSUME NEW f, NEW S, IsFiniteSet(S), NEW D, D \in {Nat, Int}, \A x \in S : f[x] \in D
    PROVE  SumOver(f, S) \in D
<1> DEFINE F == {s \in SUBSET S : SumOver(f, s) \notin D}
<1>1. SUFFICES ASSUME F # {} PROVE FALSE
  OBVIOUS
<1>2. F \subseteq SUBSET S /\ \A s \in F : IsFiniteSet(s)
  BY FS_Subset
<1> HIDE DEF F
<1>3. PICK s : Smallest(s, F)
  BY <1>1, <1>2, SmallestSet
<1>4. s \in SUBSET S /\ SumOver(f, s) \notin D /\ IsFiniteSet(s)
  BY <1>2, <1>3 DEF Smallest, F
<1>5. s # {}
  BY <1>4, SumEmpty
<1>6. Pick(s) \in s /\ s \ {Pick(s)} # s /\ s \ {Pick(s)} \subseteq s
  BY <1>5, Picks
<1>7. s \ {Pick(s)} \notin F
  BY <1>3, <1>6 DEF Smallest
<1>8. SumOver(f, s \ {Pick(s)}) \in D /\ f[Pick(s)] \in D
  BY <1>4, <1>6, <1>7 DEF F
<1>9. SumOver(f, s) = f[Pick(s)] + SumOver(f, s \ {Pick(s)})
  BY <1>4, <1>5, SumPick
<1> QED BY <1>4, <1>8, <1>9

(* A sum is that of a member and that of the others.                       *)
LEMMA SumRemove ==
    ASSUME NEW f, NEW S, IsFiniteSet(S), \A x \in S : f[x] \in Int, NEW x \in S
    PROVE  SumOver(f, S) = f[x] + SumOver(f, S \ {x})
<1> DEFINE F == {s \in SUBSET S : \E y \in s : SumOver(f, s) # f[y] + SumOver(f, s \ {y})}
<1>1. SUFFICES ASSUME F # {} PROVE FALSE
  OBVIOUS
<1>2. F \subseteq SUBSET S /\ \A s \in F : IsFiniteSet(s)
  BY FS_Subset
<1> HIDE DEF F
<1>3. PICK s : Smallest(s, F)
  BY <1>1, <1>2, SmallestSet
<1>4. s \in SUBSET S /\ IsFiniteSet(s)
  BY <1>2, <1>3 DEF Smallest
<1>5. PICK y \in s : SumOver(f, s) # f[y] + SumOver(f, s \ {y})
  BY <1>3 DEF Smallest, F
<1> DEFINE p == Pick(s)
<1>6. p \in s /\ SumOver(f, s) = f[p] + SumOver(f, s \ {p})
  BY <1>4, <1>5, Picks, SumPick
<1> HIDE DEF p
<1>7. p # y
  BY <1>5, <1>6
<1>8. s \ {p} \notin F /\ s \ {y} \notin F
  <2>1. s \ {p} # s /\ s \ {p} \subseteq s /\ s \ {y} # s /\ s \ {y} \subseteq s
    BY <1>6
  <2> QED BY <1>3, <2>1 DEF Smallest
<1>9. SumOver(f, s \ {p}) = f[y] + SumOver(f, (s \ {p}) \ {y})
  BY <1>4, <1>7, <1>8 DEF F
<1>10. SumOver(f, s \ {y}) = f[p] + SumOver(f, (s \ {y}) \ {p})
  BY <1>4, <1>6, <1>7, <1>8 DEF F
<1>11. (s \ {p}) \ {y} = (s \ {y}) \ {p}
  OBVIOUS
<1>12. f[p] \in Int /\ f[y] \in Int /\ SumOver(f, (s \ {p}) \ {y}) \in Int
  <2>1. IsFiniteSet((s \ {p}) \ {y}) /\ \A x_1 \in (s \ {p}) \ {y} : f[x_1] \in Int
    BY <1>4, FS_Subset
  <2> QED BY <1>4, <1>6, <2>1, SumType
<1>13. SumOver(f, s \ {y}) = f[p] + SumOver(f, (s \ {p}) \ {y})
  BY <1>10, <1>11
<1> DEFINE rest == SumOver(f, (s \ {p}) \ {y})
<1>14. SumOver(f, s) = f[p] + (f[y] + rest) /\ SumOver(f, s \ {y}) = f[p] + rest
  BY <1>6, <1>9, <1>13
<1>15. rest \in Int
  BY <1>12
<1> HIDE DEF rest
<1>16. f[p] + (f[y] + rest) = f[y] + (f[p] + rest)
  BY <1>12, <1>15
<1> QED BY <1>5, <1>14, <1>16

(* Functions that agree on a set have the same sum over it.                *)
LEMMA SumSame ==
    ASSUME NEW f, NEW g, NEW S, IsFiniteSet(S), \A x \in S : f[x] = g[x]
    PROVE  SumOver(f, S) = SumOver(g, S)
<1> DEFINE F == {s \in SUBSET S : SumOver(f, s) # SumOver(g, s)}
<1>1. SUFFICES ASSUME F # {} PROVE FALSE
  OBVIOUS
<1>2. F \subseteq SUBSET S /\ \A s \in F : IsFiniteSet(s)
  BY FS_Subset
<1> HIDE DEF F
<1>3. PICK s : Smallest(s, F)
  BY <1>1, <1>2, SmallestSet
<1>4. s \in SUBSET S /\ SumOver(f, s) # SumOver(g, s) /\ IsFiniteSet(s)
  BY <1>2, <1>3 DEF Smallest, F
<1>5. s # {}
  BY <1>4, SumEmpty
<1>6. Pick(s) \in s /\ s \ {Pick(s)} # s /\ s \ {Pick(s)} \subseteq s
  BY <1>5, Picks
<1>7. s \ {Pick(s)} \notin F
  BY <1>3, <1>6 DEF Smallest
<1>8. SumOver(f, s \ {Pick(s)}) = SumOver(g, s \ {Pick(s)}) /\ f[Pick(s)] = g[Pick(s)]
  BY <1>4, <1>6, <1>7 DEF F
<1>9. /\ SumOver(f, s) = f[Pick(s)] + SumOver(f, s \ {Pick(s)})
      /\ SumOver(g, s) = g[Pick(s)] + SumOver(g, s \ {Pick(s)})
  BY <1>4, <1>5, SumPick
<1> QED BY <1>4, <1>8, <1>9

(* A sum of which one term changes.                                        *)
LEMMA SumChange ==
    ASSUME NEW f, NEW g, NEW S, IsFiniteSet(S), NEW x \in S,
           \A y \in S : f[y] \in Int /\ g[y] \in Int,
           \A y \in S \ {x} : f[y] = g[y]
    PROVE  SumOver(g, S) = SumOver(f, S) - f[x] + g[x]
<1>1. IsFiniteSet(S \ {x})
  BY FS_Subset
<1>2. SumOver(f, S \ {x}) = SumOver(g, S \ {x})
  BY <1>1, SumSame
<1>3. /\ SumOver(f, S) = f[x] + SumOver(f, S \ {x})
      /\ SumOver(g, S) = g[x] + SumOver(g, S \ {x})
  BY SumRemove
<1>4. SumOver(f, S \ {x}) \in Int
  BY <1>1, SumType
<1> QED BY <1>2, <1>3, <1>4

(* Terms that are zero.                                                    *)
LEMMA SumZero ==
    ASSUME NEW f, NEW S, IsFiniteSet(S), \A x \in S : f[x] = 0
    PROVE  SumOver(f, S) = 0
<1> DEFINE F == {s \in SUBSET S : SumOver(f, s) # 0}
<1>1. SUFFICES ASSUME F # {} PROVE FALSE
  OBVIOUS
<1>2. F \subseteq SUBSET S /\ \A s \in F : IsFiniteSet(s)
  BY FS_Subset
<1> HIDE DEF F
<1>3. PICK s : Smallest(s, F)
  BY <1>1, <1>2, SmallestSet
<1>4. s \in SUBSET S /\ SumOver(f, s) # 0 /\ IsFiniteSet(s)
  BY <1>2, <1>3 DEF Smallest, F
<1>5. s # {}
  BY <1>4, SumEmpty
<1>6. Pick(s) \in s /\ s \ {Pick(s)} # s /\ s \ {Pick(s)} \subseteq s
  BY <1>5, Picks
<1>7. s \ {Pick(s)} \notin F
  BY <1>3, <1>6 DEF Smallest
<1>8. SumOver(f, s \ {Pick(s)}) = 0 /\ f[Pick(s)] = 0
  BY <1>4, <1>6, <1>7 DEF F
<1>9. SumOver(f, s) = f[Pick(s)] + SumOver(f, s \ {Pick(s)})
  BY <1>4, <1>5, SumPick
<1> QED BY <1>4, <1>8, <1>9

----------------------------------------------------------------------------
(* The usage of a user is that of his instances                            *)

(* No instance changes hands or is deleted; leases may expire, processes   *)
(* die and hosts answer late.                                              *)
Kept == Settled /\ "delete" \notin Ops

Held(u) == {i \in Instance : owner[i] = u}
AllLive == \A i \in Instance : status[i] # "deleted"
Summed == \A u \in User : userUsed[u] = SumOver(used, Held(u))

LEMMA SummedIs == ASSUME TypeOK, AllLive PROVE Summed <=> UserUsageIsSum
<1>1. \A u \in User :
          {i \in DOMAIN used : status[i] # "deleted" /\ owner[i] = u} = Held(u)
  BY DEF TypeOK, AllLive, Held
<1>2. \A s : UsageOf(s) = SumOver(used, s)
  BY DEF UsageOf, SumOver
<1> QED BY <1>1, <1>2 DEF Summed, UserUsageIsSum

LEMMA LiveStep ==
    ASSUME "delete" \notin Ops, TypeOK, AllLive, [Next]_vars PROVE AllLive'
<1> USE DEF AllLive, TypeOK, row
<1>1. ASSUME NEW i \in Instance, SyncRow(i) PROVE AllLive'
  BY <1>1 DEF SyncRow, RowOf
<1>2. ASSUME NEW p \in Reporter, Receive(p) PROVE AllLive'
  BY <1>2 DEF Receive, RowOf
<1>3. ASSUME UNCHANGED status PROVE AllLive'
  BY <1>3
<1> QED BY <1>1, <1>2, <1>3 DEF Next, vars, Carry, Restart, Power, Replace, Forget, Delete,
           Transfer, Expire, ExpireUser, Outlast, Fail, Crash, BeginCollect, BeginReset,
           NextReset, Post, Drop, Acquire, Observe, Answer, Meter, ReadUsage, Reset

(* Only collections, reports and resets write usages.                      *)
LEMMA UsageSteps ==
    ASSUME Settled, [Next]_vars
    PROVE  \/ \E p \in Collector \cup Reporter : Meter(p)
           \/ \E p \in Resetter : Reset(p)
           \/ UNCHANGED <<owner, usage>>
  BY DEF Settled, Next, vars, Carry, Restart, Power, SyncRow, Replace, Forget, Delete,
         Transfer, Expire, ExpireUser, Outlast, Fail, Crash, BeginCollect, BeginReset,
         NextReset, Post, Receive, Drop, Acquire, Observe, Answer, ReadUsage, row

(* One usage changes, and that of its owner as much.                       *)
LEMMA SummedChange ==
    ASSUME TypeOK, TypeOK', IsFiniteSet(Instance), Summed, NEW i \in Instance, owner' = owner,
           \A j \in Instance : j # i => used'[j] = used[j],
           \A u \in User : u # owner[i] => userUsed'[u] = userUsed[u],
           userUsed'[owner[i]] = userUsed[owner[i]] - used[i] + used'[i]
    PROVE  Summed'
<1> SUFFICES ASSUME NEW u \in User PROVE userUsed'[u] = SumOver(used', Held(u))
  BY DEF Summed, Held
<1>1. IsFiniteSet(Held(u)) /\ Held(u) \subseteq Instance
  BY FS_Subset DEF Held
<1>2. \A j \in Instance : used[j] \in Int /\ used'[j] \in Int
  BY DEF TypeOK
<1>3. userUsed[u] = SumOver(used, Held(u))
  BY DEF Summed
<1>4. CASE u = owner[i]
  <2>1. i \in Held(u)
    BY <1>4 DEF Held
  <2>2. \A j \in Held(u) : used[j] \in Int /\ used'[j] \in Int
    BY <1>1, <1>2
  <2>3. \A j \in Held(u) \ {i} : used[j] = used'[j]
    BY <1>1
  <2>4. SumOver(used', Held(u)) = SumOver(used, Held(u)) - used[i] + used'[i]
    BY <1>1, <2>1, <2>2, <2>3, SumChange
  <2> QED BY <1>3, <1>4, <2>4
<1>5. CASE u # owner[i]
  <2>1. \A j \in Held(u) : used[j] = used'[j]
    BY <1>5 DEF Held
  <2>2. SumOver(used, Held(u)) = SumOver(used', Held(u))
    BY <1>1, <2>1, SumSame
  <2> QED BY <1>3, <1>5, <2>2
<1> QED BY <1>4, <1>5

LEMMA SummedMeter ==
    ASSUME TypeOK, TypeOK', Works, IsFiniteSet(Instance), Summed,
           NEW p \in Collector \cup Reporter, Meter(p)
    PROVE  Summed'
<1>1. p \in Worker /\ inst[p] \in Instance /\ user[p] \in User /\ Increment(p) \in Nat
  BY Workers, IncrementType DEF TypeOK
<1>2. pc[p] = "sampled" /\ owner' = owner /\ user[p] = owner[inst[p]]
  BY <1>1 DEF Meter, row, Works, KnowsOwner
<1>3. CASE status[inst[p]] = "running" /\ Accepted(p)
  <2>1. /\ used' = [used EXCEPT ![inst[p]] = @ + Increment(p)]
        /\ userUsed' = [userUsed EXCEPT ![user[p]] = @ + Increment(p)]
    BY <1>3 DEF Meter
  <2>2. /\ \A j \in Instance : j # inst[p] => used'[j] = used[j]
        /\ \A u \in User : u # owner[inst[p]] => userUsed'[u] = userUsed[u]
        /\ used'[inst[p]] = used[inst[p]] + Increment(p)
        /\ userUsed'[owner[inst[p]]] = userUsed[owner[inst[p]]] + Increment(p)
    BY <1>1, <1>2, <2>1 DEF TypeOK
  <2>3. used[inst[p]] \in Nat /\ userUsed[owner[inst[p]]] \in Nat
    BY <1>1, <1>2 DEF TypeOK
  <2>4. userUsed'[owner[inst[p]]] = userUsed[owner[inst[p]]] - used[inst[p]] + used'[inst[p]]
    BY <1>1, <2>2, <2>3
  <2> QED BY <1>1, <1>2, <2>2, <2>4, SummedChange
<1>4. CASE ~(status[inst[p]] = "running" /\ Accepted(p))
  <2>1. used' = used /\ userUsed' = userUsed
    BY <1>4 DEF Meter, usage
  <2> QED BY <1>2, <2>1 DEF Summed, Held
<1> QED BY <1>3, <1>4

LEMMA SummedReset ==
    ASSUME TypeOK, TypeOK', Works, AllLive, IsFiniteSet(Instance), Summed,
           NEW p \in Resetter, Reset(p)
    PROVE  Summed'
<1> DEFINE i == inst[p]
           o == owner[i]
<1>1. p \in Worker /\ i \in Instance /\ o \in User /\ pc[p] = "write" /\ owner' = owner
  BY Workers DEF TypeOK, Reset, row
<1>2. readOwner[p] = o /\ readUsed[p] = used[i] /\ readUser[p] = userUsed[o]
  BY <1>1 DEF Works, KnowsOwner, WritesLeased, ReadKept
<1>3. /\ used' = [used EXCEPT ![i] = 0]
      /\ userUsed' = [userUsed EXCEPT ![o] = Rest(p)]
  BY <1>1, <1>2 DEF Reset, AllLive
<1>4. used[i] \in Nat /\ userUsed[o] \in Nat /\ used[i] <= userUsed[o]
  <2>1. IsFiniteSet(Held(o)) /\ IsFiniteSet(Held(o) \ {i}) /\ i \in Held(o)
        /\ \A j \in Held(o) : used[j] \in Int
    BY <1>1, FS_Subset DEF Held, TypeOK
  <2>2. SumOver(used, Held(o)) = used[i] + SumOver(used, Held(o) \ {i})
    BY <2>1, SumRemove
  <2>3. \A j \in Held(o) \ {i} : used[j] \in Nat
    BY DEF Held, TypeOK
  <2>4. SumOver(used, Held(o) \ {i}) \in Nat
    BY <2>1, <2>3, SumType
  <2>5. userUsed[o] = SumOver(used, Held(o))
    BY <1>1 DEF Summed
  <2>6. used[i] \in Nat /\ userUsed[o] \in Nat
    BY <1>1 DEF TypeOK
  <2> HIDE DEF i, o
  <2> QED BY <2>2, <2>4, <2>5, <2>6
<1>5. Rest(p) = userUsed[o] - used[i]
  BY <1>2, <1>4 DEF Rest
<1>6. /\ \A j \in Instance : j # i => used'[j] = used[j]
      /\ \A u \in User : u # o => userUsed'[u] = userUsed[u]
      /\ used'[i] = 0 /\ userUsed'[o] = Rest(p)
  BY <1>1, <1>3 DEF TypeOK
<1>7. userUsed'[o] = userUsed[o] - used[i] + used'[i]
  BY <1>4, <1>5, <1>6
<1> QED BY <1>1, <1>6, <1>7, SummedChange

(* What a user has used is the sum of what his instances have, whatever    *)
(* collections, reports and resets go on, fail, die or lose their leases,  *)
(* unless an instance changes hands or is deleted: its usage stays.        *)
THEOREM UserUsageAlways ==
    ASSUME Kept, IsFiniteSet(Instance) PROVE Spec => []UserUsageIsSum
<1> DEFINE Inv == TypeOK /\ Works /\ AllLive /\ Summed
<1>1. Init => Inv
  <2> SUFFICES ASSUME Init PROVE Summed
    BY TypeInit, WorksInit DEF Init, AllLive
  <2> SUFFICES ASSUME NEW u \in User PROVE SumOver(used, Held(u)) = 0
    BY DEF Summed, Init, Zero
  <2>1. IsFiniteSet(Held(u)) /\ {} \in SUBSET Held(u)
    BY FS_Subset DEF Held
  <2>2. \A i \in Held(u) : used[i] = 0
    BY DEF Held, Init, Zero
  <2> QED BY <2>1, <2>2, SumZero
<1>2. Inv /\ [Next]_vars => Inv'
  <2> SUFFICES ASSUME Inv, [Next]_vars PROVE Inv'
    OBVIOUS
  <2>1. TypeOK' /\ Works' /\ AllLive'
    BY TypeStep, WorksStep, LiveStep DEF Kept
  <2>2. Summed'
    <3>1. UNCHANGED <<owner, usage>> => Summed'
      BY DEF Summed, Held, usage
    <3> QED BY <2>1, <3>1, UsageSteps, SummedMeter, SummedReset DEF Kept
  <2> QED BY <2>1, <2>2
<1>3. Inv => UserUsageIsSum
  BY SummedIs
<1> QED BY <1>1, <1>2, <1>3, PTL DEF Spec
=============================================================================
