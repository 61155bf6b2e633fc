--------------------------- MODULE InstanceProofs ---------------------------
(***************************************************************************)
(* Proofs about the life of instances beside their billing (Provisioning,  *)
(* Transfer, InstanceResources), about the e-mails a host owner sends      *)
(* (EmailQueue), the money of gift cards (GiftCard) and the income of host *)
(* owners (HostIncome), for every number of instances, workers, addresses, *)
(* users, requests, handlers, logs, codes, processes, tasks, cards, rows   *)
(* and withdrawals, every capacity, amount and interval.                   *)
(*                                                                         *)
(* That a row moves with its machine, that e-mails keep their interval and *)
(* that gift cards keep the money holds whatever fails.  So does, with the *)
(* exception its history variable records, that what runs has its machine  *)
(* (but for a destruction that gave the row back), that a price comes back *)
(* once (but for a destruction begun before a settlement had paid) and so  *)
(* a fee (but for a clean-up that put back what was worked on).  A machine *)
(* grows with its row while nothing outlasts its lease; income is paid     *)
(* once unless a row shrinks after a job has read it.                      *)
(***************************************************************************)
EXTENDS Provisioning, FiniteSetsExt, TLAPS, FiniteSetTheorems, WellFoundedInduction

(* The six share no state.                                                 *)
CONSTANTS Request, User, Handler, MaxNames, MaxRefunds, TransferFaults

VARIABLES request, sender, receiver, overdue, feeRefunded, owner, state, name,
          actual, names, step, onRequest, before, after, seenOwner, seenState, met

T == INSTANCE Transfer
    WITH Faults <- TransferFaults, status <- request, refunded <- feeRefunded,
         pc <- step, on <- onRequest

CONSTANTS Log, Code, Pool, GrowthCapacity, GrowthFaults

VARIABLES size, patched, hostUsed, pool, logs, usable, redeemed, lease, stage,
          kind, item, found, batch

Grow == INSTANCE InstanceResources
    WITH Capacity <- GrowthCapacity, Faults <- GrowthFaults,
         actual <- patched, pc <- stage, job <- kind, read <- found

CONSTANTS Task, Process, Interval, RetryDelay, Timeout, MaxRetries, MaxTime

VARIABLES now, email, scheduledFor, retryCount, startedAt, sending, tries, phase,
          sent, claimed, requeued, last

Post == INSTANCE EmailQueue WITH status <- email, step <- phase

CONSTANTS Owner, Instance, HostedBy, MaxRows, MaxWithdrawals, MaxAmount, MaxNet, Fee,
          ShrinkRead

VARIABLES rowState, earner, about, purchase, amount, due, available, panel, paid,
          asked, askedOf, withdrawn, left, job, ids, read, earned, credited, offset, net

Gain == INSTANCE HostIncome WITH holder <- earner

CONSTANTS Card, Admin, Worth, GiftDeposit

VARIABLES card, issuer, dated, passed, cardRefunded, wallet

Gift == INSTANCE GiftCard
    WITH Deposit <- GiftDeposit,
         status <- card, refunded <- cardRefunded, balance <- wallet

----------------------------------------------------------------------------
(* Provisioning                                                            *)


(* What is counted is a number.                                            *)
LEMMA Counts == ASSUME ProvisioningConstants PROVE InUse \in Nat /\ Mappings \in Nat
<1>1. /\ IsFiniteSet({r \in Row : status[r] \notin {"none", "deleted"}})
      /\ IsFiniteSet({r \in Row : mapped[r] /\ status[r] # "deleted"})
  BY FS_Subset DEF ProvisioningConstants
<1> QED BY <1>1, FS_CardinalityType DEF InUse, Mappings

(* The transaction of a refund.                                            *)
PaysBack(r) ==
    /\ ~recorded[r]
    /\ recorded' = [recorded EXCEPT ![r] = TRUE]
    /\ paidBack' = [paidBack EXCEPT ![r] = @ + 1]
    /\ balance' = balance + 1

LEMMA TypeStep ==
    ASSUME ProvisioningConstants, TypeOK, [Next]_vars PROVE TypeOK'
<1>1. ASSUME NEW w \in Worker, NEW r \in Row, NEW m \in {"nat", "public"}, Reserve(w, r, m)
      PROVE  TypeOK'
  BY <1>1, Counts DEF Reserve, Start, SetStatus, Larger, One, TypeOK, At,
         Statuses, Creating, Destroying, Settling, ProvisioningConstants,
         row, host, money, worker, past
<1>2. ASSUME NEW w \in Worker, NEW r \in Row, BeginTimeout(w, r)
      PROVE  TypeOK'
  BY <1>2 DEF BeginTimeout, TypeOK, At, Statuses, Creating, Destroying,
         Settling, ProvisioningConstants, row, host, money, worker, past
<1>3. ASSUME NEW w \in Worker, NEW r \in Row, BeginDestroy(w, r)
      PROVE  TypeOK'
  BY <1>3 DEF BeginDestroy, Start, Less, TypeOK, At, Statuses, Creating,
         Destroying, Settling, ProvisioningConstants, row, host, money, worker, past
<1>4. ASSUME NEW r \in Row, GrowOld(r)
      PROVE  TypeOK'
  BY <1>4 DEF GrowOld, TypeOK, At, Statuses, Creating, Destroying, Settling,
         ProvisioningConstants, row, host, money, worker, past
<1>5. ASSUME NEW w \in Worker, TakeAddress(w)
      PROVE  TypeOK'
  BY <1>5 DEF TakeAddress, Goto, TypeOK, At, Statuses, Creating, Destroying,
         Settling, ProvisioningConstants, row, host, money, worker, past
<1>6. ASSUME NEW w \in Worker, PreparationFails(w)
      PROVE  TypeOK'
  BY <1>6 DEF PreparationFails, Goto, TypeOK, At, Statuses, Creating,
         Destroying, Settling, ProvisioningConstants, row, host, money, worker, past
<1>7. ASSUME NEW w \in Worker, Prepared(w)
      PROVE  TypeOK'
  BY <1>7 DEF Prepared, Goto, TypeOK, At, Statuses, Creating, Destroying,
         Settling, ProvisioningConstants, row, host, money, worker, past
<1>8. ASSUME NEW w \in Worker, CreateMachine(w)
      PROVE  TypeOK'
  BY <1>8 DEF CreateMachine, Goto, SetMachine, TypeOK, At, Statuses,
         Creating, Destroying, Settling, ProvisioningConstants, row, host,
         money, worker, past
<1>9. ASSUME NEW w \in Worker, StartMachine(w)
      PROVE  TypeOK'
  BY <1>9 DEF StartMachine, Goto, SetMachine, TypeOK, At, Statuses, Creating,
         Destroying, Settling, ProvisioningConstants, row, host, money, worker, past
<1>10. ASSUME NEW w \in Worker, HostFails(w)
       PROVE  TypeOK'
  BY <1>10 DEF HostFails, Throws, SetMachine, TypeOK, At, Statuses, Creating,
         Destroying, Settling, ProvisioningConstants, row, host, money, worker, past
<1>11. ASSUME NEW w \in Worker, Confirm(w)
       PROVE  TypeOK'
  <2>0. At(w, "confirm") /\ UNCHANGED <<mode, old, machine, mapped, host, holder, money, past>>
    BY <1>11 DEF Confirm
  <2>1. CASE status[on[w]] = "creating" /\ SetStatus(on[w], "running") /\ Goto(w, "port")
    BY <2>0, <2>1 DEF Goto, SetStatus, TypeOK, At, Statuses, Creating,
            Destroying, Settling, ProvisioningConstants, row, host, money,
            worker, past
  <2>2. CASE status[on[w]] # "creating" /\ UNCHANGED status /\ Goto(w, "stop")
    BY <2>0, <2>2 DEF Goto, SetStatus, TypeOK, At, Statuses, Creating,
            Destroying, Settling, ProvisioningConstants, row, host, money,
            worker, past
  <2> QED BY <1>11, <2>1, <2>2 DEF Confirm
<1>12. ASSUME NEW w \in Worker, StopLate(w)
       PROVE  TypeOK'
  BY <1>12 DEF StopLate, End, SetMachine, TypeOK, At, Statuses, Creating,
         Destroying, Settling, ProvisioningConstants, row, host, money, worker, past
<1>13. ASSUME NEW w \in Worker, MapPort(w)
       PROVE  TypeOK'
  BY <1>13 DEF MapPort, End, TypeOK, At, Statuses, Creating, Destroying,
         Settling, ProvisioningConstants, row, host, money, worker, past
<1>14. ASSUME NEW w \in Worker, FinishFails(w)
       PROVE  TypeOK'
  BY <1>14 DEF FinishFails, Throws, TypeOK, At, Statuses, Creating,
         Destroying, Settling, ProvisioningConstants, row, host, money, worker, past
<1>15. ASSUME NEW w \in Worker, Claim(w)
       PROVE  TypeOK'
  <2>0. At(w, "claim") /\ UNCHANGED <<mode, old, machine, mapped, host, holder, money, past>>
    BY <1>15 DEF Claim
  <2>1. CASE status[on[w]] = "creating" /\ SetStatus(on[w], "error") /\ Goto(w, "rollback")
    BY <2>0, <2>1 DEF Goto, End, SetStatus, TypeOK, At, Statuses, Creating,
            Destroying, Settling, ProvisioningConstants, row, host, money,
            worker, past
  <2>2. CASE UNCHANGED status /\ Goto(w, "machine")
    BY <2>0, <2>2 DEF Goto, End, SetStatus, TypeOK, At, Statuses, Creating,
            Destroying, Settling, ProvisioningConstants, row, host, money,
            worker, past
  <2>3. CASE UNCHANGED status /\ End(w)
    BY <2>0, <2>3 DEF Goto, End, SetStatus, TypeOK, At, Statuses, Creating,
            Destroying, Settling, ProvisioningConstants, row, host, money,
            worker, past
  <2> QED BY <1>15, <2>1, <2>2, <2>3 DEF Claim
<1>16. ASSUME NEW w \in Worker, Rollback(w)
       PROVE  TypeOK'
  BY <1>16 DEF Rollback, Goto, Less, One, TypeOK, At, Statuses, Creating,
         Destroying, Settling, ProvisioningConstants, row, host, money, worker, past
<1>17. ASSUME NEW w \in Worker, Release(w)
       PROVE  TypeOK'
  BY <1>17 DEF Release, Goto, Released, TypeOK, At, Statuses, Creating,
         Destroying, Settling, ProvisioningConstants, row, host, money, worker, past
<1>18. ASSUME NEW w \in Worker, Refund(w)
       PROVE  TypeOK'
  <2>0. At(w, "refund") /\ UNCHANGED <<row, machine, mapped, host, holder, past>>
    BY <1>18 DEF Refund, PaysBack
  <2>1. CASE PaysBack(on[w]) /\ Goto(w, "machine")
    BY <2>0, <2>1 DEF Goto, End, TypeOK, At, Statuses, Creating, Destroying,
            Settling, ProvisioningConstants, row, host, money, worker, past,
            PaysBack
  <2>2. CASE PaysBack(on[w]) /\ End(w)
    BY <2>0, <2>2 DEF Goto, End, TypeOK, At, Statuses, Creating, Destroying,
            Settling, ProvisioningConstants, row, host, money, worker, past,
            PaysBack
  <2>3. CASE UNCHANGED money /\ Goto(w, "machine")
    BY <2>0, <2>3 DEF Goto, End, TypeOK, At, Statuses, Creating, Destroying,
            Settling, ProvisioningConstants, row, host, money, worker, past,
            PaysBack
  <2>4. CASE UNCHANGED money /\ End(w)
    BY <2>0, <2>4 DEF Goto, End, TypeOK, At, Statuses, Creating, Destroying,
            Settling, ProvisioningConstants, row, host, money, worker, past,
            PaysBack
  <2> QED BY <1>18, <2>1, <2>2, <2>3, <2>4 DEF Refund, PaysBack
<1>19. ASSUME NEW w \in Worker, DeleteMachine(w)
       PROVE  TypeOK'
  BY <1>19 DEF DeleteMachine, End, SetMachine, TypeOK, At, Statuses,
         Creating, Destroying, Settling, ProvisioningConstants, row, host,
         money, worker, past
<1>20. ASSUME NEW w \in Worker, DestroyClaim(w)
       PROVE  TypeOK'
  <2>0. At(w, "destroy") /\ UNCHANGED <<mode, old, machine, mapped, host, holder, money, past>>
    BY <1>20 DEF DestroyClaim
  <2>1. CASE status[on[w]] = seen[w] /\ SetStatus(on[w], "deleted")
             /\ seen[w] = "running" /\ Goto(w, "destroyStop")
    BY <2>0, <2>1 DEF Goto, End, SetStatus, TypeOK, At, Statuses, Creating,
            Destroying, Settling, ProvisioningConstants, row, host, money,
            worker, past
  <2>2. CASE status[on[w]] = seen[w] /\ SetStatus(on[w], "deleted")
             /\ seen[w] # "running" /\ Goto(w, "destroyMachine")
    BY <2>0, <2>2 DEF Goto, End, SetStatus, TypeOK, At, Statuses, Creating,
            Destroying, Settling, ProvisioningConstants, row, host, money,
            worker, past
  <2>3. CASE UNCHANGED status /\ End(w)
    BY <2>0, <2>3 DEF Goto, End, SetStatus, TypeOK, At, Statuses, Creating,
            Destroying, Settling, ProvisioningConstants, row, host, money,
            worker, past
  <2> QED BY <1>20, <2>1, <2>2, <2>3 DEF DestroyClaim
<1>21. ASSUME NEW w \in Worker, DestroyStop(w)
       PROVE  TypeOK'
  BY <1>21 DEF DestroyStop, Goto, SetMachine, TypeOK, At, Statuses,
         Creating, Destroying, Settling, ProvisioningConstants, row, host,
         money, worker, past
<1>22. ASSUME NEW w \in Worker, DestroyMachine(w)
       PROVE  TypeOK'
  BY <1>22 DEF DestroyMachine, Goto, SetMachine, TypeOK, At, Statuses,
         Creating, Destroying, Settling, ProvisioningConstants, row, host,
         money, worker, past
<1>23. ASSUME NEW w \in Worker, DestroyFails(w)
       PROVE  TypeOK'
  BY <1>23 DEF DestroyFails, End, SetStatus, SetMachine, TypeOK, At, Statuses, Creating,
         Destroying, Settling, ProvisioningConstants, row, host, money, worker, past
<1>24. ASSUME NEW w \in Worker, Settle(w)
       PROVE  TypeOK'
  BY <1>24 DEF Settle, Goto, TypeOK, At, Statuses, Creating, Destroying,
         Settling, ProvisioningConstants, row, host, money, worker, past
<1>25. ASSUME NEW w \in Worker, SettleFails(w)
       PROVE  TypeOK'
  BY <1>25 DEF SettleFails, End, TypeOK, At, Statuses, Creating, Destroying,
         Settling, ProvisioningConstants, row, host, money, worker, past
<1>26. ASSUME NEW w \in Worker, FreeResources(w)
       PROVE  TypeOK'
  BY <1>26 DEF FreeResources, Goto, Less, One, TypeOK, At, Statuses,
         Creating, Destroying, Settling, ProvisioningConstants, row, host,
         money, worker, past
<1>27. ASSUME NEW w \in Worker, CountResources(w)
       PROVE  TypeOK'
  BY <1>27, Counts DEF CountResources, TypeOK, At, Statuses, Creating,
         Destroying, Settling, ProvisioningConstants, row, host, money, worker, past
<1>28. ASSUME NEW w \in Worker, WriteResources(w)
       PROVE  TypeOK'
  BY <1>28 DEF WriteResources, End, TypeOK, At, Statuses, Creating,
         Destroying, Settling, ProvisioningConstants, row, host, money, worker, past
<1>29. ASSUME NEW w \in Worker, Crash(w)
       PROVE  TypeOK'
  BY <1>29 DEF Crash, End, TypeOK, At, Statuses, Creating, Destroying,
         Settling, ProvisioningConstants, row, host, money, worker, past
<1>30. CASE UNCHANGED vars
  BY <1>30 DEF vars, TypeOK, At, Statuses, Creating, Destroying, Settling,
         ProvisioningConstants, row, host, money, worker, past
<1> QED
  BY <1>1, <1>2, <1>3, <1>4, <1>5, <1>6, <1>7, <1>8, <1>9, <1>10, <1>11,
     <1>12, <1>13, <1>14, <1>15, <1>16, <1>17, <1>18, <1>19, <1>20, <1>21, <1>22,
     <1>23, <1>24, <1>25, <1>26, <1>27, <1>28, <1>29, <1>30
     DEF Next, Creation, Settlement, Destruction

(* The types of the state, for any instances, workers and faults.          *)
THEOREM TypeCorrect == ASSUME ProvisioningConstants PROVE Spec => []TypeOK
<1> SUFFICES ASSUME ProvisioningConstants PROVE Spec => []TypeOK
  OBVIOUS
<1>1. Init => TypeOK
  BY DEF Init, TypeOK, At, Statuses, Creating, Destroying, Settling, ProvisioningConstants
<1>2. TypeOK /\ [Next]_vars => TypeOK'
  BY TypeStep
<1> QED BY <1>1, <1>2, PTL DEF Spec

----------------------------------------------------------------------------
(* Machines                                                                *)

(* A worker that creates the machine of a row that does not run yet.       *)
Early(w) == pc[w] \in {"address", "pool", "create", "start", "confirm", "stop"}
Claims(w) == pc[w] \in {"destroy", "destroyStop", "destroyMachine"}
Claimed(w) == pc[w] \in {"destroyStop", "destroyMachine"}

(* It is alone with the row, which does not run, and which nobody has seen *)
(* running.                                                                *)
RowsKnown ==
    \A w \in Worker :
        /\ ~At(w, "idle") => status[on[w]] # "none"
        /\ Claims(w) => seen[w] \in {"running", "error"}

EarlyIsAlone ==
    \A w \in Worker : Early(w) =>
        /\ status[on[w]] # "running"
        /\ \A v \in Worker : on[v] = on[w] =>
             /\ Early(v) => v = w
             /\ Claims(v) => seen[v] # "running"

ConfirmedIsStarted == \A w \in Worker : At(w, "confirm") => machine[on[w]] = "running"

(* A row that is being destroyed is deleted, and one worker does it; a     *)
(* machine is stopped if its row was seen running.                         *)
OneDestroys ==
    \A w \in Worker : Claimed(w) =>
        /\ status[on[w]] = "deleted"
        /\ At(w, "destroyStop") => seen[w] = "running"
        /\ \A v \in Worker : Claimed(v) /\ on[v] = on[w] => v = w

Machines ==
    RowsKnown /\ EarlyIsAlone /\ ConfirmedIsStarted /\ OneDestroys /\ RunningHasMachine

LEMMA MachinesStep ==
    ASSUME ProvisioningConstants, TypeOK, Machines, [Next]_vars PROVE Machines'
<1> USE DEF Early, Claims, Claimed
<1>1. ASSUME NEW w \in Worker, NEW r \in Row, NEW m \in {"nat", "public"}, Reserve(w, r, m)
      PROVE  Machines'
  BY <1>1 DEF Reserve, Start, SetStatus, Larger, One, Machines, TypeOK, At,
         RowsKnown, EarlyIsAlone, ConfirmedIsStarted, OneDestroys,
         RunningHasMachine, row, host, money, worker, past
<1>2. ASSUME NEW w \in Worker, NEW r \in Row, BeginTimeout(w, r)
      PROVE  Machines'
  BY <1>2 DEF BeginTimeout, Machines, TypeOK, At, RowsKnown, EarlyIsAlone,
         ConfirmedIsStarted, OneDestroys, RunningHasMachine, row, host,
         money, worker, past
<1>3. ASSUME NEW w \in Worker, NEW r \in Row, BeginDestroy(w, r)
      PROVE  Machines'
  BY <1>3 DEF BeginDestroy, Start, Less, Machines, TypeOK, At, RowsKnown,
         EarlyIsAlone, ConfirmedIsStarted, OneDestroys, RunningHasMachine,
         row, host, money, worker, past
<1>4. ASSUME NEW r \in Row, GrowOld(r)
      PROVE  Machines'
  BY <1>4 DEF GrowOld, Machines, TypeOK, At, RowsKnown, EarlyIsAlone,
         ConfirmedIsStarted, OneDestroys, RunningHasMachine, row, host,
         money, worker, past
<1>5. ASSUME NEW w \in Worker, TakeAddress(w)
      PROVE  Machines'
  BY <1>5 DEF TakeAddress, Goto, Machines, TypeOK, At, RowsKnown,
         EarlyIsAlone, ConfirmedIsStarted, OneDestroys, RunningHasMachine,
         row, host, money, worker, past
<1>6. ASSUME NEW w \in Worker, PreparationFails(w)
      PROVE  Machines'
  BY <1>6 DEF PreparationFails, Goto, Machines, TypeOK, At, RowsKnown,
         EarlyIsAlone, ConfirmedIsStarted, OneDestroys, RunningHasMachine,
         row, host, money, worker, past
<1>7. ASSUME NEW w \in Worker, Prepared(w)
      PROVE  Machines'
  BY <1>7 DEF Prepared, Goto, Machines, TypeOK, At, RowsKnown, EarlyIsAlone,
         ConfirmedIsStarted, OneDestroys, RunningHasMachine, row, host,
         money, worker, past
<1>8. ASSUME NEW w \in Worker, CreateMachine(w)
      PROVE  Machines'
  BY <1>8 DEF CreateMachine, Goto, SetMachine, Machines, TypeOK, At,
         RowsKnown, EarlyIsAlone, ConfirmedIsStarted, OneDestroys,
         RunningHasMachine, row, host, money, worker, past
<1>9. ASSUME NEW w \in Worker, StartMachine(w)
      PROVE  Machines'
  BY <1>9 DEF StartMachine, Goto, SetMachine, Machines, TypeOK, At,
         RowsKnown, EarlyIsAlone, ConfirmedIsStarted, OneDestroys,
         RunningHasMachine, row, host, money, worker, past
<1>10. ASSUME NEW w \in Worker, HostFails(w)
       PROVE  Machines'
  BY <1>10 DEF HostFails, Throws, SetMachine, Machines, TypeOK, At,
         RowsKnown, EarlyIsAlone, ConfirmedIsStarted, OneDestroys,
         RunningHasMachine, row, host, money, worker, past
<1>11. ASSUME NEW w \in Worker, Confirm(w)
       PROVE  Machines'
  <2>0. At(w, "confirm") /\ UNCHANGED <<mode, old, machine, mapped, host, holder, money, past>>
    BY <1>11 DEF Confirm
  <2>1. CASE status[on[w]] = "creating" /\ SetStatus(on[w], "running") /\ Goto(w, "port")
    BY <2>0, <2>1 DEF Goto, SetStatus, Machines, TypeOK, At, RowsKnown,
            EarlyIsAlone, ConfirmedIsStarted, OneDestroys, RunningHasMachine,
            row, host, money, worker, past
  <2>2. CASE status[on[w]] # "creating" /\ UNCHANGED status /\ Goto(w, "stop")
    BY <2>0, <2>2 DEF Goto, SetStatus, Machines, TypeOK, At, RowsKnown,
            EarlyIsAlone, ConfirmedIsStarted, OneDestroys, RunningHasMachine,
            row, host, money, worker, past
  <2> QED BY <1>11, <2>1, <2>2 DEF Confirm
<1>12. ASSUME NEW w \in Worker, StopLate(w)
       PROVE  Machines'
  BY <1>12 DEF StopLate, End, SetMachine, Machines, TypeOK, At, RowsKnown,
         EarlyIsAlone, ConfirmedIsStarted, OneDestroys, RunningHasMachine,
         row, host, money, worker, past
<1>13. ASSUME NEW w \in Worker, MapPort(w)
       PROVE  Machines'
  BY <1>13 DEF MapPort, End, Machines, TypeOK, At, RowsKnown, EarlyIsAlone,
         ConfirmedIsStarted, OneDestroys, RunningHasMachine, row, host,
         money, worker, past
<1>14. ASSUME NEW w \in Worker, FinishFails(w)
       PROVE  Machines'
  BY <1>14 DEF FinishFails, Throws, Machines, TypeOK, At, RowsKnown,
         EarlyIsAlone, ConfirmedIsStarted, OneDestroys, RunningHasMachine,
         row, host, money, worker, past
<1>15. ASSUME NEW w \in Worker, Claim(w)
       PROVE  Machines'
  <2>0. At(w, "claim") /\ UNCHANGED <<mode, old, machine, mapped, host, holder, money, past>>
    BY <1>15 DEF Claim
  <2>1. CASE status[on[w]] = "creating" /\ SetStatus(on[w], "error") /\ Goto(w, "rollback")
    BY <2>0, <2>1 DEF Goto, End, SetStatus, Machines, TypeOK, At, RowsKnown,
            EarlyIsAlone, ConfirmedIsStarted, OneDestroys, RunningHasMachine,
            row, host, money, worker, past
  <2>2. CASE UNCHANGED status /\ Goto(w, "machine")
    BY <2>0, <2>2 DEF Goto, End, SetStatus, Machines, TypeOK, At, RowsKnown,
            EarlyIsAlone, ConfirmedIsStarted, OneDestroys, RunningHasMachine,
            row, host, money, worker, past
  <2>3. CASE UNCHANGED status /\ End(w)
    BY <2>0, <2>3 DEF Goto, End, SetStatus, Machines, TypeOK, At, RowsKnown,
            EarlyIsAlone, ConfirmedIsStarted, OneDestroys, RunningHasMachine,
            row, host, money, worker, past
  <2> QED BY <1>15, <2>1, <2>2, <2>3 DEF Claim
<1>16. ASSUME NEW w \in Worker, Rollback(w)
       PROVE  Machines'
  BY <1>16 DEF Rollback, Goto, Less, One, Machines, TypeOK, At, RowsKnown,
         EarlyIsAlone, ConfirmedIsStarted, OneDestroys, RunningHasMachine,
         row, host, money, worker, past
<1>17. ASSUME NEW w \in Worker, Release(w)
       PROVE  Machines'
  BY <1>17 DEF Release, Goto, Released, Machines, TypeOK, At, RowsKnown,
         EarlyIsAlone, ConfirmedIsStarted, OneDestroys, RunningHasMachine,
         row, host, money, worker, past
<1>18. ASSUME NEW w \in Worker, Refund(w)
       PROVE  Machines'
  <2>0. At(w, "refund") /\ UNCHANGED <<row, machine, mapped, host, holder, past>>
    BY <1>18 DEF Refund, PaysBack
  <2>1. CASE PaysBack(on[w]) /\ Goto(w, "machine")
    BY <2>0, <2>1 DEF Goto, End, Machines, TypeOK, At, RowsKnown,
            EarlyIsAlone, ConfirmedIsStarted, OneDestroys, RunningHasMachine,
            row, host, money, worker, past, PaysBack
  <2>2. CASE PaysBack(on[w]) /\ End(w)
    BY <2>0, <2>2 DEF Goto, End, Machines, TypeOK, At, RowsKnown,
            EarlyIsAlone, ConfirmedIsStarted, OneDestroys, RunningHasMachine,
            row, host, money, worker, past, PaysBack
  <2>3. CASE UNCHANGED money /\ Goto(w, "machine")
    BY <2>0, <2>3 DEF Goto, End, Machines, TypeOK, At, RowsKnown,
            EarlyIsAlone, ConfirmedIsStarted, OneDestroys, RunningHasMachine,
            row, host, money, worker, past, PaysBack
  <2>4. CASE UNCHANGED money /\ End(w)
    BY <2>0, <2>4 DEF Goto, End, Machines, TypeOK, At, RowsKnown,
            EarlyIsAlone, ConfirmedIsStarted, OneDestroys, RunningHasMachine,
            row, host, money, worker, past, PaysBack
  <2> QED BY <1>18, <2>1, <2>2, <2>3, <2>4 DEF Refund, PaysBack
<1>19. ASSUME NEW w \in Worker, DeleteMachine(w)
       PROVE  Machines'
  BY <1>19 DEF DeleteMachine, End, SetMachine, Machines, TypeOK, At,
         RowsKnown, EarlyIsAlone, ConfirmedIsStarted, OneDestroys,
         RunningHasMachine, row, host, money, worker, past
<1>20. ASSUME NEW w \in Worker, DestroyClaim(w)
       PROVE  Machines'
  <2>0. At(w, "destroy") /\ UNCHANGED <<mode, old, machine, mapped, host, holder, money, past>>
    BY <1>20 DEF DestroyClaim
  <2>1. CASE status[on[w]] = seen[w] /\ SetStatus(on[w], "deleted")
             /\ seen[w] = "running" /\ Goto(w, "destroyStop")
    BY <2>0, <2>1 DEF Goto, End, SetStatus, Machines, TypeOK, At, RowsKnown,
            EarlyIsAlone, ConfirmedIsStarted, OneDestroys, RunningHasMachine,
            row, host, money, worker, past
  <2>2. CASE status[on[w]] = seen[w] /\ SetStatus(on[w], "deleted")
             /\ seen[w] # "running" /\ Goto(w, "destroyMachine")
    BY <2>0, <2>2 DEF Goto, End, SetStatus, Machines, TypeOK, At, RowsKnown,
            EarlyIsAlone, ConfirmedIsStarted, OneDestroys, RunningHasMachine,
            row, host, money, worker, past
  <2>3. CASE UNCHANGED status /\ End(w)
    BY <2>0, <2>3 DEF Goto, End, SetStatus, Machines, TypeOK, At, RowsKnown,
            EarlyIsAlone, ConfirmedIsStarted, OneDestroys, RunningHasMachine,
            row, host, money, worker, past
  <2> QED BY <1>20, <2>1, <2>2, <2>3 DEF DestroyClaim
<1>21. ASSUME NEW w \in Worker, DestroyStop(w)
       PROVE  Machines'
  BY <1>21 DEF DestroyStop, Goto, SetMachine, Machines, TypeOK, At,
         RowsKnown, EarlyIsAlone, ConfirmedIsStarted, OneDestroys,
         RunningHasMachine, row, host, money, worker, past
<1>22. ASSUME NEW w \in Worker, DestroyMachine(w)
       PROVE  Machines'
  BY <1>22 DEF DestroyMachine, Goto, SetMachine, Machines, TypeOK, At,
         RowsKnown, EarlyIsAlone, ConfirmedIsStarted, OneDestroys,
         RunningHasMachine, row, host, money, worker, past
<1>23. ASSUME NEW w \in Worker, DestroyFails(w)
       PROVE  Machines'
  BY <1>23 DEF DestroyFails, End, SetStatus, SetMachine, Machines, TypeOK, At, RowsKnown,
         EarlyIsAlone, ConfirmedIsStarted, OneDestroys, RunningHasMachine,
         row, host, money, worker, past
<1>24. ASSUME NEW w \in Worker, Settle(w)
       PROVE  Machines'
  BY <1>24 DEF Settle, Goto, Machines, TypeOK, At, RowsKnown, EarlyIsAlone,
         ConfirmedIsStarted, OneDestroys, RunningHasMachine, row, host,
         money, worker, past
<1>25. ASSUME NEW w \in Worker, SettleFails(w)
       PROVE  Machines'
  BY <1>25 DEF SettleFails, End, Machines, TypeOK, At, RowsKnown,
         EarlyIsAlone, ConfirmedIsStarted, OneDestroys, RunningHasMachine,
         row, host, money, worker, past
<1>26. ASSUME NEW w \in Worker, FreeResources(w)
       PROVE  Machines'
  BY <1>26 DEF FreeResources, Goto, Less, One, Machines, TypeOK, At,
         RowsKnown, EarlyIsAlone, ConfirmedIsStarted, OneDestroys,
         RunningHasMachine, row, host, money, worker, past
<1>27. ASSUME NEW w \in Worker, CountResources(w)
       PROVE  Machines'
  BY <1>27 DEF CountResources, Machines, TypeOK, At, RowsKnown, EarlyIsAlone,
         ConfirmedIsStarted, OneDestroys, RunningHasMachine, row, host,
         money, worker, past
<1>28. ASSUME NEW w \in Worker, WriteResources(w)
       PROVE  Machines'
  BY <1>28 DEF WriteResources, End, Machines, TypeOK, At, RowsKnown,
         EarlyIsAlone, ConfirmedIsStarted, OneDestroys, RunningHasMachine,
         row, host, money, worker, past
<1>29. ASSUME NEW w \in Worker, Crash(w)
       PROVE  Machines'
  BY <1>29 DEF Crash, End, Machines, TypeOK, At, RowsKnown, EarlyIsAlone,
         ConfirmedIsStarted, OneDestroys, RunningHasMachine, row, host,
         money, worker, past
<1>30. CASE UNCHANGED vars
  BY <1>30 DEF vars, Machines, TypeOK, At, RowsKnown, EarlyIsAlone,
         ConfirmedIsStarted, OneDestroys, RunningHasMachine, row, host,
         money, worker, past
<1> QED
  BY <1>1, <1>2, <1>3, <1>4, <1>5, <1>6, <1>7, <1>8, <1>9, <1>10, <1>11,
     <1>12, <1>13, <1>14, <1>15, <1>16, <1>17, <1>18, <1>19, <1>20, <1>21, <1>22,
     <1>23, <1>24, <1>25, <1>26, <1>27, <1>28, <1>29, <1>30
     DEF Next, Creation, Settlement, Destruction

(* What runs has its machine, whatever fails and whoever gives up, unless  *)
(* a destruction that failed has given the row back.                       *)
THEOREM RunningHasMachineAlways ==
    ASSUME ProvisioningConstants PROVE Spec => []RunningHasMachine
<1> SUFFICES ASSUME ProvisioningConstants PROVE Spec => []RunningHasMachine
  OBVIOUS
<1>1. Init => Machines
  BY DEF Init, Machines, RowsKnown, EarlyIsAlone, ConfirmedIsStarted, OneDestroys,
         RunningHasMachine, Early, Claims, Claimed, At
<1>2. TypeOK /\ Machines /\ [Next]_vars => Machines'
  BY MachinesStep
<1>3. Machines => RunningHasMachine
  BY DEF Machines
<1> QED BY <1>1, <1>2, <1>3, TypeCorrect, PTL DEF Spec

----------------------------------------------------------------------------
(* Money                                                                   *)

Settles(w) == pc[w] \in {"rollback", "release", "refund"}
Destroys(w) == pc[w] \in Destroying
Pays(w) == pc[w] \in {"destroyStop", "destroyMachine", "settle"}

(* Who destroys found a row that was created or failed.                    *)
DestroysCreated ==
    \A w \in Worker : Destroys(w) =>
        /\ status[on[w]] \in {"running", "error", "deleted"}
        /\ Claims(w) => seen[w] \in {"running", "error"}

(* Who settles a failure does so alone; who destroys the row meanwhile has *)
(* seen the failure, and if he began before all was paid, he was hasty.    *)
SettlesAlone ==
    \A w \in Worker : Settles(w) =>
        /\ status[on[w]] \in {"error", "deleted"}
        /\ \A v \in Worker : on[v] = on[w] =>
             (Settles(v) => v = w) /\ (Claims(v) => seen[v] = "error")
        /\ ~hasty[on[w]] =>
             /\ status[on[w]] = "error"
             /\ paidBack[on[w]] = 0
             /\ \A v \in Worker : on[v] = on[w] => ~Destroys(v)

(* Who claimed a row pays alone, and what he owes was not paid back.       *)
PaysAlone ==
    \A w \in Worker : Pays(w) =>
        /\ status[on[w]] = "deleted"
        /\ ~hasty[on[w]] => owed[w] + paidBack[on[w]] <= 1
        /\ Claimed(w) /\ seen[w] = "running" => paidBack[on[w]] = 0
        /\ \A v \in Worker : on[v] = on[w] /\ Pays(v) => v = w

(* Who has not claimed yet owes as much, or comes too late.                *)
Gone(r) == status[r] = "deleted" /\ \A v \in Worker : on[v] = r => ~Claimed(v)

QuotesInTime ==
    \A w \in Worker : At(w, "destroy") =>
        \/ Gone(on[w])
        \/ /\ ~hasty[on[w]] => owed[w] + paidBack[on[w]] <= 1
           /\ seen[w] = "running" => paidBack[on[w]] = 0

Money == DestroysCreated /\ SettlesAlone /\ PaysAlone /\ QuotesInTime /\ PaidBackOnce

LEMMA MoneyStep ==
    ASSUME ProvisioningConstants, TypeOK, RowsKnown, Money, [Next]_vars
    PROVE  Money'
<1> USE DEF Settles, Destroys, Pays, Claims, Claimed, Destroying, Settling, Unpaid
<1>1. ASSUME NEW w \in Worker, NEW r \in Row, NEW m \in {"nat", "public"}, Reserve(w, r, m)
      PROVE  Money'
  BY <1>1 DEF Reserve, Start, SetStatus, Larger, One, Money, TypeOK, At,
         RowsKnown, DestroysCreated, SettlesAlone, PaysAlone, QuotesInTime,
         Gone, PaidBackOnce, row, host, money, worker, past
<1>2. ASSUME NEW w \in Worker, NEW r \in Row, BeginTimeout(w, r)
      PROVE  Money'
  BY <1>2 DEF BeginTimeout, Money, TypeOK, At, RowsKnown, DestroysCreated,
         SettlesAlone, PaysAlone, QuotesInTime, Gone, PaidBackOnce, row,
         host, money, worker, past
<1>3. ASSUME NEW w \in Worker, NEW r \in Row, BeginDestroy(w, r)
      PROVE  Money'
  <2>1. /\ At(w, "idle") /\ status[r] \in {"running", "error"}
        /\ pc' = [pc EXCEPT ![w] = "destroy"] /\ on' = [on EXCEPT ![w] = r]
        /\ seen' = [seen EXCEPT ![w] = status[r]]
        /\ owed' = [owed EXCEPT ![w] = IF 1 > paidBack[r] THEN 1 - paidBack[r] ELSE 0]
        /\ UNCHANGED <<status, paidBack>>
    BY <1>3 DEF BeginDestroy, Start, Less, row, money
  <2>2. \A q \in Row : hasty[q] => hasty'[q]
    BY <1>3, Zenon DEF BeginDestroy, TypeOK
  <2>3. \A q \in Row : ~hasty'[q] => ~hasty[q]
    BY <2>2
  <2>4. ~hasty'[r] => \A v \in Worker : on[v] = r => ~Settles(v)
    BY <1>3, Zenon DEF BeginDestroy, TypeOK, Settles, Unpaid
  <2>5. \A v \in Worker : v # w => on'[v] = on[v] /\ pc'[v] = pc[v] /\ seen'[v] = seen[v]
                                                  /\ owed'[v] = owed[v]
    BY <2>1 DEF TypeOK
  <2>6. on'[w] = r /\ pc'[w] = "destroy" /\ seen'[w] = status[r]
    BY <2>1 DEF TypeOK
  <2>7. DestroysCreated'
    BY <2>1, <2>5, <2>6 DEF Money, DestroysCreated, TypeOK, At
  <2>8. SettlesAlone'
    <3> SUFFICES ASSUME NEW v \in Worker, Settles(v)' PROVE
             /\ status'[on'[v]] \in {"error", "deleted"}
             /\ \A u \in Worker : on'[u] = on'[v] =>
                  (Settles(u)' => u = v) /\ (Claims(u)' => seen'[u] = "error")
             /\ ~hasty'[on'[v]] =>
                  /\ status'[on'[v]] = "error"
                  /\ paidBack'[on'[v]] = 0
                  /\ \A u \in Worker : on'[u] = on'[v] => ~Destroys(u)'
      BY DEF SettlesAlone
    <3>1. v # w /\ Settles(v) /\ on[v] \in Row
      BY <2>5, <2>6 DEF TypeOK, At
    <3>2. /\ status[on[v]] \in {"error", "deleted"}
          /\ \A u \in Worker : on[u] = on[v] =>
               (Settles(u) => u = v) /\ (Claims(u) => seen[u] = "error")
          /\ ~hasty[on[v]] => /\ status[on[v]] = "error" /\ paidBack[on[v]] = 0
                             /\ \A u \in Worker : on[u] = on[v] => ~Destroys(u)
      BY <3>1 DEF Money, SettlesAlone
    <3>3. on[v] = r => hasty'[r]
      BY <2>4, <3>1
    <3>4. ~hasty'[on[v]] => on[v] # r /\ ~hasty[on[v]]
      BY <2>3, <3>1, <3>3
    <3>5. UNCHANGED <<status, paidBack>>
      BY <2>1
    <3> QED BY <2>1, <2>5, <2>6, <3>1, <3>2, <3>4, <3>5
  <2>9. PaysAlone'
    BY <2>1, <2>3, <2>5, <2>6 DEF Money, PaysAlone, TypeOK, At
  <2>10. QuotesInTime'
    <3> SUFFICES ASSUME NEW v \in Worker, At(v, "destroy")' PROVE
             \/ Gone(on[v])'
             \/ /\ ~hasty'[on'[v]] => owed'[v] + paidBack'[on'[v]] <= 1
                /\ seen'[v] = "running" => paidBack'[on'[v]] = 0
      BY DEF QuotesInTime
    <3>1. CASE v = w
      <4>1. ~hasty'[r] => paidBack[r] <= 1
        BY <2>3 DEF Money, PaidBackOnce
      <4>2. status[r] = "running" => paidBack[r] = 0
        BY DEF Money, PaidBackOnce, TypeOK
      <4> QED BY <2>1, <2>6, <3>1, <4>1, <4>2 DEF TypeOK
    <3>2. CASE v # w
      <4>1. At(v, "destroy") /\ on[v] \in Row
        BY <2>5, <3>2 DEF At, TypeOK
      <4>2. \/ Gone(on[v])
            \/ /\ ~hasty[on[v]] => owed[v] + paidBack[on[v]] <= 1
               /\ seen[v] = "running" => paidBack[on[v]] = 0
        BY <4>1 DEF Money, QuotesInTime
      <4>3. Gone(on[v]) => Gone(on[v])'
        BY <2>1, <2>5, <2>6, <3>2 DEF Gone
      <4> QED BY <2>1, <2>3, <2>5, <3>2, <4>1, <4>2, <4>3
    <3> QED BY <3>1, <3>2
  <2>11. PaidBackOnce'
    BY <2>1, <2>2 DEF Money, PaidBackOnce
  <2> QED BY <2>7, <2>8, <2>9, <2>10, <2>11 DEF Money
<1>4. ASSUME NEW r \in Row, GrowOld(r)
      PROVE  Money'
  BY <1>4 DEF GrowOld, Money, TypeOK, At, RowsKnown, DestroysCreated,
         SettlesAlone, PaysAlone, QuotesInTime, Gone, PaidBackOnce, row,
         host, money, worker, past
<1>5. ASSUME NEW w \in Worker, TakeAddress(w)
      PROVE  Money'
  BY <1>5 DEF TakeAddress, Goto, Money, TypeOK, At, RowsKnown,
         DestroysCreated, SettlesAlone, PaysAlone, QuotesInTime, Gone,
         PaidBackOnce, row, host, money, worker, past
<1>6. ASSUME NEW w \in Worker, PreparationFails(w)
      PROVE  Money'
  BY <1>6 DEF PreparationFails, Goto, Money, TypeOK, At, RowsKnown,
         DestroysCreated, SettlesAlone, PaysAlone, QuotesInTime, Gone,
         PaidBackOnce, row, host, money, worker, past
<1>7. ASSUME NEW w \in Worker, Prepared(w)
      PROVE  Money'
  BY <1>7 DEF Prepared, Goto, Money, TypeOK, At, RowsKnown, DestroysCreated,
         SettlesAlone, PaysAlone, QuotesInTime, Gone, PaidBackOnce, row,
         host, money, worker, past
<1>8. ASSUME NEW w \in Worker, CreateMachine(w)
      PROVE  Money'
  BY <1>8 DEF CreateMachine, Goto, SetMachine, Money, TypeOK, At, RowsKnown,
         DestroysCreated, SettlesAlone, PaysAlone, QuotesInTime, Gone,
         PaidBackOnce, row, host, money, worker, past
<1>9. ASSUME NEW w \in Worker, StartMachine(w)
      PROVE  Money'
  BY <1>9 DEF StartMachine, Goto, SetMachine, Money, TypeOK, At, RowsKnown,
         DestroysCreated, SettlesAlone, PaysAlone, QuotesInTime, Gone,
         PaidBackOnce, row, host, money, worker, past
<1>10. ASSUME NEW w \in Worker, HostFails(w)
       PROVE  Money'
  BY <1>10 DEF HostFails, Throws, SetMachine, Money, TypeOK, At, RowsKnown,
         DestroysCreated, SettlesAlone, PaysAlone, QuotesInTime, Gone,
         PaidBackOnce, row, host, money, worker, past
<1>11. ASSUME NEW w \in Worker, Confirm(w)
       PROVE  Money'
  <2>0. At(w, "confirm") /\ UNCHANGED <<mode, old, machine, mapped, host, holder, money, past>>
    BY <1>11 DEF Confirm
  <2>1. CASE status[on[w]] = "creating" /\ SetStatus(on[w], "running") /\ Goto(w, "port")
    BY <2>0, <2>1 DEF Goto, SetStatus, Money, TypeOK, At, RowsKnown,
            DestroysCreated, SettlesAlone, PaysAlone, QuotesInTime, Gone,
            PaidBackOnce, row, host, money, worker, past
  <2>2. CASE status[on[w]] # "creating" /\ UNCHANGED status /\ Goto(w, "stop")
    BY <2>0, <2>2 DEF Goto, SetStatus, Money, TypeOK, At, RowsKnown,
            DestroysCreated, SettlesAlone, PaysAlone, QuotesInTime, Gone,
            PaidBackOnce, row, host, money, worker, past
  <2> QED BY <1>11, <2>1, <2>2 DEF Confirm
<1>12. ASSUME NEW w \in Worker, StopLate(w)
       PROVE  Money'
  BY <1>12 DEF StopLate, End, SetMachine, Money, TypeOK, At, RowsKnown,
         DestroysCreated, SettlesAlone, PaysAlone, QuotesInTime, Gone,
         PaidBackOnce, row, host, money, worker, past
<1>13. ASSUME NEW w \in Worker, MapPort(w)
       PROVE  Money'
  BY <1>13 DEF MapPort, End, Money, TypeOK, At, RowsKnown, DestroysCreated,
         SettlesAlone, PaysAlone, QuotesInTime, Gone, PaidBackOnce, row,
         host, money, worker, past
<1>14. ASSUME NEW w \in Worker, FinishFails(w)
       PROVE  Money'
  BY <1>14 DEF FinishFails, Throws, Money, TypeOK, At, RowsKnown,
         DestroysCreated, SettlesAlone, PaysAlone, QuotesInTime, Gone,
         PaidBackOnce, row, host, money, worker, past
<1>15. ASSUME NEW w \in Worker, Claim(w)
       PROVE  Money'
  <2>0. At(w, "claim") /\ UNCHANGED <<mode, old, machine, mapped, host, holder, money, past>>
    BY <1>15 DEF Claim
  <2>1. CASE status[on[w]] = "creating" /\ SetStatus(on[w], "error") /\ Goto(w, "rollback")
    <3>1. paidBack[on[w]] = 0
      <4>1. on[w] \in Row
        BY <2>0 DEF TypeOK, At
      <4>2. paidBack[on[w]] \in Nat /\ paidBack[on[w]] <= 1 /\ paidBack[on[w]] # 1
        BY <4>1, <2>1 DEF Money, PaidBackOnce, TypeOK
      <4> QED BY <4>2, SMT
    <3>2. \A v \in Worker : on[v] = on[w] => ~Destroys(v) /\ ~Settles(v) /\ ~Pays(v)
      BY <2>0, <2>1 DEF Money, DestroysCreated, SettlesAlone, TypeOK, At
    <3>3. /\ on[w] \in Row
          /\ \A v \in Worker : ~At(v, "idle") => on[v] \in Row
          /\ pc' = [pc EXCEPT ![w] = "rollback"]
          /\ status' = [status EXCEPT ![on[w]] = "error"]
          /\ UNCHANGED <<on, seen, owed, paidBack, hasty>>
      BY <2>0, <2>1 DEF Goto, SetStatus, TypeOK, At, worker, money, past
    <3>4. DestroysCreated'
      BY <3>2, <3>3 DEF Money, DestroysCreated, TypeOK, At
    <3>5. SettlesAlone'
      BY <3>1, <3>2, <3>3 DEF Money, SettlesAlone, TypeOK, At
    <3>6. PaysAlone'
      BY <3>2, <3>3 DEF Money, PaysAlone, TypeOK, At
    <3>7. QuotesInTime'
      BY <3>2, <3>3 DEF Money, QuotesInTime, Gone, TypeOK, At
    <3>8. PaidBackOnce'
      BY <3>1, <3>3 DEF Money, PaidBackOnce, TypeOK
    <3> QED BY <3>4, <3>5, <3>6, <3>7, <3>8 DEF Money
  <2>2. CASE UNCHANGED status /\ Goto(w, "machine")
    BY <2>0, <2>2 DEF Goto, End, SetStatus, Money, TypeOK, At, RowsKnown,
            DestroysCreated, SettlesAlone, PaysAlone, QuotesInTime, Gone,
            PaidBackOnce, row, host, money, worker, past
  <2>3. CASE UNCHANGED status /\ End(w)
    BY <2>0, <2>3 DEF Goto, End, SetStatus, Money, TypeOK, At, RowsKnown,
            DestroysCreated, SettlesAlone, PaysAlone, QuotesInTime, Gone,
            PaidBackOnce, row, host, money, worker, past
  <2> QED BY <1>15, <2>1, <2>2, <2>3 DEF Claim
<1>16. ASSUME NEW w \in Worker, Rollback(w)
       PROVE  Money'
  BY <1>16 DEF Rollback, Goto, Less, One, Money, TypeOK, At, RowsKnown,
         DestroysCreated, SettlesAlone, PaysAlone, QuotesInTime, Gone,
         PaidBackOnce, row, host, money, worker, past
<1>17. ASSUME NEW w \in Worker, Release(w)
       PROVE  Money'
  BY <1>17 DEF Release, Goto, Released, Money, TypeOK, At, RowsKnown,
         DestroysCreated, SettlesAlone, PaysAlone, QuotesInTime, Gone,
         PaidBackOnce, row, host, money, worker, past
<1>18. ASSUME NEW w \in Worker, Refund(w)
       PROVE  Money'
  <2>0. At(w, "refund") /\ UNCHANGED <<row, machine, mapped, host, holder, past>>
    BY <1>18 DEF Refund, PaysBack
  <2>1. CASE PaysBack(on[w]) /\ Goto(w, "machine")
    BY <2>0, <2>1 DEF Goto, End, Money, TypeOK, At, RowsKnown,
            DestroysCreated, SettlesAlone, PaysAlone, QuotesInTime, Gone,
            PaidBackOnce, row, host, money, worker, past, PaysBack
  <2>2. CASE PaysBack(on[w]) /\ End(w)
    BY <2>0, <2>2 DEF Goto, End, Money, TypeOK, At, RowsKnown,
            DestroysCreated, SettlesAlone, PaysAlone, QuotesInTime, Gone,
            PaidBackOnce, row, host, money, worker, past, PaysBack
  <2>3. CASE UNCHANGED money /\ Goto(w, "machine")
    BY <2>0, <2>3 DEF Goto, End, Money, TypeOK, At, RowsKnown,
            DestroysCreated, SettlesAlone, PaysAlone, QuotesInTime, Gone,
            PaidBackOnce, row, host, money, worker, past, PaysBack
  <2>4. CASE UNCHANGED money /\ End(w)
    BY <2>0, <2>4 DEF Goto, End, Money, TypeOK, At, RowsKnown,
            DestroysCreated, SettlesAlone, PaysAlone, QuotesInTime, Gone,
            PaidBackOnce, row, host, money, worker, past, PaysBack
  <2> QED BY <1>18, <2>1, <2>2, <2>3, <2>4 DEF Refund, PaysBack
<1>19. ASSUME NEW w \in Worker, DeleteMachine(w)
       PROVE  Money'
  BY <1>19 DEF DeleteMachine, End, SetMachine, Money, TypeOK, At, RowsKnown,
         DestroysCreated, SettlesAlone, PaysAlone, QuotesInTime, Gone,
         PaidBackOnce, row, host, money, worker, past
<1>20. ASSUME NEW w \in Worker, DestroyClaim(w)
       PROVE  Money'
  <2>0. At(w, "destroy") /\ UNCHANGED <<mode, old, machine, mapped, host, holder, money, past>>
    BY <1>20 DEF DestroyClaim
  <2>1. CASE status[on[w]] = seen[w] /\ SetStatus(on[w], "deleted")
             /\ seen[w] = "running" /\ Goto(w, "destroyStop")
    BY <2>0, <2>1 DEF Goto, End, SetStatus, Money, TypeOK, At, RowsKnown,
            DestroysCreated, SettlesAlone, PaysAlone, QuotesInTime, Gone,
            PaidBackOnce, row, host, money, worker, past
  <2>2. CASE status[on[w]] = seen[w] /\ SetStatus(on[w], "deleted")
             /\ seen[w] # "running" /\ Goto(w, "destroyMachine")
    BY <2>0, <2>2 DEF Goto, End, SetStatus, Money, TypeOK, At, RowsKnown,
            DestroysCreated, SettlesAlone, PaysAlone, QuotesInTime, Gone,
            PaidBackOnce, row, host, money, worker, past
  <2>3. CASE UNCHANGED status /\ End(w)
    BY <2>0, <2>3 DEF Goto, End, SetStatus, Money, TypeOK, At, RowsKnown,
            DestroysCreated, SettlesAlone, PaysAlone, QuotesInTime, Gone,
            PaidBackOnce, row, host, money, worker, past
  <2> QED BY <1>20, <2>1, <2>2, <2>3 DEF DestroyClaim
<1>21. ASSUME NEW w \in Worker, DestroyStop(w)
       PROVE  Money'
  BY <1>21 DEF DestroyStop, Goto, SetMachine, Money, TypeOK, At,
         RowsKnown, DestroysCreated, SettlesAlone, PaysAlone, QuotesInTime,
         Gone, PaidBackOnce, row, host, money, worker, past
<1>22. ASSUME NEW w \in Worker, DestroyMachine(w)
       PROVE  Money'
  BY <1>22 DEF DestroyMachine, Goto, SetMachine, Money, TypeOK, At,
         RowsKnown, DestroysCreated, SettlesAlone, PaysAlone, QuotesInTime,
         Gone, PaidBackOnce, row, host, money, worker, past
<1>23. ASSUME NEW w \in Worker, DestroyFails(w)
       PROVE  Money'
  BY <1>23 DEF DestroyFails, End, SetStatus, SetMachine, Money, TypeOK, At, RowsKnown,
         DestroysCreated, SettlesAlone, PaysAlone, QuotesInTime, Gone,
         PaidBackOnce, row, host, money, worker, past
<1>24. ASSUME NEW w \in Worker, Settle(w)
       PROVE  Money'
  BY <1>24 DEF Settle, Goto, Money, TypeOK, At, RowsKnown, DestroysCreated,
         SettlesAlone, PaysAlone, QuotesInTime, Gone, PaidBackOnce, row,
         host, money, worker, past
<1>25. ASSUME NEW w \in Worker, SettleFails(w)
       PROVE  Money'
  BY <1>25 DEF SettleFails, End, Money, TypeOK, At, RowsKnown,
         DestroysCreated, SettlesAlone, PaysAlone, QuotesInTime, Gone,
         PaidBackOnce, row, host, money, worker, past
<1>26. ASSUME NEW w \in Worker, FreeResources(w)
       PROVE  Money'
  BY <1>26 DEF FreeResources, Goto, Less, One, Money, TypeOK, At, RowsKnown,
         DestroysCreated, SettlesAlone, PaysAlone, QuotesInTime, Gone,
         PaidBackOnce, row, host, money, worker, past
<1>27. ASSUME NEW w \in Worker, CountResources(w)
       PROVE  Money'
  BY <1>27 DEF CountResources, Money, TypeOK, At, RowsKnown, DestroysCreated,
         SettlesAlone, PaysAlone, QuotesInTime, Gone, PaidBackOnce, row,
         host, money, worker, past
<1>28. ASSUME NEW w \in Worker, WriteResources(w)
       PROVE  Money'
  BY <1>28 DEF WriteResources, End, Money, TypeOK, At, RowsKnown,
         DestroysCreated, SettlesAlone, PaysAlone, QuotesInTime, Gone,
         PaidBackOnce, row, host, money, worker, past
<1>29. ASSUME NEW w \in Worker, Crash(w)
       PROVE  Money'
  BY <1>29 DEF Crash, End, Money, TypeOK, At, RowsKnown, DestroysCreated,
         SettlesAlone, PaysAlone, QuotesInTime, Gone, PaidBackOnce, row,
         host, money, worker, past
<1>30. CASE UNCHANGED vars
  BY <1>30 DEF vars, Money, TypeOK, At, RowsKnown, DestroysCreated,
         SettlesAlone, PaysAlone, QuotesInTime, Gone, PaidBackOnce, row,
         host, money, worker, past
<1> QED
  BY <1>1, <1>2, <1>3, <1>4, <1>5, <1>6, <1>7, <1>8, <1>9, <1>10, <1>11,
     <1>12, <1>13, <1>14, <1>15, <1>16, <1>17, <1>18, <1>19, <1>20, <1>21, <1>22,
     <1>23, <1>24, <1>25, <1>26, <1>27, <1>28, <1>29, <1>30
     DEF Next, Creation, Settlement, Destruction

(* The price of an instance comes back once at most - unless a destruction *)
(* read what is refundable while a settlement had still to pay -, and never*)
(* while it runs, whatever fails and whoever dies.                         *)
THEOREM PaidBackOnceAlways ==
    ASSUME ProvisioningConstants PROVE Spec => []PaidBackOnce
<1> SUFFICES ASSUME ProvisioningConstants PROVE Spec => []PaidBackOnce
  OBVIOUS
<1>1. Init => Machines /\ Money
  BY DEF Init, Machines, RowsKnown, EarlyIsAlone, ConfirmedIsStarted, OneDestroys,
         RunningHasMachine, Early, Claims, Claimed, At, Money, DestroysCreated, SettlesAlone,
         PaysAlone, QuotesInTime, PaidBackOnce, Settles, Destroys, Pays, Destroying
<1>2. TypeOK /\ Machines /\ Money /\ [Next]_vars => (Machines /\ Money)'
  BY MachinesStep, MoneyStep DEF Machines
<1>3. Money => PaidBackOnce
  BY DEF Money
<1> QED BY <1>1, <1>2, <1>3, TypeCorrect, PTL DEF Spec

----------------------------------------------------------------------------
(* What a failed creation leaves                                           *)

(* A creation has read nothing, and asks for no clean-up unless it throws. *)
CreationsAreFresh ==
    \A w \in Worker : At(w, "idle") \/ Early(w) \/ At(w, "port") =>
        /\ seen[w] = "none"
        /\ ~catch[w]
        /\ At(w, "idle") => on[w] = None

(* Who takes an address is alone with a row that is not old.               *)
TakesAlone ==
    \A w \in Worker : At(w, "address") =>
        /\ status[on[w]] = "creating"
        /\ ~old[on[w]]
        /\ \A v \in Worker : on[v] = on[w] => v = w

(* A row that is not in use has no past.                                   *)
UnusedIsFresh ==
    \A r \in Row : status[r] = "none" => machine[r] = "none" /\ ~old[r]

(* Before a creation asks the host for a machine there is none, and so     *)
(* after one that failed before that.                                      *)
NothingYet ==
    /\ \A w \in Worker : pc[w] \in {"address", "pool", "create"} => machine[on[w]] = "none"
    /\ \A w \in Worker : At(w, "claim") /\ ~catch[w] =>
         /\ machine[on[w]] = "none"
         /\ \A v \in Worker : on[v] = on[w] => ~Early(v)

(* Whoever settles a creation settles one that has failed, and nothing was *)
(* paid back before.                                                       *)
Decided ==
    /\ \A w \in Worker : Settles(w) => status[on[w]] \in {"error", "deleted"}
    /\ \A w \in Worker : At(w, "settle") =>
         /\ status[on[w]] = "deleted"
         /\ \A v \in Worker : Claimed(v) => on[v] # on[w]
    /\ \A r \in Row : status[r] \in {"none", "creating"} => ~recorded[r] /\ paidBack[r] = 0

(* An address is held by a row in use.                                     *)
HolderKnown == \A a \in Address, r \in Row : holder[a] = r => status[r] # "none"

(* The invariants of a creation that has not failed yet.                   *)
Beginnings ==
    /\ CreationsAreFresh /\ TakesAlone /\ UnusedIsFresh
    /\ NothingYet /\ Decided /\ HolderKnown

LEMMA FreshStep ==
    ASSUME Faults \subseteq {"rollback", "create"},
           TypeOK, CreationsAreFresh, [Next]_vars
    PROVE  CreationsAreFresh'
<1> USE DEF Early
<1>1. ASSUME NEW w \in Worker, NEW q \in Row, NEW m \in {"nat", "public"}, Reserve(w, q, m)
      PROVE  CreationsAreFresh'
  BY <1>1 DEF Reserve, Start, SetStatus, Larger, One, CreationsAreFresh, TypeOK, At, row, host,
     money, worker, past
<1>2. ASSUME NEW w \in Worker, NEW q \in Row, BeginTimeout(w, q)
      PROVE  CreationsAreFresh'
  BY <1>2 DEF BeginTimeout, CreationsAreFresh, TypeOK, At, row, host, money, worker, past
<1>3. ASSUME NEW w \in Worker, NEW q \in Row, BeginDestroy(w, q)
      PROVE  CreationsAreFresh'
  BY <1>3 DEF BeginDestroy, Start, Less, CreationsAreFresh, TypeOK, At, row, host, money,
     worker, past
<1>4. ASSUME NEW q \in Row, GrowOld(q)
      PROVE  CreationsAreFresh'
  BY <1>4 DEF GrowOld, CreationsAreFresh, TypeOK, At, row, host, money, worker, past
<1>5. ASSUME NEW w \in Worker, PreparationFails(w) \/ Prepared(w) \/ MapPort(w) \/ Rollback(w) \/
             SettleFails(w) \/ CountResources(w) \/ WriteResources(w) \/ Crash(w)
      PROVE  CreationsAreFresh'
  BY <1>5 DEF PreparationFails, Prepared, MapPort, Rollback, SettleFails, CountResources,
     WriteResources, Crash, End, Goto, Less, One, CreationsAreFresh, TypeOK, At, row, host,
     money, worker, past
<1>6. ASSUME NEW w \in Worker, CreateMachine(w) \/ StartMachine(w) \/ StopLate(w) \/
             DeleteMachine(w) \/ DestroyMachine(w) \/ DestroyStop(w)
      PROVE  CreationsAreFresh'
  BY <1>6 DEF CreateMachine, StartMachine, StopLate, DeleteMachine, DestroyMachine, DestroyStop,
     End, Goto,
     SetMachine, CreationsAreFresh, TypeOK, At, row, host, money, worker, past
<1>7. ASSUME NEW w \in Worker, HostFails(w) \/ FinishFails(w)
      PROVE  CreationsAreFresh'
  BY <1>7 DEF HostFails, FinishFails, SetMachine, Throws, CreationsAreFresh, TypeOK, At, row,
     host, money, worker, past
<1>8. ASSUME NEW w \in Worker, TakeAddress(w) \/ Release(w)
      PROVE  CreationsAreFresh'
  BY <1>8 DEF TakeAddress, Release, Goto, Released, CreationsAreFresh, TypeOK, At, row, host,
     money, worker, past
<1>9. ASSUME NEW w \in Worker, Confirm(w) \/ Claim(w)
      PROVE  CreationsAreFresh'
  BY <1>9 DEF Confirm, Claim, End, Goto, SetStatus, CreationsAreFresh, TypeOK, At, row, host,
     money, worker, past
<1>10. ASSUME NEW w \in Worker, DestroyClaim(w) \/ DestroyFails(w)
      PROVE  CreationsAreFresh'
  BY <1>10 DEF DestroyClaim, DestroyFails, End, Goto, SetStatus, SetMachine, CreationsAreFresh,
     TypeOK, At,
     row, host, money, worker, past
<1>11. ASSUME NEW w \in Worker, Refund(w) \/ Settle(w) \/ FreeResources(w)
      PROVE  CreationsAreFresh'
  BY <1>11 DEF Refund, Settle, FreeResources, End, Goto, Less, One, CreationsAreFresh, TypeOK,
     At, row, host, money, worker, past
<1>12. CASE UNCHANGED vars
  BY <1>12 DEF vars, CreationsAreFresh, TypeOK, At, row, host, money, worker, past
<1> QED
  BY <1>1, <1>2, <1>3, <1>4, <1>5, <1>6, <1>7, <1>8, <1>9, <1>10, <1>11, <1>12 DEF Next,
     Creation, Settlement, Destruction

LEMMA TakesStep ==
    ASSUME ProvisioningConstants, Faults \subseteq {"rollback", "create"},
           TypeOK, RowsKnown, CreationsAreFresh, UnusedIsFresh, TakesAlone, [Next]_vars
    PROVE  TakesAlone'
<1>1. ASSUME NEW w \in Worker, NEW q \in Row, NEW m \in {"nat", "public"}, Reserve(w, q, m)
      PROVE  TakesAlone'
  <2>1. /\ At(w, "idle") /\ status[q] = "none"
        /\ pc' = [pc EXCEPT ![w] = "address"] /\ on' = [on EXCEPT ![w] = q]
        /\ status' = [status EXCEPT ![q] = "creating"]
        /\ UNCHANGED <<old, machine, holder, paidBack, recorded, catch, seen>>
    BY <1>1 DEF Reserve, Start, SetStatus
  <2> QED BY <2>1 DEF TakesAlone, CreationsAreFresh, UnusedIsFresh, RowsKnown, TypeOK, At,
     Early, ProvisioningConstants
<1>2. ASSUME NEW w \in Worker, NEW q \in Row, BeginTimeout(w, q)
      PROVE  TakesAlone'
  BY <1>2 DEF BeginTimeout, TakesAlone, CreationsAreFresh, UnusedIsFresh, RowsKnown, TypeOK, At,
     Early, ProvisioningConstants, row, host, money, worker, past
<1>3. ASSUME NEW w \in Worker, NEW q \in Row, BeginDestroy(w, q)
      PROVE  TakesAlone'
  BY <1>3 DEF BeginDestroy, Start, Less, TakesAlone, CreationsAreFresh, UnusedIsFresh,
     RowsKnown, TypeOK, At, Early, ProvisioningConstants, row, host, money, worker, past
<1>4. ASSUME NEW q \in Row, GrowOld(q)
      PROVE  TakesAlone'
  BY <1>4 DEF GrowOld, TakesAlone, CreationsAreFresh, UnusedIsFresh, RowsKnown, TypeOK, At,
     Early, ProvisioningConstants, row, host, money, worker, past
<1>5. ASSUME NEW w \in Worker, PreparationFails(w) \/ Prepared(w) \/ MapPort(w) \/ Rollback(w) \/
             SettleFails(w) \/ CountResources(w) \/ WriteResources(w) \/ Crash(w)
      PROVE  TakesAlone'
  BY <1>5 DEF PreparationFails, Prepared, MapPort, Rollback, SettleFails, CountResources,
     WriteResources, Crash, End, Goto, Less, One, TakesAlone, CreationsAreFresh, UnusedIsFresh,
     RowsKnown, TypeOK, At, Early, ProvisioningConstants, row, host, money, worker, past
<1>6. ASSUME NEW w \in Worker, CreateMachine(w) \/ StartMachine(w) \/ StopLate(w) \/
             DeleteMachine(w) \/ DestroyMachine(w) \/ DestroyStop(w)
      PROVE  TakesAlone'
  BY <1>6 DEF CreateMachine, StartMachine, StopLate, DeleteMachine, DestroyMachine, DestroyStop,
     End, Goto,
     SetMachine, TakesAlone, CreationsAreFresh, UnusedIsFresh, RowsKnown, TypeOK, At, Early,
     ProvisioningConstants, row, host, money, worker, past
<1>7. ASSUME NEW w \in Worker, HostFails(w) \/ FinishFails(w)
      PROVE  TakesAlone'
  BY <1>7 DEF HostFails, FinishFails, SetMachine, Throws, TakesAlone, CreationsAreFresh,
     UnusedIsFresh, RowsKnown, TypeOK, At, Early, ProvisioningConstants, row, host, money,
     worker, past
<1>8. ASSUME NEW w \in Worker, TakeAddress(w) \/ Release(w)
      PROVE  TakesAlone'
  BY <1>8 DEF TakeAddress, Release, Goto, Released, TakesAlone, CreationsAreFresh,
     UnusedIsFresh, RowsKnown, TypeOK, At, Early, ProvisioningConstants, row, host, money,
     worker, past
<1>9. ASSUME NEW w \in Worker, Confirm(w) \/ Claim(w)
      PROVE  TakesAlone'
  BY <1>9 DEF Confirm, Claim, End, Goto, SetStatus, TakesAlone, CreationsAreFresh,
     UnusedIsFresh, RowsKnown, TypeOK, At, Early, ProvisioningConstants, row, host, money,
     worker, past
<1>10. ASSUME NEW w \in Worker, DestroyClaim(w) \/ DestroyFails(w)
      PROVE  TakesAlone'
  BY <1>10 DEF DestroyClaim, DestroyFails, End, Goto, SetStatus, SetMachine, TakesAlone,
     CreationsAreFresh,
     UnusedIsFresh, RowsKnown, TypeOK, At, Early, ProvisioningConstants, row, host, money,
     worker, past
<1>11. ASSUME NEW w \in Worker, Refund(w) \/ Settle(w) \/ FreeResources(w)
      PROVE  TakesAlone'
  BY <1>11 DEF Refund, Settle, FreeResources, End, Goto, Less, One, TakesAlone,
     CreationsAreFresh, UnusedIsFresh, RowsKnown, TypeOK, At, Early, ProvisioningConstants, row,
     host, money, worker, past
<1>12. CASE UNCHANGED vars
  BY <1>12 DEF vars, TakesAlone, CreationsAreFresh, UnusedIsFresh, RowsKnown, TypeOK, At, Early,
     ProvisioningConstants, row, host, money, worker, past
<1> QED
  BY <1>1, <1>2, <1>3, <1>4, <1>5, <1>6, <1>7, <1>8, <1>9, <1>10, <1>11, <1>12 DEF Next,
     Creation, Settlement, Destruction

LEMMA UnusedStep ==
    ASSUME ProvisioningConstants, Faults \subseteq {"rollback", "create"},
           TypeOK, RowsKnown, UnusedIsFresh, [Next]_vars
    PROVE  UnusedIsFresh'
<1> USE DEF Claims
<1>1. ASSUME NEW w \in Worker, NEW q \in Row, NEW m \in {"nat", "public"}, Reserve(w, q, m)
      PROVE  UnusedIsFresh'
  BY <1>1 DEF Reserve, Start, SetStatus, Larger, One, UnusedIsFresh, RowsKnown, TypeOK, At, row,
     host, money, worker, past
<1>2. ASSUME NEW w \in Worker, NEW q \in Row, BeginTimeout(w, q)
      PROVE  UnusedIsFresh'
  BY <1>2 DEF BeginTimeout, UnusedIsFresh, RowsKnown, TypeOK, At, row, host, money, worker, past
<1>3. ASSUME NEW w \in Worker, NEW q \in Row, BeginDestroy(w, q)
      PROVE  UnusedIsFresh'
  BY <1>3 DEF BeginDestroy, Start, Less, UnusedIsFresh, RowsKnown, TypeOK, At, row, host, money,
     worker, past
<1>4. ASSUME NEW q \in Row, GrowOld(q)
      PROVE  UnusedIsFresh'
  BY <1>4 DEF GrowOld, UnusedIsFresh, RowsKnown, TypeOK, At, row, host, money, worker, past
<1>5. ASSUME NEW w \in Worker, PreparationFails(w) \/ Prepared(w) \/ MapPort(w) \/ Rollback(w) \/
             SettleFails(w) \/ CountResources(w) \/ WriteResources(w) \/ Crash(w)
      PROVE  UnusedIsFresh'
  BY <1>5 DEF PreparationFails, Prepared, MapPort, Rollback, SettleFails, CountResources,
     WriteResources, Crash, End, Goto, Less, One, UnusedIsFresh, RowsKnown, TypeOK, At, row,
     host, money, worker, past
<1>6. ASSUME NEW w \in Worker, CreateMachine(w) \/ StartMachine(w) \/ StopLate(w) \/
             DeleteMachine(w) \/ DestroyMachine(w) \/ DestroyStop(w)
      PROVE  UnusedIsFresh'
  BY <1>6 DEF CreateMachine, StartMachine, StopLate, DeleteMachine, DestroyMachine, DestroyStop,
     End, Goto,
     SetMachine, UnusedIsFresh, RowsKnown, TypeOK, At, row, host, money, worker, past
<1>7. ASSUME NEW w \in Worker, HostFails(w) \/ FinishFails(w)
      PROVE  UnusedIsFresh'
  BY <1>7 DEF HostFails, FinishFails, SetMachine, Throws, UnusedIsFresh, RowsKnown, TypeOK, At,
     row, host, money, worker, past
<1>8. ASSUME NEW w \in Worker, TakeAddress(w) \/ Release(w)
      PROVE  UnusedIsFresh'
  BY <1>8 DEF TakeAddress, Release, Goto, Released, UnusedIsFresh, RowsKnown, TypeOK, At, row,
     host, money, worker, past
<1>9. ASSUME NEW w \in Worker, Confirm(w) \/ Claim(w)
      PROVE  UnusedIsFresh'
  BY <1>9 DEF Confirm, Claim, End, Goto, SetStatus, UnusedIsFresh, RowsKnown, TypeOK, At, row,
     host, money, worker, past
<1>10. ASSUME NEW w \in Worker, DestroyClaim(w) \/ DestroyFails(w)
      PROVE  UnusedIsFresh'
  BY <1>10 DEF DestroyClaim, DestroyFails, End, Goto, SetStatus, SetMachine, UnusedIsFresh,
     RowsKnown,
     TypeOK, At, row, host, money, worker, past
<1>11. ASSUME NEW w \in Worker, Refund(w) \/ Settle(w) \/ FreeResources(w)
      PROVE  UnusedIsFresh'
  BY <1>11 DEF Refund, Settle, FreeResources, End, Goto, Less, One, UnusedIsFresh, RowsKnown,
     TypeOK, At, row, host, money, worker, past
<1>12. CASE UNCHANGED vars
  BY <1>12 DEF vars, UnusedIsFresh, RowsKnown, TypeOK, At, row, host, money, worker, past
<1> QED
  BY <1>1, <1>2, <1>3, <1>4, <1>5, <1>6, <1>7, <1>8, <1>9, <1>10, <1>11, <1>12 DEF Next,
     Creation, Settlement, Destruction

LEMMA NothingYetStep ==
    ASSUME ProvisioningConstants, Faults \subseteq {"rollback", "create"},
           TypeOK, RowsKnown, EarlyIsAlone, CreationsAreFresh, UnusedIsFresh, NothingYet,
                RunningHasMachine, [Next]_vars
    PROVE  NothingYet'
<1> USE DEF Early
<1>1. ASSUME NEW w \in Worker, NEW q \in Row, NEW m \in {"nat", "public"}, Reserve(w, q, m)
      PROVE  NothingYet'
  <2>1. /\ At(w, "idle") /\ status[q] = "none"
        /\ pc' = [pc EXCEPT ![w] = "address"] /\ on' = [on EXCEPT ![w] = q]
        /\ status' = [status EXCEPT ![q] = "creating"]
        /\ UNCHANGED <<old, machine, holder, paidBack, recorded, catch, seen>>
    BY <1>1 DEF Reserve, Start, SetStatus
  <2> QED BY <2>1 DEF NothingYet, UnusedIsFresh, CreationsAreFresh, EarlyIsAlone, RowsKnown,
     TypeOK, At
<1>2. ASSUME NEW w \in Worker, NEW q \in Row, BeginTimeout(w, q)
      PROVE  NothingYet'
  BY <1>2 DEF BeginTimeout, NothingYet, UnusedIsFresh, CreationsAreFresh, EarlyIsAlone,
     RowsKnown, TypeOK, At, row, host, money, worker, past
<1>3. ASSUME NEW w \in Worker, NEW q \in Row, BeginDestroy(w, q)
      PROVE  NothingYet'
  BY <1>3 DEF BeginDestroy, Start, Less, NothingYet, UnusedIsFresh, CreationsAreFresh,
     EarlyIsAlone, RowsKnown, TypeOK, At, row, host, money, worker, past
<1>4. ASSUME NEW q \in Row, GrowOld(q)
      PROVE  NothingYet'
  BY <1>4 DEF GrowOld, NothingYet, UnusedIsFresh, CreationsAreFresh, EarlyIsAlone, RowsKnown,
     TypeOK, At, row, host, money, worker, past
<1>5. ASSUME NEW w \in Worker, PreparationFails(w) \/ Prepared(w) \/ MapPort(w) \/ Rollback(w) \/
             SettleFails(w) \/ CountResources(w) \/ WriteResources(w) \/ Crash(w)
      PROVE  NothingYet'
  BY <1>5 DEF PreparationFails, Prepared, MapPort, Rollback, SettleFails, CountResources,
     WriteResources, Crash, End, Goto, Less, One, NothingYet, UnusedIsFresh, CreationsAreFresh,
     EarlyIsAlone, RowsKnown, TypeOK, At, row, host, money, worker, past
<1>6. ASSUME NEW w \in Worker, CreateMachine(w) \/ StartMachine(w) \/ StopLate(w) \/
             DeleteMachine(w) \/ DestroyMachine(w) \/ DestroyStop(w)
      PROVE  NothingYet'
  BY <1>6 DEF CreateMachine, StartMachine, StopLate, DeleteMachine, DestroyMachine, DestroyStop,
     End, Goto,
     SetMachine, NothingYet, UnusedIsFresh, CreationsAreFresh, EarlyIsAlone, RowsKnown, TypeOK,
     At, row, host, money, worker, past
<1>7. ASSUME NEW w \in Worker, HostFails(w)
      PROVE  NothingYet'
  <2>1. /\ pc[w] \in {"create", "start"}
        /\ \E m \in {"none", "created", "running"} : machine' = [machine EXCEPT ![on[w]] = m]
        /\ pc' = [pc EXCEPT ![w] = "claim"] /\ catch' = [catch EXCEPT ![w] = TRUE]
        /\ UNCHANGED on
    BY <1>7 DEF HostFails, Throws, SetMachine, TypeOK, At
  <2>2. \A v \in Worker : on[v] = on[w] /\ v # w => ~Early(v) /\ ~(At(v, "claim") /\ ~catch[v])
    BY <2>1 DEF EarlyIsAlone, NothingYet, At
  <2> QED BY <2>1, <2>2 DEF NothingYet, TypeOK, At
<1>16. ASSUME NEW w \in Worker, FinishFails(w)
      PROVE  NothingYet'
  BY <1>16 DEF FinishFails, Throws, NothingYet, UnusedIsFresh,
     CreationsAreFresh, EarlyIsAlone, RowsKnown, TypeOK, At, row, host, money, worker, past
<1>8. ASSUME NEW w \in Worker, TakeAddress(w) \/ Release(w)
      PROVE  NothingYet'
  BY <1>8 DEF TakeAddress, Release, Goto, Released, NothingYet, UnusedIsFresh,
     CreationsAreFresh, EarlyIsAlone, RowsKnown, TypeOK, At, row, host, money, worker, past
<1>9. ASSUME NEW w \in Worker, Confirm(w)
      PROVE  NothingYet'
  BY <1>9 DEF Confirm, Goto, SetStatus, NothingYet, UnusedIsFresh, CreationsAreFresh,
     EarlyIsAlone, RowsKnown, TypeOK, At, row, host, money, worker, past
<1>10. ASSUME NEW w \in Worker, Claim(w)
      PROVE  NothingYet'
  <2>0. At(w, "claim") /\ UNCHANGED <<mode, old, machine, mapped, host, holder, money, past>>
    BY <1>10 DEF Claim
  <2>1. CASE status[on[w]] = "creating" /\ SetStatus(on[w], "error") /\ Goto(w, "rollback")
    BY <2>0, <2>1 DEF SetStatus, Goto, NothingYet, UnusedIsFresh, CreationsAreFresh,
       EarlyIsAlone, RowsKnown, TypeOK, At, host, money
  <2>2. CASE status[on[w]] # "creating" /\ UNCHANGED status /\ catch[w] /\ seen[w] = "none"
             /\ Goto(w, "machine")
    BY <2>0, <2>2 DEF Goto, NothingYet, UnusedIsFresh, CreationsAreFresh, EarlyIsAlone,
       RowsKnown, TypeOK, At, host, money
  <2>3. CASE status[on[w]] # "creating" /\ UNCHANGED status /\ End(w)
    BY <2>0, <2>3 DEF End, NothingYet, UnusedIsFresh, CreationsAreFresh, EarlyIsAlone,
       RowsKnown, TypeOK, At, host, money
  <2> QED BY <1>10, <2>1, <2>2, <2>3 DEF Claim
<1>11. ASSUME NEW w \in Worker, DestroyFails(w)
      PROVE  NothingYet'
  BY <1>11 DEF DestroyFails, End, SetStatus, NothingYet, UnusedIsFresh, CreationsAreFresh,
     EarlyIsAlone, RowsKnown, TypeOK, At, row, host, money, worker, past
<1>12. ASSUME NEW w \in Worker, DestroyClaim(w)
      PROVE  NothingYet'
  <2>0. At(w, "destroy") /\ UNCHANGED <<mode, old, machine, mapped, host, holder, money, past>>
    BY <1>12 DEF DestroyClaim
  <2>1. CASE status[on[w]] = seen[w] /\ SetStatus(on[w], "deleted")
             /\ Goto(w, IF seen[w] = "running" THEN "destroyStop" ELSE "destroyMachine")
    BY <2>0, <2>1 DEF SetStatus, Goto, NothingYet, UnusedIsFresh, CreationsAreFresh,
       EarlyIsAlone, RowsKnown, TypeOK, At, host, money
  <2>2. CASE UNCHANGED status /\ End(w)
    BY <2>0, <2>2 DEF End, NothingYet, UnusedIsFresh, CreationsAreFresh, EarlyIsAlone,
       RowsKnown, TypeOK, At, host, money
  <2> QED BY <1>12, <2>1, <2>2 DEF DestroyClaim
<1>13. ASSUME NEW w \in Worker, Settle(w) \/ FreeResources(w)
      PROVE  NothingYet'
  BY <1>13 DEF Settle, FreeResources, Goto, Less, One, NothingYet, UnusedIsFresh,
     CreationsAreFresh, EarlyIsAlone, RowsKnown, TypeOK, At, row, host, money, worker, past
<1>14. ASSUME NEW w \in Worker, Refund(w)
      PROVE  NothingYet'
  <2>0. At(w, "refund") /\ UNCHANGED <<status, machine>>
    BY <1>14 DEF Refund, row
  <2>1. CASE Goto(w, "machine")
    BY <2>0, <2>1 DEF Goto, NothingYet, UnusedIsFresh, CreationsAreFresh, EarlyIsAlone,
       RowsKnown, TypeOK, At
  <2>2. CASE End(w)
    BY <2>0, <2>2 DEF End, NothingYet, UnusedIsFresh, CreationsAreFresh, EarlyIsAlone,
       RowsKnown, TypeOK, At
  <2> QED BY <1>14, <2>1, <2>2 DEF Refund
<1>15. CASE UNCHANGED vars
  BY <1>15 DEF vars, NothingYet, UnusedIsFresh, CreationsAreFresh, EarlyIsAlone, RowsKnown,
     TypeOK, At, row, host, money, worker, past
<1> QED
  BY <1>1, <1>2, <1>3, <1>4, <1>5, <1>6, <1>7, <1>8, <1>9, <1>10, <1>11, <1>12, <1>13, <1>14,
     <1>15, <1>16 DEF Next, Creation, Settlement, Destruction

LEMMA DecidedStep ==
    ASSUME ProvisioningConstants, Faults \subseteq {"rollback", "create"},
           TypeOK, RowsKnown, OneDestroys, SettlesAlone, Decided, [Next]_vars
    PROVE  Decided'
<1> USE DEF Settles, Claims, Claimed, Settling
<1>e. ASSUME NEW w \in Worker, End(w), UNCHANGED <<status, recorded, paidBack>>
      PROVE  Decided'
  BY <1>e DEF End, Decided, TypeOK, At, ProvisioningConstants
<1>1. ASSUME NEW w \in Worker, NEW q \in Row, NEW m \in {"nat", "public"}, Reserve(w, q, m)
      PROVE  Decided'
  BY <1>1 DEF Reserve, Start, SetStatus, Larger, One, Decided, OneDestroys, RowsKnown, TypeOK,
     At, row, host, money, worker, past
<1>2. ASSUME NEW w \in Worker, NEW q \in Row, BeginTimeout(w, q)
      PROVE  Decided'
  BY <1>2 DEF BeginTimeout, Decided, OneDestroys, RowsKnown, TypeOK, At, row, host, money,
     worker, past
<1>3. ASSUME NEW w \in Worker, NEW q \in Row, BeginDestroy(w, q)
      PROVE  Decided'
  BY <1>3 DEF BeginDestroy, Start, Less, Decided, OneDestroys, RowsKnown, TypeOK, At, row, host,
     money, worker, past
<1>4. ASSUME NEW q \in Row, GrowOld(q)
      PROVE  Decided'
  BY <1>4 DEF GrowOld, Decided, OneDestroys, RowsKnown, TypeOK, At, row, host, money, worker, past
<1>5. ASSUME NEW w \in Worker, PreparationFails(w) \/ Prepared(w)
      PROVE  Decided'
  BY <1>5 DEF PreparationFails, Prepared, Goto, Decided, OneDestroys, RowsKnown, TypeOK, At,
     row, host, money, worker, past
<1>6. ASSUME NEW w \in Worker, MapPort(w) \/ SettleFails(w) \/ WriteResources(w) \/ Crash(w) \/
             StopLate(w) \/ DeleteMachine(w)
      PROVE  Decided'
  BY <1>6, <1>e DEF MapPort, SettleFails, WriteResources, Crash, StopLate, DeleteMachine, row,
     money
<1>7. ASSUME NEW w \in Worker, Rollback(w)
      PROVE  Decided'
  BY <1>7 DEF Rollback, Goto, Less, One, Decided, OneDestroys, RowsKnown, TypeOK, At, row, host,
     money, worker, past
<1>8. ASSUME NEW w \in Worker, CountResources(w)
      PROVE  Decided'
  BY <1>8 DEF CountResources, Decided, OneDestroys, RowsKnown, TypeOK, At, row, host, money,
     worker, past
<1>9. ASSUME NEW w \in Worker, CreateMachine(w) \/ StartMachine(w) \/ DestroyStop(w)
      PROVE  Decided'
  BY <1>9 DEF CreateMachine, StartMachine, DestroyStop, Goto, SetMachine, Decided, OneDestroys,
     RowsKnown,
     TypeOK, At, row, host, money, worker, past
<1>10. ASSUME NEW w \in Worker, DestroyMachine(w)
      PROVE  Decided'
  BY <1>10 DEF DestroyMachine, Goto, SetMachine, Decided, OneDestroys, RowsKnown, TypeOK, At,
     row, host, money, worker, past
<1>11. ASSUME NEW w \in Worker, HostFails(w) \/ FinishFails(w)
      PROVE  Decided'
  BY <1>11 DEF HostFails, FinishFails, SetMachine, Throws, Decided, OneDestroys, RowsKnown,
     TypeOK, At, row, host, money, worker, past
<1>12. ASSUME NEW w \in Worker, TakeAddress(w) \/ Release(w)
      PROVE  Decided'
  BY <1>12 DEF TakeAddress, Release, Goto, Released, Decided, OneDestroys, RowsKnown, TypeOK,
     At, row, host, money, worker, past
<1>13. ASSUME NEW w \in Worker, Confirm(w)
      PROVE  Decided'
  <2>0. At(w, "confirm") /\ UNCHANGED <<mode, old, machine, mapped, host, holder, money, past>>
    BY <1>13 DEF Confirm
  <2>1. CASE status[on[w]] = "creating" /\ SetStatus(on[w], "running") /\ Goto(w, "port")
    BY <2>0, <2>1 DEF SetStatus, Goto, Decided, OneDestroys, RowsKnown, TypeOK, At, host, money
  <2>2. CASE status[on[w]] # "creating" /\ UNCHANGED status /\ Goto(w, "stop")
    BY <2>0, <2>2 DEF Goto, Decided, OneDestroys, RowsKnown, TypeOK, At, host, money
  <2> QED BY <1>13, <2>1, <2>2 DEF Confirm
<1>14. ASSUME NEW w \in Worker, Claim(w)
      PROVE  Decided'
  <2>0. At(w, "claim") /\ UNCHANGED <<mode, old, machine, mapped, host, holder, money, past>>
    BY <1>14 DEF Claim
  <2>1. CASE status[on[w]] = "creating" /\ SetStatus(on[w], "error") /\ Goto(w, "rollback")
    BY <2>0, <2>1 DEF SetStatus, Goto, Decided, OneDestroys, RowsKnown, TypeOK, At, host, money
  <2>2. CASE status[on[w]] # "creating" /\ UNCHANGED status /\ catch[w] /\ seen[w] = "none"
             /\ Goto(w, "machine")
    BY <2>0, <2>2 DEF Goto, Decided, OneDestroys, RowsKnown, TypeOK, At, host, money
  <2>3. CASE status[on[w]] # "creating" /\ UNCHANGED status /\ End(w)
    BY <2>0, <2>3 DEF End, Decided, OneDestroys, RowsKnown, TypeOK, At, host, money
  <2> QED BY <1>14, <2>1, <2>2, <2>3 DEF Claim
<1>15. ASSUME NEW w \in Worker, DestroyFails(w)
      PROVE  Decided'
  <2>1. /\ At(w, "destroyMachine") /\ on[w] \in Row
        /\ UNCHANGED <<recorded, paidBack>>
        /\ pc' = [pc EXCEPT ![w] = "idle"] /\ on' = [on EXCEPT ![w] = None]
    BY <1>15 DEF DestroyFails, End, money, TypeOK, At
  <2>2. /\ status[on[w]] = "deleted" /\ seen[w] \in {"running", "error"}
        /\ \A v \in Worker : At(v, "settle") => on[v] # on[w]
    BY <2>1 DEF OneDestroys, RowsKnown, Decided, At
  <2>3. status' = [status EXCEPT ![on[w]] = seen[w]]
    BY <1>15, <2>2 DEF DestroyFails, SetStatus
  <2>4. \A v \in Worker : v # w => on'[v] = on[v] /\ pc'[v] = pc[v]
    BY <2>1 DEF TypeOK
  <2>5. pc'[w] = "idle"
    BY <2>1 DEF TypeOK
  <2>6. \A v \in Worker : Settles(v)' => status'[on'[v]] \in {"error", "deleted"}
    <3> SUFFICES ASSUME NEW v \in Worker, Settles(v)' PROVE status'[on'[v]] \in {"error", "deleted"}
      OBVIOUS
    <3>1. v # w /\ Settles(v) /\ on[v] \in Row
      BY <2>4, <2>5 DEF TypeOK, At
    <3>2. on[v] = on[w] => seen[w] # "running"
      BY <2>1, <3>1 DEF SettlesAlone, At
    <3>3. status[on[v]] \in {"error", "deleted"}
      BY <3>1 DEF Decided
    <3> QED BY <2>1, <2>2, <2>3, <2>4, <3>1, <3>2, <3>3 DEF TypeOK
  <2>7. \A v \in Worker : At(v, "settle")' =>
             status'[on'[v]] = "deleted" /\ \A u \in Worker : Claimed(u)' => on'[u] # on'[v]
    <3> SUFFICES ASSUME NEW v \in Worker, At(v, "settle")'
                 PROVE  status'[on'[v]] = "deleted"
                        /\ \A u \in Worker : Claimed(u)' => on'[u] # on'[v]
      OBVIOUS
    <3>1. v # w /\ At(v, "settle")
      BY <2>4, <2>5 DEF At
    <3>2. on[v] # on[w] /\ on[v] \in Row /\ status[on[v]] = "deleted"
      BY <2>2, <3>1 DEF Decided, TypeOK, At
    <3> QED BY <2>1, <2>3, <2>4, <2>5, <3>1, <3>2 DEF Decided, TypeOK, At
  <2>8. \A r \in Row : status'[r] \in {"none", "creating"} => ~recorded'[r] /\ paidBack'[r] = 0
    BY <2>1, <2>2, <2>3 DEF Decided, TypeOK
  <2> QED BY <2>6, <2>7, <2>8 DEF Decided
<1>16. ASSUME NEW w \in Worker, DestroyClaim(w)
      PROVE  Decided'
  <2>0. At(w, "destroy") /\ UNCHANGED <<mode, old, machine, mapped, host, holder, money, past>>
    BY <1>16 DEF DestroyClaim
  <2>1. CASE status[on[w]] = seen[w] /\ SetStatus(on[w], "deleted")
             /\ Goto(w, IF seen[w] = "running" THEN "destroyStop" ELSE "destroyMachine")
    BY <2>0, <2>1 DEF SetStatus, Goto, Decided, OneDestroys, RowsKnown, TypeOK, At, host, money
  <2>2. CASE UNCHANGED status /\ End(w)
    BY <2>0, <2>2 DEF End, Decided, OneDestroys, RowsKnown, TypeOK, At, host, money
  <2> QED BY <1>16, <2>1, <2>2 DEF DestroyClaim
<1>17. ASSUME NEW w \in Worker, Refund(w)
      PROVE  Decided'
  <2>1. /\ At(w, "refund") /\ UNCHANGED status
        /\ recorded' = [recorded EXCEPT ![on[w]] = TRUE] \/ UNCHANGED recorded
        /\ paidBack' = [paidBack EXCEPT ![on[w]] = @ + 1] \/ UNCHANGED paidBack
        /\ IF catch[w] THEN Goto(w, "machine") ELSE End(w)
    BY <1>17 DEF Refund, row, money
  <2>2. \A r \in Row : status[r] \in {"none", "creating"} => ~recorded'[r] /\ paidBack'[r] = 0
    BY <2>1 DEF Decided, At, TypeOK
  <2>3. CASE Goto(w, "machine")
    BY <2>1, <2>2, <2>3 DEF Goto, Decided, At, TypeOK
  <2>4. CASE End(w)
    BY <2>1, <2>2, <2>4 DEF End, Decided, At, TypeOK, ProvisioningConstants
  <2> QED BY <2>1, <2>3, <2>4
<1>18. ASSUME NEW w \in Worker, Settle(w)
      PROVE  Decided'
  BY <1>18 DEF Settle, Goto, Decided, OneDestroys, RowsKnown, TypeOK, At, row, host, money,
     worker, past
<1>19. ASSUME NEW w \in Worker, FreeResources(w)
      PROVE  Decided'
  BY <1>19 DEF FreeResources, Goto, Less, One, Decided, OneDestroys, RowsKnown, TypeOK, At, row,
     host, money, worker, past
<1>20. CASE UNCHANGED vars
  BY <1>20 DEF vars, Decided, OneDestroys, RowsKnown, TypeOK, At, row, host, money, worker, past
<1> QED
  BY <1>1, <1>2, <1>3, <1>4, <1>5, <1>6, <1>7, <1>8, <1>9, <1>10, <1>11, <1>12, <1>13, <1>14,
     <1>15, <1>16, <1>17, <1>18, <1>19, <1>20 DEF Next, Creation, Settlement, Destruction

LEMMA HolderStep ==
    ASSUME ProvisioningConstants, 
           TypeOK, RowsKnown, HolderKnown, [Next]_vars
    PROVE  HolderKnown'
<1> USE DEF ProvisioningConstants, Claims
<1>1. ASSUME NEW w \in Worker, NEW q \in Row, NEW m \in {"nat", "public"}, Reserve(w, q, m)
      PROVE  HolderKnown'
  BY <1>1 DEF Reserve, Start, SetStatus, Larger, One, HolderKnown, RowsKnown, TypeOK, At, row,
     host, money, worker, past
<1>2. ASSUME NEW w \in Worker, NEW q \in Row, BeginTimeout(w, q)
      PROVE  HolderKnown'
  BY <1>2 DEF BeginTimeout, HolderKnown, RowsKnown, TypeOK, At, row, host, money, worker, past
<1>3. ASSUME NEW w \in Worker, NEW q \in Row, BeginDestroy(w, q)
      PROVE  HolderKnown'
  BY <1>3 DEF BeginDestroy, Start, Less, HolderKnown, RowsKnown, TypeOK, At, row, host, money,
     worker, past
<1>4. ASSUME NEW q \in Row, GrowOld(q)
      PROVE  HolderKnown'
  BY <1>4 DEF GrowOld, HolderKnown, RowsKnown, TypeOK, At, row, host, money, worker, past
<1>5. ASSUME NEW w \in Worker, PreparationFails(w) \/ Prepared(w) \/ MapPort(w) \/ Rollback(w) \/
             SettleFails(w) \/ CountResources(w) \/ WriteResources(w) \/ Crash(w)
      PROVE  HolderKnown'
  BY <1>5 DEF PreparationFails, Prepared, MapPort, Rollback, SettleFails, CountResources,
     WriteResources, Crash, End, Goto, Less, One, HolderKnown, RowsKnown, TypeOK, At, row, host,
     money, worker, past
<1>6. ASSUME NEW w \in Worker, CreateMachine(w) \/ StartMachine(w) \/ StopLate(w) \/
             DeleteMachine(w) \/ DestroyMachine(w) \/ DestroyStop(w)
      PROVE  HolderKnown'
  BY <1>6 DEF CreateMachine, StartMachine, StopLate, DeleteMachine, DestroyMachine, DestroyStop,
     End, Goto,
     SetMachine, HolderKnown, RowsKnown, TypeOK, At, row, host, money, worker, past
<1>7. ASSUME NEW w \in Worker, HostFails(w) \/ FinishFails(w)
      PROVE  HolderKnown'
  BY <1>7 DEF HostFails, FinishFails, SetMachine, Throws, HolderKnown, RowsKnown, TypeOK, At,
     row, host, money, worker, past
<1>8. ASSUME NEW w \in Worker, Release(w)
      PROVE  HolderKnown'
  BY <1>8 DEF Release, Goto, Released, HolderKnown, RowsKnown, TypeOK, At, row, host, money,
     worker, past
<1>9. ASSUME NEW w \in Worker, TakeAddress(w)
      PROVE  HolderKnown'
  <2>1. UNCHANGED holder \/ \E a \in Address : holder' = [holder EXCEPT ![a] = on[w]]
    BY <1>9 DEF TakeAddress
  <2>2. /\ on[w] \in Row /\ status[on[w]] # "none" /\ UNCHANGED status
    BY <1>9 DEF TakeAddress, TypeOK, At, RowsKnown, row
  <2>3. CASE UNCHANGED holder
    BY <2>2, <2>3 DEF HolderKnown
  <2>4. ASSUME NEW a \in Address, holder' = [holder EXCEPT ![a] = on[w]] PROVE HolderKnown'
    BY <2>2, <2>4 DEF HolderKnown, TypeOK
  <2> QED BY <2>1, <2>3, <2>4
<1>10. ASSUME NEW w \in Worker, Confirm(w) \/ Claim(w)
      PROVE  HolderKnown'
  BY <1>10 DEF Confirm, Claim, End, Goto, SetStatus, HolderKnown, RowsKnown, TypeOK, At, row,
     host, money, worker, past
<1>11. ASSUME NEW w \in Worker, DestroyClaim(w) \/ DestroyFails(w)
      PROVE  HolderKnown'
  BY <1>11 DEF DestroyClaim, DestroyFails, End, Goto, SetStatus, SetMachine, HolderKnown,
     RowsKnown, TypeOK,
     At, row, host, money, worker, past
<1>12. ASSUME NEW w \in Worker, Refund(w) \/ Settle(w) \/ FreeResources(w)
      PROVE  HolderKnown'
  BY <1>12 DEF Refund, Settle, FreeResources, End, Goto, Less, One, HolderKnown, RowsKnown,
     TypeOK, At, row, host, money, worker, past
<1>13. CASE UNCHANGED vars
  BY <1>13 DEF vars, HolderKnown, RowsKnown, TypeOK, At, row, host, money, worker, past
<1> QED
  BY <1>1, <1>2, <1>3, <1>4, <1>5, <1>6, <1>7, <1>8, <1>9, <1>10, <1>11, <1>12, <1>13 DEF Next,
     Creation, Settlement, Destruction

(* A row whose creation failed, or that a destruction may still return.    *)
Failed(r) ==
    \/ status[r] = "error"
    \/ \E w \in Worker : Claimed(w) /\ on[w] = r /\ seen[w] = "error"


(* Only the winner of a claim adds a failed row.                           *)
Wins(w) ==
    /\ At(w, "claim")
    /\ status[on[w]] = "creating"
    /\ pc' = [pc EXCEPT ![w] = "rollback"]
    /\ UNCHANGED <<on, catch, seen, mode, machine, holder, money>>

LEMMA FailedBefore ==
    ASSUME TypeOK, CreationsAreFresh, [Next]_vars, NEW r \in Row, Failed(r)'
    PROVE  Failed(r) \/ \E w \in Worker : on[w] = r /\ Wins(w)
<1> USE DEF Early, Claimed
<1>1. ASSUME NEW w \in Worker, NEW q \in Row, NEW m \in {"nat", "public"}, Reserve(w, q, m)
      PROVE  Failed(r) \/ \E x \in Worker : on[x] = r /\ Wins(x)
  BY <1>1 DEF Reserve, Start, SetStatus, Larger, One, Failed, TypeOK, At, Wins,
     CreationsAreFresh, row, host, money, worker, past
<1>2. ASSUME NEW w \in Worker, NEW q \in Row, BeginTimeout(w, q)
      PROVE  Failed(r) \/ \E x \in Worker : on[x] = r /\ Wins(x)
  BY <1>2 DEF BeginTimeout, Failed, TypeOK, At, Wins, CreationsAreFresh, row, host, money,
     worker, past
<1>3. ASSUME NEW w \in Worker, NEW q \in Row, BeginDestroy(w, q)
      PROVE  Failed(r) \/ \E x \in Worker : on[x] = r /\ Wins(x)
  BY <1>3 DEF BeginDestroy, Start, Less, Failed, TypeOK, At, Wins, CreationsAreFresh, row, host,
     money, worker, past
<1>4. ASSUME NEW q \in Row, GrowOld(q)
      PROVE  Failed(r) \/ \E x \in Worker : on[x] = r /\ Wins(x)
  BY <1>4 DEF GrowOld, Failed, TypeOK, At, Wins, CreationsAreFresh, row, host, money, worker, past
<1>5. ASSUME NEW w \in Worker, PreparationFails(w) \/ Prepared(w) \/ MapPort(w) \/ Rollback(w) \/
             SettleFails(w) \/ CountResources(w) \/ WriteResources(w) \/ Crash(w)
      PROVE  Failed(r) \/ \E x \in Worker : on[x] = r /\ Wins(x)
  BY <1>5 DEF PreparationFails, Prepared, MapPort, Rollback, SettleFails, CountResources,
     WriteResources, Crash, End, Goto, Less, One, Failed, TypeOK, At, Wins, CreationsAreFresh,
     row, host, money, worker, past
<1>6. ASSUME NEW w \in Worker, CreateMachine(w) \/ StartMachine(w) \/ StopLate(w) \/
             DeleteMachine(w) \/ DestroyMachine(w) \/ DestroyStop(w)
      PROVE  Failed(r) \/ \E x \in Worker : on[x] = r /\ Wins(x)
  BY <1>6 DEF CreateMachine, StartMachine, StopLate, DeleteMachine, DestroyMachine, DestroyStop,
     End, Goto,
     SetMachine, Failed, TypeOK, At, Wins, CreationsAreFresh, row, host, money, worker, past
<1>7. ASSUME NEW w \in Worker, HostFails(w) \/ FinishFails(w)
      PROVE  Failed(r) \/ \E x \in Worker : on[x] = r /\ Wins(x)
  BY <1>7 DEF HostFails, FinishFails, SetMachine, Throws, Failed, TypeOK, At, Wins,
     CreationsAreFresh, row, host, money, worker, past
<1>8. ASSUME NEW w \in Worker, TakeAddress(w) \/ Release(w)
      PROVE  Failed(r) \/ \E x \in Worker : on[x] = r /\ Wins(x)
  BY <1>8 DEF TakeAddress, Release, Goto, Released, Failed, TypeOK, At, Wins, CreationsAreFresh,
     row, host, money, worker, past
<1>9. ASSUME NEW w \in Worker, Confirm(w) \/ Claim(w)
      PROVE  Failed(r) \/ \E x \in Worker : on[x] = r /\ Wins(x)
  BY <1>9 DEF Confirm, Claim, End, Goto, SetStatus, Failed, TypeOK, At, Wins, CreationsAreFresh,
     row, host, money, worker, past
<1>10. ASSUME NEW w \in Worker, DestroyClaim(w) \/ DestroyFails(w)
      PROVE  Failed(r) \/ \E x \in Worker : on[x] = r /\ Wins(x)
  BY <1>10 DEF DestroyClaim, DestroyFails, End, Goto, SetStatus, SetMachine, Failed, TypeOK, At,
     Wins,
     CreationsAreFresh, row, host, money, worker, past
<1>11. ASSUME NEW w \in Worker, Refund(w) \/ Settle(w) \/ FreeResources(w)
      PROVE  Failed(r) \/ \E x \in Worker : on[x] = r /\ Wins(x)
  BY <1>11 DEF Refund, Settle, FreeResources, End, Goto, Less, One, Failed, TypeOK, At, Wins,
     CreationsAreFresh, row, host, money, worker, past
<1>12. CASE UNCHANGED vars
  BY <1>12 DEF vars, Failed, TypeOK, At, Wins, CreationsAreFresh, row, host, money, worker, past
<1> QED
  BY <1>1, <1>2, <1>3, <1>4, <1>5, <1>6, <1>7, <1>8, <1>9, <1>10, <1>11, <1>12 DEF Next,
     Creation, Settlement, Destruction

(* The worker will pay back what the row has cost,                         *)
WillRefund(w) == Settles(w)
(* give back its address,                                                  *)
WillRelease(w) == pc[w] \in {"rollback", "release"}
(* stop its machine,                                                       *)
WillStop(w) == pc[w] \in {"confirm", "stop"}
(* or delete it.                                                           *)
WillDelete(w) ==
    \/ pc[w] \in {"start", "confirm", "stop"}
    \/ catch[w] /\ (Settles(w) \/ At(w, "machine") \/ (At(w, "claim") /\ seen[w] = "none"))

(* What has failed is paid back, or somebody will pay it back.             *)
Refunds ==
    \A r \in Row : Failed(r) =>
        /\ paidBack[r] = One(recorded[r])
        /\ recorded[r] \/ \E w \in Worker : on[w] = r /\ WillRefund(w)

(* It holds no address, or somebody will release it.                       *)
Addresses ==
    \A a \in Address, r \in Row : holder[a] = r =>
        /\ mode[r] = "public"
        /\ Failed(r) => \E w \in Worker : on[w] = r /\ WillRelease(w)

(* It has no machine, or somebody will delete it.                          *)
Remains ==
    \A r \in Row : status[r] = "creating" \/ Failed(r) =>
        /\ machine[r] = "created" => \E w \in Worker : on[w] = r /\ WillDelete(w)
        /\ machine[r] = "running" => \E w \in Worker : on[w] = r /\ WillStop(w)

(* The refund stays to come until it is recorded.                          *)
LEMMA RefundsStep ==
    ASSUME Faults \subseteq {"rollback", "create"},
           TypeOK, CreationsAreFresh, Decided, Refunds, [Next]_vars
    PROVE  Refunds'
<1> DEFINE Repaid(r) ==
             /\ paidBack[r] = One(recorded[r])
             /\ recorded[r] \/ \E x \in Worker : on[x] = r /\ WillRefund(x)
<1>a. ASSUME NEW r \in Row, NEW w \in Worker, on[w] = r, Wins(w)
      PROVE  Repaid(r)'
  BY <1>a DEF Wins, Decided, One, money, TypeOK, WillRefund, Settles
<1>b. ASSUME NEW r \in Row, Failed(r)
      PROVE  Repaid(r)'
  <2>0. Repaid(r) /\ \A x \in Worker : At(x, "settle") => on[x] # r
    BY <1>b DEF Refunds, Decided, Failed
  <2>1. ASSUME NEW w \in Worker, NEW q \in Row, NEW m \in {"nat", "public"}, Reserve(w, q, m)
          PROVE  Repaid(r)'
    BY <2>1, <2>0 DEF Reserve, Start, SetStatus, Larger, One, TypeOK, At, One, WillRefund,
       Settles, row, host, money, worker, past
  <2>2. ASSUME NEW w \in Worker, NEW q \in Row, BeginTimeout(w, q)
          PROVE  Repaid(r)'
    BY <2>2, <2>0 DEF BeginTimeout, TypeOK, At, One, WillRefund, Settles, row, host, money,
       worker, past
  <2>3. ASSUME NEW w \in Worker, NEW q \in Row, BeginDestroy(w, q)
          PROVE  Repaid(r)'
    BY <2>3, <2>0 DEF BeginDestroy, Start, Less, TypeOK, At, One, WillRefund, Settles, row,
       host, money, worker, past
  <2>4. ASSUME NEW q \in Row, GrowOld(q)
          PROVE  Repaid(r)'
    BY <2>4, <2>0 DEF GrowOld, TypeOK, At, One, WillRefund, Settles, row, host, money, worker, past
  <2>5. ASSUME NEW w \in Worker, PreparationFails(w) \/ Prepared(w) \/ MapPort(w) \/ Rollback(w)
               \/ SettleFails(w) \/ CountResources(w) \/ WriteResources(w) \/ Crash(w)
          PROVE  Repaid(r)'
    BY <2>5, <2>0 DEF PreparationFails, Prepared, MapPort, Rollback, SettleFails,
       CountResources, WriteResources, Crash, End, Goto, Less, One, TypeOK, At, One, WillRefund,
       Settles, row, host, money, worker, past
  <2>6. ASSUME NEW w \in Worker, CreateMachine(w) \/ StartMachine(w) \/ StopLate(w) \/
               DeleteMachine(w) \/ DestroyMachine(w) \/ DestroyStop(w)
          PROVE  Repaid(r)'
    BY <2>6, <2>0 DEF CreateMachine, StartMachine, StopLate, DeleteMachine, DestroyMachine,
       DestroyStop, End,
       Goto, SetMachine, TypeOK, At, One, WillRefund, Settles, row, host, money, worker, past
  <2>7. ASSUME NEW w \in Worker, HostFails(w) \/ FinishFails(w)
          PROVE  Repaid(r)'
    BY <2>7, <2>0 DEF HostFails, FinishFails, SetMachine, Throws, TypeOK, At, One, WillRefund,
       Settles, row, host, money, worker, past
  <2>8. ASSUME NEW w \in Worker, TakeAddress(w) \/ Release(w)
          PROVE  Repaid(r)'
    BY <2>8, <2>0 DEF TakeAddress, Release, Goto, Released, TypeOK, At, One, WillRefund,
       Settles, row, host, money, worker, past
  <2>9. ASSUME NEW w \in Worker, Confirm(w) \/ Claim(w)
          PROVE  Repaid(r)'
    BY <2>9, <2>0 DEF Confirm, Claim, End, Goto, SetStatus, TypeOK, At, One, WillRefund,
       Settles, row, host, money, worker, past
  <2>10. ASSUME NEW w \in Worker, DestroyClaim(w) \/ DestroyFails(w)
          PROVE  Repaid(r)'
    BY <2>10, <2>0 DEF DestroyClaim, DestroyFails, End, Goto, SetStatus, SetMachine, TypeOK, At,
       One,
       WillRefund, Settles, row, host, money, worker, past
  <2>11. ASSUME NEW w \in Worker, Refund(w) \/ Settle(w) \/ FreeResources(w)
          PROVE  Repaid(r)'
    BY <2>11, <2>0 DEF Refund, Settle, FreeResources, End, Goto, Less, One, TypeOK, At, One,
       WillRefund, Settles, row, host, money, worker, past
  <2>12. CASE UNCHANGED vars
    BY <2>12, <2>0 DEF vars, TypeOK, At, One, WillRefund, Settles, row, host, money, worker, past
  <2> QED
    BY <2>1, <2>2, <2>3, <2>4, <2>5, <2>6, <2>7, <2>8, <2>9, <2>10, <2>11, <2>12 DEF Next,
       Creation, Settlement, Destruction
<1> QED BY <1>a, <1>b, FailedBefore DEF Refunds

(* An address is released while its row has a settlement before it.        *)
LEMMA AddressesStep ==
    ASSUME ProvisioningConstants, Faults \subseteq {"rollback", "create"},
           TypeOK, RowsKnown, CreationsAreFresh, TakesAlone, HolderKnown, Addresses, [Next]_vars
    PROVE  Addresses'
<1> DEFINE Comes(r) == \E x \in Worker : on[x] = r /\ WillRelease(x)
<1>a. ASSUME NEW r \in Row, NEW w \in Worker, on[w] = r, Wins(w)
      PROVE  Comes(r)'
  BY <1>a DEF Wins, TypeOK, WillRelease
<1>b. ASSUME NEW a \in Address, NEW r \in Row, holder'[a] = r
      PROVE  mode'[r] = "public" /\ (Failed(r) => Comes(r)')
  <2>0. /\ \A w \in Worker : At(w, "address") /\ on[w] = r => ~Failed(r)
        /\ holder[a] = r => /\ mode[r] = "public" /\ status[r] # "none"
                            /\ Failed(r) => Comes(r)
    BY DEF TakesAlone, Failed, Claimed, At, Addresses, HolderKnown
  <2>1. ASSUME NEW w \in Worker, NEW q \in Row, NEW m \in {"nat", "public"}, Reserve(w, q, m)
          PROVE  mode'[r] = "public" /\ (Failed(r) => Comes(r)')
    BY <2>1, <1>b, <2>0 DEF Reserve, Start, SetStatus, Larger, One, TypeOK, At, WillRelease,
       row, host, money, worker, past
  <2>2. ASSUME NEW w \in Worker, NEW q \in Row, BeginTimeout(w, q)
          PROVE  mode'[r] = "public" /\ (Failed(r) => Comes(r)')
    BY <2>2, <1>b, <2>0 DEF BeginTimeout, TypeOK, At, WillRelease, row, host, money, worker, past
  <2>3. ASSUME NEW w \in Worker, NEW q \in Row, BeginDestroy(w, q)
          PROVE  mode'[r] = "public" /\ (Failed(r) => Comes(r)')
    BY <2>3, <1>b, <2>0 DEF BeginDestroy, Start, Less, TypeOK, At, WillRelease, row, host,
       money, worker, past
  <2>4. ASSUME NEW q \in Row, GrowOld(q)
          PROVE  mode'[r] = "public" /\ (Failed(r) => Comes(r)')
    BY <2>4, <1>b, <2>0 DEF GrowOld, TypeOK, At, WillRelease, row, host, money, worker, past
  <2>5. ASSUME NEW w \in Worker, PreparationFails(w) \/ Prepared(w) \/ MapPort(w) \/ Rollback(w)
               \/ SettleFails(w) \/ CountResources(w) \/ WriteResources(w) \/ Crash(w)
          PROVE  mode'[r] = "public" /\ (Failed(r) => Comes(r)')
    BY <2>5, <1>b, <2>0 DEF PreparationFails, Prepared, MapPort, Rollback, SettleFails,
       CountResources, WriteResources, Crash, End, Goto, Less, One, TypeOK, At, WillRelease,
       row, host, money, worker, past
  <2>6. ASSUME NEW w \in Worker, CreateMachine(w) \/ StartMachine(w) \/ StopLate(w) \/
               DeleteMachine(w) \/ DestroyMachine(w) \/ DestroyStop(w)
          PROVE  mode'[r] = "public" /\ (Failed(r) => Comes(r)')
    BY <2>6, <1>b, <2>0 DEF CreateMachine, StartMachine, StopLate, DeleteMachine,
       DestroyMachine, DestroyStop, End, Goto, SetMachine, TypeOK, At, WillRelease, row, host,
       money, worker, past
  <2>7. ASSUME NEW w \in Worker, HostFails(w) \/ FinishFails(w)
          PROVE  mode'[r] = "public" /\ (Failed(r) => Comes(r)')
    BY <2>7, <1>b, <2>0 DEF HostFails, FinishFails, SetMachine, Throws, TypeOK, At, WillRelease,
       row, host, money, worker, past
  <2>8. ASSUME NEW w \in Worker, TakeAddress(w)
          PROVE  mode'[r] = "public" /\ (Failed(r) => Comes(r)')
    BY <2>8, <1>b, <2>0 DEF TakeAddress, Goto, TypeOK, At, WillRelease, row, host, money,
       worker, past
  <2>9. ASSUME NEW w \in Worker, Release(w)
          PROVE  mode'[r] = "public" /\ (Failed(r) => Comes(r)')
    <3>1. /\ At(w, "release") /\ UNCHANGED mode
          /\ holder' = IF mode[on[w]] = "public" THEN Released(on[w]) ELSE holder
          /\ pc' = [pc EXCEPT ![w] = "refund"] /\ UNCHANGED on
      BY <2>9 DEF Release, Goto, row
    <3>2. holder[a] = r
      BY <1>b, <3>1 DEF Released, ProvisioningConstants
    <3>3. on[w] # r
      BY <1>b, <2>0, <3>1, <3>2 DEF Released, ProvisioningConstants
    <3> QED BY <2>0, <3>1, <3>2, <3>3 DEF TypeOK, At, WillRelease
  <2>10. ASSUME NEW w \in Worker, Confirm(w) \/ Claim(w)
          PROVE  mode'[r] = "public" /\ (Failed(r) => Comes(r)')
    BY <2>10, <1>b, <2>0 DEF Confirm, Claim, End, Goto, SetStatus, TypeOK, At, WillRelease, row,
       host, money, worker, past
  <2>11. ASSUME NEW w \in Worker, DestroyClaim(w) \/ DestroyFails(w)
          PROVE  mode'[r] = "public" /\ (Failed(r) => Comes(r)')
    BY <2>11, <1>b, <2>0 DEF DestroyClaim, DestroyFails, End, Goto, SetStatus, SetMachine,
       TypeOK, At,
       WillRelease, row, host, money, worker, past
  <2>12. ASSUME NEW w \in Worker, Refund(w) \/ Settle(w) \/ FreeResources(w)
          PROVE  mode'[r] = "public" /\ (Failed(r) => Comes(r)')
    BY <2>12, <1>b, <2>0 DEF Refund, Settle, FreeResources, End, Goto, Less, One, TypeOK, At,
       WillRelease, row, host, money, worker, past
  <2>13. CASE UNCHANGED vars
    BY <2>13, <1>b, <2>0 DEF vars, TypeOK, At, WillRelease, row, host, money, worker, past
  <2> QED
    BY <2>1, <2>2, <2>3, <2>4, <2>5, <2>6, <2>7, <2>8, <2>9, <2>10, <2>11, <2>12, <2>13 DEF
       Next, Creation, Settlement, Destruction
<1> QED BY <1>a, <1>b, FailedBefore DEF Addresses

(* A machine is stopped or deleted while someone is on the way to do it.   *)
LEMMA RemainsStep ==
    ASSUME ProvisioningConstants, Faults \subseteq {"rollback", "create"},
           TypeOK, Machines, CreationsAreFresh, NothingYet, UnusedIsFresh, Remains, [Next]_vars
    PROVE  Remains'
<1> DEFINE Cleaned(r) ==
             /\ machine[r] = "created" => \E x \in Worker : on[x] = r /\ WillDelete(x)
             /\ machine[r] = "running" => \E x \in Worker : on[x] = r /\ WillStop(x)
<1>a. ASSUME NEW r \in Row, NEW w \in Worker, on[w] = r, Wins(w)
      PROVE  Cleaned(r)'
  BY <1>a DEF Wins, TypeOK, NothingYet, WillDelete, WillStop, Settles, Remains, At
<1>b. ASSUME NEW r \in Row, status[r] = "creating" \/ Failed(r), 
             ~ \E w \in Worker : on[w] = r /\ Wins(w)
      PROVE  Cleaned(r)' \/ (status'[r] # "creating" /\ ~Failed(r)')
  <2>0. Cleaned(r)
    BY <1>b DEF Remains
  <2>1. ASSUME NEW w \in Worker, NEW q \in Row, NEW m \in {"nat", "public"}, Reserve(w, q, m)
          PROVE  Cleaned(r)' \/ (status'[r] # "creating" /\ ~Failed(r)')
    BY <2>1, <1>b, <2>0 DEF Reserve, Start, SetStatus, Larger, One, TypeOK, At, WillDelete,
       WillStop, Settles, Machines, ConfirmedIsStarted, CreationsAreFresh, row, host, money,
       worker, past
  <2>2. ASSUME NEW w \in Worker, NEW q \in Row, BeginTimeout(w, q)
          PROVE  Cleaned(r)' \/ (status'[r] # "creating" /\ ~Failed(r)')
    BY <2>2, <1>b, <2>0 DEF BeginTimeout, TypeOK, At, WillDelete, WillStop, Settles, Machines,
       ConfirmedIsStarted, CreationsAreFresh, row, host, money, worker, past
  <2>3. ASSUME NEW w \in Worker, NEW q \in Row, BeginDestroy(w, q)
          PROVE  Cleaned(r)' \/ (status'[r] # "creating" /\ ~Failed(r)')
    BY <2>3, <1>b, <2>0 DEF BeginDestroy, Start, Less, TypeOK, At, WillDelete, WillStop,
       Settles, Machines, ConfirmedIsStarted, CreationsAreFresh, row, host, money, worker, past
  <2>4. ASSUME NEW q \in Row, GrowOld(q)
          PROVE  Cleaned(r)' \/ (status'[r] # "creating" /\ ~Failed(r)')
    BY <2>4, <1>b, <2>0 DEF GrowOld, TypeOK, At, WillDelete, WillStop, Settles, Machines,
       ConfirmedIsStarted, CreationsAreFresh, row, host, money, worker, past
  <2>5. ASSUME NEW w \in Worker, PreparationFails(w) \/ Prepared(w) \/ MapPort(w) \/ Rollback(w)
               \/ SettleFails(w) \/ CountResources(w) \/ WriteResources(w) \/ Crash(w)
          PROVE  Cleaned(r)' \/ (status'[r] # "creating" /\ ~Failed(r)')
    BY <2>5, <1>b, <2>0 DEF PreparationFails, Prepared, MapPort, Rollback, SettleFails,
       CountResources, WriteResources, Crash, End, Goto, Less, One, TypeOK, At, WillDelete,
       WillStop, Settles, Machines, ConfirmedIsStarted, CreationsAreFresh, row, host, money,
       worker, past
  <2>6. ASSUME NEW w \in Worker, CreateMachine(w) \/ StartMachine(w) \/ StopLate(w) \/
               DeleteMachine(w) \/ DestroyMachine(w) \/ DestroyStop(w)
          PROVE  Cleaned(r)' \/ (status'[r] # "creating" /\ ~Failed(r)')
    BY <2>6, <1>b, <2>0 DEF CreateMachine, StartMachine, StopLate, DeleteMachine,
       DestroyMachine, DestroyStop, End, Goto, SetMachine, TypeOK, At, WillDelete, WillStop,
       Settles,
       Machines, ConfirmedIsStarted, CreationsAreFresh, row, host, money, worker, past
  <2>7. ASSUME NEW w \in Worker, HostFails(w)
          PROVE  Cleaned(r)' \/ (status'[r] # "creating" /\ ~Failed(r)')
    <3>1. /\ pc[w] \in {"create", "start"} /\ seen[w] = "none"
          /\ \E m \in {"none", "created"} : machine' = [machine EXCEPT ![on[w]] = m]
          /\ pc' = [pc EXCEPT ![w] = "claim"] /\ catch' = [catch EXCEPT ![w] = TRUE]
          /\ UNCHANGED <<on, seen>>
      BY <2>7 DEF HostFails, Throws, SetMachine, CreationsAreFresh, Early, TypeOK, At
    <3>2. CASE on[w] = r
      BY <3>1, <3>2, <1>b DEF TypeOK, WillDelete, WillStop, At
    <3>3. CASE on[w] # r
      BY <2>0, <3>1, <3>3, <1>b DEF TypeOK, WillDelete, WillStop, Settles, At
    <3> QED BY <3>2, <3>3
  <2>14. ASSUME NEW w \in Worker, FinishFails(w)
          PROVE  Cleaned(r)' \/ (status'[r] # "creating" /\ ~Failed(r)')
    BY <2>14, <1>b, <2>0 DEF FinishFails, Throws, TypeOK, At, WillDelete,
       WillStop, Settles, Machines, ConfirmedIsStarted, CreationsAreFresh, row, host, money,
       worker, past
  <2>8. ASSUME NEW w \in Worker, TakeAddress(w) \/ Release(w)
          PROVE  Cleaned(r)' \/ (status'[r] # "creating" /\ ~Failed(r)')
    BY <2>8, <1>b, <2>0 DEF TakeAddress, Release, Goto, Released, TypeOK, At, WillDelete,
       WillStop, Settles, Machines, ConfirmedIsStarted, CreationsAreFresh, row, host, money,
       worker, past
  <2>9. ASSUME NEW w \in Worker, Claim(w)
          PROVE  Cleaned(r)' \/ (status'[r] # "creating" /\ ~Failed(r)')
    BY <2>9, <1>b, <2>0 DEF Claim, End, Goto, SetStatus, TypeOK, At, WillDelete, WillStop,
       Settles, Machines, ConfirmedIsStarted, CreationsAreFresh, row, host, money, worker, past
  <2>10. ASSUME NEW w \in Worker, Confirm(w)
          PROVE  Cleaned(r)' \/ (status'[r] # "creating" /\ ~Failed(r)')
    <3>0. At(w, "confirm") /\ UNCHANGED <<mode, old, machine, mapped, host, holder, money, past>>
      BY <2>10 DEF Confirm
    <3>1. CASE status[on[w]] = "creating" /\ SetStatus(on[w], "running") /\ Goto(w, "port")
      <4>1. CASE on[w] = r
        <5>1. ~Failed(r)
          BY <3>1, <4>1 DEF Failed, Machines, OneDestroys, Claimed
        <5>2. ~Failed(r)'
          BY <1>b, <5>1, FailedBefore
        <5>3. status'[r] = "running"
          BY <3>1, <4>1 DEF SetStatus, TypeOK
        <5> QED BY <5>2, <5>3
      <4>2. CASE on[w] # r
        BY <2>0, <3>0, <3>1, <4>2 DEF Goto, WillDelete, WillStop, Settles, TypeOK, At
      <4> QED BY <4>1, <4>2
    <3>2. CASE status[on[w]] # "creating" /\ UNCHANGED status /\ Goto(w, "stop")
      BY <2>0, <3>0, <3>2 DEF Goto, WillDelete, WillStop, Settles, TypeOK, At
    <3> QED BY <2>10, <3>1, <3>2 DEF Confirm
  <2>11. ASSUME NEW w \in Worker, DestroyClaim(w) \/ DestroyFails(w)
          PROVE  Cleaned(r)' \/ (status'[r] # "creating" /\ ~Failed(r)')
    BY <2>11, <1>b, <2>0 DEF DestroyClaim, DestroyFails, End, Goto, SetStatus, SetMachine,
       TypeOK, At,
       WillDelete, WillStop, Settles, Machines, ConfirmedIsStarted, CreationsAreFresh, row,
       host, money, worker, past
  <2>12. ASSUME NEW w \in Worker, Refund(w) \/ Settle(w) \/ FreeResources(w)
          PROVE  Cleaned(r)' \/ (status'[r] # "creating" /\ ~Failed(r)')
    BY <2>12, <1>b, <2>0 DEF Refund, Settle, FreeResources, End, Goto, Less, One, TypeOK, At,
       WillDelete, WillStop, Settles, Machines, ConfirmedIsStarted, CreationsAreFresh, row,
       host, money, worker, past
  <2>13. CASE UNCHANGED vars
    BY <2>13, <1>b, <2>0 DEF vars, TypeOK, At, WillDelete, WillStop, Settles, Machines,
       ConfirmedIsStarted, CreationsAreFresh, row, host, money, worker, past
  <2> QED
    BY <2>1, <2>2, <2>3, <2>4, <2>5, <2>6, <2>7, <2>8, <2>9, <2>10, <2>11, <2>12, <2>13,
       <2>14 DEF Next, Creation, Settlement, Destruction
<1>c. ASSUME NEW r \in Row, status'[r] = "creating", status[r] # "creating"
      PROVE  machine'[r] = "none"
  <2>1. ASSUME NEW w \in Worker, NEW q \in Row, NEW m \in {"nat", "public"}, Reserve(w, q, m)
          PROVE  machine'[r] = "none"
    BY <2>1, <1>c DEF Reserve, Start, SetStatus, Larger, One, TypeOK, At, UnusedIsFresh,
       RowsKnown, Machines, Claims, row, host, money, worker, past
  <2>2. ASSUME NEW w \in Worker, NEW q \in Row, BeginTimeout(w, q)
          PROVE  machine'[r] = "none"
    BY <2>2, <1>c DEF BeginTimeout, TypeOK, At, UnusedIsFresh, RowsKnown, Machines, Claims, row,
       host, money, worker, past
  <2>3. ASSUME NEW w \in Worker, NEW q \in Row, BeginDestroy(w, q)
          PROVE  machine'[r] = "none"
    BY <2>3, <1>c DEF BeginDestroy, Start, Less, TypeOK, At, UnusedIsFresh, RowsKnown, Machines,
       Claims, row, host, money, worker, past
  <2>4. ASSUME NEW q \in Row, GrowOld(q)
          PROVE  machine'[r] = "none"
    BY <2>4, <1>c DEF GrowOld, TypeOK, At, UnusedIsFresh, RowsKnown, Machines, Claims, row,
       host, money, worker, past
  <2>5. ASSUME NEW w \in Worker, PreparationFails(w) \/ Prepared(w) \/ MapPort(w) \/ Rollback(w)
               \/ SettleFails(w) \/ CountResources(w) \/ WriteResources(w) \/ Crash(w)
          PROVE  machine'[r] = "none"
    BY <2>5, <1>c DEF PreparationFails, Prepared, MapPort, Rollback, SettleFails,
       CountResources, WriteResources, Crash, End, Goto, Less, One, TypeOK, At, UnusedIsFresh,
       RowsKnown, Machines, Claims, row, host, money, worker, past
  <2>6. ASSUME NEW w \in Worker, CreateMachine(w) \/ StartMachine(w) \/ StopLate(w) \/
               DeleteMachine(w) \/ DestroyMachine(w) \/ DestroyStop(w)
          PROVE  machine'[r] = "none"
    BY <2>6, <1>c DEF CreateMachine, StartMachine, StopLate, DeleteMachine, DestroyMachine,
       DestroyStop, End,
       Goto, SetMachine, TypeOK, At, UnusedIsFresh, RowsKnown, Machines, Claims, row, host,
       money, worker, past
  <2>7. ASSUME NEW w \in Worker, HostFails(w) \/ FinishFails(w)
          PROVE  machine'[r] = "none"
    BY <2>7, <1>c DEF HostFails, FinishFails, SetMachine, Throws, TypeOK, At, UnusedIsFresh,
       RowsKnown, Machines, Claims, row, host, money, worker, past
  <2>8. ASSUME NEW w \in Worker, TakeAddress(w) \/ Release(w)
          PROVE  machine'[r] = "none"
    BY <2>8, <1>c DEF TakeAddress, Release, Goto, Released, TypeOK, At, UnusedIsFresh,
       RowsKnown, Machines, Claims, row, host, money, worker, past
  <2>9. ASSUME NEW w \in Worker, Confirm(w) \/ Claim(w)
          PROVE  machine'[r] = "none"
    BY <2>9, <1>c DEF Confirm, Claim, End, Goto, SetStatus, TypeOK, At, UnusedIsFresh,
       RowsKnown, Machines, Claims, row, host, money, worker, past
  <2>10. ASSUME NEW w \in Worker, DestroyClaim(w) \/ DestroyFails(w)
          PROVE  machine'[r] = "none"
    BY <2>10, <1>c DEF DestroyClaim, DestroyFails, End, Goto, SetStatus, SetMachine, TypeOK, At,
       UnusedIsFresh, RowsKnown, Machines, Claims, row, host, money, worker, past
  <2>11. ASSUME NEW w \in Worker, Refund(w) \/ Settle(w) \/ FreeResources(w)
          PROVE  machine'[r] = "none"
    BY <2>11, <1>c DEF Refund, Settle, FreeResources, End, Goto, Less, One, TypeOK, At,
       UnusedIsFresh, RowsKnown, Machines, Claims, row, host, money, worker, past
  <2>12. CASE UNCHANGED vars
    BY <2>12, <1>c DEF vars, TypeOK, At, UnusedIsFresh, RowsKnown, Machines, Claims, row, host,
       money, worker, past
  <2> QED
    BY <2>1, <2>2, <2>3, <2>4, <2>5, <2>6, <2>7, <2>8, <2>9, <2>10, <2>11, <2>12 DEF Next,
       Creation, Settlement, Destruction
<1> QED BY <1>a, <1>b, <1>c, FailedBefore DEF Remains

(* A creation that failed leaves no machine and no address behind, and its *)
(* price is paid back, once nobody works on it: the settlement by the      *)
(* creation or by the job for stuck creations finds what the other has left*)
(* (handleInstanceCreateFailure, syncStuckCreatingInstances), also if the  *)
(* capacity is not given back and the failed instance is destroyed already.*)
THEOREM FailureLeavesNothingAlways ==
    ASSUME ProvisioningConstants, Faults \subseteq {"rollback", "create"}
    PROVE  Spec => []FailureLeavesNothing
<1> SUFFICES ASSUME ProvisioningConstants, Faults \subseteq {"rollback", "create"}
             PROVE  Spec => []FailureLeavesNothing
  OBVIOUS
<1> DEFINE Inv == TypeOK /\ Machines /\ Money /\ Beginnings /\ Refunds /\ Addresses /\ Remains
<1>1. Init => Inv
  <2> SUFFICES ASSUME Init PROVE Inv
    OBVIOUS
  <2>1. TypeOK
    BY DEF Init, TypeOK, At, Statuses, Creating, Destroying, Settling, ProvisioningConstants
  <2>2. Machines
    BY DEF Init, Machines, RowsKnown, EarlyIsAlone, ConfirmedIsStarted, OneDestroys,
           RunningHasMachine, Early, Claims, Claimed, At
  <2>3. Beginnings
    BY DEF Init, Beginnings, CreationsAreFresh, TakesAlone, UnusedIsFresh, NothingYet, Decided,
           HolderKnown, Early, Settles, At, ProvisioningConstants
  <2>4. \A r \in Row : ~Failed(r) /\ status[r] # "creating"
    BY DEF Init, Failed, Claimed, At
  <2>5. Refunds /\ Addresses /\ Remains
    BY <2>4 DEF Init, Refunds, Addresses, Remains, ProvisioningConstants
  <2>6. Money
    BY DEF Init, Money, DestroysCreated, SettlesAlone, PaysAlone, QuotesInTime, PaidBackOnce,
           Settles, Destroys, Pays, Destroying, At
  <2> QED BY <2>1, <2>2, <2>3, <2>5, <2>6
<1>2. Inv /\ [Next]_vars => Inv'
  BY TypeStep, MachinesStep, MoneyStep, FreshStep, TakesStep, UnusedStep, NothingYetStep,
     DecidedStep,
     HolderStep, RefundsStep, AddressesStep, RemainsStep DEF Beginnings, Machines, Money
<1>3. Inv => FailureLeavesNothing
  BY DEF Refunds, Addresses, Remains, Failed, FailureLeavesNothing, TypeOK, One
<1> QED BY <1>1, <1>2, <1>3, PTL DEF Spec

----------------------------------------------------------------------------
(* Transfer                                                                *)


(* A request that exists has its users; who creates one is alone with it,  *)
(* and who works on one works on one that exists.                          *)
RequestsKnown ==
    \A t \in Request : request[t] # "none" => sender[t] # None /\ receiver[t] \in User

HandlersKnown ==
    \A h \in Handler :
        /\ T!At(h, "create") => request[onRequest[h]] = "none" /\ sender[onRequest[h]] # None
        /\ step[h] \in T!Moving \cup {"refund"} => request[onRequest[h]] # "none"

OneCreates ==
    \A g, h \in Handler :
        T!At(g, "create") /\ T!At(h, "create") /\ onRequest[g] = onRequest[h] => g = h

Known == T!TypeOK /\ RequestsKnown /\ HandlersKnown /\ OneCreates

LEMMA KnownStep ==
    ASSUME T!TransferConstants, Known, [T!Next]_(T!vars) PROVE Known'
<1>1. ASSUME NEW h \in Handler, NEW t \in Request, NEW u \in User, T!BeginCreate(h, t, u)
      PROVE  Known'
  BY <1>1 DEF T!BeginCreate, T!Start, Known, T!TypeOK, T!At, RequestsKnown, HandlersKnown,
      OneCreates, T!Steps, T!Moving, T!Statuses, T!TransferConstants, T!requests, T!row,
      T!machine, T!local
<1>2. ASSUME NEW h \in Handler, NEW t \in Request, NEW s \in {"rejected", "cancelled"},
             T!Close(h, t, s)
      PROVE  Known'
  BY <1>2 DEF T!Close, T!Start, T!Closable, T!Set, Known, T!TypeOK, T!At, RequestsKnown,
      HandlersKnown, OneCreates, T!Steps, T!Moving, T!Statuses, T!TransferConstants,
      T!requests, T!row, T!machine, T!local
<1>3. ASSUME NEW h \in Handler, NEW t \in Request, T!Take(h, t)
      PROVE  Known'
  BY <1>3 DEF T!Take, T!Start, T!Set, Known, T!TypeOK, T!At, RequestsKnown, HandlersKnown,
      OneCreates, T!Steps, T!Moving, T!Statuses, T!TransferConstants, T!requests, T!row,
      T!machine, T!local
<1>4. ASSUME NEW h \in Handler, T!Create(h)
      PROVE  Known'
  BY <1>4 DEF T!Create, T!Set, T!End, Known, T!TypeOK, T!At, RequestsKnown, HandlersKnown,
      OneCreates, T!Steps, T!Moving, T!Statuses, T!TransferConstants, T!requests, T!row,
      T!machine, T!local
<1>5. ASSUME NEW h \in Handler, T!CreateFails(h)
      PROVE  Known'
  BY <1>5 DEF T!CreateFails, T!End, Known, T!TypeOK, T!At, RequestsKnown, HandlersKnown,
      OneCreates, T!Steps, T!Moving, T!Statuses, T!TransferConstants, T!requests, T!row,
      T!machine, T!local
<1>6. ASSUME NEW h \in Handler, T!Refund(h)
      PROVE  Known'
  BY <1>6 DEF T!Refund, T!End, Known, T!TypeOK, T!At, RequestsKnown, HandlersKnown,
      OneCreates, T!Steps, T!Moving, T!Statuses, T!TransferConstants, T!requests, T!row,
      T!machine, T!local
<1>7. ASSUME NEW h \in Handler, T!LookDeleted(h)
      PROVE  Known'
  BY <1>7 DEF T!LookDeleted, T!Set, T!End, Known, T!TypeOK, T!At, RequestsKnown,
      HandlersKnown, OneCreates, T!Steps, T!Moving, T!Statuses, T!TransferConstants,
      T!requests, T!row, T!machine, T!local
<1>8. ASSUME NEW h \in Handler, T!LookInVain(h)
      PROVE  Known'
  BY <1>8 DEF T!LookInVain, T!Goto, Known, T!TypeOK, T!At, RequestsKnown, HandlersKnown,
      OneCreates, T!Steps, T!Moving, T!Statuses, T!TransferConstants, T!requests, T!row,
      T!machine, T!local
<1>9. ASSUME NEW h \in Handler, T!Look(h)
      PROVE  Known'
  BY <1>9 DEF T!Look, Known, T!TypeOK, T!At, RequestsKnown, HandlersKnown, OneCreates,
      T!Steps, T!Moving, T!Statuses, T!TransferConstants, T!requests, T!row, T!machine,
      T!local
<1>10. ASSUME NEW h \in Handler, T!Rename(h)
       PROVE  Known'
  BY <1>10 DEF T!Rename, T!Goto, T!Renamable, Known, T!TypeOK, T!At, RequestsKnown,
      HandlersKnown, OneCreates, T!Steps, T!Moving, T!Statuses, T!TransferConstants,
      T!requests, T!row, T!machine, T!local
<1>11. ASSUME NEW h \in Handler, T!RenameFails(h)
       PROVE  Known'
  BY <1>11 DEF T!RenameFails, T!Goto, T!Renamable, Known, T!TypeOK, T!At, RequestsKnown,
      HandlersKnown, OneCreates, T!Steps, T!Moving, T!Statuses, T!TransferConstants,
      T!requests, T!row, T!machine, T!local
<1>12. ASSUME NEW h \in Handler, T!Execute(h)
       PROVE  Known'
  BY <1>12 DEF T!Execute, T!Set, T!End, Known, T!TypeOK, T!At, RequestsKnown, HandlersKnown,
      OneCreates, T!Steps, T!Moving, T!Statuses, T!TransferConstants, T!requests, T!row,
      T!machine, T!local
<1>13. ASSUME NEW h \in Handler, T!ExecuteFails(h)
       PROVE  Known'
  BY <1>13 DEF T!ExecuteFails, T!Goto, Known, T!TypeOK, T!At, RequestsKnown, HandlersKnown,
      OneCreates, T!Steps, T!Moving, T!Statuses, T!TransferConstants, T!requests, T!row,
      T!machine, T!local
<1>14. ASSUME NEW h \in Handler, T!Undo(h)
       PROVE  Known'
  BY <1>14 DEF T!Undo, T!Goto, Known, T!TypeOK, T!At, RequestsKnown, HandlersKnown,
      OneCreates, T!Steps, T!Moving, T!Statuses, T!TransferConstants, T!requests, T!row,
      T!machine, T!local
<1>15. ASSUME NEW h \in Handler, T!Reopen(h)
       PROVE  Known'
  BY <1>15 DEF T!Reopen, T!Set, T!End, Known, T!TypeOK, T!At, RequestsKnown, HandlersKnown,
      OneCreates, T!Steps, T!Moving, T!Statuses, T!TransferConstants, T!requests, T!row,
      T!machine, T!local
<1>16. ASSUME NEW h \in Handler, T!DestroyClaim(h)
       PROVE  Known'
  BY <1>16 DEF T!DestroyClaim, Known, T!TypeOK, T!At, RequestsKnown, HandlersKnown,
      OneCreates, T!Steps, T!Moving, T!Statuses, T!TransferConstants, T!requests, T!row,
      T!machine, T!local
<1>17. ASSUME NEW h \in Handler, T!DestroyMachine(h)
       PROVE  Known'
  BY <1>17 DEF T!DestroyMachine, T!End, Known, T!TypeOK, T!At, RequestsKnown, HandlersKnown,
      OneCreates, T!Steps, T!Moving, T!Statuses, T!TransferConstants, T!requests, T!row,
      T!machine, T!local
<1>18. ASSUME NEW h \in Handler, T!DestroyFails(h)
       PROVE  Known'
  BY <1>18 DEF T!DestroyFails, T!End, Known, T!TypeOK, T!At, RequestsKnown, HandlersKnown,
      OneCreates, T!Steps, T!Moving, T!Statuses, T!TransferConstants, T!requests, T!row,
      T!machine, T!local
<1>19. ASSUME NEW h \in Handler, T!Crash(h)
       PROVE  Known'
  BY <1>19 DEF T!Crash, T!End, Known, T!TypeOK, T!At, RequestsKnown, HandlersKnown,
      OneCreates, T!Steps, T!Moving, T!Statuses, T!TransferConstants, T!requests, T!row,
      T!machine, T!local
<1>20. ASSUME NEW t \in Request, T!GrowOverdue(t)
       PROVE  Known'
  BY <1>20 DEF T!GrowOverdue, Known, T!TypeOK, T!At, RequestsKnown, HandlersKnown,
      OneCreates, T!Steps, T!Moving, T!Statuses, T!TransferConstants, T!requests, T!row,
      T!machine, T!local
<1>21. ASSUME NEW t \in Request, T!CleanupTimeout(t)
       PROVE  Known'
  BY <1>21 DEF T!CleanupTimeout, T!Set, Known, T!TypeOK, T!At, RequestsKnown, HandlersKnown,
      OneCreates, T!Steps, T!Moving, T!Statuses, T!TransferConstants, T!requests, T!row,
      T!machine, T!local
<1>22. ASSUME T!CleanupStale
       PROVE  Known'
  BY <1>22 DEF T!CleanupStale, Known, T!TypeOK, T!At, RequestsKnown, HandlersKnown,
      OneCreates, T!Steps, T!Moving, T!Statuses, T!TransferConstants, T!requests, T!row,
      T!machine, T!local
<1>23. ASSUME T!StartOrStop
       PROVE  Known'
  BY <1>23 DEF T!StartOrStop, Known, T!TypeOK, T!At, RequestsKnown, HandlersKnown,
      OneCreates, T!Steps, T!Moving, T!Statuses, T!TransferConstants, T!requests, T!row,
      T!machine, T!local
<1>24. CASE UNCHANGED T!vars
  BY <1>24 DEF T!vars, Known, T!TypeOK, T!At, RequestsKnown, HandlersKnown, OneCreates,
      T!Steps, T!Moving, T!Statuses, T!TransferConstants, T!requests, T!row, T!machine,
      T!local
<1> QED
  BY <1>1, <1>2, <1>3, <1>4, <1>5, <1>6, <1>7, <1>8, <1>9, <1>10, <1>11, <1>12, <1>13,
      <1>14, <1>15, <1>16, <1>17, <1>18, <1>19, <1>20, <1>21, <1>22, <1>23, <1>24 DEF
      T!Next, T!Move

(* The types of the state, for any users, requests, handlers and faults.   *)
THEOREM TransferTypeCorrect == ASSUME T!TransferConstants PROVE T!Spec => []T!TypeOK
<1> SUFFICES ASSUME T!TransferConstants PROVE T!Spec => []T!TypeOK
  OBVIOUS
<1>1. T!Init => Known
  BY DEF T!Init, Known, T!TypeOK, T!At, RequestsKnown, HandlersKnown, OneCreates, T!Steps,
      T!Moving, T!Statuses, T!TransferConstants
<1>2. Known /\ [T!Next]_(T!vars) => Known'
  BY KnownStep
<1>3. Known => T!TypeOK
  BY DEF Known
<1> QED BY <1>1, <1>2, <1>3, PTL DEF T!Spec

----------------------------------------------------------------------------
(* Names                                                                   *)

(* A name made up for a move is in no row and in nobody else's hands until *)
(* the move is written.                                                    *)
Renaming(h) == step[h] \in {"rename", "execute", "undo"}

NamesGiven ==
    /\ name <= names
    /\ \A h \in Handler : before[h] <= names /\ after[h] <= names

NamesFresh ==
    \A h \in Handler : Renaming(h) =>
        /\ after[h] # name
        /\ after[h] # 0
        /\ \A g \in Handler :
             /\ before[g] # after[h]
             /\ Renaming(g) /\ after[g] = after[h] => g = h

(* So nobody renames or deletes a machine that waits to be written.        *)
RenamedBeforeWritten == \A h \in Handler : T!At(h, "execute") => actual = after[h]

Named == NamesGiven /\ NamesFresh /\ RenamedBeforeWritten

LEMMA NamedStep ==
    ASSUME T!TypeOK, Named, [T!Next]_(T!vars) PROVE Named'
<1> USE DEF Renaming
<1>1. ASSUME NEW h \in Handler, NEW t \in Request, NEW u \in User, T!BeginCreate(h, t, u)
      PROVE  Named'
  BY <1>1 DEF T!BeginCreate, T!Start, Named, T!TypeOK, T!At, NamesGiven, NamesFresh,
      RenamedBeforeWritten, T!requests, T!row, T!machine, T!local
<1>2. ASSUME NEW h \in Handler, NEW t \in Request, NEW s \in {"rejected", "cancelled"},
             T!Close(h, t, s)
      PROVE  Named'
  BY <1>2 DEF T!Close, T!Start, T!Closable, T!Set, Named, T!TypeOK, T!At, NamesGiven,
      NamesFresh, RenamedBeforeWritten, T!requests, T!row, T!machine, T!local
<1>3. ASSUME NEW h \in Handler, NEW t \in Request, T!Take(h, t)
      PROVE  Named'
  BY <1>3 DEF T!Take, T!Start, T!Set, Named, T!TypeOK, T!At, NamesGiven, NamesFresh,
      RenamedBeforeWritten, T!requests, T!row, T!machine, T!local
<1>4. ASSUME NEW h \in Handler, T!Create(h)
      PROVE  Named'
  BY <1>4 DEF T!Create, T!Set, T!End, Named, T!TypeOK, T!At, NamesGiven, NamesFresh,
      RenamedBeforeWritten, T!requests, T!row, T!machine, T!local
<1>5. ASSUME NEW h \in Handler, T!CreateFails(h)
      PROVE  Named'
  BY <1>5 DEF T!CreateFails, T!End, Named, T!TypeOK, T!At, NamesGiven, NamesFresh,
      RenamedBeforeWritten, T!requests, T!row, T!machine, T!local
<1>6. ASSUME NEW h \in Handler, T!Refund(h)
      PROVE  Named'
  BY <1>6 DEF T!Refund, T!End, Named, T!TypeOK, T!At, NamesGiven, NamesFresh,
      RenamedBeforeWritten, T!requests, T!row, T!machine, T!local
<1>7. ASSUME NEW h \in Handler, T!LookDeleted(h)
      PROVE  Named'
  BY <1>7 DEF T!LookDeleted, T!Set, T!End, Named, T!TypeOK, T!At, NamesGiven, NamesFresh,
      RenamedBeforeWritten, T!requests, T!row, T!machine, T!local
<1>8. ASSUME NEW h \in Handler, T!LookInVain(h)
      PROVE  Named'
  BY <1>8 DEF T!LookInVain, T!Goto, Named, T!TypeOK, T!At, NamesGiven, NamesFresh,
      RenamedBeforeWritten, T!requests, T!row, T!machine, T!local
<1>9. ASSUME NEW h \in Handler, T!Look(h)
      PROVE  Named'
  BY <1>9 DEF T!Look, Named, T!TypeOK, T!At, NamesGiven, NamesFresh, RenamedBeforeWritten,
      T!requests, T!row, T!machine, T!local
<1>10. ASSUME NEW h \in Handler, T!Rename(h)
       PROVE  Named'
  BY <1>10 DEF T!Rename, T!Goto, T!Renamable, Named, T!TypeOK, T!At, NamesGiven, NamesFresh,
      RenamedBeforeWritten, T!requests, T!row, T!machine, T!local
<1>11. ASSUME NEW h \in Handler, T!RenameFails(h)
       PROVE  Named'
  BY <1>11 DEF T!RenameFails, T!Goto, T!Renamable, Named, T!TypeOK, T!At, NamesGiven,
      NamesFresh, RenamedBeforeWritten, T!requests, T!row, T!machine, T!local
<1>12. ASSUME NEW h \in Handler, T!Execute(h)
       PROVE  Named'
  BY <1>12 DEF T!Execute, T!Set, T!End, Named, T!TypeOK, T!At, NamesGiven, NamesFresh,
      RenamedBeforeWritten, T!requests, T!row, T!machine, T!local
<1>13. ASSUME NEW h \in Handler, T!ExecuteFails(h)
       PROVE  Named'
  BY <1>13 DEF T!ExecuteFails, T!Goto, Named, T!TypeOK, T!At, NamesGiven, NamesFresh,
      RenamedBeforeWritten, T!requests, T!row, T!machine, T!local
<1>14. ASSUME NEW h \in Handler, T!Undo(h)
       PROVE  Named'
  BY <1>14 DEF T!Undo, T!Goto, Named, T!TypeOK, T!At, NamesGiven, NamesFresh,
      RenamedBeforeWritten, T!requests, T!row, T!machine, T!local
<1>15. ASSUME NEW h \in Handler, T!Reopen(h)
       PROVE  Named'
  BY <1>15 DEF T!Reopen, T!Set, T!End, Named, T!TypeOK, T!At, NamesGiven, NamesFresh,
      RenamedBeforeWritten, T!requests, T!row, T!machine, T!local
<1>16. ASSUME NEW h \in Handler, T!DestroyClaim(h)
       PROVE  Named'
  BY <1>16 DEF T!DestroyClaim, Named, T!TypeOK, T!At, NamesGiven, NamesFresh,
      RenamedBeforeWritten, T!requests, T!row, T!machine, T!local
<1>17. ASSUME NEW h \in Handler, T!DestroyMachine(h)
       PROVE  Named'
  BY <1>17 DEF T!DestroyMachine, T!End, Named, T!TypeOK, T!At, NamesGiven, NamesFresh,
      RenamedBeforeWritten, T!requests, T!row, T!machine, T!local
<1>18. ASSUME NEW h \in Handler, T!DestroyFails(h)
       PROVE  Named'
  BY <1>18 DEF T!DestroyFails, T!End, Named, T!TypeOK, T!At, NamesGiven, NamesFresh,
      RenamedBeforeWritten, T!requests, T!row, T!machine, T!local
<1>19. ASSUME NEW h \in Handler, T!Crash(h)
       PROVE  Named'
  BY <1>19 DEF T!Crash, T!End, Named, T!TypeOK, T!At, NamesGiven, NamesFresh,
      RenamedBeforeWritten, T!requests, T!row, T!machine, T!local
<1>20. ASSUME NEW t \in Request, T!GrowOverdue(t)
       PROVE  Named'
  BY <1>20 DEF T!GrowOverdue, Named, T!TypeOK, T!At, NamesGiven, NamesFresh,
      RenamedBeforeWritten, T!requests, T!row, T!machine, T!local
<1>21. ASSUME NEW t \in Request, T!CleanupTimeout(t)
       PROVE  Named'
  BY <1>21 DEF T!CleanupTimeout, T!Set, Named, T!TypeOK, T!At, NamesGiven, NamesFresh,
      RenamedBeforeWritten, T!requests, T!row, T!machine, T!local
<1>22. ASSUME T!CleanupStale
       PROVE  Named'
  BY <1>22 DEF T!CleanupStale, Named, T!TypeOK, T!At, NamesGiven, NamesFresh,
      RenamedBeforeWritten, T!requests, T!row, T!machine, T!local
<1>23. ASSUME T!StartOrStop
       PROVE  Named'
  BY <1>23 DEF T!StartOrStop, Named, T!TypeOK, T!At, NamesGiven, NamesFresh,
      RenamedBeforeWritten, T!requests, T!row, T!machine, T!local
<1>24. CASE UNCHANGED T!vars
  BY <1>24 DEF T!vars, Named, T!TypeOK, T!At, NamesGiven, NamesFresh, RenamedBeforeWritten,
      T!requests, T!row, T!machine, T!local
<1> QED
  BY <1>1, <1>2, <1>3, <1>4, <1>5, <1>6, <1>7, <1>8, <1>9, <1>10, <1>11, <1>12, <1>13,
      <1>14, <1>15, <1>16, <1>17, <1>18, <1>19, <1>20, <1>21, <1>22, <1>23, <1>24 DEF
      T!Next, T!Move

(* An owner changes only with the machine, whatever the faults: a process  *)
(* dies, a host fails, a clean-up is early, or a destruction is under way. *)
THEOREM MovesWithMachineAlways ==
    ASSUME T!TransferConstants PROVE T!Spec => T!MovesWithMachine
<1> SUFFICES ASSUME T!TransferConstants PROVE T!Spec => T!MovesWithMachine
  OBVIOUS
<1>1. T!Init => Named
  BY DEF T!Init, Named, NamesGiven, NamesFresh, RenamedBeforeWritten, Renaming, T!At
<1>2. T!TypeOK /\ Named /\ [T!Next]_(T!vars) => Named'
  BY NamedStep
<1>3. T!TypeOK /\ Named /\ [T!Next]_(T!vars) => [owner' # owner => actual' = name']_(T!vars)
  <2> SUFFICES ASSUME T!TypeOK, Named, T!Next, owner' # owner PROVE actual' = name'
    BY DEF T!vars, T!row
  <2>1. PICK h \in Handler : T!Execute(h)
    BY DEF T!Next, T!Move, T!BeginCreate, T!Close, T!Take, T!Create, T!CreateFails,
        T!Refund, T!LookDeleted, T!LookInVain, T!Look, T!Rename, T!RenameFails,
        T!ExecuteFails, T!Undo, T!Reopen, T!DestroyClaim, T!DestroyMachine, T!DestroyFails,
        T!Crash, T!GrowOverdue, T!CleanupTimeout, T!CleanupStale, T!StartOrStop, T!row
  <2> QED BY <2>1 DEF T!Execute, Named, RenamedBeforeWritten, T!machine
<1> QED BY <1>1, <1>2, <1>3, TransferTypeCorrect, PTL DEF T!Spec, T!MovesWithMachine

----------------------------------------------------------------------------
(* Fees                                                                    *)

Closed(t) == request[t] \in {"rejected", "cancelled"}
MovedBy(h, t) == onRequest[h] = t /\ step[h] \in T!Moving

(* One handler at a time accepts a request, which is processing meanwhile, *)
(* unless a clean-up has put it back.                                      *)
MovedIsProcessing ==
    \A h \in Handler, t \in Request : MovedBy(h, t) /\ ~met[t] =>
        /\ request[t] = "processing"
        /\ \A g \in Handler : MovedBy(g, t) => g = h

(* Who owes a fee is alone with it, and the request stays closed.          *)
FeeIsOwed ==
    \A h \in Handler, t \in Request : T!At(h, "refund") /\ onRequest[h] = t /\ ~met[t] =>
        /\ Closed(t)
        /\ feeRefunded[t] = 0
        /\ \A g \in Handler : T!At(g, "refund") /\ onRequest[g] = t => g = h

RefundedIsClosed == \A t \in Request : feeRefunded[t] # 0 /\ ~met[t] => Closed(t)

FeesOnce == \A t \in Request : ~met[t] => feeRefunded[t] <= 1

Fees == MovedIsProcessing /\ FeeIsOwed /\ RefundedIsClosed /\ FeesOnce

LEMMA FeesStep ==
    ASSUME Known, Fees, [T!Next]_(T!vars) PROVE Fees'
<1> USE DEF MovedBy, Closed, T!Worked
<1>1. ASSUME NEW h \in Handler, NEW t \in Request, NEW u \in User, T!BeginCreate(h, t, u)
      PROVE  Fees'
  BY <1>1 DEF T!BeginCreate, T!Start, Fees, Known, T!TypeOK, HandlersKnown, OneCreates,
      T!At, MovedIsProcessing, FeeIsOwed, RefundedIsClosed, FeesOnce, T!Moving, T!requests,
      T!row, T!machine, T!local
<1>2. ASSUME NEW h \in Handler, NEW t \in Request, NEW s \in {"rejected", "cancelled"},
             T!Close(h, t, s)
      PROVE  Fees'
  BY <1>2 DEF T!Close, T!Start, T!Closable, T!Set, Fees, Known, T!TypeOK, HandlersKnown,
      OneCreates, T!At, MovedIsProcessing, FeeIsOwed, RefundedIsClosed, FeesOnce, T!Moving,
      T!requests, T!row, T!machine, T!local
<1>3. ASSUME NEW h \in Handler, NEW t \in Request, T!Take(h, t)
      PROVE  Fees'
  BY <1>3 DEF T!Take, T!Start, T!Set, Fees, Known, T!TypeOK, HandlersKnown, OneCreates,
      T!At, MovedIsProcessing, FeeIsOwed, RefundedIsClosed, FeesOnce, T!Moving, T!requests,
      T!row, T!machine, T!local
<1>4. ASSUME NEW h \in Handler, T!Create(h)
      PROVE  Fees'
  BY <1>4 DEF T!Create, T!Set, T!End, Fees, Known, T!TypeOK, HandlersKnown, OneCreates,
      T!At, MovedIsProcessing, FeeIsOwed, RefundedIsClosed, FeesOnce, T!Moving, T!requests,
      T!row, T!machine, T!local
<1>5. ASSUME NEW h \in Handler, T!CreateFails(h)
      PROVE  Fees'
  BY <1>5 DEF T!CreateFails, T!End, Fees, Known, T!TypeOK, HandlersKnown, OneCreates, T!At,
      MovedIsProcessing, FeeIsOwed, RefundedIsClosed, FeesOnce, T!Moving, T!requests, T!row,
      T!machine, T!local
<1>6. ASSUME NEW h \in Handler, T!Refund(h)
      PROVE  Fees'
  BY <1>6 DEF T!Refund, T!End, Fees, Known, T!TypeOK, HandlersKnown, OneCreates, T!At,
      MovedIsProcessing, FeeIsOwed, RefundedIsClosed, FeesOnce, T!Moving, T!requests, T!row,
      T!machine, T!local
<1>7. ASSUME NEW h \in Handler, T!LookDeleted(h)
      PROVE  Fees'
  BY <1>7 DEF T!LookDeleted, T!Set, T!End, Fees, Known, T!TypeOK, HandlersKnown, OneCreates,
      T!At, MovedIsProcessing, FeeIsOwed, RefundedIsClosed, FeesOnce, T!Moving, T!requests,
      T!row, T!machine, T!local
<1>8. ASSUME NEW h \in Handler, T!LookInVain(h)
      PROVE  Fees'
  BY <1>8 DEF T!LookInVain, T!Goto, Fees, Known, T!TypeOK, HandlersKnown, OneCreates, T!At,
      MovedIsProcessing, FeeIsOwed, RefundedIsClosed, FeesOnce, T!Moving, T!requests, T!row,
      T!machine, T!local
<1>9. ASSUME NEW h \in Handler, T!Look(h)
      PROVE  Fees'
  BY <1>9 DEF T!Look, Fees, Known, T!TypeOK, HandlersKnown, OneCreates, T!At,
      MovedIsProcessing, FeeIsOwed, RefundedIsClosed, FeesOnce, T!Moving, T!requests, T!row,
      T!machine, T!local
<1>10. ASSUME NEW h \in Handler, T!Rename(h)
       PROVE  Fees'
  BY <1>10 DEF T!Rename, T!Goto, T!Renamable, Fees, Known, T!TypeOK, HandlersKnown,
      OneCreates, T!At, MovedIsProcessing, FeeIsOwed, RefundedIsClosed, FeesOnce, T!Moving,
      T!requests, T!row, T!machine, T!local
<1>11. ASSUME NEW h \in Handler, T!RenameFails(h)
       PROVE  Fees'
  BY <1>11 DEF T!RenameFails, T!Goto, T!Renamable, Fees, Known, T!TypeOK, HandlersKnown,
      OneCreates, T!At, MovedIsProcessing, FeeIsOwed, RefundedIsClosed, FeesOnce, T!Moving,
      T!requests, T!row, T!machine, T!local
<1>12. ASSUME NEW h \in Handler, T!Execute(h)
       PROVE  Fees'
  BY <1>12 DEF T!Execute, T!Set, T!End, Fees, Known, T!TypeOK, HandlersKnown, OneCreates,
      T!At, MovedIsProcessing, FeeIsOwed, RefundedIsClosed, FeesOnce, T!Moving, T!requests,
      T!row, T!machine, T!local
<1>13. ASSUME NEW h \in Handler, T!ExecuteFails(h)
       PROVE  Fees'
  BY <1>13 DEF T!ExecuteFails, T!Goto, Fees, Known, T!TypeOK, HandlersKnown, OneCreates,
      T!At, MovedIsProcessing, FeeIsOwed, RefundedIsClosed, FeesOnce, T!Moving, T!requests,
      T!row, T!machine, T!local
<1>14. ASSUME NEW h \in Handler, T!Undo(h)
       PROVE  Fees'
  BY <1>14 DEF T!Undo, T!Goto, Fees, Known, T!TypeOK, HandlersKnown, OneCreates, T!At,
      MovedIsProcessing, FeeIsOwed, RefundedIsClosed, FeesOnce, T!Moving, T!requests, T!row,
      T!machine, T!local
<1>15. ASSUME NEW h \in Handler, T!Reopen(h)
       PROVE  Fees'
  BY <1>15 DEF T!Reopen, T!Set, T!End, Fees, Known, T!TypeOK, HandlersKnown, OneCreates,
      T!At, MovedIsProcessing, FeeIsOwed, RefundedIsClosed, FeesOnce, T!Moving, T!requests,
      T!row, T!machine, T!local
<1>16. ASSUME NEW h \in Handler, T!DestroyClaim(h)
       PROVE  Fees'
  BY <1>16 DEF T!DestroyClaim, Fees, Known, T!TypeOK, HandlersKnown, OneCreates, T!At,
      MovedIsProcessing, FeeIsOwed, RefundedIsClosed, FeesOnce, T!Moving, T!requests, T!row,
      T!machine, T!local
<1>17. ASSUME NEW h \in Handler, T!DestroyMachine(h)
       PROVE  Fees'
  BY <1>17 DEF T!DestroyMachine, T!End, Fees, Known, T!TypeOK, HandlersKnown, OneCreates,
      T!At, MovedIsProcessing, FeeIsOwed, RefundedIsClosed, FeesOnce, T!Moving, T!requests,
      T!row, T!machine, T!local
<1>18. ASSUME NEW h \in Handler, T!DestroyFails(h)
       PROVE  Fees'
  BY <1>18 DEF T!DestroyFails, T!End, Fees, Known, T!TypeOK, HandlersKnown, OneCreates,
      T!At, MovedIsProcessing, FeeIsOwed, RefundedIsClosed, FeesOnce, T!Moving, T!requests,
      T!row, T!machine, T!local
<1>19. ASSUME NEW h \in Handler, T!Crash(h)
       PROVE  Fees'
  BY <1>19 DEF T!Crash, T!End, Fees, Known, T!TypeOK, HandlersKnown, OneCreates, T!At,
      MovedIsProcessing, FeeIsOwed, RefundedIsClosed, FeesOnce, T!Moving, T!requests, T!row,
      T!machine, T!local
<1>20. ASSUME NEW t \in Request, T!GrowOverdue(t)
       PROVE  Fees'
  BY <1>20 DEF T!GrowOverdue, Fees, Known, T!TypeOK, HandlersKnown, OneCreates, T!At,
      MovedIsProcessing, FeeIsOwed, RefundedIsClosed, FeesOnce, T!Moving, T!requests, T!row,
      T!machine, T!local
<1>21. ASSUME NEW t \in Request, T!CleanupTimeout(t)
       PROVE  Fees'
  <2>1. /\ request' = [request EXCEPT ![t] = "pending"] /\ request[t] = "processing"
        /\ UNCHANGED <<feeRefunded, step, onRequest>>
    BY <1>21 DEF T!CleanupTimeout, T!Set, T!local
  <2>2. \A r \in Request : met[r] => met'[r]
    BY <1>21, Zenon DEF T!CleanupTimeout, Known, T!TypeOK
  <2>3. \A r \in Request : ~met'[r] => ~met[r]
    BY <2>2
  <2>4. ~met'[t] => \A h \in Handler : ~MovedBy(h, t)
    BY <1>21, Zenon DEF T!CleanupTimeout, Known, T!TypeOK
  <2>5. \A r \in Request : r # t => request'[r] = request[r]
    BY <2>1 DEF Known, T!TypeOK
  <2>6. MovedIsProcessing'
    BY <2>1, <2>3, <2>4, <2>5 DEF Fees, MovedIsProcessing
  <2>7. FeeIsOwed' /\ RefundedIsClosed' /\ FeesOnce'
    BY <2>1, <2>3, <2>5 DEF Fees, FeeIsOwed, RefundedIsClosed, FeesOnce, T!At
  <2> QED BY <2>6, <2>7 DEF Fees
<1>22. ASSUME T!CleanupStale
       PROVE  Fees'
  <2>1. /\ \A r \in Request : request'[r] = IF request[r] = "processing" THEN "pending"
                                                                      ELSE request[r]
        /\ UNCHANGED <<feeRefunded, step, onRequest>>
    BY <1>22 DEF T!CleanupStale, T!local
  <2>2. \A r \in Request : met[r] => met'[r]
    BY <1>22, Zenon DEF T!CleanupStale
  <2>3. \A r \in Request : ~met'[r] => ~met[r]
    BY <2>2
  <2>4. \A r \in Request : ~met'[r] /\ request[r] = "processing" =>
                              \A h \in Handler : ~MovedBy(h, r)
    BY <1>22, Zenon DEF T!CleanupStale
  <2>6. MovedIsProcessing'
    BY <2>1, <2>3, <2>4 DEF Fees, MovedIsProcessing
  <2>7. FeeIsOwed' /\ RefundedIsClosed' /\ FeesOnce'
    BY <2>1, <2>3 DEF Fees, FeeIsOwed, RefundedIsClosed, FeesOnce, T!At
  <2> QED BY <2>6, <2>7 DEF Fees
<1>23. ASSUME T!StartOrStop
       PROVE  Fees'
  BY <1>23 DEF T!StartOrStop, Fees, Known, T!TypeOK, HandlersKnown, OneCreates, T!At,
      MovedIsProcessing, FeeIsOwed, RefundedIsClosed, FeesOnce, T!Moving, T!requests, T!row,
      T!machine, T!local
<1>24. CASE UNCHANGED T!vars
  BY <1>24 DEF T!vars, Fees, Known, T!TypeOK, HandlersKnown, OneCreates, T!At,
      MovedIsProcessing, FeeIsOwed, RefundedIsClosed, FeesOnce, T!Moving, T!requests, T!row,
      T!machine, T!local
<1> QED
  BY <1>1, <1>2, <1>3, <1>4, <1>5, <1>6, <1>7, <1>8, <1>9, <1>10, <1>11, <1>12, <1>13,
      <1>14, <1>15, <1>16, <1>17, <1>18, <1>19, <1>20, <1>21, <1>22, <1>23, <1>24 DEF
      T!Next, T!Move

(* The fee of a transfer is paid back once at most, and never if it takes  *)
(* place, unless a clean-up put the request back while it was worked on,   *)
(* whatever fails and whoever dies.                                        *)
THEOREM FeeOnceAlways ==
    ASSUME T!TransferConstants PROVE T!Spec => []T!FeeOnce
<1> SUFFICES ASSUME T!TransferConstants PROVE T!Spec => []T!FeeOnce
  OBVIOUS
<1>1. T!Init => Known /\ Fees
  BY DEF T!Init, Known, T!TypeOK, T!At, RequestsKnown, HandlersKnown, OneCreates, T!Steps,
      T!Moving, T!Statuses, T!TransferConstants, Fees, MovedIsProcessing, FeeIsOwed,
      RefundedIsClosed, FeesOnce, MovedBy
<1>2. Known /\ Fees /\ [T!Next]_(T!vars) => (Known /\ Fees)'
  BY KnownStep, FeesStep
<1>3. Known /\ Fees => T!FeeOnce
  <2> SUFFICES ASSUME Known, Fees, NEW t \in Request, ~met[t]
               PROVE  /\ feeRefunded[t] <= 1
                      /\ feeRefunded[t] = 1 => request[t] \in {"rejected", "cancelled"}
    BY DEF T!FeeOnce
  <2>1. feeRefunded[t] <= 1
    BY DEF Fees, FeesOnce
  <2>2. feeRefunded[t] # 0 => request[t] \in {"rejected", "cancelled"}
    BY DEF Fees, RefundedIsClosed, Closed
  <2> QED BY <2>1, <2>2
<1> QED BY <1>1, <1>2, <1>3, PTL DEF T!Spec

----------------------------------------------------------------------------
(* Growth of instances                                                     *)

(* The steps of a handler, by what it is at.                               *)
ApplyStep(h) ==
    \/ \E l \in Log : Grow!BeginApply(h, l)
    \/ Grow!ReadRow(h) \/ Grow!Debit(h) \/ Grow!DebitFails(h) \/ Grow!Patch(h)
         \/ Grow!PatchFails(h) \/ Grow!Confirm(h)
(* A step of the job for pending logs.                                     *)
JobStep(h) ==
    \/ Grow!FindPending(h) \/ Grow!TakeLease(h) \/ Grow!ReadBoth(h) \/ Grow!Compare(h)
    \/ Grow!Reconcile(h) \/ Grow!ReconcileFails(h) \/ Grow!Mark(h)
(* A step of the redemption of a code.                                     *)
CodeStep(h) ==
    \/ \E c \in Code : Grow!BeginRedeem(h, c)
    \/ Grow!PatchFirst(h) \/ Grow!PatchFirstFails(h) \/ Grow!Use(h) \/ Grow!UseFails(h)
         \/ Grow!Undo(h)

LEMMA GrowthSteps ==
    ASSUME Grow!Next
    PROVE  \/ \E h \in Handler : ApplyStep(h) \/ JobStep(h) \/ CodeStep(h) \/ Grow!Crash(h)
           \/ \E c \in Code : Grow!CodeChanges(c)
           \/ Grow!LeaseExpires
  BY DEF Grow!Next, ApplyStep, JobStep, CodeStep

(* What a handler is at, and with which item.                              *)
Jobs ==
    \A h \in Handler :
        /\ stage[h] = "idle" <=> kind[h] = "none"
        /\ kind[h] = "apply" => stage[h] \in {"read", "debit", "patch", "confirm"}
             /\ item[h] \in Log
        /\ kind[h] = "reconcile" => stage[h] \in {"lease", "read", "compare", "patch", "mark"}
        /\ kind[h] = "redeem" => stage[h] \in {"read", "use", "undo"} /\ item[h] \in Code

(* Types, and what a handler has at each step.                             *)
GrowthTyped == Grow!TypeOK /\ Jobs

LEMMA GrowthTypedStep == ASSUME GrowthTyped, [Grow!Next]_(Grow!vars) PROVE GrowthTyped'
<1> USE DEF GrowthTyped, Grow!TypeOK, Jobs, Grow!row, Grow!codes, Grow!local, Grow!At,
   Grow!Goto, Grow!Forget, Grow!End, Grow!Begin, Grow!Applied
<1>1. CASE UNCHANGED Grow!vars
  BY <1>1 DEF Grow!vars
<1>2. ASSUME NEW h \in Handler, ApplyStep(h) PROVE GrowthTyped'
  <2>1. ASSUME NEW l \in Log, Grow!BeginApply(h, l) PROVE GrowthTyped'
    BY <2>1 DEF Grow!BeginApply
  <2>2. CASE Grow!ReadRow(h)
    BY <2>2 DEF Grow!ReadRow
  <2>3. CASE Grow!Debit(h)
    BY <2>3 DEF Grow!Debit
  <2>4. CASE Grow!DebitFails(h)
    BY <2>4 DEF Grow!DebitFails
  <2>5. CASE Grow!Patch(h)
    BY <2>5 DEF Grow!Patch
  <2>6. CASE Grow!PatchFails(h)
    BY <2>6 DEF Grow!PatchFails
  <2>7. CASE Grow!Confirm(h)
    BY <2>7 DEF Grow!Confirm
  <2> QED BY <1>2, <2>1, <2>2, <2>3, <2>4, <2>5, <2>6, <2>7 DEF ApplyStep
<1>3. ASSUME NEW h \in Handler, JobStep(h) PROVE GrowthTyped'
  <2>1. CASE Grow!FindPending(h)
    BY <2>1 DEF Grow!FindPending
  <2>2. CASE Grow!TakeLease(h)
    BY <2>2 DEF Grow!TakeLease
  <2>3. CASE Grow!ReadBoth(h)
    BY <2>3 DEF Grow!ReadBoth
  <2>4. CASE Grow!Compare(h)
    BY <2>4 DEF Grow!Compare
  <2>5. CASE Grow!Reconcile(h)
    BY <2>5 DEF Grow!Reconcile
  <2>6. CASE Grow!ReconcileFails(h)
    BY <2>6 DEF Grow!ReconcileFails
  <2>7. CASE Grow!Mark(h)
    BY <2>7 DEF Grow!Mark
  <2> QED BY <1>3, <2>1, <2>2, <2>3, <2>4, <2>5, <2>6, <2>7 DEF JobStep
<1>4. ASSUME NEW h \in Handler, CodeStep(h) PROVE GrowthTyped'
  <2>1. ASSUME NEW c \in Code, Grow!BeginRedeem(h, c) PROVE GrowthTyped'
    BY <2>1 DEF Grow!BeginRedeem
  <2>2. CASE Grow!PatchFirst(h)
    BY <2>2 DEF Grow!PatchFirst
  <2>3. CASE Grow!PatchFirstFails(h)
    BY <2>3 DEF Grow!PatchFirstFails
  <2>4. CASE Grow!Use(h)
    BY <2>4 DEF Grow!Use
  <2>5. CASE Grow!UseFails(h)
    BY <2>5 DEF Grow!UseFails
  <2>6. CASE Grow!Undo(h)
    BY <2>6 DEF Grow!Undo
  <2> QED BY <1>4, <2>1, <2>2, <2>3, <2>4, <2>5, <2>6 DEF CodeStep
<1>5. ASSUME NEW h \in Handler, Grow!Crash(h) PROVE GrowthTyped'
  BY <1>5 DEF Grow!Crash
<1>6. ASSUME NEW c \in Code, Grow!CodeChanges(c) PROVE GrowthTyped'
  BY <1>6 DEF Grow!CodeChanges
<1>7. CASE Grow!LeaseExpires
  BY <1>7 DEF Grow!LeaseExpires
<1> QED BY <1>1, <1>2, <1>3, <1>4, <1>5, <1>6, <1>7, GrowthSteps

(* If leases outlast their holders and codes are used by themselves, one   *)
(* handler at a time is between the read of the row and its end.           *)
Idling == {"idle", "lease"}

(* One handler at a time reads and writes the size, as it holds the lease. *)
OneWorks ==
    /\ \A h \in Handler : kind[h] \in {"apply", "reconcile"} /\ stage[h] # "lease" => lease = h
    /\ \A g, h \in Handler : stage[g] \notin Idling /\ stage[h] \notin Idling => g = h

LEMMA OneWorksStep ==
    ASSUME Grow!InstanceResourcesConstants, {"slow", "beside"} \cap GrowthFaults = {},
           GrowthTyped, OneWorks,
           [Grow!Next]_(Grow!vars)
    PROVE  OneWorks'
<1> USE DEF GrowthTyped, Grow!TypeOK, Jobs, Grow!row, Grow!codes, Grow!local, Grow!At,
   Grow!Busy, Grow!Goto, Grow!Forget, Grow!End, Grow!Begin, Idling,
   Grow!InstanceResourcesConstants
<1>1. CASE UNCHANGED Grow!vars
  BY <1>1 DEF Grow!vars, OneWorks
<1>2. ASSUME NEW h \in Handler, lease = None, ~Grow!Busy("redeem")
      PROVE  \A g \in Handler : stage[g] \in Idling
  BY <1>2 DEF OneWorks
<1>3. ASSUME NEW h \in Handler, NEW j \in {"apply", "reconcile"},
             lease = None, ~Grow!Busy("redeem"), lease' = h,
             stage' = [stage EXCEPT ![h] = "read"],
             kind' = [kind EXCEPT ![h] = j]
      PROVE  OneWorks'
  BY <1>2, <1>3 DEF OneWorks
<1>4. ASSUME NEW h \in Handler, stage[h] \notin Idling, stage'[h] # "lease", lease' = lease,
             kind' = kind, \A g \in Handler \ {h} : stage'[g] = stage[g]
      PROVE  OneWorks'
  BY <1>4 DEF OneWorks
<1>5. ASSUME NEW h \in Handler, Grow!Forget(h),
             lease' = lease \/ lease' = IF lease = h THEN None ELSE lease
      PROVE  OneWorks'
  BY <1>5 DEF OneWorks
<1>6. ASSUME NEW h \in Handler, ApplyStep(h) PROVE OneWorks'
  <2>1. ASSUME NEW l \in Log, Grow!BeginApply(h, l) PROVE OneWorks'
    <3>1. lease = None /\ ~Grow!Busy("redeem") /\ lease' = h
         /\ stage' = [stage EXCEPT ![h] = "read"]
          /\ kind' = [kind EXCEPT ![h] = "apply"]
      BY <2>1 DEF Grow!BeginApply
    <3> HIDE DEF Grow!Busy
    <3> QED BY <1>3, <3>1
  <2>2. CASE Grow!ReadRow(h) \/ Grow!Debit(h) \/ Grow!Patch(h)
    <3> stage[h] \notin Idling /\ stage'[h] # "lease" /\ lease' = lease /\ kind' = kind
        /\ \A g \in Handler \ {h} : stage'[g] = stage[g]
      BY <2>2 DEF Grow!ReadRow, Grow!Debit, Grow!Patch
    <3> QED BY <1>4
  <2>3. CASE Grow!DebitFails(h) \/ Grow!PatchFails(h) \/ Grow!Confirm(h)
    <3> Grow!Forget(h) /\ lease' = IF lease = h THEN None ELSE lease
      BY <2>3 DEF Grow!DebitFails, Grow!PatchFails, Grow!Confirm
    <3> QED BY <1>5
  <2> QED BY <1>6, <2>1, <2>2, <2>3 DEF ApplyStep
<1>7. ASSUME NEW h \in Handler, JobStep(h) PROVE OneWorks'
  <2>1. CASE Grow!FindPending(h)
    BY <2>1 DEF Grow!FindPending, OneWorks
  <2>2. CASE Grow!TakeLease(h)
    <3>1. CASE lease = None
      <4>1. lease = None /\ ~Grow!Busy("redeem") /\ lease' = h
           /\ stage' = [stage EXCEPT ![h] = "read"]
            /\ kind' = [kind EXCEPT ![h] = "reconcile"]
        BY <2>2, <3>1 DEF Grow!TakeLease
      <4> HIDE DEF Grow!Busy
      <4> QED BY <1>3, <4>1
    <3>2. CASE lease # None
      BY <1>5, <2>2, <3>2 DEF Grow!TakeLease
    <3> QED BY <3>1, <3>2
  <2>3. CASE Grow!ReadBoth(h) \/ Grow!Compare(h) \/ Grow!Reconcile(h)
    <3> stage[h] \notin Idling /\ stage'[h] # "lease" /\ lease' = lease /\ kind' = kind
        /\ \A g \in Handler \ {h} : stage'[g] = stage[g]
      BY <2>3 DEF Grow!ReadBoth, Grow!Compare, Grow!Reconcile
    <3> QED BY <1>4
  <2>4. CASE Grow!ReconcileFails(h) \/ Grow!Mark(h)
    <3> Grow!Forget(h) /\ lease' = IF lease = h THEN None ELSE lease
      BY <2>4 DEF Grow!ReconcileFails, Grow!Mark
    <3> QED BY <1>5
  <2> QED BY <1>7, <2>1, <2>2, <2>3, <2>4 DEF JobStep
<1>8. ASSUME NEW h \in Handler, CodeStep(h) PROVE OneWorks'
  <2>1. ASSUME NEW c \in Code, Grow!BeginRedeem(h, c) PROVE OneWorks'
    BY <2>1 DEF Grow!BeginRedeem, OneWorks
  <2>2. CASE Grow!PatchFirst(h) \/ Grow!UseFails(h)
    <3> stage[h] \notin Idling /\ stage'[h] # "lease" /\ lease' = lease /\ kind' = kind
        /\ \A g \in Handler \ {h} : stage'[g] = stage[g]
      BY <2>2 DEF Grow!PatchFirst, Grow!UseFails
    <3> QED BY <1>4
  <2>3. CASE Grow!PatchFirstFails(h) \/ Grow!Use(h) \/ Grow!Undo(h)
    <3> Grow!Forget(h) /\ lease' = IF lease = h THEN None ELSE lease
      BY <2>3 DEF Grow!PatchFirstFails, Grow!Use, Grow!Undo
    <3> QED BY <1>5
  <2> QED BY <1>8, <2>1, <2>2, <2>3 DEF CodeStep
<1>9. ASSUME NEW h \in Handler, Grow!Crash(h) PROVE OneWorks'
  BY <1>5, <1>9 DEF Grow!Crash
<1>10. ASSUME NEW c \in Code, Grow!CodeChanges(c) PROVE OneWorks'
  BY <1>10 DEF Grow!CodeChanges, OneWorks
<1>11. CASE Grow!LeaseExpires
  BY <1>11 DEF Grow!LeaseExpires, OneWorks
<1> QED BY <1>1, <1>6, <1>7, <1>8, <1>9, <1>10, <1>11, GrowthSteps

(* So what it has read is still the size of the row when it writes.        *)
ReadIsTrue ==
    \A h \in Handler :
        /\ stage[h] \in {"debit", "compare", "mark", "use", "undo"} => found[h] = size
        /\ stage[h] = "patch" /\ kind[h] = "reconcile" => found[h] = size
        /\ stage[h] = "read" /\ kind[h] = "redeem" => found[h] = size
        /\ stage[h] \in {"patch", "confirm"} /\ kind[h] = "apply" =>
              found[h] + 1 = size /\ logs[item[h]] = "pending"
        /\ stage[h] \in {"confirm", "mark"} => patched = size
        /\ stage[h] = "use" => patched = found[h] + 1

LEMMA ReadIsTrueStep ==
    ASSUME Grow!InstanceResourcesConstants, GrowthTyped, OneWorks, ReadIsTrue,
           [Grow!Next]_(Grow!vars)
    PROVE  ReadIsTrue'
<1> USE DEF GrowthTyped, Grow!TypeOK, Jobs, Grow!row, Grow!codes, Grow!local, Grow!At,
   Grow!Goto, Grow!Forget, Grow!End, Grow!Begin, Grow!Applied
<1>1. CASE UNCHANGED Grow!vars
  BY <1>1 DEF Grow!vars, ReadIsTrue
<1>2. ASSUME NEW h \in Handler, UNCHANGED <<Grow!row, patched>>,
             \A g \in Handler \ {h} : stage'[g] = stage[g] /\ kind'[g] = kind[g]
                  /\ item'[g] = item[g]
                                      /\ found'[g] = found[g],
             stage'[h] \in {"idle", "lease"} \/ (stage'[h] = "read" /\ kind'[h] # "redeem")
      PROVE  ReadIsTrue'
  BY <1>2 DEF ReadIsTrue
<1>3. ASSUME NEW h \in Handler, stage[h] \notin Idling, NEW g \in Handler, g # h
      PROVE  stage[g] \in Idling
  BY <1>3 DEF OneWorks
<1>4. ASSUME NEW h \in Handler, stage[h] \notin Idling,
             \A g \in Handler \ {h} : stage'[g] = stage[g],
             stage'[h] \in Idling
      PROVE  ReadIsTrue'
  BY <1>3, <1>4 DEF ReadIsTrue, Idling
<1>5. ASSUME NEW h \in Handler, ApplyStep(h) PROVE ReadIsTrue'
  <2>1. ASSUME NEW l \in Log, Grow!BeginApply(h, l) PROVE ReadIsTrue'
    BY <1>2, <2>1 DEF Grow!BeginApply
  <2>2. CASE Grow!ReadRow(h)
    BY <1>3, <2>2 DEF Grow!ReadRow, ReadIsTrue, Idling
  <2>3. CASE Grow!Debit(h)
    BY <1>3, <2>3 DEF Grow!Debit, ReadIsTrue, Idling
  <2>4. CASE Grow!Patch(h)
    BY <1>3, <2>4 DEF Grow!Patch, ReadIsTrue, Idling
  <2>5. CASE Grow!DebitFails(h) \/ Grow!PatchFails(h) \/ Grow!Confirm(h)
    BY <1>4, <2>5 DEF Grow!DebitFails, Grow!PatchFails, Grow!Confirm, Idling
  <2> QED BY <1>5, <2>1, <2>2, <2>3, <2>4, <2>5 DEF ApplyStep
<1>6. ASSUME NEW h \in Handler, JobStep(h) PROVE ReadIsTrue'
  <2>1. CASE Grow!FindPending(h) \/ Grow!TakeLease(h)
    BY <1>2, <2>1 DEF Grow!FindPending, Grow!TakeLease
  <2>2. CASE Grow!ReadBoth(h)
    BY <1>3, <2>2 DEF Grow!ReadBoth, ReadIsTrue, Idling
  <2>3. CASE Grow!Compare(h)
    BY <1>3, <2>3 DEF Grow!Compare, ReadIsTrue, Idling
  <2>4. CASE Grow!Reconcile(h)
    BY <1>3, <2>4 DEF Grow!Reconcile, ReadIsTrue, Idling
  <2>5. CASE Grow!ReconcileFails(h) \/ Grow!Mark(h)
    BY <1>4, <2>5 DEF Grow!ReconcileFails, Grow!Mark, Idling
  <2> QED BY <1>6, <2>1, <2>2, <2>3, <2>4, <2>5 DEF JobStep
<1>7. ASSUME NEW h \in Handler, CodeStep(h) PROVE ReadIsTrue'
  <2>1. ASSUME NEW c \in Code, Grow!BeginRedeem(h, c) PROVE ReadIsTrue'
    BY <2>1 DEF Grow!BeginRedeem, ReadIsTrue
  <2>2. CASE Grow!PatchFirst(h)
    BY <1>3, <2>2 DEF Grow!PatchFirst, ReadIsTrue, Idling
  <2>3. CASE Grow!UseFails(h)
    BY <1>3, <2>3 DEF Grow!UseFails, ReadIsTrue, Idling
  <2>4. CASE Grow!PatchFirstFails(h) \/ Grow!Use(h) \/ Grow!Undo(h)
    BY <1>4, <2>4 DEF Grow!PatchFirstFails, Grow!Use, Grow!Undo, Idling
  <2> QED BY <1>7, <2>1, <2>2, <2>3, <2>4 DEF CodeStep
<1>8. ASSUME NEW h \in Handler, Grow!Crash(h) PROVE ReadIsTrue'
  BY <1>2, <1>8 DEF Grow!Crash
<1>9. ASSUME NEW c \in Code, Grow!CodeChanges(c) PROVE ReadIsTrue'
  BY <1>9 DEF Grow!CodeChanges, ReadIsTrue
<1>10. CASE Grow!LeaseExpires
  BY <1>10 DEF Grow!LeaseExpires, ReadIsTrue
<1> QED BY <1>1, <1>5, <1>6, <1>7, <1>8, <1>9, <1>10, GrowthSteps

LEMMA PendingStep ==
    ASSUME "half" \notin GrowthFaults, GrowthTyped, OneWorks, ReadIsTrue,
           Grow!PendingUntilPatched,
           [Grow!Next]_(Grow!vars)
    PROVE  Grow!PendingUntilPatched'
<1> USE DEF GrowthTyped, Grow!TypeOK, Jobs, Grow!row, Grow!codes, Grow!local, Grow!At,
   Grow!Goto, Grow!Forget, Grow!End, Grow!Begin
<1>1. CASE UNCHANGED Grow!vars
  BY <1>1 DEF Grow!vars, Grow!PendingUntilPatched
<1>2. ASSUME UNCHANGED <<Grow!row, patched>>,
             \A g \in Handler : kind[g] = "redeem" /\ stage[g] \in {"use", "undo"}
                => kind'[g] = "redeem" /\ stage'[g] \in {"use", "undo"}
      PROVE  Grow!PendingUntilPatched'
  BY <1>2 DEF Grow!PendingUntilPatched
<1>3. ASSUME patched' = size' PROVE Grow!PendingUntilPatched'
  BY <1>3 DEF Grow!PendingUntilPatched
<1>4. ASSUME NEW l \in Log, logs'[l] = "pending" PROVE Grow!PendingUntilPatched'
  BY <1>4 DEF Grow!PendingUntilPatched
<1>5. ASSUME NEW h \in Handler, ApplyStep(h) PROVE Grow!PendingUntilPatched'
  <2>1. ASSUME NEW l \in Log, Grow!BeginApply(h, l) PROVE Grow!PendingUntilPatched'
    BY <1>2, <2>1 DEF Grow!BeginApply
  <2>2. CASE Grow!ReadRow(h) \/ Grow!DebitFails(h)
    BY <1>2, <2>2 DEF Grow!ReadRow, Grow!DebitFails
  <2>3. CASE Grow!Debit(h) \/ Grow!Patch(h) \/ Grow!PatchFails(h)
    <3> item[h] \in Log /\ logs'[item[h]] = "pending"
      BY <2>3 DEF Grow!Debit, Grow!Patch, Grow!PatchFails, ReadIsTrue
    <3> QED BY <1>4
  <2>4. CASE Grow!Confirm(h)
    BY <1>3, <2>4 DEF Grow!Confirm, ReadIsTrue
  <2> QED BY <1>5, <2>1, <2>2, <2>3, <2>4 DEF ApplyStep
<1>6. ASSUME NEW h \in Handler, JobStep(h) PROVE Grow!PendingUntilPatched'
  <2>1. CASE Grow!FindPending(h) \/ Grow!TakeLease(h) \/ Grow!ReadBoth(h) \/ Grow!Compare(h)
    BY <1>2, <2>1 DEF Grow!FindPending, Grow!TakeLease, Grow!ReadBoth, Grow!Compare
  <2>2. CASE Grow!Reconcile(h) \/ Grow!Mark(h)
    BY <1>3, <2>2 DEF Grow!Reconcile, Grow!Mark, ReadIsTrue
  <2>3. CASE Grow!ReconcileFails(h)
    <3>1. patched' = size' \/ (patched' = patched /\ size' = size /\ logs' = logs)
      BY <2>3 DEF Grow!ReconcileFails, ReadIsTrue
    <3> QED BY <1>2, <1>3, <2>3, <3>1 DEF Grow!ReconcileFails
  <2> QED BY <1>6, <2>1, <2>2, <2>3 DEF JobStep
<1>7. ASSUME NEW h \in Handler, CodeStep(h) PROVE Grow!PendingUntilPatched'
  <2>1. ASSUME NEW c \in Code, Grow!BeginRedeem(h, c) PROVE Grow!PendingUntilPatched'
    BY <1>2, <2>1 DEF Grow!BeginRedeem
  <2>2. CASE Grow!PatchFirst(h)
    <3> kind'[h] = "redeem" /\ stage'[h] = "use"
      BY <2>2 DEF Grow!PatchFirst
    <3> QED BY DEF Grow!PendingUntilPatched
  <2>3. CASE Grow!PatchFirstFails(h) \/ Grow!UseFails(h)
    BY <1>2, <2>3 DEF Grow!PatchFirstFails, Grow!UseFails
  <2>4. CASE Grow!Use(h) \/ Grow!Undo(h)
    BY <1>3, <2>4 DEF Grow!Use, Grow!Undo, ReadIsTrue
  <2> QED BY <1>7, <2>1, <2>2, <2>3, <2>4 DEF CodeStep
<1>8. ASSUME NEW h \in Handler, Grow!Crash(h) PROVE Grow!PendingUntilPatched'
  BY <1>2, <1>8 DEF Grow!Crash
<1>9. ASSUME NEW c \in Code, Grow!CodeChanges(c) PROVE Grow!PendingUntilPatched'
  BY <1>2, <1>9 DEF Grow!CodeChanges
<1>10. CASE Grow!LeaseExpires
  BY <1>2, <1>10 DEF Grow!LeaseExpires
<1> QED BY <1>1, <1>5, <1>6, <1>7, <1>8, <1>9, <1>10, GrowthSteps

LEMMA PaidStep ==
    ASSUME Grow!InstanceResourcesConstants, GrowthTyped, ReadIsTrue, Grow!GrowthIsPaid,
           IsFiniteSet(redeemed), [Grow!Next]_(Grow!vars)
    PROVE  Grow!GrowthIsPaid' /\ IsFiniteSet(redeemed')
<1> USE DEF GrowthTyped, Grow!TypeOK, Jobs, Grow!row, Grow!codes, Grow!local, Grow!At,
   Grow!Goto, Grow!End, Grow!Begin, Grow!InstanceResourcesConstants
<1>1. ASSUME UNCHANGED <<size, hostUsed, pool, redeemed>>
      PROVE  Grow!GrowthIsPaid' /\ IsFiniteSet(redeemed')
  BY <1>1 DEF Grow!GrowthIsPaid
<1>2. ASSUME NEW h \in Handler, ApplyStep(h) PROVE Grow!GrowthIsPaid' /\ IsFiniteSet(redeemed')
  <2>1. CASE Grow!Debit(h)
    <3>1. size' = size + 1 /\ hostUsed' = hostUsed + 1 /\ pool' = pool - 1 /\ redeemed' = redeemed
      BY <2>1 DEF Grow!Debit, ReadIsTrue
    <3>2. Cardinality(redeemed) \in Nat
      BY FS_CardinalityType
    <3> QED BY <3>1, <3>2 DEF Grow!GrowthIsPaid, Grow!Base, Grow!Cardinality,
              Cardinality
  <2>2. CASE ~Grow!Debit(h)
    BY <1>1, <1>2, <2>2 DEF ApplyStep, Grow!BeginApply, Grow!ReadRow, Grow!DebitFails,
       Grow!Patch, Grow!PatchFails, Grow!Confirm
  <2> QED BY <2>1, <2>2
<1>3. ASSUME NEW h \in Handler, JobStep(h) PROVE Grow!GrowthIsPaid' /\ IsFiniteSet(redeemed')
  BY <1>1, <1>3 DEF JobStep, Grow!FindPending, Grow!TakeLease, Grow!ReadBoth, Grow!Compare,
     Grow!Reconcile, Grow!ReconcileFails, Grow!Mark
<1>4. ASSUME NEW h \in Handler, CodeStep(h) PROVE Grow!GrowthIsPaid' /\ IsFiniteSet(redeemed')
  <2>1. CASE Grow!Use(h)
    <3>1. size' = size + 1 /\ hostUsed' = hostUsed + 1 /\ pool' = pool
          /\ redeemed' = redeemed \cup {item[h]} /\ item[h] \notin redeemed
      BY <2>1 DEF Grow!Use, ReadIsTrue
    <3>2. /\ IsFiniteSet(redeemed') /\ Cardinality(redeemed') = Cardinality(redeemed) + 1
          /\ Cardinality(redeemed) \in Nat
      BY <3>1, FS_AddElement, FS_CardinalityType
    <3> QED BY <3>1, <3>2 DEF Grow!GrowthIsPaid, Grow!Base, Grow!Cardinality,
              Cardinality
  <2>2. CASE ~Grow!Use(h)
    BY <1>1, <1>4, <2>2 DEF CodeStep, Grow!BeginRedeem, Grow!PatchFirst, Grow!PatchFirstFails,
       Grow!UseFails, Grow!Undo
  <2> QED BY <2>1, <2>2
<1>5. ASSUME NEW h \in Handler, Grow!Crash(h) PROVE Grow!GrowthIsPaid' /\ IsFiniteSet(redeemed')
  BY <1>1, <1>5 DEF Grow!Crash
<1>6. CASE (\E c \in Code : Grow!CodeChanges(c)) \/ Grow!LeaseExpires \/ UNCHANGED Grow!vars
  BY <1>1, <1>6 DEF Grow!CodeChanges, Grow!LeaseExpires, Grow!vars
<1> QED BY <1>2, <1>3, <1>4, <1>5, <1>6, GrowthSteps

LEMMA GrowthInit ==
    ASSUME Grow!InstanceResourcesConstants, Grow!Init
    PROVE  GrowthTyped /\ OneWorks /\ ReadIsTrue /\ Grow!PendingUntilPatched
<1> USE DEF Grow!Init, Grow!Base, Grow!InstanceResourcesConstants
<1>1. GrowthTyped
  BY DEF GrowthTyped, Grow!TypeOK, Jobs
<1>2. OneWorks /\ ReadIsTrue /\ Grow!PendingUntilPatched
  BY DEF OneWorks, Idling, ReadIsTrue, Grow!PendingUntilPatched
<1> QED BY <1>1, <1>2

(* The state of growth keeps its types, whatever fails.                    *)
THEOREM GrowthTypeCorrect ==
    ASSUME Grow!InstanceResourcesConstants PROVE Grow!Spec => []Grow!TypeOK
<1>1. Grow!Init => GrowthTyped
  BY GrowthInit
<1>2. GrowthTyped /\ [Grow!Next]_(Grow!vars) => GrowthTyped'
  BY GrowthTypedStep
<1>3. GrowthTyped => Grow!TypeOK
  BY DEF GrowthTyped
<1> QED BY <1>1, <1>2, <1>3, PTL DEF Grow!Spec

(* If leases outlast their holders and codes are used by themselves and to *)
(* their end, a machine that is not what its row says is about to be       *)
(* patched, for any number of applications, codes and handlers; handlers   *)
(* of the pool may die anywhere and the host may fail them.                *)
THEOREM PendingUntilPatchedAlways ==
    ASSUME Grow!InstanceResourcesConstants, {"slow", "beside", "half"} \cap GrowthFaults = {}
    PROVE  Grow!Spec => []Grow!PendingUntilPatched
<1> DEFINE Inv == GrowthTyped /\ OneWorks /\ ReadIsTrue /\ Grow!PendingUntilPatched
<1>1. Grow!Init => Inv
  BY GrowthInit
<1>2. Inv /\ [Grow!Next]_(Grow!vars) => Inv'
  BY GrowthTypedStep, OneWorksStep, ReadIsTrueStep, PendingStep
<1> QED BY <1>1, <1>2, PTL DEF Grow!Spec

(* If leases outlast their holders and codes are used by themselves, an    *)
(* instance has grown by what left the pool and the codes that were used,  *)
(* and the counter of the host with it: no growth overwrites another.      *)
THEOREM GrowthIsPaidAlways ==
    ASSUME Grow!InstanceResourcesConstants, {"slow", "beside"} \cap GrowthFaults = {}
    PROVE  Grow!Spec => []Grow!GrowthIsPaid
<1> DEFINE Inv == GrowthTyped /\ OneWorks /\ ReadIsTrue /\ Grow!GrowthIsPaid
     /\ IsFiniteSet(redeemed)
<1>1. Grow!Init => Inv
  <2> SUFFICES ASSUME Grow!Init PROVE Grow!GrowthIsPaid /\ IsFiniteSet(redeemed)
      BY GrowthInit
  <2>1. redeemed = {} /\ size = 1 /\ hostUsed = 1 /\ pool = Pool /\ Pool \in Nat
    BY DEF Grow!Init, Grow!Base, Grow!InstanceResourcesConstants
  <2> QED BY <2>1, FS_EmptySet DEF Grow!GrowthIsPaid, Grow!Base, Grow!Cardinality,
              Cardinality
<1>2. Inv /\ [Grow!Next]_(Grow!vars) => Inv'
  BY GrowthTypedStep, OneWorksStep, ReadIsTrueStep, PaidStep
<1> QED BY <1>1, <1>2, PTL DEF Grow!Spec

----------------------------------------------------------------------------
(* E-mails of a host                                                       *)

(* A step of a process.                                                    *)
WorkerStep(p) ==
    (\E t \in Task : Post!Claim(p, t)) \/ Post!Send(p) \/ Post!MarkSent(p) \/ Post!RetryOrFail(p)
         \/ Post!Crash(p)

(* Every action keeps the types,                                           *)
LEMMA EmailTyped == Post!EmailQueueConstants /\ Post!TypeOK /\ [Post!Next]_(Post!vars)
     => Post!TypeOK'
<1> SUFFICES ASSUME Post!EmailQueueConstants, Post!TypeOK, [Post!Next]_(Post!vars)
             PROVE  Post!TypeOK'
    OBVIOUS
<1> USE DEF Post!TypeOK, Post!EmailQueueConstants, Post!task, Post!worker, Post!history, Post!Rest
<1>1. CASE Post!Tick \/ UNCHANGED Post!vars
  BY <1>1 DEF Post!Tick, Post!vars
<1>2. ASSUME NEW t \in Task, Post!Enqueue(t) PROVE Post!TypeOK'
  <2>1. PICK n \in {now} \cup {scheduledFor[q] + Interval : q \in Post!Queued}
                   \cup {startedAt[q] + Interval : q \in {q \in Task : startedAt[q] > 0}} :
             scheduledFor' = [scheduledFor EXCEPT ![t] = n]
    BY <1>2 DEF Post!Enqueue
  <2>2. n \in Nat
    BY DEF Post!Queued
  <2> QED BY <1>2, <2>1, <2>2 DEF Post!Enqueue
<1>3. ASSUME NEW p \in Process, WorkerStep(p) PROVE Post!TypeOK'
  <2>1. ASSUME NEW t \in Task, Post!Claim(p, t) PROVE Post!TypeOK'
    BY <2>1 DEF Post!Claim
  <2>2. CASE Post!Send(p)
    BY <2>2 DEF Post!Send
  <2>3. CASE Post!MarkSent(p)
    BY <2>3 DEF Post!MarkSent
  <2>4. CASE Post!RetryOrFail(p)
    <3>1. sending[p] \in Task /\ now + RetryDelay \in Nat
      BY <2>4 DEF Post!RetryOrFail
    <3> QED BY <2>4, <3>1 DEF Post!RetryOrFail
  <2>5. CASE Post!Crash(p)
    BY <2>5 DEF Post!Crash
  <2> QED BY <1>3, <2>1, <2>2, <2>3, <2>4, <2>5 DEF WorkerStep
<1>4. CASE Post!Cleanup
  BY <1>4 DEF Post!Cleanup, Post!Overdue
<1> QED BY <1>1, <1>2, <1>3, <1>4 DEF Post!Next, WorkerStep

(* which the initial state has.                                            *)
LEMMA EmailTypedInit == Post!EmailQueueConstants /\ Post!Init => Post!TypeOK
  BY DEF Post!EmailQueueConstants, Post!Init, Post!TypeOK, Post!Epoch

(* The state of the queue of e-mails keeps its types.                      *)
THEOREM EmailTypeCorrect ==
    ASSUME Post!EmailQueueConstants PROVE Post!Spec => []Post!TypeOK
<1>1. Post!Init => Post!TypeOK
  BY EmailTypedInit
<1>2. Post!TypeOK /\ [Post!Next]_(Post!vars) => Post!TypeOK'
  BY EmailTyped
<1> QED BY <1>1, <1>2, PTL DEF Post!Spec

(* The task that was claimed last has the time of its claim until a        *)
(* clean-up forgets it, which is long enough after.                        *)
LastIsSeen ==
    \/ last > 0 /\ \E t \in Task : startedAt[t] = last
    \/ last + Interval < now

LEMMA LastIsSeenStep ==
    ASSUME Post!EmailQueueConstants, Post!TypeOK, LastIsSeen, [Post!Next]_(Post!vars)
    PROVE  LastIsSeen' /\ (last' # last => last' > last + Interval)
<1> USE DEF Post!TypeOK, Post!EmailQueueConstants, LastIsSeen, Post!task, Post!worker,
   Post!history
<1>1. CASE Post!Tick \/ UNCHANGED Post!vars
  BY <1>1 DEF Post!Tick, Post!vars
<1>2. ASSUME NEW t \in Task, Post!Enqueue(t)
      PROVE  LastIsSeen' /\ (last' # last => last' > last + Interval)
  BY <1>2 DEF Post!Enqueue
<1>3. ASSUME NEW p \in Process, NEW t \in Task, Post!Claim(p, t)
      PROVE  LastIsSeen' /\ (last' # last => last' > last + Interval)
  <2>1. last + Interval < now
    BY <1>3 DEF Post!Claim, Post!Throttling
  <2>2. last' = now /\ startedAt'[t] = now /\ now' = now /\ now > 0
    BY <1>3, <2>1 DEF Post!Claim
  <2> QED BY <2>1, <2>2
<1>4. ASSUME NEW p \in Process, Post!Send(p) \/ Post!MarkSent(p) \/ Post!RetryOrFail(p) \/
             Post!Crash(p)
      PROVE  LastIsSeen' /\ (last' # last => last' > last + Interval)
  BY <1>4 DEF Post!Send, Post!MarkSent, Post!RetryOrFail, Post!Crash
<1>5. CASE Post!Cleanup
  <2>1. last' = last /\ now' = now
        /\ startedAt' = [t \in Task |-> IF Post!Overdue(t) THEN 0 ELSE startedAt[t]]
    BY <1>5 DEF Post!Cleanup
  <2>2. ASSUME NEW t \in Task, last > 0, startedAt[t] = last, Post!Overdue(t)
        PROVE  last + Interval < now
    BY <2>2 DEF Post!Overdue
  <2> QED BY <2>1, <2>2
<1> QED BY <1>1, <1>2, <1>3, <1>4, <1>5 DEF Post!Next

(* The workers of all processes together begin one e-mail in an interval,  *)
(* for any number of processes and tasks, whatever is retried, taken back  *)
(* by a clean-up or lost with a process.                                   *)
THEOREM ThrottledAlways ==
    ASSUME Post!EmailQueueConstants
    PROVE  Post!Spec => Post!Throttled
<1>1. Post!Init => Post!TypeOK /\ LastIsSeen
  BY EmailTypedInit DEF Post!Init, LastIsSeen, Post!Epoch, Post!EmailQueueConstants
<1>2. Post!TypeOK /\ LastIsSeen /\ [Post!Next]_(Post!vars) => (Post!TypeOK /\ LastIsSeen)'
  BY EmailTyped, LastIsSeenStep
<1>3. Post!TypeOK /\ LastIsSeen /\ [Post!Next]_(Post!vars)
     => [last' # last => last' > last + Interval]_(Post!vars)
  BY LastIsSeenStep
<1> QED BY <1>1, <1>2, <1>3, PTL DEF Post!Spec, Post!Throttled

(* Who is about to send an e-mail has claimed its task for that one.       *)
Senders(t) == {p \in Process : phase[p] = "send" /\ sending[p] = t}

(* A task was claimed for every e-mail that was sent or is about to be.    *)
SendersHaveClaimed ==
    \A t \in Task : /\ IsFiniteSet(Senders(t))
                    /\ sent[t] + Cardinality(Senders(t)) <= claimed[t]

(* The claims of a task, by what became of them.                           *)
AttemptsAdd ==
    \A t \in Task :
        /\ email[t] # "none" =>
             claimed[t] = retryCount[t] + requeued[t] + IF email[t] = "PENDING" THEN 0 ELSE 1
        /\ email[t] = "none" => claimed[t] = 0 /\ retryCount[t] = 0 /\ requeued[t] = 0
        /\ email[t] = "FAILED" => retryCount[t] = MaxRetries
        /\ retryCount[t] <= MaxRetries

LEMMA AttemptsAddStep ==
    ASSUME Post!EmailQueueConstants, Post!TypeOK, AttemptsAdd, [Post!Next]_(Post!vars)
    PROVE  AttemptsAdd'
<1> USE DEF Post!TypeOK, Post!EmailQueueConstants, Post!task, Post!worker, Post!history
<1>1. CASE Post!Tick \/ UNCHANGED Post!vars
  BY <1>1 DEF Post!Tick, Post!vars, AttemptsAdd
<1>2. ASSUME NEW t \in Task, Post!Enqueue(t) PROVE AttemptsAdd'
  BY <1>2 DEF Post!Enqueue, AttemptsAdd
<1>3. ASSUME NEW p \in Process, WorkerStep(p) PROVE AttemptsAdd'
  <2>1. ASSUME NEW t \in Task, Post!Claim(p, t) PROVE AttemptsAdd'
    BY <2>1 DEF Post!Claim, AttemptsAdd
  <2>2. CASE Post!Send(p) \/ Post!Crash(p)
    BY <2>2 DEF Post!Send, Post!Crash, AttemptsAdd
  <2>3. CASE Post!MarkSent(p)
    BY <2>3 DEF Post!MarkSent, AttemptsAdd
  <2>4. CASE Post!RetryOrFail(p)
    <3>1. sending[p] \in Task
      BY <2>4 DEF Post!RetryOrFail
    <3> QED BY <2>4, <3>1 DEF Post!RetryOrFail, Post!Mine, AttemptsAdd
  <2> QED BY <1>3, <2>1, <2>2, <2>3, <2>4 DEF WorkerStep
<1>4. CASE Post!Cleanup
  BY <1>4 DEF Post!Cleanup, Post!Overdue, AttemptsAdd
<1> QED BY <1>1, <1>2, <1>3, <1>4 DEF Post!Next, WorkerStep

LEMMA OneLess ==
    ASSUME NEW S, IsFiniteSet(S), NEW R, NEW p, R = S \ {p}
    PROVE  /\ IsFiniteSet(R) /\ Cardinality(R) \in Nat /\ Cardinality(R) <= Cardinality(S)
           /\ p \in S => Cardinality(R) + 1 <= Cardinality(S)
<1>1. IsFiniteSet(R) /\ Cardinality(R) \in Nat /\ Cardinality(S) \in Nat
  BY FS_Subset, FS_CardinalityType
<1>2. Cardinality(R) = IF p \in S THEN Cardinality(S) - 1 ELSE Cardinality(S)
  BY FS_RemoveElement
<1> QED BY <1>1, <1>2

LEMMA SendersStep ==
    ASSUME Post!EmailQueueConstants, Post!TypeOK, SendersHaveClaimed, [Post!Next]_(Post!vars)
    PROVE  SendersHaveClaimed'
<1> SUFFICES ASSUME NEW t \in Task
             PROVE  /\ IsFiniteSet(Senders(t)')
                    /\ sent'[t] + Cardinality(Senders(t)') <= claimed'[t]
    BY DEF SendersHaveClaimed
<1> USE DEF Post!TypeOK, Post!task, Post!worker, Post!history
<1>1. /\ IsFiniteSet(Senders(t)) /\ Cardinality(Senders(t)) \in Nat
      /\ sent[t] + Cardinality(Senders(t)) <= claimed[t]
  BY FS_CardinalityType DEF SendersHaveClaimed
<1>2. ASSUME Senders(t)' = Senders(t), sent'[t] = sent[t], claimed'[t] = claimed[t]
      PROVE  /\ IsFiniteSet(Senders(t)')
             /\ sent'[t] + Cardinality(Senders(t)') <= claimed'[t]
  BY <1>1, <1>2
<1>4. CASE Post!Tick \/ Post!Cleanup \/ UNCHANGED Post!vars
  BY <1>2, <1>4 DEF Post!Tick, Post!Cleanup, Post!vars, Senders
<1>5. ASSUME NEW q \in Task, Post!Enqueue(q)
      PROVE  /\ IsFiniteSet(Senders(t)')
             /\ sent'[t] + Cardinality(Senders(t)') <= claimed'[t]
  BY <1>2, <1>5 DEF Post!Enqueue, Senders
<1>6. ASSUME NEW p \in Process, NEW q \in Task, Post!Claim(p, q)
      PROVE  /\ IsFiniteSet(Senders(t)')
             /\ sent'[t] + Cardinality(Senders(t)') <= claimed'[t]
  <2>1. CASE q = t
    <3>1. Senders(t)' = Senders(t) \cup {p} /\ p \notin Senders(t)
      BY <1>6, <2>1 DEF Post!Claim, Senders
    <3>2. IsFiniteSet(Senders(t)') /\ Cardinality(Senders(t)') = Cardinality(Senders(t)) + 1
      BY <1>1, <3>1, FS_AddElement
    <3>3. sent'[t] = sent[t] /\ claimed'[t] = claimed[t] + 1
      BY <1>6, <2>1 DEF Post!Claim
    <3> QED BY <1>1, <3>2, <3>3
  <2>2. CASE q # t
    BY <1>2, <1>6, <2>2 DEF Post!Claim, Senders
  <2> QED BY <2>1, <2>2
<1>7. ASSUME NEW p \in Process, Post!Send(p)
      PROVE  /\ IsFiniteSet(Senders(t)')
             /\ sent'[t] + Cardinality(Senders(t)') <= claimed'[t]
  <2>1. Senders(t)' = Senders(t) \ {p} /\ claimed'[t] = claimed[t]
    BY <1>7 DEF Post!Send, Senders
  <2>2. sent'[t] = sent[t] \/ (sent'[t] = sent[t] + 1 /\ p \in Senders(t))
    BY <1>7 DEF Post!Send, Senders
  <2>3. sent[t] \in Nat /\ sent'[t] \in Nat /\ claimed[t] \in Nat
    BY <2>2
  <2>4. /\ IsFiniteSet(Senders(t)') /\ Cardinality(Senders(t)') \in Nat
        /\ Cardinality(Senders(t)') <= Cardinality(Senders(t))
        /\ p \in Senders(t) => Cardinality(Senders(t)') + 1 <= Cardinality(Senders(t))
    BY <1>1, <2>1, OneLess
  <2> QED BY <1>1, <2>1, <2>2, <2>3, <2>4
<1>8. ASSUME NEW p \in Process, Post!MarkSent(p) \/ Post!RetryOrFail(p) \/ Post!Crash(p)
      PROVE  /\ IsFiniteSet(Senders(t)')
             /\ sent'[t] + Cardinality(Senders(t)') <= claimed'[t]
  <2>1. Senders(t)' = Senders(t) \ {p} /\ claimed'[t] = claimed[t] /\ sent'[t] = sent[t]
    BY <1>8 DEF Post!MarkSent, Post!RetryOrFail, Post!Crash, Post!Rest, Senders
  <2>2. sent[t] \in Nat /\ claimed[t] \in Nat
    OBVIOUS
  <2>3. /\ IsFiniteSet(Senders(t)') /\ Cardinality(Senders(t)') \in Nat
        /\ Cardinality(Senders(t)') <= Cardinality(Senders(t))
    BY <1>1, <2>1, OneLess
  <2> QED BY <1>1, <2>1, <2>2, <2>3
<1> QED BY <1>4, <1>5, <1>6, <1>7, <1>8 DEF Post!Next

(* No user gets more e-mails than his task was claimed, it is claimed only *)
(* for its first attempt, a retry or after a clean-up took it back, and it *)
(* fails after all of its retries.                                         *)
THEOREM AttemptsAreCountedAlways ==
    ASSUME Post!EmailQueueConstants
    PROVE  Post!Spec => []Post!AttemptsAreCounted
<1> DEFINE Inv == Post!TypeOK /\ SendersHaveClaimed /\ AttemptsAdd
<1>1. Post!Init => Inv
  <2> SUFFICES ASSUME Post!Init PROVE Inv
      OBVIOUS
  <2>1. Post!TypeOK
    BY EmailTypedInit
  <2>2. \A t \in Task : Senders(t) = {} /\ sent[t] = 0 /\ claimed[t] = 0
    BY DEF Post!Init, Senders
  <2>3. SendersHaveClaimed
    <3> SUFFICES ASSUME NEW t \in Task
                 PROVE  /\ IsFiniteSet(Senders(t))
                        /\ sent[t] + Cardinality(Senders(t)) <= claimed[t]
        BY DEF SendersHaveClaimed
    <3>1. IsFiniteSet(Senders(t)) /\ Cardinality(Senders(t)) = 0
      BY <2>2, FS_EmptySet
    <3> QED BY <2>2, <3>1
  <2>4. AttemptsAdd
    <3> SUFFICES ASSUME NEW t \in Task
                 PROVE  /\ email[t] = "none" /\ claimed[t] = 0 /\ retryCount[t] = 0
                        /\ requeued[t] = 0 /\ 0 <= MaxRetries
        BY DEF AttemptsAdd
    <3> QED BY DEF Post!Init, Post!EmailQueueConstants
  <2> QED BY <2>1, <2>3, <2>4
<1>2. Inv /\ [Post!Next]_(Post!vars) => Inv'
  BY EmailTyped, AttemptsAddStep, SendersStep
<1>3. Inv => Post!AttemptsAreCounted
  <2> SUFFICES ASSUME Inv, NEW t \in Task PROVE sent[t] <= claimed[t]
      BY DEF AttemptsAdd, Post!AttemptsAreCounted
  <2> QED BY FS_CardinalityType DEF SendersHaveClaimed, Post!TypeOK
<1> HIDE DEF Inv
<1> QED BY <1>1, <1>2, <1>3, PTL DEF Post!Spec

----------------------------------------------------------------------------
(* Sums over finite sets.  The induction is that every set of finite sets  *)
(* has a smallest one.                                                     *)

SumOver(f, S) == MapThenSumSet(LAMBDA r : f[r], S)

(* Induction, for a set in place of a predicate.                           *)
Smallest(s, F) == s \in F /\ \A t \in F : t \subseteq s => t = s

LEMMA SmallestSet ==
    ASSUME NEW S, NEW F, F \subseteq SUBSET S, F # {}, \A s \in F : IsFiniteSet(s)
    PROVE  \E s : Smallest(s, F)
<1>1. F \subseteq FiniteSubsetsOf(S)
  BY DEF FiniteSubsetsOf
<1>2. PICK s \in F : \A t \in F : <<t, s>> \notin StrictSubsetOrdering(S)
  BY <1>1, WFMin, FS_StrictSubsetOrderingWellFounded, Zenon
<1>3. \A t \in F : t \subseteq s /\ t # s =>
         <<t, s>> \in StrictSubsetOrdering(S)
  BY DEF StrictSubsetOrdering
<1>4. ASSUME NEW t \in F, t \subseteq s PROVE t = s
  BY <1>2, <1>3, <1>4
<1>5. Smallest(s, F)
  BY <1>4 DEF Smallest
<1> QED BY <1>5

LEMMA NatSet ==
    ASSUME NEW Goal, 0 \in Goal, \A n \in Nat : n \in Goal => n + 1 \in Goal
    PROVE  \A n \in Nat : n \in Goal
<1> DEFINE F == {0 .. n : n \in Nat \ Goal}
<1> SUFFICES ASSUME NEW bad \in Nat, bad \notin Goal PROVE FALSE
  OBVIOUS
<1>1. F # {} /\ F \subseteq SUBSET Nat
  BY SMT
<1>2. \A s \in F : IsFiniteSet(s)
  BY FS_Interval
<1> HIDE DEF F
<1>3. PICK s : Smallest(s, F)
  BY <1>1, <1>2, SmallestSet
<1> USE DEF F
<1>4. PICK n \in Nat \ Goal : s = 0 .. n
  BY <1>3 DEF Smallest
<1>5. n # 0 /\ n - 1 \in Nat /\ (n - 1) + 1 = n
  BY <1>4
<1>6. n - 1 \notin Goal
  BY <1>4, <1>5
<1>7. 0 .. (n - 1) \in F
  BY <1>5, <1>6
<1>8. 0 .. (n - 1) \subseteq 0 .. n /\ n \in 0 .. n /\ n \notin 0 .. (n - 1)
  BY <1>4, <1>5
<1> QED BY <1>3, <1>4, <1>7, <1>8 DEF Smallest

Pick(s) == CHOOSE x \in s : TRUE
Body(f, g, D) == [s \in D |-> IF s = {} THEN 0 ELSE f[Pick(s)] + g[s \ {Pick(s)}]]

LEMMA SumIsIter == ASSUME NEW f, NEW S
   PROVE SumOver(f, S) = (CHOOSE g : g = Body(f, g, SUBSET S))[S]
  BY DEF SumOver, MapThenSumSet, MapThenFoldSet, Pick, Body

LEMMA Picks == ASSUME NEW s, s # {} PROVE Pick(s) \in s
  BY DEF Pick

LEMMA BodyExists == ASSUME NEW f, NEW S, IsFiniteSet(S)
   PROVE \E g : g = Body(f, g, SUBSET S)
<1> DEFINE Level(n) == {s \in SUBSET S : Cardinality(s) <= n}
           Goal == {n \in Nat : \E g : g = Body(f, g, Level(n))}
<1>1. 0 \in Goal
  <2> DEFINE g == [s \in Level(0) |-> 0]
  <2>1. \A s \in Level(0) : s = {}
    BY FS_Subset, FS_EmptySet, FS_CardinalityType
  <2>2. g = Body(f, g, Level(0))
    BY <2>1 DEF Body
  <2> QED BY <2>2
<1>2. ASSUME NEW n \in Nat, n \in Goal PROVE n + 1 \in Goal
  <2>1. PICK h : h = Body(f, h, Level(n))
    BY <1>2
  <2> DEFINE g == [s \in Level(n + 1) |-> IF s \in Level(n) THEN h[s]
                                          ELSE f[Pick(s)] + h[s \ {Pick(s)}]]
  <2>2. ASSUME NEW s \in Level(n + 1), s # {}
        PROVE  s \ {Pick(s)} \in Level(n)
    <3>1. IsFiniteSet(s) /\ Cardinality(s) \in Nat
      BY FS_Subset, FS_CardinalityType
    <3>2. Cardinality(s \ {Pick(s)}) = Cardinality(s) - 1
      BY <3>1, <2>2, Picks, FS_RemoveElement
    <3> QED BY <3>1, <3>2
  <2>3. {} \in Level(n) /\ Level(n) \subseteq Level(n + 1)
    BY FS_EmptySet, FS_Subset, FS_CardinalityType
  <2> HIDE DEF Level, Goal
  <2>4. ASSUME NEW s \in Level(n + 1)
        PROVE  g[s] = IF s = {} THEN 0 ELSE f[Pick(s)] + g[s \ {Pick(s)}]
    <3>1. CASE s = {}
      BY <3>1, <2>1, <2>3 DEF Body
    <3>2. CASE s # {}
      <4>1. g[s \ {Pick(s)}] = h[s \ {Pick(s)}]
        BY <3>2, <2>2, <2>3
      <4>2. s \in Level(n) => h[s] = f[Pick(s)] + h[s \ {Pick(s)}]
        BY <3>2, <2>1 DEF Body
      <4> QED BY <3>2, <4>1, <4>2
    <3> QED BY <3>1, <3>2
  <2>5. g = Body(f, g, Level(n + 1))
    BY <2>4 DEF Body
  <2> QED BY <2>5 DEF Goal
<1>3. Cardinality(S) \in Goal
  <2> HIDE DEF Goal
  <2> QED BY <1>1, <1>2, NatSet, FS_CardinalityType
<1>4. Level(Cardinality(S)) = SUBSET S
  BY FS_Subset, FS_CardinalityType
<1> QED BY <1>3, <1>4

LEMMA SumIs == ASSUME NEW f, NEW S, IsFiniteSet(S)
   PROVE \E g : /\ SumOver(f, S) = g[S]
                /\ g = Body(f, g, SUBSET S)
<1> DEFINE g == CHOOSE g : g = Body(f, g, SUBSET S)
<1>1. g = Body(f, g, SUBSET S)
  BY BodyExists
<1> QED BY <1>1, SumIsIter

LEMMA SumEmpty == ASSUME NEW f PROVE SumOver(f, {}) = 0
<1>1. PICK g : SumOver(f, {}) = g[{}] /\ g = Body(f, g, SUBSET {})
  BY SumIs, FS_EmptySet
<1>2. g[{}] = 0
  BY <1>1 DEF Body
<1> QED BY <1>1, <1>2

(* The function of one set agrees with that of a subset.                   *)
LEMMA SumOfSubset ==
    ASSUME NEW f, NEW S, IsFiniteSet(S), NEW g, g = Body(f, g, SUBSET S), NEW U \in SUBSET S
    PROVE  SumOver(f, U) = g[U]
<1>1. PICK h : SumOver(f, U) = h[U] /\ h = Body(f, h, SUBSET U)
  BY SumIs, FS_Subset
<1> DEFINE F == {s \in SUBSET U : g[s] # h[s]}
<1>2. SUFFICES ASSUME F # {} PROVE FALSE
  BY <1>1
<1>3. F \subseteq SUBSET U /\ \A s \in F : IsFiniteSet(s)
  BY FS_Subset
<1> HIDE DEF F
<1>4. PICK s : Smallest(s, F)
  BY <1>2, <1>3, SmallestSet
<1>5. s \in SUBSET U /\ s \in SUBSET S /\ g[s] # h[s]
  BY <1>4 DEF Smallest, F
<1>6. s # {}
  BY <1>1, <1>5 DEF Body
<1>7. /\ g[s] = f[Pick(s)] + g[s \ {Pick(s)}]
      /\ h[s] = f[Pick(s)] + h[s \ {Pick(s)}]
  BY <1>1, <1>5, <1>6 DEF Body
<1>8. s \ {Pick(s)} \in SUBSET U /\ s \ {Pick(s)} # s /\ s \ {Pick(s)} \subseteq s
  BY <1>5, <1>6, Picks
<1>9. s \ {Pick(s)} \notin F
  BY <1>4, <1>8 DEF Smallest
<1>10. g[s \ {Pick(s)}] = h[s \ {Pick(s)}]
  BY <1>8, <1>9 DEF F
<1> QED BY <1>5, <1>7, <1>10

LEMMA SumPick ==
    ASSUME NEW f, NEW S, IsFiniteSet(S), S # {}
    PROVE  SumOver(f, S) = f[Pick(S)] + SumOver(f, S \ {Pick(S)})
<1>1. PICK g : SumOver(f, S) = g[S] /\ g = Body(f, g, SUBSET S)
  BY SumIs
<1>2. g[S] = f[Pick(S)] + g[S \ {Pick(S)}]
  BY <1>1 DEF Body
<1>3. SumOver(f, S \ {Pick(S)}) = g[S \ {Pick(S)}]
  BY <1>1, SumOfSubset
<1> QED BY <1>1, <1>2, <1>3

LEMMA SumType ==
    ASSUME NEW f, NEW S, IsFiniteSet(S), NEW D, D \in {Nat, Int}, \A x \in S : f[x] \in D
    PROVE  SumOver(f, S) \in D
<1> DEFINE F == {s \in SUBSET S : SumOver(f, s) \notin D}
<1>1. SUFFICES ASSUME F # {} PROVE FALSE
  OBVIOUS
<1>2. F \subseteq SUBSET S /\ \A s \in F : IsFiniteSet(s)
  BY FS_Subset
<1> HIDE DEF F
<1>3. PICK s : Smallest(s, F)
  BY <1>1, <1>2, SmallestSet
<1>4. s \in SUBSET S /\ SumOver(f, s) \notin D /\ IsFiniteSet(s)
  BY <1>2, <1>3 DEF Smallest, F
<1>5. s # {}
  BY <1>4, SumEmpty
<1>6. Pick(s) \in s /\ s \ {Pick(s)} # s /\ s \ {Pick(s)} \subseteq s
  BY <1>5, Picks
<1>7. s \ {Pick(s)} \notin F
  BY <1>3, <1>6 DEF Smallest
<1>8. SumOver(f, s \ {Pick(s)}) \in D /\ f[Pick(s)] \in D
  BY <1>4, <1>6, <1>7 DEF F
<1>9. SumOver(f, s) = f[Pick(s)] + SumOver(f, s \ {Pick(s)})
  BY <1>4, <1>5, SumPick
<1> QED BY <1>4, <1>8, <1>9

(* A sum is that of a member and that of the others.                       *)
LEMMA SumRemove ==
    ASSUME NEW f, NEW S, IsFiniteSet(S), \A x \in S : f[x] \in Int, NEW x \in S
    PROVE  SumOver(f, S) = f[x] + SumOver(f, S \ {x})
<1> DEFINE F == {s \in SUBSET S : \E y \in s : SumOver(f, s) # f[y] + SumOver(f, s \ {y})}
<1>1. SUFFICES ASSUME F # {} PROVE FALSE
  OBVIOUS
<1>2. F \subseteq SUBSET S /\ \A s \in F : IsFiniteSet(s)
  BY FS_Subset
<1> HIDE DEF F
<1>3. PICK s : Smallest(s, F)
  BY <1>1, <1>2, SmallestSet
<1>4. s \in SUBSET S /\ IsFiniteSet(s)
  BY <1>2, <1>3 DEF Smallest
<1>5. PICK y \in s : SumOver(f, s) # f[y] + SumOver(f, s \ {y})
  BY <1>3 DEF Smallest, F
<1> DEFINE p == Pick(s)
<1>6. p \in s /\ SumOver(f, s) = f[p] + SumOver(f, s \ {p})
  BY <1>4, <1>5, Picks, SumPick
<1> HIDE DEF p
<1>7. p # y
  BY <1>5, <1>6
<1>8. s \ {p} \notin F /\ s \ {y} \notin F
  <2>1. s \ {p} # s /\ s \ {p} \subseteq s /\ s \ {y} # s /\ s \ {y} \subseteq s
    BY <1>6
  <2> QED BY <1>3, <2>1 DEF Smallest
<1>9. SumOver(f, s \ {p}) = f[y] + SumOver(f, (s \ {p}) \ {y})
  BY <1>4, <1>7, <1>8 DEF F
<1>10. SumOver(f, s \ {y}) = f[p] + SumOver(f, (s \ {y}) \ {p})
  BY <1>4, <1>6, <1>7, <1>8 DEF F
<1>11. (s \ {p}) \ {y} = (s \ {y}) \ {p}
  OBVIOUS
<1>12. f[p] \in Int /\ f[y] \in Int /\ SumOver(f, (s \ {p}) \ {y}) \in Int
  <2>1. IsFiniteSet((s \ {p}) \ {y}) /\ \A x_1 \in (s \ {p}) \ {y} : f[x_1] \in Int
    BY <1>4, FS_Subset
  <2> QED BY <1>4, <1>6, <2>1, SumType
<1>13. SumOver(f, s \ {y}) = f[p] + SumOver(f, (s \ {p}) \ {y})
  BY <1>10, <1>11
<1> DEFINE rest == SumOver(f, (s \ {p}) \ {y})
<1>14. SumOver(f, s) = f[p] + (f[y] + rest) /\ SumOver(f, s \ {y}) = f[p] + rest
  BY <1>6, <1>9, <1>13
<1>15. rest \in Int
  BY <1>12
<1> HIDE DEF rest
<1>16. f[p] + (f[y] + rest) = f[y] + (f[p] + rest)
  BY <1>12, <1>15
<1> QED BY <1>5, <1>14, <1>16

(* Functions that agree on a set have the same sum over it.                *)
LEMMA SumSame ==
    ASSUME NEW f, NEW g, NEW S, IsFiniteSet(S), \A x \in S : f[x] = g[x]
    PROVE  SumOver(f, S) = SumOver(g, S)
<1> DEFINE F == {s \in SUBSET S : SumOver(f, s) # SumOver(g, s)}
<1>1. SUFFICES ASSUME F # {} PROVE FALSE
  OBVIOUS
<1>2. F \subseteq SUBSET S /\ \A s \in F : IsFiniteSet(s)
  BY FS_Subset
<1> HIDE DEF F
<1>3. PICK s : Smallest(s, F)
  BY <1>1, <1>2, SmallestSet
<1>4. s \in SUBSET S /\ SumOver(f, s) # SumOver(g, s) /\ IsFiniteSet(s)
  BY <1>2, <1>3 DEF Smallest, F
<1>5. s # {}
  BY <1>4, SumEmpty
<1>6. Pick(s) \in s /\ s \ {Pick(s)} # s /\ s \ {Pick(s)} \subseteq s
  BY <1>5, Picks
<1>7. s \ {Pick(s)} \notin F
  BY <1>3, <1>6 DEF Smallest
<1>8. SumOver(f, s \ {Pick(s)}) = SumOver(g, s \ {Pick(s)}) /\ f[Pick(s)] = g[Pick(s)]
  BY <1>4, <1>6, <1>7 DEF F
<1>9. /\ SumOver(f, s) = f[Pick(s)] + SumOver(f, s \ {Pick(s)})
      /\ SumOver(g, s) = g[Pick(s)] + SumOver(g, s \ {Pick(s)})
  BY <1>4, <1>5, SumPick
<1> QED BY <1>4, <1>8, <1>9

(* A sum with one more member.                                             *)
LEMMA SumAdd ==
    ASSUME NEW f, NEW S, IsFiniteSet(S), NEW x, x \notin S,
           \A y \in S \cup {x} : f[y] \in Int
    PROVE  SumOver(f, S \cup {x}) = f[x] + SumOver(f, S)
<1>1. IsFiniteSet(S \cup {x}) /\ (S \cup {x}) \ {x} = S
  BY FS_AddElement
<1> QED BY <1>1, SumRemove

(* A sum of which one term changes.                                        *)
LEMMA SumChange ==
    ASSUME NEW f, NEW g, NEW S, IsFiniteSet(S), NEW x \in S,
           \A y \in S : f[y] \in Int /\ g[y] \in Int,
           \A y \in S \ {x} : f[y] = g[y]
    PROVE  SumOver(g, S) = SumOver(f, S) - f[x] + g[x]
<1>1. IsFiniteSet(S \ {x})
  BY FS_Subset
<1>2. SumOver(f, S \ {x}) = SumOver(g, S \ {x})
  BY <1>1, SumSame
<1>3. /\ SumOver(f, S) = f[x] + SumOver(f, S \ {x})
      /\ SumOver(g, S) = g[x] + SumOver(g, S \ {x})
  BY SumRemove
<1>4. SumOver(f, S \ {x}) \in Int
  BY <1>1, SumType
<1> QED BY <1>2, <1>3, <1>4

(* Terms that are zero, and sums of sums: h is f on S, less g on U, which  *)
(* is within S and outside of which g is zero.                             *)
LEMMA SumLess ==
    ASSUME NEW f, NEW g, NEW h, NEW S, IsFiniteSet(S), NEW U \in SUBSET S,
           \A x \in S : f[x] \in Int /\ g[x] \in Int,
           \A x \in U : h[x] = f[x] - g[x],
           \A x \in S \ U : f[x] = g[x]
    PROVE  SumOver(h, U) = SumOver(f, S) - SumOver(g, S)
<1> DEFINE F == {s \in SUBSET S : SumOver(h, s \cap U) # SumOver(f, s) - SumOver(g, s)}
<1>1. SUFFICES ASSUME F # {} PROVE FALSE
  <2>1. S \cap U = U
    OBVIOUS
  <2> QED BY <2>1
<1>2. F \subseteq SUBSET S /\ \A s \in F : IsFiniteSet(s)
  BY FS_Subset
<1> HIDE DEF F
<1>3. PICK s : Smallest(s, F)
  BY <1>1, <1>2, SmallestSet
<1>4. s \in SUBSET S /\ IsFiniteSet(s)
      /\ SumOver(h, s \cap U) # SumOver(f, s) - SumOver(g, s)
  BY <1>2, <1>3 DEF Smallest, F
<1>5. s # {}
  <2> SUFFICES ASSUME s = {} PROVE FALSE
    OBVIOUS
  <2>1. s \cap U = {}
    OBVIOUS
  <2>2. SumOver(h, s \cap U) = 0
    BY <2>1, SumEmpty
  <2>3. SumOver(f, s) = 0 /\ SumOver(g, s) = 0
    BY SumEmpty
  <2>4. SumOver(f, s) - SumOver(g, s) = 0
    BY <2>3
  <2> QED BY <1>4, <2>2, <2>4
<1> DEFINE p == Pick(s)
           t == s \ {p}
<1>6. p \in s /\ p \in S /\ t # s /\ t \subseteq s
  BY <1>4, <1>5, Picks
<1> HIDE DEF p
<1>7. t \notin F
  BY <1>3, <1>6 DEF Smallest
<1>8. SumOver(h, t \cap U) = SumOver(f, t) - SumOver(g, t)
  BY <1>4, <1>6, <1>7 DEF F
<1>9. /\ IsFiniteSet(t) /\ IsFiniteSet(s \cap U)
      /\ \A x \in t : f[x] \in Int /\ g[x] \in Int
      /\ \A x \in s \cap U : h[x] \in Int
  BY <1>4, FS_Subset
<1>10. /\ SumOver(f, s) = f[p] + SumOver(f, t)
       /\ SumOver(g, s) = g[p] + SumOver(g, t)
  BY <1>4, <1>6, SumRemove
<1>11. SumOver(f, t) \in Int /\ SumOver(g, t) \in Int /\ f[p] \in Int /\ g[p] \in Int
  BY <1>6, <1>9, SumType
<1>12. CASE p \in U
  <2>1. (s \cap U) \ {p} = t \cap U
    OBVIOUS
  <2>2. SumOver(h, s \cap U) = h[p] + SumOver(h, t \cap U)
    BY <1>6, <1>9, <1>12, <2>1, SumRemove
  <2>3. h[p] = f[p] - g[p]
    BY <1>12
  <2> HIDE DEF t
  <2> QED BY <1>4, <1>8, <1>10, <1>11, <2>2, <2>3
<1>13. CASE p \notin U
  <2>1. s \cap U = t \cap U
    BY <1>13
  <2>2. SumOver(h, s \cap U) = SumOver(h, t \cap U)
    BY <2>1
  <2>3. f[p] = g[p]
    BY <1>6, <1>13
  <2> HIDE DEF t
  <2> QED BY <1>4, <1>8, <1>10, <1>11, <2>2, <2>3
<1> QED BY <1>12, <1>13

(* Terms that are zero can be left out.                                    *)
LEMMA SumWithin ==
    ASSUME NEW f, NEW S, IsFiniteSet(S), NEW U \in SUBSET S,
           \A x \in S : f[x] \in Int,
           \A x \in S \ U : f[x] = 0
    PROVE  SumOver(f, S) = SumOver(f, U)
<1> DEFINE zero == [x \in S |-> 0]
           F == {s \in SUBSET S : SumOver(zero, s) # 0}
<1>1. F = {}
  <2>1. SUFFICES ASSUME F # {} PROVE FALSE
    OBVIOUS
  <2>2. F \subseteq SUBSET S /\ \A s \in F : IsFiniteSet(s)
    BY FS_Subset
  <2> HIDE DEF F
  <2>3. PICK s : Smallest(s, F)
    BY <2>1, <2>2, SmallestSet
  <2>4. s \in SUBSET S /\ SumOver(zero, s) # 0 /\ IsFiniteSet(s)
    BY <2>2, <2>3 DEF Smallest, F
  <2>5. s # {}
    BY <2>4, SumEmpty
  <2>6. Pick(s) \in s /\ s \ {Pick(s)} # s /\ s \ {Pick(s)} \subseteq s
    BY <2>5, Picks
  <2>7. s \ {Pick(s)} \notin F
    BY <2>3, <2>6 DEF Smallest
  <2>8. SumOver(zero, s \ {Pick(s)}) = 0 /\ zero[Pick(s)] = 0
    BY <2>4, <2>6, <2>7 DEF F
  <2>9. SumOver(zero, s) = zero[Pick(s)] + SumOver(zero, s \ {Pick(s)})
    BY <2>4, <2>5, SumPick
  <2> HIDE DEF zero
  <2> QED BY <2>4, <2>8, <2>9
<1>2. SumOver(zero, S) = 0
  BY <1>1
<1>3. \A x \in S : f[x] \in Int /\ zero[x] \in Int
  OBVIOUS
<1>4. \A x \in U : f[x] = f[x] - zero[x]
  BY <1>3
<1>5. \A x \in S \ U : f[x] = zero[x]
  OBVIOUS
<1> HIDE DEF zero
<1>6. SumOver(f, U) = SumOver(f, S) - SumOver(zero, S)
  BY <1>3, <1>4, <1>5, SumLess
<1>7. SumOver(f, S) \in Int
  BY SumType
<1> QED BY <1>2, <1>6, <1>7

(* Equal terms.                                                            *)
LEMMA SumConstant ==
    ASSUME NEW S, IsFiniteSet(S), NEW a \in Int
    PROVE  SumOver([x \in S |-> a], S) = a * Cardinality(S)
<1> DEFINE f == [x \in S |-> a]
           F == {s \in SUBSET S : SumOver(f, s) # a * Cardinality(s)}
<1>1. SUFFICES ASSUME F # {} PROVE FALSE
  OBVIOUS
<1>2. F \subseteq SUBSET S /\ \A s \in F : IsFiniteSet(s)
  BY FS_Subset
<1> HIDE DEF F
<1>3. PICK s : Smallest(s, F)
  BY <1>1, <1>2, SmallestSet
<1>4. s \in SUBSET S /\ SumOver(f, s) # a * Cardinality(s) /\ IsFiniteSet(s)
  BY <1>2, <1>3 DEF Smallest, F
<1>5. s # {}
  <2> SUFFICES ASSUME s = {} PROVE FALSE
    OBVIOUS
  <2>1. SumOver(f, s) = 0 /\ Cardinality(s) = 0
    BY SumEmpty, FS_EmptySet
  <2>2. a * 0 = 0
    OBVIOUS
  <2> QED BY <1>4, <2>1, <2>2
<1>6. Pick(s) \in s /\ s \ {Pick(s)} # s /\ s \ {Pick(s)} \subseteq s
  BY <1>5, Picks
<1>7. s \ {Pick(s)} \notin F
  BY <1>3, <1>6 DEF Smallest
<1>8. SumOver(f, s \ {Pick(s)}) = a * Cardinality(s \ {Pick(s)}) /\ f[Pick(s)] = a
  BY <1>4, <1>6, <1>7 DEF F
<1> HIDE DEF f
<1>9. SumOver(f, s) = f[Pick(s)] + SumOver(f, s \ {Pick(s)})
  BY <1>4, <1>5, SumPick
<1>10. Cardinality(s) \in Nat /\ Cardinality(s \ {Pick(s)}) = Cardinality(s) - 1
  BY <1>4, <1>6, FS_RemoveElement, FS_CardinalityType
<1>11. a + a * (Cardinality(s) - 1) = a * Cardinality(s)
  BY <1>10
<1> QED BY <1>4, <1>8, <1>9, <1>10, <1>11

(* The sum over the rest of a set.                                         *)
LEMMA SumWithout ==
    ASSUME NEW f, NEW S, IsFiniteSet(S), NEW U \in SUBSET S, \A x \in S : f[x] \in Int
    PROVE  SumOver(f, S \ U) = SumOver(f, S) - SumOver(f, U)
<1> DEFINE g == [x \in S |-> IF x \in U THEN f[x] ELSE 0]
<1>1. /\ \A x \in S : f[x] \in Int /\ g[x] \in Int
      /\ \A x \in S \ U : f[x] = f[x] - g[x] /\ g[x] = 0
      /\ \A x \in S \ (S \ U) : f[x] = g[x]
      /\ \A x \in U : g[x] = f[x]
  OBVIOUS
<1>2. S \ U \in SUBSET S /\ IsFiniteSet(U)
  BY FS_Subset
<1> HIDE DEF g
<1>3. SumOver(f, S \ U) = SumOver(f, S) - SumOver(g, S)
  BY <1>1, <1>2, SumLess
<1>4. SumOver(g, S) = SumOver(g, U)
  BY <1>1, SumWithin
<1>5. SumOver(g, U) = SumOver(f, U)
  BY <1>1, <1>2, SumSame
<1> QED BY <1>3, <1>4, <1>5

----------------------------------------------------------------------------
(* Gift cards                                                              *)

(* Steps that pay back the card of a user, and the others.                 *)
PayBackStep(c) == Gift!Revoke(c) \/ Gift!Disable(c) \/ Gift!Delete(c)
OtherCardStep(c) ==
    \/ \E withDate \in BOOLEAN : Gift!Issue(c, withDate)
    \/ \E u \in User : Gift!Generate(c, u) \/ Gift!Redeem(c, u)
    \/ Gift!DatePasses(c) \/ Gift!Enable(c)

LEMMA CardSteps ==
    [Gift!Next]_(Gift!vars) <=>
        \/ \E c \in Card : PayBackStep(c) \/ OtherCardStep(c)
        \/ UNCHANGED Gift!vars
  BY DEF Gift!Next, PayBackStep, OtherCardStep

(* A card of a user is paid back exactly when it is withdrawn.             *)
PaidBackCards ==
    \A c \in Card :
        /\ card[c] = "none" => ~Gift!Owned(c)
        /\ cardRefunded[c] => Gift!Owned(c) /\ card[c] \in {"disabled", "deleted"}
        /\ Gift!Owned(c) /\ card[c] \in {"disabled", "deleted"} => cardRefunded[c]

CardsTyped == Gift!TypeOK /\ PaidBackCards

LEMMA FewCards ==
    ASSUME Gift!GiftCardConstants
    PROVE  /\ IsFiniteSet(Card) /\ IsFiniteSet(User)
           /\ Admin \notin User /\ Worth \in Nat /\ GiftDeposit \in Nat
  BY DEF Gift!GiftCardConstants, Gift!IsFiniteSet, IsFiniteSet

LEMMA CardsTypedStep ==
    ASSUME Gift!GiftCardConstants, CardsTyped, [Gift!Next]_(Gift!vars)
    PROVE  CardsTyped'
<1> USE DEF Gift!GiftCardConstants, CardsTyped, Gift!TypeOK, Gift!Statuses, PaidBackCards,
            Gift!Owned
<1>1. CASE UNCHANGED Gift!vars
  BY <1>1 DEF Gift!vars
<1>2. ASSUME NEW c \in Card, NEW withDate \in BOOLEAN, Gift!Issue(c, withDate)
      PROVE  CardsTyped'
  BY <1>2 DEF Gift!Issue, Gift!Set
<1>3. ASSUME NEW c \in Card, NEW u \in User, Gift!Generate(c, u) PROVE CardsTyped'
  <2>1. wallet[u] - Worth \in Nat
    BY <1>3 DEF Gift!Generate
  <2> QED BY <1>3, <2>1 DEF Gift!Generate, Gift!Set
<1>4. ASSUME NEW c \in Card, NEW u \in User, Gift!Redeem(c, u) PROVE CardsTyped'
  BY <1>4 DEF Gift!Redeem, Gift!Redeemable, Gift!Set
<1>5. ASSUME NEW c \in Card, Gift!DatePasses(c) PROVE CardsTyped'
  BY <1>5 DEF Gift!DatePasses
<1>6. ASSUME NEW c \in Card, Gift!Enable(c) PROVE CardsTyped'
  BY <1>6 DEF Gift!Enable, Gift!Enableable, Gift!Set
<1>7. ASSUME NEW c \in Card, PayBackStep(c) PROVE CardsTyped'
  <2>1. CASE Gift!Owned(c) /\ ~cardRefunded[c]
    <3>1. wallet[issuer[c]] + Worth \in Nat
      BY <2>1
    <3>2. wallet' = [wallet EXCEPT ![issuer[c]] = @ + Worth]
      BY <1>7, <2>1 DEF PayBackStep, Gift!Revoke, Gift!Disable, Gift!Delete, Gift!Refund
    <3>3. wallet' \in [User -> Nat]
      BY <3>1, <3>2
    <3>4. /\ \E s \in {"disabled", "deleted"} : card' = [card EXCEPT ![c] = s]
          /\ cardRefunded' = [cardRefunded EXCEPT ![c] = TRUE]
          /\ issuer' = issuer /\ dated' = dated /\ passed' = passed
      BY <1>7, <2>1 DEF PayBackStep, Gift!Revoke, Gift!Disable, Gift!Delete, Gift!Refund,
                        Gift!Set
    <3> QED BY <2>1, <3>3, <3>4
  <2>2. CASE ~(Gift!Owned(c) /\ ~cardRefunded[c])
    BY <1>7, <2>2 DEF PayBackStep, Gift!Revoke, Gift!Disable, Gift!Delete, Gift!Refund, Gift!Set
  <2> QED BY <2>1, <2>2
<1> QED BY <1>1, <1>2, <1>3, <1>4, <1>5, <1>6, <1>7, CardSteps DEF OtherCardStep

LEMMA CardsTypedInit == Gift!GiftCardConstants /\ Gift!Init => CardsTyped
  BY DEF Gift!GiftCardConstants, Gift!Init, CardsTyped, Gift!TypeOK, Gift!Statuses,
         PaidBackCards, Gift!Owned

LEMMA CardsTypedAlways == ASSUME Gift!GiftCardConstants PROVE Gift!Spec => []CardsTyped
<1>1. Gift!GiftCardConstants /\ CardsTyped /\ [Gift!Next]_(Gift!vars) => CardsTyped'
  BY CardsTypedStep
<1> QED BY <1>1, CardsTypedInit, PTL DEF Gift!Spec

(* The state of gift cards keeps its types.                                *)
THEOREM CardTypeCorrect == ASSUME Gift!GiftCardConstants PROVE Gift!Spec => []Gift!TypeOK
<1>1. CardsTyped => Gift!TypeOK
  BY DEF CardsTyped
<1> QED BY <1>1, CardsTypedAlways, PTL

(* Whatever is done with a card that was paid back, it is not redeemed.    *)
THEOREM RefundedIsDeadAlways ==
    ASSUME Gift!GiftCardConstants
    PROVE  Gift!Spec => []Gift!RefundedIsDead
<1>1. CardsTyped => Gift!RefundedIsDead
  BY DEF CardsTyped, PaidBackCards, Gift!RefundedIsDead
<1> QED BY <1>1, CardsTypedAlways, PTL

(* The same in terms of sums and finite sets of this module.               *)
Kept ==
    SumOver(wallet, User) + Worth * Cardinality(Gift!Live) =
        GiftDeposit * Cardinality(User) + Worth * Cardinality(Gift!Gifts)

LEMMA KeptIsKept == Kept <=> Gift!MoneyIsKept
<1>1. Gift!Total = SumOver(wallet, User)
  BY DEF Gift!Total, Gift!MapThenSumSet, Gift!MapThenFoldSet,
         SumOver, MapThenSumSet, MapThenFoldSet
<1>2. \A S : Gift!Cardinality(S) = Cardinality(S)
  BY DEF Gift!Cardinality, Cardinality
<1> QED BY <1>1, <1>2 DEF Kept, Gift!MoneyIsKept

LEMMA OneBalance ==
    ASSUME NEW f, NEW g, NEW S, IsFiniteSet(S), NEW u \in S, NEW d \in Int,
           \A v \in S : f[v] \in Nat /\ g[v] \in Nat,
           \A v \in S \ {u} : f[v] = g[v],
           g[u] = f[u] + d
    PROVE  SumOver(g, S) = SumOver(f, S) + d
<1>1. SumOver(f, S) \in Nat
  BY SumType
<1>2. \A v \in S : f[v] \in Int /\ g[v] \in Int
  OBVIOUS
<1>3. SumOver(g, S) = SumOver(f, S) - f[u] + g[u]
  BY <1>2, SumChange
<1> QED BY <1>1, <1>2, <1>3

(* The balance changes with the sets of cards.                             *)
LEMMA KeptIf ==
    ASSUME NEW Total \in Int, NEW L \in Int, NEW G \in Int, NEW W \in Int, NEW D \in Int,
           NEW d \in Int, NEW l \in Int, NEW m \in Int,
           Total + W * L = D + W * G, d = W * (m - l)
    PROVE  (Total + d) + W * (L + l) = D + W * (G + m)
<1>1. /\ W * (m - l) = W * m - W * l /\ W * (L + l) = W * L + W * l
      /\ W * (G + m) = W * G + W * m
  BY SMT
<1>2. W * m \in Int /\ W * l \in Int /\ W * L \in Int /\ W * G \in Int
  BY SMT
<1> QED BY <1>1, <1>2

LEMMA CardMoneyStep ==
    ASSUME Gift!GiftCardConstants, CardsTyped, Kept, [Gift!Next]_(Gift!vars)
    PROVE  Kept'
<1> USE DEF CardsTyped, Gift!TypeOK
<1>1. /\ IsFiniteSet(Gift!Live) /\ IsFiniteSet(Gift!Gifts)
      /\ Cardinality(Gift!Live) \in Nat /\ Cardinality(Gift!Gifts) \in Nat
      /\ Cardinality(User) \in Nat /\ IsFiniteSet(User)
      /\ Worth \in Nat
  BY FewCards, FS_Subset, FS_CardinalityType DEF Gift!Live, Gift!Gifts
<1>2. SumOver(wallet, User) \in Nat
  <2>1. \A u \in User : wallet[u] \in Nat
    OBVIOUS
  <2> QED BY <1>1, <2>1, SumType
<1>3. ASSUME NEW l \in Int, NEW m \in Int, NEW d \in Int,
             Cardinality(Gift!Live') = Cardinality(Gift!Live) + l,
             Cardinality(Gift!Gifts') = Cardinality(Gift!Gifts) + m,
             SumOver(wallet', User) = SumOver(wallet, User) + d, d = Worth * (m - l)
      PROVE  Kept'
  <2>1. SumOver(wallet, User) + Worth * Cardinality(Gift!Live)
            = GiftDeposit * Cardinality(User) + Worth * Cardinality(Gift!Gifts)
    BY DEF Kept
  <2>2. (SumOver(wallet, User) + d) + Worth * (Cardinality(Gift!Live) + l)
            = GiftDeposit * Cardinality(User) + Worth * (Cardinality(Gift!Gifts) + m)
    <3>1. /\ SumOver(wallet, User) \in Int /\ Cardinality(User) \in Int
          /\ Cardinality(Gift!Live) \in Int /\ Cardinality(Gift!Gifts) \in Int
          /\ GiftDeposit * Cardinality(User) \in Int /\ Worth \in Int
      BY <1>1, <1>2, FewCards
    <3> HIDE DEF CardsTyped, Gift!TypeOK
    <3> QED BY <1>3, <2>1, <3>1, KeptIf
  <2> QED BY <1>3, <2>2 DEF Kept
<1>4. ASSUME Gift!Live' = Gift!Live, Gift!Gifts' = Gift!Gifts, wallet' = wallet
      PROVE  Kept'
  <2>1. SumOver(wallet', User) = SumOver(wallet, User)
    BY <1>4, <1>2
  <2> QED BY <1>4, <2>1 DEF Kept
<1>5. ASSUME NEW u \in User, NEW d \in Int, wallet[u] + d \in Nat,
             wallet' = [wallet EXCEPT ![u] = @ + d]
      PROVE  SumOver(wallet', User) = SumOver(wallet, User) + d
  <2>1. wallet'[u] = wallet[u] + d /\ \A v \in User \ {u} : wallet[v] = wallet'[v]
    BY <1>5
  <2>2. \A v \in User : wallet[v] \in Nat /\ wallet'[v] \in Nat
    BY <1>5, <2>1
  <2> QED BY <1>1, <2>1, <2>2, OneBalance
<1>6. ASSUME NEW c \in Card, c \in Gift!Live, Gift!Live' = Gift!Live \ {c}
      PROVE  Cardinality(Gift!Live') = Cardinality(Gift!Live) + (-1)
  <2>1. Cardinality(Gift!Live \ {c}) = Cardinality(Gift!Live) - 1
    BY <1>1, <1>6, FS_RemoveElement
  <2> QED BY <1>1, <1>6, <2>1
<1>7. ASSUME NEW c \in Card, NEW u \in User, c \in Gift!Live, Gift!Live' = Gift!Live \ {c},
             Gift!Gifts' = Gift!Gifts, wallet' = [wallet EXCEPT ![u] = @ + Worth]
      PROVE  Kept'
  <2>1. SumOver(wallet', User) = SumOver(wallet, User) + Worth
    <3>1. wallet[u] + Worth \in Nat /\ Worth \in Int
      BY <1>1
    <3> QED BY <1>5, <1>7, <3>1
  <2>2. Cardinality(Gift!Live') = Cardinality(Gift!Live) + (-1)
    BY <1>6, <1>7
  <2>3. Cardinality(Gift!Gifts') = Cardinality(Gift!Gifts) + 0
    BY <1>1, <1>7
  <2>4. Worth = Worth * (0 - (-1)) /\ Worth \in Int
    BY <1>1
  <2> QED BY <1>3, <2>1, <2>2, <2>3, <2>4
<1>8. CASE UNCHANGED Gift!vars
  BY <1>4, <1>8 DEF Gift!vars, Gift!Live, Gift!Gifts, Gift!Owned
<1>9. ASSUME NEW c \in Card,
             \/ \E withDate \in BOOLEAN : Gift!Issue(c, withDate)
             \/ Gift!DatePasses(c) \/ Gift!Enable(c)
      PROVE  Kept'
  <2>1. Gift!Live' = Gift!Live /\ Gift!Gifts' = Gift!Gifts /\ wallet' = wallet
    BY <1>9 DEF Gift!Issue, Gift!DatePasses, Gift!Enable, Gift!Enableable, Gift!Set,
                Gift!Live, Gift!Gifts, Gift!Owned, PaidBackCards
  <2> QED BY <1>4, <2>1
<1>10. ASSUME NEW c \in Card, NEW u \in User, Gift!Generate(c, u) PROVE Kept'
  <2>1. c \notin Gift!Live /\ Gift!Live' = Gift!Live \cup {c} /\ Gift!Gifts' = Gift!Gifts
    BY <1>10 DEF Gift!Generate, Gift!Set, Gift!Live, Gift!Gifts, Gift!Owned, PaidBackCards
  <2>2. Cardinality(Gift!Live') = Cardinality(Gift!Live) + 1
    BY <1>1, <2>1, FS_AddElement
  <2>3. Cardinality(Gift!Gifts') = Cardinality(Gift!Gifts) + 0
    BY <1>1, <2>1
  <2>4. SumOver(wallet', User) = SumOver(wallet, User) + (-Worth)
    <3>1. wallet[u] + (-Worth) \in Nat /\ -Worth \in Int /\ wallet[u] \in Nat
      BY <1>1, <1>10 DEF Gift!Generate
    <3>2. wallet[u] - Worth = wallet[u] + (-Worth)
      BY <1>1, <3>1
    <3>3. wallet' = [wallet EXCEPT ![u] = @ + (-Worth)]
      BY <1>10, <3>2 DEF Gift!Generate
    <3> QED BY <1>5, <3>1, <3>3
  <2>5. -Worth = Worth * (0 - 1) /\ -Worth \in Int
    BY <1>1
  <2> QED BY <1>3, <2>2, <2>3, <2>4, <2>5
<1>11. ASSUME NEW c \in Card, NEW u \in User, Gift!Redeem(c, u) PROVE Kept'
  <2> USE <1>11 DEF Gift!Redeem, Gift!Redeemable, Gift!Set
  <2>1. CASE passed[c]
    <3>1. Gift!Live' = Gift!Live /\ Gift!Gifts' = Gift!Gifts /\ wallet' = wallet
      BY <2>1 DEF Gift!Live, Gift!Gifts, Gift!Owned
    <3> QED BY <1>4, <3>1
  <2>2. CASE ~passed[c] /\ Gift!Owned(c)
    <3>1. /\ c \in Gift!Live /\ Gift!Live' = Gift!Live \ {c} /\ Gift!Gifts' = Gift!Gifts
          /\ wallet' = [wallet EXCEPT ![u] = @ + Worth]
      BY <2>2 DEF Gift!Live, Gift!Gifts, Gift!Owned
    <3> QED BY <1>7, <3>1
  <2>3. CASE ~passed[c] /\ ~Gift!Owned(c)
    <3>1. /\ c \notin Gift!Gifts /\ Gift!Gifts' = Gift!Gifts \cup {c} /\ Gift!Live' = Gift!Live
          /\ wallet' = [wallet EXCEPT ![u] = @ + Worth]
      BY <2>3 DEF Gift!Live, Gift!Gifts, Gift!Owned
    <3>2. Cardinality(Gift!Gifts') = Cardinality(Gift!Gifts) + 1
      BY <1>1, <3>1, FS_AddElement
    <3>3. Cardinality(Gift!Live') = Cardinality(Gift!Live) + 0
      BY <1>1, <3>1
    <3>4. SumOver(wallet', User) = SumOver(wallet, User) + Worth
      <4>1. wallet[u] + Worth \in Nat /\ Worth \in Int
        BY <1>1
      <4> QED BY <1>5, <3>1, <4>1
    <3>5. Worth = Worth * (1 - 0) /\ Worth \in Int
      BY <1>1
    <3> QED BY <1>3, <3>2, <3>3, <3>4, <3>5
  <2> QED BY <2>1, <2>2, <2>3
<1>12. ASSUME NEW c \in Card, PayBackStep(c) PROVE Kept'
  <2>1. /\ card[c] \in {"active", "disabled", "expired"}
        /\ \E s \in {"disabled", "deleted"} : card' = [card EXCEPT ![c] = s]
        /\ issuer' = issuer /\ Gift!Refund(c)
    BY <1>12 DEF PayBackStep, Gift!Revoke, Gift!Disable, Gift!Delete, Gift!Set
  <2>2. CASE Gift!Owned(c) /\ ~cardRefunded[c]
    <3>1. /\ c \in Gift!Live /\ Gift!Live' = Gift!Live \ {c} /\ Gift!Gifts' = Gift!Gifts
          /\ wallet' = [wallet EXCEPT ![issuer[c]] = @ + Worth] /\ issuer[c] \in User
      BY <2>1, <2>2 DEF Gift!Refund, Gift!Live, Gift!Gifts, Gift!Owned, PaidBackCards
    <3> QED BY <1>7, <3>1
  <2>3. CASE ~(Gift!Owned(c) /\ ~cardRefunded[c])
    <3>1. Gift!Live' = Gift!Live /\ Gift!Gifts' = Gift!Gifts /\ wallet' = wallet
      BY <2>1, <2>3 DEF Gift!Refund, Gift!Live, Gift!Gifts, Gift!Owned, PaidBackCards
    <3> QED BY <1>4, <3>1
  <2> QED BY <2>2, <2>3
<1> QED BY <1>8, <1>9, <1>10, <1>11, <1>12, CardSteps DEF OtherCardStep

(* Money is neither made nor lost, whatever is done with cards of users and*)
(* of administrators, in any order.                                        *)
THEOREM MoneyIsKeptAlways ==
    ASSUME Gift!GiftCardConstants
    PROVE  Gift!Spec => []Gift!MoneyIsKept
<1>1. Gift!Init => CardsTyped /\ Kept
  <2> SUFFICES ASSUME Gift!Init PROVE Kept
    BY CardsTypedInit
  <2>1. Gift!Live = {} /\ Gift!Gifts = {} /\ wallet = [u \in User |-> GiftDeposit]
    BY DEF Gift!Init, Gift!Live, Gift!Gifts
  <2>2. SumOver(wallet, User) = GiftDeposit * Cardinality(User)
    <3>1. SumOver([u \in User |-> GiftDeposit], User) = GiftDeposit * Cardinality(User)
      <4>1. GiftDeposit \in Int
        BY FewCards
      <4> QED BY <4>1, FewCards, SumConstant, Zenon
    <3> QED BY <2>1, <3>1
  <2>3. Cardinality(Gift!Live) = 0 /\ Cardinality(Gift!Gifts) = 0
    BY <2>1, FS_EmptySet
  <2>4. Worth * 0 = 0 /\ GiftDeposit * Cardinality(User) \in Int
    BY FewCards, FS_CardinalityType
  <2> QED BY <2>2, <2>3, <2>4 DEF Kept
<1> DEFINE Inv == CardsTyped /\ Kept
<1>2. Inv /\ [Gift!Next]_(Gift!vars) => Inv'
  BY CardsTypedStep, CardMoneyStep
<1>3. Inv => Gift!MoneyIsKept
  BY KeptIsKept
<1> QED BY <1>1, <1>2, <1>3, PTL DEF Gift!Spec

----------------------------------------------------------------------------
(* Income of host owners                                                   *)

LEMMA GainSum == ASSUME NEW f, NEW S PROVE Gain!SumOver(f, S) = SumOver(f, S)
  BY DEF Gain!SumOver, Gain!MapThenSumSet, Gain!MapThenFoldSet,
         SumOver, MapThenSumSet, MapThenFoldSet

LEMMA GainRows ==
    ASSUME Gain!HostIncomeConstants
    PROVE  /\ \A S \in SUBSET Gain!Row : IsFiniteSet(S)
           /\ \A S \in SUBSET Gain!Withdrawal : IsFiniteSet(S)
<1>1. IsFiniteSet(Gain!Row) /\ IsFiniteSet(Gain!Withdrawal)
  BY FS_Interval DEF Gain!Row, Gain!Withdrawal, Gain!HostIncomeConstants
<1> QED BY <1>1, FS_Subset

(* Who a row and a withdrawal belong to, and what jobs have read.          *)
EarnersKnown ==
    \A r \in Gain!Row :
        /\ rowState[r] = "none" => earned[r] = 0
        /\ purchase[r] => about[r] \in Instance /\ earner[r] = HostedBy[about[r]]

WithdrawalsKnown ==
    \A w \in Gain!Withdrawal :
        /\ withdrawn[w] # "completed" => ~left[w]
        /\ withdrawn[w] # "none" => askedOf[w] \in Owner

ReadsKnown ==
    \A p \in Process : \A r \in ids[p] :
        /\ rowState[r] # "none"
        /\ ~ShrinkRead /\ job[p] = "read" /\ Gain!Frozen(r) => read[p][r] = amount[r]

IncomeTyped ==
    /\ Gain!TypeOK
    /\ net \in [Owner -> Int]
    /\ EarnersKnown
    /\ WithdrawalsKnown
    /\ ReadsKnown

(* The steps by what they do to the rows.                                  *)
AddStep ==
    \E r \in Gain!Row, o \in Owner, i \in Instance \cup {Gain!NoOwner}, bought \in BOOLEAN,
       a \in Gain!Amount :
        /\ Gain!AddRow(r, o, i, bought, a)
        /\ bought => i \in Instance /\ o = HostedBy[i]
        /\ \/ paid' = paid
           \/ i \in Instance /\ paid' = [paid EXCEPT ![i] = @ + a]

TakeStep ==
    \/ \E i \in Instance, a \in Gain!Amount : Gain!Deduct(i, a)
    \/ \E o \in Owner, a \in Gain!Amount : Gain!TakeFrozen(o, a)

ReleaseStep == \E p \in Process : Gain!Job(p)
MarkStep == \E r \in Gain!Row : Gain!BecomesDue(r)
UndoStep == \E i \in Instance : Gain!UndoPurchase(i)

BalanceStep ==
    \/ \E o \in Owner, a \in Gain!Amount :
         Gain!AdjustAvailable(o, a) \/ Gain!AdjustAvailable(o, -a)
    \/ \E w \in Gain!Withdrawal, o \in Owner, a \in Gain!Amount, outside \in BOOLEAN :
         Gain!Withdraw(w, o, a, outside)
    \/ \E w \in Gain!Withdrawal : Gain!Approve(w) \/ Gain!Reject(w)

LEMMA IncomeSteps ==
    ASSUME Gain!HostIncomeConstants, [Gain!Next]_(Gain!vars)
    PROVE  \/ AddStep \/ TakeStep \/ ReleaseStep \/ MarkStep \/ UndoStep \/ BalanceStep
           \/ UNCHANGED Gain!vars
<1>1. ASSUME NEW i \in Instance, NEW a \in Gain!Amount, NEW r \in Gain!Row, Gain!Earn(r, i, a)
      PROVE  AddStep
  <2>1. HostedBy[i] \in Owner /\ (i \notin Gain!Range(about)) \in BOOLEAN
    BY DEF Gain!HostIncomeConstants
  <2> QED BY <1>1, <2>1 DEF Gain!Earn, AddStep
<1>2. ASSUME NEW o \in Owner, NEW a \in Gain!Amount, NEW r \in Gain!Row, Gain!AddFrozen(r, o, a)
      PROVE  AddStep
  BY <1>2 DEF Gain!AddFrozen, AddStep
<1> QED BY <1>1, <1>2 DEF Gain!Next, Gain!Adjustments, TakeStep, ReleaseStep, MarkStep, UndoStep,
                          BalanceStep

(* What a deduction takes.                                                 *)
LEMMA Taking ==
    ASSUME Gain!HostIncomeConstants, IncomeTyped,
           NEW a \in Gain!Amount, NEW S \in SUBSET Gain!Row,
           NEW take \in [Gain!Row -> 0 .. MaxAmount], Gain!OldestFirst(take, S, a)
    PROVE  /\ \A r \in Gain!Row : take[r] \in Nat /\ take[r] <= amount[r]
           /\ \A r \in Gain!Row \ S : take[r] = 0
           /\ SumOver(take, Gain!Row) = SumOver(take, S)
           /\ SumOver(take, Gain!Row) \in 0 .. a
           /\ SumOver(amount, S) >= a => SumOver(take, Gain!Row) = a
<1>1. \A r \in Gain!Row : take[r] \in Nat /\ amount[r] \in Nat
  BY DEF IncomeTyped, Gain!TypeOK, Gain!HostIncomeConstants
<1>2. \A r \in Gain!Row : take[r] <= IF r \in S THEN amount[r] ELSE 0
  BY DEF Gain!OldestFirst
<1>3. \A r \in Gain!Row \ S : take[r] = 0
  BY <1>1, <1>2
<1>4. IsFiniteSet(Gain!Row) /\ IsFiniteSet(S)
  BY GainRows
<1>5. SumOver(take, Gain!Row) = SumOver(take, S)
  BY <1>1, <1>3, <1>4, SumWithin
<1>6. SumOver(take, Gain!Row) \in Nat /\ SumOver(amount, S) \in Nat
  BY <1>1, <1>4, SumType
<1>7. SumOver(take, Gain!Row) = Gain!Smaller(a, SumOver(amount, S))
  BY GainSum DEF Gain!OldestFirst
<1>8. a \in Nat
  BY DEF Gain!Amount
<1> QED BY <1>1, <1>2, <1>3, <1>5, <1>6, <1>7, <1>8 DEF Gain!Smaller

----------------------------------------------------------------------------

LEMMA IncomeTypedInit == Gain!HostIncomeConstants /\ Gain!Init => IncomeTyped
  BY DEF Gain!HostIncomeConstants, Gain!Init, IncomeTyped, Gain!TypeOK, Gain!RowStates,
         EarnersKnown, WithdrawalsKnown, ReadsKnown

LEMMA AddTyped == ASSUME Gain!HostIncomeConstants, IncomeTyped, AddStep PROVE IncomeTyped'
<1>1. PICK r \in Gain!Row, o \in Owner, i \in Instance \cup {Gain!NoOwner}, bought \in BOOLEAN,
           a \in Gain!Amount :
        /\ Gain!AddRow(r, o, i, bought, a)
        /\ bought => i \in Instance /\ o = HostedBy[i]
        /\ \/ paid' = paid
           \/ i \in Instance /\ paid' = [paid EXCEPT ![i] = @ + a]
  BY DEF AddStep
<1>2. a \in Nat
  BY DEF Gain!Amount
<1> USE <1>1, <1>2 DEF Gain!AddRow, IncomeTyped, Gain!withdrawals, Gain!jobs
<1>3. net' \in [Owner -> Int]
  BY DEF Gain!TypeOK
<1>4. paid' \in [Instance -> Nat]
  BY DEF Gain!TypeOK
<1>5. Gain!TypeOK'
  BY <1>4 DEF Gain!TypeOK, Gain!RowStates
<1>6. EarnersKnown'
  BY DEF EarnersKnown, Gain!TypeOK
<1>7. WithdrawalsKnown' /\ ReadsKnown'
  BY DEF WithdrawalsKnown, ReadsKnown, Gain!TypeOK, Gain!Frozen
<1> QED BY <1>3, <1>5, <1>6, <1>7

(* Rows that are taken from, without a change of those that were read.     *)
LEMMA TakeKnown ==
    ASSUME Gain!HostIncomeConstants, IncomeTyped, NEW take \in [Gain!Row -> Nat],
           \A r \in Gain!Row : take[r] <= amount[r],
           \A r \in Gain!Row : take[r] > 0 => Gain!Frozen(r),
           Gain!TakeFrom(take)
    PROVE  /\ rowState' \in [Gain!Row -> Gain!RowStates] /\ amount' \in [Gain!Row -> Nat]
           /\ offset' \in [Gain!Row -> Nat]
           /\ EarnersKnown' /\ ReadsKnown'
           /\ UNCHANGED <<earner, about, purchase, due, job, ids, read, earned, credited>>
<1> USE DEF Gain!TakeFrom, IncomeTyped
<1>1. /\ rowState' \in [Gain!Row -> Gain!RowStates] /\ amount' \in [Gain!Row -> Nat]
      /\ offset' \in [Gain!Row -> Nat]
  BY DEF Gain!TypeOK, Gain!RowStates
<1>2. UNCHANGED <<earner, about, purchase, due, job, ids, read, earned, credited>>
  BY DEF Gain!jobs
<1>3. EarnersKnown'
  BY <1>2 DEF EarnersKnown, Gain!TypeOK
<1>4. ReadsKnown'
  <2> SUFFICES ASSUME NEW p \in Process, NEW r \in ids'[p]
               PROVE  /\ rowState'[r] # "none"
                      /\ ~ShrinkRead /\ job'[p] = "read" /\ Gain!Frozen(r)'
                            => read'[p][r] = amount'[r]
    BY DEF ReadsKnown
  <2>1. r \in Gain!Row /\ r \in ids[p] /\ amount[r] \in Nat
    BY <1>2 DEF Gain!TypeOK
  <2>2. rowState[r] # "none"
    BY <2>1 DEF ReadsKnown
  <2>3. rowState'[r] # "none"
    BY <2>1, <2>2
  <2>4. ASSUME ~ShrinkRead, job'[p] = "read", Gain!Frozen(r)' PROVE read'[p][r] = amount'[r]
    <3>1. take[r] = 0 \/ take[r] = amount[r]
      BY <1>2, <2>1, <2>4 DEF Gain!Unread, Gain!TypeOK
    <3>2. take[r] = 0
      BY <2>1, <2>4, <3>1 DEF Gain!Frozen
    <3>3. amount'[r] = amount[r] /\ Gain!Frozen(r)
      BY <2>1, <2>4, <3>2 DEF Gain!Frozen
    <3> QED BY <1>2, <2>1, <2>4, <3>3 DEF ReadsKnown
  <2> QED BY <2>3, <2>4
<1> QED BY <1>1, <1>2, <1>3, <1>4

(* Both deductions, in one form.                                           *)
LEMMA TakeIs ==
    ASSUME Gain!HostIncomeConstants, IncomeTyped, TakeStep
    PROVE  \E o \in Owner, a \in Gain!Amount, S \in SUBSET Gain!Row,
              take \in [Gain!Row -> 0 .. MaxAmount], topUp \in Int :
            /\ S \subseteq Gain!FrozenRows(o)
            /\ Gain!OldestFirst(take, S, a)
            /\ Gain!TakeFrom(take)
            /\ available' = [available EXCEPT ![o] =
                                @ - ((a - SumOver(take, Gain!Row)) - topUp)]
            /\ net' = [net EXCEPT ![o] = @ - (a - topUp)]
            /\ panel' \in [Owner -> Nat] /\ paid' \in [Instance -> Nat]
            /\ UNCHANGED Gain!withdrawals
<1>1. ASSUME NEW i \in Instance, NEW a \in Gain!Amount, Gain!Deduct(i, a)
      PROVE  \E o \in Owner, S \in SUBSET Gain!Row,
                take \in [Gain!Row -> 0 .. MaxAmount], topUp \in Int :
              /\ S \subseteq Gain!FrozenRows(o)
              /\ Gain!OldestFirst(take, S, a)
              /\ Gain!TakeFrom(take)
              /\ available' = [available EXCEPT ![o] =
                                  @ - ((a - SumOver(take, Gain!Row)) - topUp)]
              /\ net' = [net EXCEPT ![o] = @ - (a - topUp)]
              /\ panel' \in [Owner -> Nat] /\ paid' \in [Instance -> Nat]
              /\ UNCHANGED Gain!withdrawals
  <2> DEFINE o == HostedBy[i]
             S == Gain!FrozenOf(i)
  <2>1. o \in Owner /\ S \in SUBSET Gain!Row /\ S \subseteq Gain!FrozenRows(o)
    BY DEF Gain!HostIncomeConstants, Gain!FrozenOf, Gain!FrozenRows
  <2> DEFINE Rest(take) == a - SumOver(take, Gain!Row)
             TopUp(take) == Gain!FromPanel(o, Rest(take) - Gain!FromAvailable(o, Rest(take)))
  <2>2. PICK take \in [Gain!Row -> 0 .. MaxAmount] :
          /\ Gain!OldestFirst(take, S, a)
          /\ Gain!TakeFrom(take)
          /\ available' = [available EXCEPT ![o] = @ - (Rest(take) - TopUp(take))]
          /\ panel' = [panel EXCEPT ![o] = @ - TopUp(take)]
          /\ net' = [net EXCEPT ![o] = @ - (a - TopUp(take))]
          /\ paid' = [paid EXCEPT ![i] = @ - a]
          /\ UNCHANGED Gain!withdrawals
    BY <1>1, GainSum DEF Gain!Deduct
  <2>3. SumOver(take, Gain!Row) \in 0 .. a /\ a \in Nat
    <3>1. Gain!OldestFirst(take, S, a) /\ S \in SUBSET Gain!Row
      BY <2>1, <2>2
    <3>2. a \in Nat
      BY DEF Gain!Amount
    <3> HIDE DEF S, Rest, TopUp
    <3> QED BY <3>1, <3>2, Taking
  <2> DEFINE rest == Rest(take)
             kept == Gain!FromAvailable(o, rest)
             topUp == TopUp(take)
  <2>4. rest \in Nat
    BY <2>3
  <2> HIDE DEF Rest
  <2>5. available[o] \in Int /\ panel[o] \in Nat /\ paid[i] \in Nat
    BY <2>1 DEF IncomeTyped, Gain!TypeOK
  <2>6. kept \in Int /\ rest - kept \in Nat
    BY <2>4, <2>5 DEF Gain!FromAvailable, Gain!Smaller
  <2>7. topUp \in Int /\ panel[o] - topUp \in Nat
    BY <2>5, <2>6 DEF Gain!FromPanel, Gain!Smaller
  <2>8. paid[i] - a \in Nat
    BY <1>1, <2>3, <2>5 DEF Gain!Deduct
  <2> HIDE DEF o, S, TopUp
  <2>9. panel' \in [Owner -> Nat]
    BY <2>1, <2>2, <2>7 DEF IncomeTyped, Gain!TypeOK
  <2>10. paid' \in [Instance -> Nat]
    BY <2>2, <2>8 DEF IncomeTyped, Gain!TypeOK
  <2> USE DEF Rest
  <2> QED BY <2>1, <2>2, <2>7, <2>9, <2>10
<1>2. ASSUME NEW o \in Owner, NEW a \in Gain!Amount, Gain!TakeFrozen(o, a)
      PROVE  \E S \in SUBSET Gain!Row,
                take \in [Gain!Row -> 0 .. MaxAmount], topUp \in Int :
              /\ S \subseteq Gain!FrozenRows(o)
              /\ Gain!OldestFirst(take, S, a)
              /\ Gain!TakeFrom(take)
              /\ available' = [available EXCEPT ![o] =
                                  @ - ((a - SumOver(take, Gain!Row)) - topUp)]
              /\ net' = [net EXCEPT ![o] = @ - (a - topUp)]
              /\ panel' \in [Owner -> Nat] /\ paid' \in [Instance -> Nat]
              /\ UNCHANGED Gain!withdrawals
  <2> DEFINE S == Gain!FrozenRows(o)
  <2>1. S \in SUBSET Gain!Row /\ S \subseteq Gain!FrozenRows(o)
    BY DEF Gain!FrozenRows
  <2>2. PICK take \in [Gain!Row -> 0 .. MaxAmount] :
          Gain!OldestFirst(take, S, a) /\ Gain!TakeFrom(take)
    BY <1>2 DEF Gain!TakeFrozen
  <2>3. SumOver(amount, S) >= a
    BY <1>2, GainSum DEF Gain!TakeFrozen
  <2> HIDE DEF S
  <2>4. SumOver(take, Gain!Row) = a
    BY <2>1, <2>2, <2>3, Taking
  <2>5. a \in Int /\ available[o] \in Int /\ net[o] \in Int
    BY DEF Gain!Amount, IncomeTyped, Gain!TypeOK
  <2>6. available' = [available EXCEPT ![o] = @ - ((a - SumOver(take, Gain!Row)) - 0)]
    <3>1. available' = available
      BY <1>2 DEF Gain!TakeFrozen
    <3>2. available[o] - ((a - SumOver(take, Gain!Row)) - 0) = available[o]
      BY <2>4, <2>5
    <3> QED BY <3>1, <3>2 DEF IncomeTyped, Gain!TypeOK
  <2>7. net' = [net EXCEPT ![o] = @ - (a - 0)]
    BY <1>2, <2>5 DEF Gain!TakeFrozen
  <2>8. panel' \in [Owner -> Nat] /\ paid' \in [Instance -> Nat] /\ UNCHANGED Gain!withdrawals
    BY <1>2 DEF Gain!TakeFrozen, IncomeTyped, Gain!TypeOK
  <2>9. 0 \in Int
    OBVIOUS
  <2> QED BY <2>1, <2>2, <2>6, <2>7, <2>8, <2>9
<1> QED BY <1>1, <1>2 DEF TakeStep

LEMMA TakeTyped == ASSUME Gain!HostIncomeConstants, IncomeTyped, TakeStep PROVE IncomeTyped'
<1>1. PICK o \in Owner, a \in Gain!Amount, S \in SUBSET Gain!Row,
           take \in [Gain!Row -> 0 .. MaxAmount], topUp \in Int :
            /\ S \subseteq Gain!FrozenRows(o)
            /\ Gain!OldestFirst(take, S, a)
            /\ Gain!TakeFrom(take)
            /\ available' = [available EXCEPT ![o] =
                                @ - ((a - SumOver(take, Gain!Row)) - topUp)]
            /\ net' = [net EXCEPT ![o] = @ - (a - topUp)]
            /\ panel' \in [Owner -> Nat] /\ paid' \in [Instance -> Nat]
            /\ UNCHANGED Gain!withdrawals
  BY TakeIs
<1>2. /\ \A r \in Gain!Row : take[r] \in Nat /\ take[r] <= amount[r]
      /\ \A r \in Gain!Row \ S : take[r] = 0
      /\ SumOver(take, Gain!Row) \in Int /\ a \in Int
  BY <1>1, Taking DEF Gain!Amount
<1>3. take \in [Gain!Row -> Nat] /\ \A r \in Gain!Row : take[r] > 0 => Gain!Frozen(r)
  BY <1>1, <1>2 DEF Gain!FrozenRows
<1>4. /\ rowState' \in [Gain!Row -> Gain!RowStates] /\ amount' \in [Gain!Row -> Nat]
      /\ offset' \in [Gain!Row -> Nat]
      /\ EarnersKnown' /\ ReadsKnown'
      /\ UNCHANGED <<earner, about, purchase, due, job, ids, read, earned, credited>>
  BY <1>1, <1>2, <1>3, TakeKnown
<1>5. available' \in [Owner -> Int] /\ net' \in [Owner -> Int]
  BY <1>1, <1>2 DEF IncomeTyped, Gain!TypeOK
<1>6. Gain!TypeOK'
  BY <1>1, <1>4, <1>5 DEF IncomeTyped, Gain!TypeOK, Gain!withdrawals
<1>7. WithdrawalsKnown'
  BY <1>1 DEF IncomeTyped, WithdrawalsKnown, Gain!withdrawals
<1> QED BY <1>4, <1>5, <1>6, <1>7 DEF IncomeTyped

(* What a job that releases its rows had read of them.                     *)
LEMMA ReadIsInt ==
    ASSUME Gain!HostIncomeConstants, IncomeTyped, NEW p \in Process, NEW o \in Owner
    PROVE  Gain!ReadBy(p, o) \in Nat
<1>1. IsFiniteSet({r \in ids[p] : earner[r] = o})
  BY GainRows DEF IncomeTyped, Gain!TypeOK
<1>2. \A r \in {q \in ids[p] : earner[q] = o} : read[p][r] \in Nat
  BY DEF IncomeTyped, Gain!TypeOK
<1> QED BY <1>1, <1>2, SumType, GainSum DEF Gain!ReadBy

LEMMA ReleaseTyped == ASSUME Gain!HostIncomeConstants, IncomeTyped, ReleaseStep PROVE IncomeTyped'
<1> USE DEF IncomeTyped, Gain!rows, Gain!withdrawals, Gain!rowHistory
<1>1. ASSUME NEW p \in Process, Gain!FindDue(p) PROVE IncomeTyped'
  <2>1. Gain!TypeOK' /\ net' \in [Owner -> Int]
    BY <1>1 DEF Gain!FindDue, Gain!TypeOK
  <2>2. EarnersKnown' /\ WithdrawalsKnown'
    BY <1>1 DEF Gain!FindDue, EarnersKnown, WithdrawalsKnown
  <2>3. ReadsKnown'
    BY <1>1 DEF Gain!FindDue, ReadsKnown, Gain!Frozen, Gain!TypeOK
  <2> QED BY <2>1, <2>2, <2>3
<1>2. ASSUME NEW p \in Process, Gain!ReadDue(p) PROVE IncomeTyped'
  <2>1. Gain!TypeOK' /\ net' \in [Owner -> Int]
    BY <1>2 DEF Gain!ReadDue, Gain!TypeOK
  <2>2. EarnersKnown' /\ WithdrawalsKnown'
    BY <1>2 DEF Gain!ReadDue, EarnersKnown, WithdrawalsKnown
  <2>3. ReadsKnown'
    BY <1>2 DEF Gain!ReadDue, ReadsKnown, Gain!Frozen, Gain!TypeOK
  <2> QED BY <2>1, <2>2, <2>3
<1>3. ASSUME NEW p \in Process, Gain!Release(p) PROVE IncomeTyped'
  <2>1. \A o \in Owner : available[o] + Gain!ReadBy(p, o) \in Int
    BY ReadIsInt DEF Gain!TypeOK
  <2>2. available' \in [Owner -> Int]
    BY <1>3, <2>1 DEF Gain!Release, Gain!ReleaseRows
  <2>3. credited' \in [Gain!Row -> Nat] /\ rowState' \in [Gain!Row -> Gain!RowStates]
    BY <1>3 DEF Gain!Release, Gain!ReleaseRows, Gain!TypeOK, Gain!RowStates
  <2>4. /\ job' \in [Process -> {"idle", "found", "read"}] /\ ids' \in [Process -> SUBSET Gain!Row]
        /\ read' \in [Process -> [Gain!Row -> Nat]]
    BY <1>3 DEF Gain!Release, Gain!ReleaseRows, Gain!Rest, Gain!TypeOK
  <2>5. Gain!TypeOK' /\ net' \in [Owner -> Int]
    BY <1>3, <2>2, <2>3, <2>4 DEF Gain!Release, Gain!ReleaseRows, Gain!TypeOK
  <2>6. EarnersKnown' /\ WithdrawalsKnown'
    BY <1>3 DEF Gain!Release, Gain!ReleaseRows, EarnersKnown, WithdrawalsKnown, Gain!TypeOK,
                Gain!Frozen
  <2>7. ReadsKnown'
    BY <1>3 DEF Gain!Release, Gain!ReleaseRows, Gain!Rest, ReadsKnown, Gain!Frozen, Gain!TypeOK
  <2> QED BY <2>5, <2>6, <2>7
<1>4. ASSUME NEW p \in Process, Gain!GiveUp(p) PROVE IncomeTyped'
  <2>1. Gain!TypeOK' /\ net' \in [Owner -> Int]
    BY <1>4 DEF Gain!GiveUp, Gain!Rest, Gain!TypeOK
  <2>2. EarnersKnown' /\ WithdrawalsKnown'
    BY <1>4 DEF Gain!GiveUp, EarnersKnown, WithdrawalsKnown
  <2>3. ReadsKnown'
    BY <1>4 DEF Gain!GiveUp, Gain!Rest, ReadsKnown, Gain!Frozen, Gain!TypeOK
  <2> QED BY <2>1, <2>2, <2>3
<1> QED BY <1>1, <1>2, <1>3, <1>4 DEF ReleaseStep, Gain!Job

LEMMA MarkTyped == ASSUME Gain!HostIncomeConstants, IncomeTyped, MarkStep PROVE IncomeTyped'
<1> USE DEF IncomeTyped, MarkStep, Gain!BecomesDue, Gain!withdrawals, Gain!rowHistory, Gain!jobs
<1>1. Gain!TypeOK' /\ net' \in [Owner -> Int]
  BY DEF Gain!TypeOK
<1>2. EarnersKnown' /\ WithdrawalsKnown' /\ ReadsKnown'
  BY DEF EarnersKnown, WithdrawalsKnown, ReadsKnown, Gain!Frozen
<1> QED BY <1>1, <1>2

LEMMA UndoTyped == ASSUME Gain!HostIncomeConstants, IncomeTyped, UndoStep PROVE IncomeTyped'
<1>1. PICK i \in Instance : Gain!UndoPurchase(i)
  BY DEF UndoStep
<1> DEFINE gone == Gain!Unpaid(i)
<1>2. IsFiniteSet(gone) /\ gone \in SUBSET Gain!Row
  BY GainRows DEF Gain!Unpaid
<1>3. \A r \in gone : amount[r] \in Nat /\ earned[r] \in Nat /\ Gain!Frozen(r)
  BY DEF Gain!Unpaid, IncomeTyped, Gain!TypeOK
<1> HIDE DEF gone
<1>4. SumOver(amount, gone) \in Nat /\ SumOver(earned, gone) \in Nat
  BY <1>2, <1>3, SumType
<1>5. /\ rowState' = [r \in Gain!Row |-> IF r \in gone THEN "deleted" ELSE rowState[r]]
      /\ offset' = [r \in Gain!Row |-> IF r \in gone THEN offset[r] + amount[r] ELSE offset[r]]
      /\ amount' = [r \in Gain!Row |-> IF r \in gone THEN 0 ELSE amount[r]]
      /\ net' = [net EXCEPT ![HostedBy[i]] = @ - SumOver(amount, gone)]
      /\ paid' = [paid EXCEPT ![i] = @ - SumOver(earned, gone)]
      /\ paid[i] >= SumOver(earned, gone)
      /\ UNCHANGED <<earner, about, purchase, due, available, panel, job, ids, read, earned,
                     credited, asked, askedOf, withdrawn, left>>
  BY <1>1, GainSum DEF Gain!UndoPurchase, Gain!withdrawals, Gain!jobs, gone
<1> USE DEF IncomeTyped
<1>6. paid' \in [Instance -> Nat] /\ net' \in [Owner -> Int]
  <2>1. paid[i] \in Nat /\ \A o \in Owner : net[o] \in Int
    BY DEF Gain!TypeOK
  <2>2. paid[i] - SumOver(earned, gone) \in Nat
    BY <1>4, <1>5, <2>1
  <2>3. paid' \in [Instance -> Nat]
    BY <1>5, <2>2 DEF Gain!TypeOK
  <2>4. \A o \in Owner : net[o] - SumOver(amount, gone) \in Int
    BY <1>4, <2>1
  <2>5. net' \in [Owner -> Int]
    BY <1>5, <2>4
  <2> QED BY <2>3, <2>5
<1>7. Gain!TypeOK'
  BY <1>5, <1>6 DEF Gain!TypeOK, Gain!RowStates
<1>8. EarnersKnown' /\ WithdrawalsKnown'
  BY <1>5 DEF EarnersKnown, WithdrawalsKnown
<1>9. ReadsKnown'
  BY <1>5 DEF ReadsKnown, Gain!Frozen, Gain!TypeOK
<1> QED BY <1>6, <1>7, <1>8, <1>9

LEMMA BalanceTyped ==
    ASSUME Gain!HostIncomeConstants, IncomeTyped, BalanceStep PROVE IncomeTyped'
<1> USE DEF IncomeTyped, Gain!rows, Gain!jobs, Gain!rowHistory
<1>1. ASSUME NEW o \in Owner, NEW a \in Int, Gain!AdjustAvailable(o, a) PROVE IncomeTyped'
  <2>1. Gain!TypeOK' /\ net' \in [Owner -> Int]
    BY <1>1 DEF Gain!AdjustAvailable, Gain!TypeOK, Gain!withdrawals
  <2>2. EarnersKnown' /\ WithdrawalsKnown' /\ ReadsKnown'
    BY <1>1 DEF Gain!AdjustAvailable, EarnersKnown, WithdrawalsKnown, ReadsKnown, Gain!Frozen,
                Gain!withdrawals
  <2> QED BY <2>1, <2>2
<1>2. ASSUME NEW w \in Gain!Withdrawal, NEW o \in Owner, NEW a \in Gain!Amount,
             NEW outside \in BOOLEAN, Gain!Withdraw(w, o, a, outside)
      PROVE  IncomeTyped'
  <2>1. a \in Nat /\ a - Gain!Smaller(a, Fee) \in Nat
    BY DEF Gain!Amount, Gain!Smaller, Gain!HostIncomeConstants
  <2>2. Gain!TypeOK' /\ net' \in [Owner -> Int]
    BY <1>2, <2>1 DEF Gain!Withdraw, Gain!TypeOK
  <2>3. EarnersKnown' /\ WithdrawalsKnown' /\ ReadsKnown'
    BY <1>2 DEF Gain!Withdraw, EarnersKnown, WithdrawalsKnown, ReadsKnown, Gain!Frozen, Gain!TypeOK
  <2> QED BY <2>2, <2>3
<1>3. ASSUME NEW w \in Gain!Withdrawal, Gain!Approve(w) \/ Gain!Reject(w) PROVE IncomeTyped'
  <2>1. askedOf[w] \in Owner
    BY <1>3 DEF Gain!Approve, Gain!Reject, Gain!Rejectable, WithdrawalsKnown
  <2>2. Gain!TypeOK' /\ net' \in [Owner -> Int]
    <3>1. available[askedOf[w]] + asked[w] \in Int
      BY <2>1 DEF Gain!TypeOK
    <3>2. available' \in [Owner -> Int]
      BY <1>3, <2>1, <3>1 DEF Gain!Approve, Gain!Reject, Gain!TypeOK
    <3> QED BY <1>3, <3>2 DEF Gain!Approve, Gain!Reject, Gain!TypeOK
  <2>3. EarnersKnown' /\ WithdrawalsKnown' /\ ReadsKnown'
    BY <1>3 DEF Gain!Approve, Gain!Reject, Gain!Rejectable, EarnersKnown, WithdrawalsKnown,
                ReadsKnown, Gain!Frozen, Gain!TypeOK
  <2> QED BY <2>2, <2>3
<1> QED BY <1>1, <1>2, <1>3 DEF BalanceStep, Gain!Amount

LEMMA IncomeTypedStep ==
    ASSUME Gain!HostIncomeConstants, IncomeTyped, [Gain!Next]_(Gain!vars) PROVE IncomeTyped'
<1>1. CASE UNCHANGED Gain!vars
  <2> USE <1>1 DEF Gain!vars, Gain!rows, Gain!withdrawals, Gain!jobs, Gain!rowHistory
  <2>1. Gain!TypeOK' /\ net' \in [Owner -> Int]
    BY DEF IncomeTyped, Gain!TypeOK
  <2>2. EarnersKnown' /\ WithdrawalsKnown' /\ ReadsKnown'
    BY DEF IncomeTyped, EarnersKnown, WithdrawalsKnown, ReadsKnown, Gain!Frozen
  <2> QED BY <2>1, <2>2 DEF IncomeTyped
<1> QED BY <1>1, IncomeSteps, AddTyped, TakeTyped, ReleaseTyped, MarkTyped, UndoTyped, BalanceTyped

----------------------------------------------------------------------------

(* What each step does to a row.                                           *)
LEMMA OnceStep ==
    ASSUME Gain!HostIncomeConstants, ~ShrinkRead, IncomeTyped, Gain!IncomeIsOnce,
           [Gain!Next]_(Gain!vars)
    PROVE  Gain!IncomeIsOnce'
<1> SUFFICES ASSUME NEW r \in Gain!Row
             PROVE  earned'[r] = credited'[r] + offset'[r]
                                    + IF Gain!Frozen(r)' THEN amount'[r] ELSE 0
  BY DEF Gain!IncomeIsOnce
<1>1. /\ earned[r] \in Nat /\ credited[r] \in Nat /\ offset[r] \in Nat /\ amount[r] \in Nat
      /\ earned[r] = credited[r] + offset[r] + IF Gain!Frozen(r) THEN amount[r] ELSE 0
      /\ rowState[r] = "none" => earned[r] = 0
  BY DEF IncomeTyped, Gain!TypeOK, EarnersKnown, Gain!IncomeIsOnce
<1>2. CASE MarkStep \/ BalanceStep \/ UNCHANGED Gain!vars
  <2>1. UNCHANGED <<rowState, amount, earned, credited, offset>>
    BY <1>2 DEF MarkStep, BalanceStep, Gain!BecomesDue, Gain!AdjustAvailable, Gain!Withdraw,
                Gain!Approve, Gain!Reject, Gain!vars, Gain!rows, Gain!rowHistory
  <2> QED BY <1>1, <2>1 DEF Gain!Frozen
<1>3. CASE AddStep
  <2>1. PICK q \in Gain!Row, o \in Owner, i \in Instance \cup {Gain!NoOwner},
             bought \in BOOLEAN, a \in Gain!Amount : Gain!AddRow(q, o, i, bought, a)
    BY <1>3 DEF AddStep
  <2>5. /\ rowState[q] = "none"
        /\ rowState' = [rowState EXCEPT ![q] = "frozen"]
        /\ amount' = [amount EXCEPT ![q] = a]
        /\ earned' = [earned EXCEPT ![q] = a]
        /\ credited' = credited /\ offset' = offset
    BY <2>1 DEF Gain!AddRow
  <2>2. a \in Nat
    BY DEF Gain!Amount
  <2>3. CASE q = r
    <3>1. credited[r] = 0 /\ offset[r] = 0
      BY <1>1, <2>5, <2>3 DEF Gain!Frozen
    <3>2. earned'[r] = a /\ amount'[r] = a /\ rowState'[r] = "frozen"
      BY <2>5, <2>3 DEF IncomeTyped, Gain!TypeOK
    <3> QED BY <2>5, <2>2, <3>1, <3>2 DEF Gain!Frozen
  <2>4. CASE q # r
    <3>1. earned'[r] = earned[r] /\ amount'[r] = amount[r] /\ rowState'[r] = rowState[r]
      BY <2>5, <2>4 DEF IncomeTyped, Gain!TypeOK
    <3> QED BY <1>1, <2>5, <3>1 DEF Gain!Frozen
  <2> QED BY <2>3, <2>4
<1>4. CASE TakeStep
  <2>1. PICK o \in Owner, a \in Gain!Amount, S \in SUBSET Gain!Row,
             take \in [Gain!Row -> 0 .. MaxAmount] :
              /\ S \subseteq Gain!FrozenRows(o)
              /\ Gain!OldestFirst(take, S, a)
              /\ Gain!TakeFrom(take)
    BY <1>4, TakeIs
  <2>2. take[r] \in Nat /\ take[r] <= amount[r] /\ (r \notin S => take[r] = 0)
    BY <2>1, Taking
  <2>3. take[r] > 0 => Gain!Frozen(r)
    BY <2>1, <2>2 DEF Gain!FrozenRows
  <2>4. /\ rowState'[r] = IF take[r] > 0 /\ take[r] = amount[r] THEN "deleted" ELSE rowState[r]
        /\ amount'[r] = amount[r] - take[r] /\ offset'[r] = offset[r] + take[r]
        /\ earned'[r] = earned[r] /\ credited'[r] = credited[r]
    BY <2>1 DEF Gain!TakeFrom
  <2> QED BY <1>1, <2>2, <2>3, <2>4 DEF Gain!Frozen
<1>5. CASE UndoStep
  <2>1. PICK i \in Instance : Gain!UndoPurchase(i)
    BY <1>5 DEF UndoStep
  <2>2. /\ r \in Gain!Unpaid(i) => Gain!Frozen(r)
        /\ rowState'[r] = IF r \in Gain!Unpaid(i) THEN "deleted" ELSE rowState[r]
        /\ amount'[r] = IF r \in Gain!Unpaid(i) THEN 0 ELSE amount[r]
        /\ offset'[r] = IF r \in Gain!Unpaid(i) THEN offset[r] + amount[r] ELSE offset[r]
        /\ earned'[r] = earned[r] /\ credited'[r] = credited[r]
    BY <2>1 DEF Gain!UndoPurchase, Gain!Unpaid
  <2> QED BY <1>1, <2>2 DEF Gain!Frozen
<1>6. ASSUME NEW p \in Process, Gain!FindDue(p) \/ Gain!ReadDue(p) \/ Gain!GiveUp(p)
      PROVE  earned'[r] = credited'[r] + offset'[r]
                            + IF Gain!Frozen(r)' THEN amount'[r] ELSE 0
  <2>1. UNCHANGED <<rowState, amount, earned, credited, offset>>
    BY <1>6 DEF Gain!FindDue, Gain!ReadDue, Gain!GiveUp, Gain!rows, Gain!rowHistory
  <2> QED BY <1>1, <2>1 DEF Gain!Frozen
<1>7. ASSUME NEW p \in Process, Gain!Release(p)
      PROVE  earned'[r] = credited'[r] + offset'[r]
                            + IF Gain!Frozen(r)' THEN amount'[r] ELSE 0
  <2>1. /\ r \in ids[p] => Gain!Frozen(r) /\ read[p][r] = amount[r]
        /\ rowState'[r] = IF r \in ids[p] /\ Gain!Frozen(r) THEN "released" ELSE rowState[r]
        /\ credited'[r] = IF r \in ids[p] THEN credited[r] + read[p][r] ELSE credited[r]
        /\ amount' = amount /\ earned' = earned /\ offset' = offset
    BY <1>7 DEF Gain!Release, Gain!ReleaseRows, IncomeTyped, ReadsKnown
  <2> QED BY <1>1, <2>1 DEF Gain!Frozen
<1> QED BY <1>2, <1>3, <1>4, <1>5, <1>6, <1>7, IncomeSteps DEF ReleaseStep, Gain!Job

(* Whatever order jobs, deductions and failed creations come in, a row is  *)
(* released or deducted once, if it does not shrink after a job read it.   *)
THEOREM IncomeIsOnceAlways ==
    ASSUME Gain!HostIncomeConstants, ~ShrinkRead
    PROVE  Gain!Spec => []Gain!IncomeIsOnce
<1> DEFINE Inv == IncomeTyped /\ Gain!IncomeIsOnce
<1>1. Gain!Init => Inv
  BY IncomeTypedInit DEF Gain!Init, Gain!IncomeIsOnce, Gain!Frozen
<1>2. Inv /\ [Gain!Next]_(Gain!vars) => Inv'
  BY IncomeTypedStep, OnceStep
<1> QED BY <1>1, <1>2, PTL DEF Gain!Spec

(* The state of income keeps its types, even if a row shrinks.             *)
THEOREM IncomeTypeCorrect ==
    ASSUME Gain!HostIncomeConstants PROVE Gain!Spec => []Gain!TypeOK
<1>1. IncomeTyped => Gain!TypeOK
  BY DEF IncomeTyped
<1> QED BY <1>1, IncomeTypedInit, IncomeTypedStep, PTL DEF Gain!Spec

----------------------------------------------------------------------------

Waiting(o) ==
    {w \in Gain!Withdrawal : askedOf[w] = o /\ (left[w] \/ withdrawn[w] = "pending")}

Balanced ==
    \A o \in Owner :
        available[o] + SumOver(amount, Gain!FrozenRows(o)) + SumOver(asked, Waiting(o)) = net[o]

LEMMA BalancedIs == Balanced <=> Gain!OwnersGetTheirs
  BY GainSum DEF Balanced, Waiting, Gain!OwnersGetTheirs, Gain!Withdrawn

LEMMA BalanceInts ==
    ASSUME Gain!HostIncomeConstants, IncomeTyped, NEW o \in Owner
    PROVE  /\ IsFiniteSet(Gain!FrozenRows(o)) /\ Gain!FrozenRows(o) \in SUBSET Gain!Row
           /\ IsFiniteSet(Waiting(o)) /\ Waiting(o) \in SUBSET Gain!Withdrawal
           /\ \A r \in Gain!Row : amount[r] \in Nat
           /\ \A w \in Gain!Withdrawal : asked[w] \in Nat
           /\ SumOver(amount, Gain!FrozenRows(o)) \in Nat
           /\ SumOver(asked, Waiting(o)) \in Nat
           /\ available[o] \in Int /\ net[o] \in Int
<1>1. /\ IsFiniteSet(Gain!FrozenRows(o)) /\ Gain!FrozenRows(o) \in SUBSET Gain!Row
      /\ IsFiniteSet(Waiting(o)) /\ Waiting(o) \in SUBSET Gain!Withdrawal
  BY GainRows DEF Gain!FrozenRows, Waiting
<1>2. /\ \A r \in Gain!Row : amount[r] \in Nat
      /\ \A w \in Gain!Withdrawal : asked[w] \in Nat
      /\ available[o] \in Int /\ net[o] \in Int
  BY DEF IncomeTyped, Gain!TypeOK
<1> QED BY <1>1, <1>2, SumType

(* The balance of an owner, by what changes of it.                         *)
LEMMA BalancedIf ==
    ASSUME Gain!HostIncomeConstants, IncomeTyped, Balanced, NEW o \in Owner,
           NEW da \in Int, NEW df \in Int, NEW dw \in Int, NEW dn \in Int,
           available'[o] = available[o] + da,
           SumOver(amount', Gain!FrozenRows(o)') = SumOver(amount, Gain!FrozenRows(o)) + df,
           SumOver(asked', Waiting(o)') = SumOver(asked, Waiting(o)) + dw,
           net'[o] = net[o] + dn, da + df + dw = dn
    PROVE  available'[o] + SumOver(amount', Gain!FrozenRows(o)') + SumOver(asked', Waiting(o)')
                = net'[o]
<1>1. available[o] + SumOver(amount, Gain!FrozenRows(o)) + SumOver(asked, Waiting(o)) = net[o]
  BY DEF Balanced
<1>2. /\ SumOver(amount, Gain!FrozenRows(o)) \in Int /\ SumOver(asked, Waiting(o)) \in Int
      /\ available[o] \in Int /\ net[o] \in Int
  BY BalanceInts
<1>3. \A A, F, W \in Int :
        (A + da) + (F + df) + (W + dw) = (A + F + W) + dn
  OBVIOUS
<1>4. (available[o] + da) + (SumOver(amount, Gain!FrozenRows(o)) + df)
            + (SumOver(asked, Waiting(o)) + dw)
        = (available[o] + SumOver(amount, Gain!FrozenRows(o)) + SumOver(asked, Waiting(o))) + dn
  BY <1>2, <1>3
<1> QED BY <1>1, <1>4

LEMMA BalanceAdd ==
    ASSUME Gain!HostIncomeConstants, IncomeTyped, Balanced, AddStep PROVE Balanced'
<1>1. PICK r \in Gain!Row, o \in Owner, i \in Instance \cup {Gain!NoOwner}, bought \in BOOLEAN,
           a \in Gain!Amount : Gain!AddRow(r, o, i, bought, a)
  BY DEF AddStep
<1>2. a \in Int /\ a \in Nat
  BY DEF Gain!Amount
<1> SUFFICES ASSUME NEW v \in Owner
             PROVE  available'[v] + SumOver(amount', Gain!FrozenRows(v)')
                        + SumOver(asked', Waiting(v)') = net'[v]
  BY DEF Balanced
<1> DEFINE d == IF v = o THEN a ELSE 0
           F == Gain!FrozenRows(v)
<1>3. IsFiniteSet(F) /\ F \in SUBSET Gain!Row /\ \A q \in Gain!Row : amount[q] \in Nat
  BY BalanceInts
<1>4. /\ r \notin F /\ Gain!FrozenRows(v)' = IF v = o THEN F \cup {r} ELSE F
      /\ \A q \in F : amount'[q] = amount[q] /\ q # r
      /\ amount'[r] = a
  BY <1>1 DEF Gain!AddRow, Gain!FrozenRows, Gain!Frozen, IncomeTyped, Gain!TypeOK
<1>5. Waiting(v)' = Waiting(v) /\ asked' = asked /\ available' = available
      /\ net'[v] = net[v] + d
  BY <1>1, <1>2 DEF Gain!AddRow, Gain!withdrawals, Waiting, IncomeTyped, Gain!TypeOK
<1> HIDE DEF F
<1>6. SumOver(amount', F) = SumOver(amount, F)
  BY <1>3, <1>4, SumSame
<1>7. SumOver(amount, F) \in Int
  BY BalanceInts DEF F
<1>8. SumOver(amount', Gain!FrozenRows(v)') = SumOver(amount, F) + d
  <2>1. CASE v = o
    <3>1. \A q \in F \cup {r} : amount'[q] \in Int
      BY <1>2, <1>3, <1>4
    <3>2. SumOver(amount', F \cup {r}) = amount'[r] + SumOver(amount', F)
      BY <1>3, <1>4, <3>1, SumAdd
    <3> QED BY <1>2, <1>4, <1>6, <1>7, <2>1, <3>2
  <2>2. CASE v # o
    BY <1>4, <1>6, <1>7, <2>2
  <2> QED BY <2>1, <2>2
<1>9. /\ available'[v] = available[v] + 0
      /\ SumOver(asked', Waiting(v)') = SumOver(asked, Waiting(v)) + 0
      /\ net'[v] = net[v] + d /\ 0 + d + 0 = d /\ d \in Int
  BY <1>2, <1>5, BalanceInts
<1> HIDE DEF d
<1> QED BY <1>8, <1>9, BalancedIf DEF F

(* A balance that nothing changes.                                         *)
LEMMA BalanceSame ==
    ASSUME Gain!HostIncomeConstants, IncomeTyped, Balanced,
           UNCHANGED <<rowState, earner, amount, available, asked, askedOf, withdrawn, left,
                       net>>
    PROVE  Balanced'
  BY DEF Balanced, Gain!FrozenRows, Gain!Frozen, Waiting

LEMMA BalanceTake ==
    ASSUME Gain!HostIncomeConstants, IncomeTyped, Balanced, TakeStep PROVE Balanced'
<1>1. PICK o \in Owner, a \in Gain!Amount, S \in SUBSET Gain!Row,
           take \in [Gain!Row -> 0 .. MaxAmount], topUp \in Int :
            /\ S \subseteq Gain!FrozenRows(o)
            /\ Gain!OldestFirst(take, S, a)
            /\ Gain!TakeFrom(take)
            /\ available' = [available EXCEPT ![o] =
                                @ - ((a - SumOver(take, Gain!Row)) - topUp)]
            /\ net' = [net EXCEPT ![o] = @ - (a - topUp)]
            /\ panel' \in [Owner -> Nat] /\ paid' \in [Instance -> Nat]
            /\ UNCHANGED Gain!withdrawals
  BY TakeIs
<1>2. /\ \A r \in Gain!Row : take[r] \in Nat /\ take[r] <= amount[r]
      /\ \A r \in Gain!Row \ S : take[r] = 0
      /\ SumOver(take, Gain!Row) \in Int /\ a \in Int
  BY <1>1, Taking DEF Gain!Amount
<1> SUFFICES ASSUME NEW v \in Owner
             PROVE  available'[v] + SumOver(amount', Gain!FrozenRows(v)')
                        + SumOver(asked', Waiting(v)') = net'[v]
  BY DEF Balanced
<1> DEFINE F == Gain!FrozenRows(v)
           t == SumOver(take, Gain!Row)
<1>3. /\ IsFiniteSet(F) /\ F \in SUBSET Gain!Row /\ SumOver(amount, F) \in Int
      /\ \A q \in Gain!Row : amount[q] \in Nat
      /\ available[v] \in Int /\ net[v] \in Int /\ SumOver(asked, Waiting(v)) \in Int
  BY BalanceInts
<1>4. /\ \A r \in Gain!Row : amount'[r] = amount[r] - take[r]
      /\ \A r \in Gain!Row : rowState'[r] = IF take[r] > 0 /\ take[r] = amount[r]
                                            THEN "deleted" ELSE rowState[r]
      /\ earner' = earner
  BY <1>1 DEF Gain!TakeFrom
<1>5. Gain!FrozenRows(v)' = {r \in F : ~(take[r] > 0 /\ take[r] = amount[r])}
  BY <1>4 DEF Gain!FrozenRows, Gain!Frozen
<1>6. SumOver(amount', Gain!FrozenRows(v)') = SumOver(amount, F) - SumOver(take, F)
  <2> DEFINE U == Gain!FrozenRows(v)'
  <2>1. U \in SUBSET F /\ \A r \in F \ U : amount[r] = take[r]
    BY <1>5
  <2>2. \A r \in F : amount[r] \in Int /\ take[r] \in Int
    BY <1>2, <1>3
  <2>3. \A r \in U : amount'[r] = amount[r] - take[r]
    BY <1>3, <1>4, <2>1
  <2> HIDE DEF U, F
  <2>4. SumOver(amount', U) = SumOver(amount, F) - SumOver(take, F)
    BY <1>3, <2>1, <2>2, <2>3, SumLess
  <2> QED BY <2>4 DEF U
<1>7. SumOver(take, F) = IF v = o THEN t ELSE 0
  <2>1. CASE v = o
    <3>1. \A r \in Gain!Row \ F : take[r] = 0
      BY <1>1, <1>2, <2>1
    <3>2. \A r \in Gain!Row : take[r] \in Int
      BY <1>2
    <3>3. IsFiniteSet(Gain!Row)
      BY GainRows
    <3> HIDE DEF F
    <3> QED BY <1>3, <2>1, <3>1, <3>2, <3>3, SumWithin
  <2>2. CASE v # o
    <3>1. \A r \in F : take[r] = 0
      BY <1>1, <1>2, <2>2 DEF Gain!FrozenRows
    <3>2. SumOver(take, F) = SumOver(take, {})
      <4>1. \A r \in F : take[r] \in Int
        BY <3>1
      <4>2. \A r \in F \ {} : take[r] = 0
        BY <3>1
      <4> HIDE DEF F
      <4> QED BY <1>3, <4>1, <4>2, SumWithin
    <3> QED BY <2>2, <3>2, SumEmpty
  <2> QED BY <2>1, <2>2
<1>8. Waiting(v)' = Waiting(v) /\ asked' = asked
  BY <1>1 DEF Gain!withdrawals, Waiting
<1>9. CASE v = o
  <2> DEFINE da == -((a - t) - topUp)
             dn == -(a - topUp)
             df == -t
  <2>1. available'[v] = available[v] + da /\ net'[v] = net[v] + dn
    <3>1. available'[v] = available[v] - ((a - t) - topUp) /\ net'[v] = net[v] - (a - topUp)
      BY <1>1, <1>9 DEF IncomeTyped, Gain!TypeOK
    <3> HIDE DEF t
    <3>2. t \in Int
      BY <1>2 DEF t
    <3> QED BY <1>2, <1>3, <3>1, <3>2
  <2>2. SumOver(amount', Gain!FrozenRows(v)') = SumOver(amount, F) + df
    BY <1>2, <1>3, <1>6, <1>7, <1>9
  <2>3. SumOver(asked', Waiting(v)') = SumOver(asked, Waiting(v)) + 0
    BY <1>3, <1>8
  <2>4. da \in Int /\ df \in Int /\ dn \in Int /\ da + df + 0 = dn
    <3>1. t \in Int
      BY <1>2
    <3> HIDE DEF t
    <3> QED BY <1>2, <3>1
  <2> HIDE DEF da, df, dn
  <2>5. 0 \in Int
    OBVIOUS
  <2> QED BY <2>1, <2>2, <2>3, <2>4, <2>5, BalancedIf, Zenon
<1>10. CASE v # o
  <2>1. available'[v] = available[v] + 0 /\ net'[v] = net[v] + 0
    BY <1>1, <1>3, <1>10 DEF IncomeTyped, Gain!TypeOK
  <2>2. SumOver(amount', Gain!FrozenRows(v)') = SumOver(amount, F) + 0
    BY <1>3, <1>6, <1>7, <1>10
  <2>3. SumOver(asked', Waiting(v)') = SumOver(asked, Waiting(v)) + 0
    BY <1>3, <1>8
  <2> QED BY <2>1, <2>2, <2>3, BalancedIf
<1> QED BY <1>9, <1>10

(* Rows that leave the frozen ones, with the amounts they had.             *)
LEMMA FrozenLess ==
    ASSUME Gain!HostIncomeConstants, IncomeTyped, NEW v \in Owner,
           NEW K \in SUBSET Gain!FrozenRows(v),
           Gain!FrozenRows(v)' = Gain!FrozenRows(v) \ K,
           \A r \in Gain!FrozenRows(v) \ K : amount'[r] = amount[r]
    PROVE  /\ SumOver(amount, K) \in Nat
           /\ SumOver(amount', Gain!FrozenRows(v)')
                = SumOver(amount, Gain!FrozenRows(v)) + (-SumOver(amount, K))
<1> DEFINE F == Gain!FrozenRows(v)
<1>1. IsFiniteSet(F) /\ SumOver(amount, F) \in Nat
      /\ \A r \in F : amount[r] \in Nat /\ amount[r] \in Int
  BY BalanceInts
<1>2. IsFiniteSet(K) /\ IsFiniteSet(F \ K) /\ K \in SUBSET F
  BY <1>1, FS_Subset
<1>3. SumOver(amount, K) \in Nat
  <2>1. \A r \in K : amount[r] \in Nat
    BY <1>1
  <2> QED BY <1>2, <2>1, SumType
<1>4. SumOver(amount', F \ K) = SumOver(amount, F \ K)
  <2>1. \A r \in F \ K : amount'[r] = amount[r]
    OBVIOUS
  <2> HIDE DEF F
  <2> QED BY <1>2, <2>1, SumSame
<1>5. SumOver(amount, F \ K) = SumOver(amount, F) - SumOver(amount, K)
  <2> HIDE DEF F
  <2> QED BY <1>1, <1>2, SumWithout
<1>6. SumOver(amount, F) - SumOver(amount, K) = SumOver(amount, F) + (-SumOver(amount, K))
  BY <1>1, <1>3
<1> QED BY <1>3, <1>4, <1>5, <1>6

LEMMA BalanceUndo ==
    ASSUME Gain!HostIncomeConstants, IncomeTyped, Balanced, UndoStep PROVE Balanced'
<1>1. PICK i \in Instance : Gain!UndoPurchase(i)
  BY DEF UndoStep
<1> SUFFICES ASSUME NEW v \in Owner
             PROVE  available'[v] + SumOver(amount', Gain!FrozenRows(v)')
                        + SumOver(asked', Waiting(v)') = net'[v]
  BY DEF Balanced
<1> DEFINE gone == Gain!Unpaid(i)
           K == IF v = HostedBy[i] THEN gone ELSE {}
<1>2. /\ rowState' = [r \in Gain!Row |-> IF r \in gone THEN "deleted" ELSE rowState[r]]
      /\ amount' = [r \in Gain!Row |-> IF r \in gone THEN 0 ELSE amount[r]]
      /\ net' = [net EXCEPT ![HostedBy[i]] = @ - SumOver(amount, gone)]
      /\ UNCHANGED <<earner, available, asked, askedOf, withdrawn, left>>
  BY <1>1, GainSum DEF Gain!UndoPurchase, Gain!withdrawals
<1>3. gone \subseteq Gain!FrozenRows(HostedBy[i])
  BY DEF Gain!Unpaid, Gain!FrozenRows, IncomeTyped, EarnersKnown
<1>4. v # HostedBy[i] => gone \cap Gain!FrozenRows(v) = {}
  BY <1>3 DEF Gain!FrozenRows
<1>5. /\ K \in SUBSET Gain!FrozenRows(v)
      /\ Gain!FrozenRows(v)' = Gain!FrozenRows(v) \ K
      /\ \A r \in Gain!FrozenRows(v) \ K : amount'[r] = amount[r]
  <2>1. K \in SUBSET Gain!FrozenRows(v)
    BY <1>3
  <2>2. \A r \in Gain!FrozenRows(v) : r \in gone <=> r \in K
    BY <1>3, <1>4
  <2> HIDE DEF K, gone
  <2>3. \A r \in Gain!Row : r \in Gain!FrozenRows(v)'
                                <=> r \notin gone /\ r \in Gain!FrozenRows(v)
    BY <1>2 DEF Gain!FrozenRows, Gain!Frozen
  <2>4. Gain!FrozenRows(v) \subseteq Gain!Row /\ Gain!FrozenRows(v)' \subseteq Gain!Row
    BY DEF Gain!FrozenRows
  <2>5. Gain!FrozenRows(v)' = Gain!FrozenRows(v) \ K
    BY <2>2, <2>3, <2>4
  <2>6. \A r \in Gain!FrozenRows(v) \ K : amount'[r] = amount[r]
    BY <1>2, <2>2, <2>4
  <2> QED BY <2>1, <2>5, <2>6
<1> HIDE DEF K, gone
<1>6. /\ SumOver(amount, K) \in Nat
      /\ SumOver(amount', Gain!FrozenRows(v)')
           = SumOver(amount, Gain!FrozenRows(v)) + (-SumOver(amount, K))
  BY <1>5, FrozenLess
<1>7. net'[v] = net[v] + (-SumOver(amount, K))
  <2>1. CASE v = HostedBy[i]
    BY <1>2, <1>6, <2>1 DEF K, IncomeTyped
  <2>2. CASE v # HostedBy[i]
    <3>1. SumOver(amount, K) = 0
      BY <2>2, SumEmpty DEF K
    <3> QED BY <1>2, <2>2, <3>1 DEF IncomeTyped
  <2> QED BY <2>1, <2>2
<1>8. available'[v] = available[v] + 0
      /\ SumOver(asked', Waiting(v)') = SumOver(asked, Waiting(v)) + 0
  <2>1. Waiting(v)' = Waiting(v) /\ asked' = asked /\ available' = available
    BY <1>2 DEF Waiting
  <2>2. available[v] \in Int /\ SumOver(asked, Waiting(v)) \in Int
    BY BalanceInts
  <2> QED BY <2>1, <2>2
<1>9. -SumOver(amount, K) \in Int /\ 0 \in Int
      /\ 0 + (-SumOver(amount, K)) + 0 = -SumOver(amount, K)
  BY <1>6
<1> QED BY <1>6, <1>7, <1>8, <1>9, BalancedIf, Zenon

LEMMA BalanceReleased ==
    ASSUME Gain!HostIncomeConstants, ~ShrinkRead, IncomeTyped, Balanced,
           NEW p \in Process, Gain!Release(p)
    PROVE  Balanced'
<1> SUFFICES ASSUME NEW v \in Owner
             PROVE  available'[v] + SumOver(amount', Gain!FrozenRows(v)')
                        + SumOver(asked', Waiting(v)') = net'[v]
  BY DEF Balanced
<1> DEFINE K == {r \in ids[p] : earner[r] = v}
<1>1. /\ \A r \in ids[p] : r \in Gain!Row /\ Gain!Frozen(r) /\ read[p][r] = amount[r]
      /\ rowState' = [r \in Gain!Row |->
                        IF r \in ids[p] /\ Gain!Frozen(r) THEN "released" ELSE rowState[r]]
      /\ available'[v] = available[v] + Gain!ReadBy(p, v)
      /\ UNCHANGED <<earner, amount, net, asked, askedOf, withdrawn, left>>
  BY DEF Gain!Release, Gain!ReleaseRows, IncomeTyped, ReadsKnown, Gain!TypeOK,
         Gain!withdrawals
<1>2. K \in SUBSET Gain!FrozenRows(v)
  BY <1>1 DEF Gain!FrozenRows
<1>3. Gain!FrozenRows(v)' = Gain!FrozenRows(v) \ K
  BY <1>1 DEF Gain!FrozenRows, Gain!Frozen
<1>4. /\ SumOver(amount, K) \in Nat
      /\ SumOver(amount', Gain!FrozenRows(v)')
           = SumOver(amount, Gain!FrozenRows(v)) + (-SumOver(amount, K))
  <2> HIDE DEF K
  <2> QED BY <1>1, <1>2, <1>3, FrozenLess
<1>5. Gain!ReadBy(p, v) = SumOver(amount, K)
  <2>1. IsFiniteSet(K) /\ \A r \in K : read[p][r] = amount[r]
    BY <1>1, <1>2, GainRows DEF Gain!FrozenRows
  <2>2. Gain!ReadBy(p, v) = SumOver(read[p], K)
    BY GainSum DEF Gain!ReadBy
  <2> HIDE DEF K
  <2> QED BY <2>1, <2>2, SumSame
<1> HIDE DEF K
<1>6. available'[v] = available[v] + SumOver(amount, K)
  BY <1>1, <1>5
<1>7. /\ SumOver(asked', Waiting(v)') = SumOver(asked, Waiting(v)) + 0
      /\ net'[v] = net[v] + 0
  <2>1. Waiting(v)' = Waiting(v) /\ asked' = asked /\ net' = net
    BY <1>1 DEF Waiting
  <2>2. net[v] \in Int /\ SumOver(asked, Waiting(v)) \in Int
    BY BalanceInts
  <2> QED BY <2>1, <2>2
<1>8. /\ SumOver(amount, K) \in Int /\ -SumOver(amount, K) \in Int /\ 0 \in Int
      /\ SumOver(amount, K) + (-SumOver(amount, K)) + 0 = 0
  BY <1>4
<1> QED BY <1>4, <1>6, <1>7, <1>8, BalancedIf, Zenon

LEMMA BalanceMoves ==
    ASSUME Gain!HostIncomeConstants, IncomeTyped, Balanced, BalanceStep PROVE Balanced'
<1> SUFFICES ASSUME NEW v \in Owner
             PROVE  available'[v] + SumOver(amount', Gain!FrozenRows(v)')
                        + SumOver(asked', Waiting(v)') = net'[v]
  BY DEF Balanced
<1>1. Gain!FrozenRows(v)' = Gain!FrozenRows(v) /\ amount' = amount
  BY DEF BalanceStep, Gain!AdjustAvailable, Gain!Withdraw, Gain!Approve, Gain!Reject,
         Gain!rows, Gain!FrozenRows, Gain!Frozen
<1>2. SumOver(amount', Gain!FrozenRows(v)') = SumOver(amount, Gain!FrozenRows(v)) + 0
  BY <1>1, BalanceInts
<1>3. available[v] \in Int /\ net[v] \in Int /\ SumOver(asked, Waiting(v)) \in Int
      /\ IsFiniteSet(Waiting(v)) /\ \A w \in Gain!Withdrawal : asked[w] \in Nat
  BY BalanceInts
<1>4. ASSUME NEW o \in Owner, NEW a \in Int, Gain!AdjustAvailable(o, a)
      PROVE  available'[v] + SumOver(amount', Gain!FrozenRows(v)')
                + SumOver(asked', Waiting(v)') = net'[v]
  <2> DEFINE d == IF v = o THEN a ELSE 0
  <2>1. available'[v] = available[v] + d /\ net'[v] = net[v] + d
    BY <1>3, <1>4 DEF Gain!AdjustAvailable, IncomeTyped, Gain!TypeOK
  <2>2. SumOver(asked', Waiting(v)') = SumOver(asked, Waiting(v)) + 0
    BY <1>3, <1>4 DEF Gain!AdjustAvailable, Gain!withdrawals, Waiting
  <2>3. d \in Int /\ 0 \in Int /\ d + 0 + 0 = d
    OBVIOUS
  <2> HIDE DEF d
  <2> QED BY <1>2, <2>1, <2>2, <2>3, BalancedIf, Zenon
<1>5. ASSUME NEW w \in Gain!Withdrawal, NEW o \in Owner, NEW a \in Gain!Amount,
             NEW outside \in BOOLEAN, Gain!Withdraw(w, o, a, outside)
      PROVE  available'[v] + SumOver(amount', Gain!FrozenRows(v)')
                + SumOver(asked', Waiting(v)') = net'[v]
  <2> DEFINE d == IF v = o THEN a ELSE 0
             W == Waiting(v)
  <2>1. a \in Int /\ a \in Nat
    BY DEF Gain!Amount
  <2>2. available'[v] = available[v] + (-d) /\ net'[v] = net[v] + 0
    BY <1>3, <1>5, <2>1 DEF Gain!Withdraw, IncomeTyped, Gain!TypeOK
  <2>3. /\ w \notin W /\ Waiting(v)' = IF v = o THEN W \cup {w} ELSE W
        /\ \A x \in W : asked'[x] = asked[x]
        /\ asked'[w] = a
    BY <1>5 DEF Gain!Withdraw, Waiting, IncomeTyped, WithdrawalsKnown, Gain!TypeOK
  <2>4. W \subseteq Gain!Withdrawal
    BY DEF Waiting
  <2> HIDE DEF W
  <2>5. SumOver(asked', W) = SumOver(asked, W)
    BY <1>3, <2>3, SumSame DEF W
  <2>6. SumOver(asked', Waiting(v)') = SumOver(asked, W) + d
    <3>1. CASE v = o
      <4>1. \A x \in W \cup {w} : asked'[x] \in Int
        BY <1>3, <2>1, <2>3, <2>4
      <4>2. SumOver(asked', W \cup {w}) = asked'[w] + SumOver(asked', W)
        BY <1>3, <2>3, <4>1, SumAdd DEF W
      <4> QED BY <1>3, <2>1, <2>3, <2>5, <3>1, <4>2 DEF W
    <3>2. CASE v # o
      BY <1>3, <2>3, <2>5, <3>2 DEF W
    <3> QED BY <3>1, <3>2
  <2>7. d \in Int /\ -d \in Int /\ 0 \in Int /\ -d + 0 + d = 0
    BY <2>1
  <2> HIDE DEF d
  <2> QED BY <1>2, <2>2, <2>6, <2>7, BalancedIf, Zenon DEF W
<1>6. ASSUME NEW w \in Gain!Withdrawal, Gain!Approve(w)
      PROVE  available'[v] + SumOver(amount', Gain!FrozenRows(v)')
                + SumOver(asked', Waiting(v)') = net'[v]
  <2>1. Waiting(v)' = Waiting(v) /\ asked' = asked /\ available' = available /\ net' = net
    BY <1>6 DEF Gain!Approve, Waiting, IncomeTyped, Gain!TypeOK
  <2>2. /\ available'[v] = available[v] + 0 /\ net'[v] = net[v] + 0
        /\ SumOver(asked', Waiting(v)') = SumOver(asked, Waiting(v)) + 0
        /\ 0 \in Int /\ 0 + 0 + 0 = 0
    BY <1>3, <2>1
  <2> QED BY <1>2, <2>2, BalancedIf, Zenon
<1>7. ASSUME NEW w \in Gain!Withdrawal, Gain!Reject(w)
      PROVE  available'[v] + SumOver(amount', Gain!FrozenRows(v)')
                + SumOver(asked', Waiting(v)') = net'[v]
  <2> DEFINE d == IF v = askedOf[w] THEN asked[w] ELSE 0
             W == Waiting(v)
  <2>1. asked[w] \in Int
    BY <1>3
  <2>2. available'[v] = available[v] + d /\ net'[v] = net[v] + 0
    BY <1>3, <1>7, <2>1 DEF Gain!Reject, IncomeTyped, Gain!TypeOK
  <2>3. /\ v = askedOf[w] => w \in W
        /\ Waiting(v)' = (IF v = askedOf[w] THEN W \ {w} ELSE W) /\ asked' = asked
    BY <1>7 DEF Gain!Reject, Gain!Rejectable, Waiting, IncomeTyped, WithdrawalsKnown,
                Gain!TypeOK
  <2>4. \A x \in W : asked[x] \in Int
    BY <1>3 DEF Waiting
  <2>5. IsFiniteSet(W) /\ SumOver(asked, W) \in Int
    BY <1>3
  <2> HIDE DEF W
  <2>6. SumOver(asked', Waiting(v)') = SumOver(asked, W) + (-d)
    <3>1. CASE v = askedOf[w]
      <4>1. SumOver(asked, W) = asked[w] + SumOver(asked, W \ {w})
        BY <2>3, <2>4, <2>5, <3>1, SumRemove
      <4>2. SumOver(asked, W \ {w}) \in Int
        <5>1. IsFiniteSet(W \ {w}) /\ \A x \in W \ {w} : asked[x] \in Int
          BY <2>4, <2>5, FS_Subset
        <5> QED BY <5>1, SumType
      <4> QED BY <2>1, <2>3, <3>1, <4>1, <4>2
    <3>2. CASE v # askedOf[w]
      BY <2>3, <2>5, <3>2
    <3> QED BY <3>1, <3>2
  <2>7. d \in Int /\ -d \in Int /\ 0 \in Int /\ d + 0 + (-d) = 0
    BY <2>1
  <2> HIDE DEF d
  <2> QED BY <1>2, <2>2, <2>6, <2>7, BalancedIf, Zenon DEF W
<1> QED BY <1>4, <1>5, <1>6, <1>7 DEF BalanceStep, Gain!Amount

LEMMA BalancedStep ==
    ASSUME Gain!HostIncomeConstants, ~ShrinkRead, IncomeTyped, Balanced,
           [Gain!Next]_(Gain!vars)
    PROVE  Balanced'
<1>1. CASE MarkStep \/ UNCHANGED Gain!vars
  <2>1. UNCHANGED <<rowState, earner, amount, available, asked, askedOf, withdrawn, left, net>>
    BY <1>1 DEF MarkStep, Gain!BecomesDue, Gain!vars, Gain!rows, Gain!withdrawals
  <2> QED BY <2>1, BalanceSame
<1>2. ASSUME NEW p \in Process, Gain!FindDue(p) \/ Gain!ReadDue(p) \/ Gain!GiveUp(p)
      PROVE  Balanced'
  <2>1. UNCHANGED <<rowState, earner, amount, available, asked, askedOf, withdrawn, left, net>>
    BY <1>2 DEF Gain!FindDue, Gain!ReadDue, Gain!GiveUp, Gain!rows, Gain!withdrawals
  <2> QED BY <2>1, BalanceSame
<1> QED BY <1>1, <1>2, IncomeSteps, BalanceAdd, BalanceTake, BalanceUndo, BalanceReleased,
           BalanceMoves DEF ReleaseStep, Gain!Job

(* What an owner has, has frozen and has withdrawn is what he has a right  *)
(* to, for any number of rows, withdrawals and jobs.                       *)
THEOREM OwnersGetTheirsAlways ==
    ASSUME Gain!HostIncomeConstants, ~ShrinkRead
    PROVE  Gain!Spec => []Gain!OwnersGetTheirs
<1> DEFINE Inv == IncomeTyped /\ Balanced
<1>1. Gain!Init => Inv
  <2> SUFFICES ASSUME Gain!Init, NEW o \in Owner
               PROVE  available[o] + SumOver(amount, Gain!FrozenRows(o))
                        + SumOver(asked, Waiting(o)) = net[o]
    BY IncomeTypedInit DEF Balanced
  <2>1. Gain!FrozenRows(o) = {} /\ Waiting(o) = {} /\ available[o] = 0 /\ net[o] = 0
    BY DEF Gain!Init, Gain!FrozenRows, Gain!Frozen, Waiting
  <2> QED BY <2>1, SumEmpty
<1>2. Inv /\ [Gain!Next]_(Gain!vars) => Inv'
  BY IncomeTypedStep, BalancedStep
<1>3. Inv => Gain!OwnersGetTheirs
  BY BalancedIs
<1> QED BY <1>1, <1>2, <1>3, PTL DEF Gain!Spec

=============================================================================
