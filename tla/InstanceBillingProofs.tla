----------------------- MODULE InstanceBillingProofs -----------------------
(***************************************************************************)
(* Safety of InstanceBilling for every value of its constants, every set   *)
(* of operations and every interleaving of theirs.                         *)
(*                                                                         *)
(* The argument: until somebody writes over a deleted row, a row that may  *)
(* still be given back is claimed by one handler; a row nobody can give    *)
(* back is dead and stays so, and every deletion of the machine and every  *)
(* payment of a deletion leaves the row dead.  A refund by an              *)
(* administrator is the only payment beside it, and it marks the quotes it *)
(* overtakes.                                                              *)
(***************************************************************************)
EXTENDS InstanceBilling, TLAPS

(* What handlers have seen.                                                *)
Deleting == {"destroyClaim", "destroyMachine", "settle", "adminClaim", "adminRefund",
             "adminMachine"}
Expiring == {"expiryClaim", "expiryMachine", "expiryRestore"}
SeenRow ==
    \A h \in Handler :
        /\ pc[h] # "idle" => seen[h].status # "none"
        /\ pc[h] \in Deleting => seen[h].status # "deleted"
        /\ pc[h] \in Expiring => seen[h].status = "suspended"

(* Nobody can give the row back.                                           *)
Restoring == {"destroyMachine", "ownerMachine", "expiryMachine", "restore",
              "expiryRestore", "adminRefund"}
Dead == status = "deleted" /\ \A h \in Handler : pc[h] \notin Restoring

GoneIsDead == trespassed \/ (gone => Dead)

(* A renewal that will find its version has read the expiry it extends.    *)
FreshExpiry ==
    \A h \in Handler : pc[h] \in {"renew", "autoRenew"} =>
        /\ seen[h].version <= version
        /\ seen[h].version = version => h \in behind \/ seen[h].expiresAt = expiresAt

(* What a handler may still pay is not paid yet, or it overlooks a payment.*)
Paid == refunded + granted
Owed(h) == h \in outrun \/ Paid + quote[h] <= spent
QuotesOwed ==
    /\ Paid <= spent
    /\ \A h \in Handler :
         /\ pc[h] \in {"destroyMachine", "settle", "adminRefund", "ownerRefund"} => Owed(h)
         /\ pc[h] \in {"destroyClaim", "adminClaim"} => Dead \/ Owed(h)
         /\ pc[h] = "refund" => recorded # Paid \/ Owed(h)

(* Payments and their records differ once: when the owner of the host      *)
(* deleted the instance, and then no deletion pays any more.               *)
Paying == {"settle", "adminRefund", "ownerQuote", "ownerRefund"}
LastPayment ==
    recorded # Paid => Dead /\ \A h \in Handler : pc[h] \notin Paying

Bounded == crossed \/ trespassed \/ (QuotesOwed /\ LastPayment)

(* An expired row is suspended or being deleted, and was over before it    *)
(* was suspended, unless an extension stranded it; whoever may give it     *)
(* back, renew it or write all of it back knows.                           *)
OverdueRow ==
    reason = "expired" =>
        /\ status \in {"suspended", "deleted"}
        /\ stranded \/ expiresAt < since
OverdueKnown ==
    \A h \in Handler :
        /\ reason = "expired" /\ pc[h] \in Restoring
             => seen[h].status \in {"suspended", "deleted"}
        /\ reason = "expired" /\ pc[h] \in {"renew", "autoRenew"}
             => seen[h].version # version \/ SawExpired(h)
        /\ pc[h] \in {"renew", "autoRenew"} => seen[h].version <= version
        /\ pc[h] = "gift" /\ seen[h].reason = "expired" => seen[h].status = "suspended"
Overdue == trespassed \/ (OverdueRow /\ OverdueKnown)

(* A round of the job began in the window before the expiry it has read.   *)
RoundInWindow ==
    \A h \in Handler : pc[h] = "autoRenew" =>
        seen[h].at <= clock /\ seen[h].expiresAt <= seen[h].at + Window

IInv ==
    /\ TypeOK
    /\ SeenRow
    /\ OneClaim
    /\ FreshExpiry
    /\ Bounded
    /\ Overdue
    /\ RoundInWindow

----------------------------------------------------------------------------
(* Lemmas: each conjunct is preserved by every step                        *)

LEMMA TypeStep ==
    ASSUME TypeOK, SeenRow, [Next]_vars
    PROVE  TypeOK'
<1> USE BillingConstants DEF TypeOK, Statuses, Reasons, Row, Steps, Claims, Nothing,
        SeenRow
<1>1. ASSUME NEW h \in Handler, Renewals(h) PROVE TypeOK'
  <2>1. ASSUME BeginRenew(h) PROVE TypeOK'
    BY <2>1 DEF BeginRenew, Begin, Copy, Timed, At, row, cause, suspension, renewal,
        money, marks, handlers, past
  <2>2. ASSUME BeginAutoRenew(h) PROVE TypeOK'
    BY <2>2 DEF BeginAutoRenew, Begin, Copy, Timed, At, row, cause, suspension,
        renewal, money, marks, handlers, past
  <2>3. ASSUME Renew(h) PROVE TypeOK'
    <3>1. stranded' \in BOOLEAN
      BY <2>3, Zenon DEF Renew, Lift, cause, row, suspension
    <3> QED BY <3>1, <2>3
          DEF Renew, Charge, Unchanged, Extended, Later, Since, SawExpired, Lift, Return, Leave, At,
              row, cause, suspension, renewal, money, marks, handlers, past
  <2>4. ASSUME RenewFails(h) PROVE TypeOK'
    BY <2>4 DEF RenewFails, Return, Leave, At, row, cause, suspension, renewal,
        money, marks, handlers, past
  <2>5. ASSUME AutoRenewFails(h) PROVE TypeOK'
    <3>1. attempts' \in Nat
      BY <2>5 DEF AutoRenewFails, renewal
    <3>2. autoRenew' \in BOOLEAN
      BY <2>5, Zenon DEF AutoRenewFails, renewal
    <3> QED BY <3>1, <3>2, <2>5
          DEF AutoRenewFails, Return, Leave, At, row, cause, suspension, money, marks, past
  <2> QED BY <1>1, <2>1, <2>2, <2>3, <2>4, <2>5 DEF Renewals
<1>2. ASSUME NEW h \in Handler, Starts(h) PROVE TypeOK'
  <2>1. ASSUME BeginExpiryDelete(h) PROVE TypeOK'
    BY <2>1 DEF BeginExpiryDelete, Begin, Copy, Timed, At, Expired, row, cause,
        suspension, renewal, money, marks, handlers, past
  <2>2. ASSUME BeginDestroy(h) PROVE TypeOK'
    BY <2>2 DEF BeginDestroy, Begin, Copy, Timed, At, Quotes, MaxRefundable, row,
        cause, suspension, renewal, money, marks, handlers, past
  <2>3. ASSUME BeginOwnerDelete(h) PROVE TypeOK'
    BY <2>3 DEF BeginOwnerDelete, Begin, Copy, Timed, At, row, cause, suspension,
        renewal, money, marks, handlers, past
  <2>4. ASSUME BeginAdminDelete(h) PROVE TypeOK'
    BY <2>4 DEF BeginAdminDelete, Begin, Copy, Timed, At, Quotes, MaxRefundable,
        row, cause, suspension, renewal, money, marks, handlers, past
  <2>5. ASSUME BeginExtend(h) PROVE TypeOK'
    BY <2>5 DEF BeginExtend, Begin, Copy, Timed, At, row, cause, suspension,
        renewal, money, marks, handlers, past
  <2>6. ASSUME BeginSuspend(h) PROVE TypeOK'
    BY <2>6 DEF BeginSuspend, Begin, Copy, Timed, At, row, cause, suspension,
        renewal, money, marks, handlers, past
  <2>7. ASSUME BeginUnsuspend(h) PROVE TypeOK'
    BY <2>7 DEF BeginUnsuspend, Begin, Copy, Timed, At, row, cause, suspension,
        renewal, money, marks, handlers, past
  <2>8. ASSUME BeginRefund(h) PROVE TypeOK'
    BY <2>8 DEF BeginRefund, Begin, Copy, Timed, At, MaxRefundable, row, cause,
        suspension, renewal, money, marks, handlers, past
  <2> QED BY <1>2, <2>1, <2>2, <2>3, <2>4, <2>5, <2>6, <2>7, <2>8 DEF Starts
<1>3. ASSUME NEW h \in Handler, ClaimSteps(h) PROVE TypeOK'
  <2>1. ASSUME ExpiryClaim(h) PROVE TypeOK'
    BY <2>1 DEF ExpiryClaim, Goto, Expired, At, row, cause, suspension, renewal,
        money, marks, handlers, past
  <2>2. ASSUME Claim(h) PROVE TypeOK'
    BY <2>2 DEF Claim, Take, Claims, Claimed, Goto, At, row, cause, suspension,
        renewal, money, marks, handlers, past
  <2>3. ASSUME ClaimRefused(h) PROVE TypeOK'
    BY <2>3 DEF ClaimRefused, Claims, Return, Leave, At, row, cause, suspension,
        renewal, money, marks, handlers, past
  <2>4. ASSUME Restore(h) PROVE TypeOK'
    BY <2>4 DEF Restore, Return, Leave, At, row, cause, suspension, renewal, money,
        marks, handlers, past
  <2>5. ASSUME ExpiryRestore(h) PROVE TypeOK'
    BY <2>5 DEF ExpiryRestore, Return, Leave, At, row, cause, suspension, renewal,
        money, marks, handlers, past
  <2> QED BY <1>3, <2>1, <2>2, <2>3, <2>4, <2>5 DEF ClaimSteps
<1>4. ASSUME NEW h \in Handler, MachineSteps(h) PROVE TypeOK'
  <2>1. ASSUME MachineDeleted(h) PROVE TypeOK'
    BY <2>1 DEF MachineDeleted, Machines, Goto, Return, Leave, At, row, cause,
        suspension, renewal, money, marks, handlers, past
  <2>2. ASSUME MachineFails(h) PROVE TypeOK'
    BY <2>2 DEF MachineFails, Machines, Goto, At, row, cause, suspension, renewal,
        money, marks, handlers, past
  <2>3. ASSUME AdminMachine(h) PROVE TypeOK'
    BY <2>3 DEF AdminMachine, Return, Leave, At, row, cause, suspension, renewal,
        money, marks, handlers, past
  <2> QED BY <1>4, <2>1, <2>2, <2>3 DEF MachineSteps
<1>5. ASSUME NEW h \in Handler, Payments(h) PROVE TypeOK'
  <2>1. ASSUME Settle(h) PROVE TypeOK'
    BY <2>1 DEF Settle, PayBack, Overlooks, Leave, At, row, cause, suspension,
        renewal, money, marks, handlers, past
  <2>2. ASSUME SettleFails(h) PROVE TypeOK'
    BY <2>2 DEF SettleFails, Return, Leave, At, row, cause, suspension, renewal,
        money, marks, handlers, past
  <2>3. ASSUME OwnerQuote(h) PROVE TypeOK'
    BY <2>3 DEF OwnerQuote, Quotes, MaxRefundable, At, row, cause, suspension,
        renewal, money, marks, handlers, past
  <2>4. ASSUME OwnerRefund(h) PROVE TypeOK'
    BY <2>4 DEF OwnerRefund, PayBack, Overlooks, Leave, At, row, cause, suspension,
        renewal, money, marks, handlers, past
  <2>5. ASSUME AdminRefund(h) PROVE TypeOK'
    BY <2>5 DEF AdminRefund, PayBack, Overlooks, At, row, cause, suspension,
        renewal, money, marks, handlers, past
  <2>6. ASSUME AdminRefundFails(h) PROVE TypeOK'
    BY <2>6 DEF AdminRefundFails, Goto, At, row, cause, suspension, renewal, money,
        marks, handlers, past
  <2>7. ASSUME Refund(h) PROVE TypeOK'
    BY <2>7 DEF Refund, Overlooks, Quoting, Leave, At, row, cause, suspension,
        renewal, money, marks, handlers, past
  <2> QED BY <1>5, <2>1, <2>2, <2>3, <2>4, <2>5, <2>6, <2>7 DEF Payments
<1>6. ASSUME NEW h \in Handler, AdminWrites(h) PROVE TypeOK'
  <2>1. ASSUME Extend(h) PROVE TypeOK'
    <3>1. stranded' \in BOOLEAN
      BY <2>1, Zenon DEF Extend, LiftExpiry, Lift
    <3> QED BY <3>1, <2>1
          DEF Extend, Charge, Extended, Later, Since, LiftExpiry, Lift, SawExpired,
              Overtakes, Written, Leave, At,
              row, cause, suspension, renewal, money, marks, handlers, past
  <2>2. ASSUME FreeExtend(h) PROVE TypeOK'
    <3>1. stranded' \in BOOLEAN
      BY <2>2, Zenon DEF FreeExtend, LiftExpiry, Lift
    <3> QED BY <3>1, <2>2
          DEF FreeExtend, Extended, Later, Since, LiftExpiry, Lift, SawExpired,
              Overtakes, Written, Leave, At,
              row, cause, suspension, renewal, money, marks, handlers, past
  <2>3. ASSUME Gift(h) PROVE TypeOK'
    <3>1. stranded' \in BOOLEAN
      BY <2>3, Zenon DEF Gift, LiftExpiry, Lift
    <3> QED BY <3>1, <2>3
          DEF Gift, Extended, Later, Since, Lift, SawExpired, Overtakes, Written, Leave, At,
              row, cause, suspension, renewal, money, marks, handlers, past
  <2>4. ASSUME ExtendAll(h) PROVE TypeOK'
    BY <2>4 DEF ExtendAll, Overtakes, Written, Leave, At, row, cause, suspension,
        renewal, money, marks, handlers, past
  <2>5. ASSUME Suspend(h) PROVE TypeOK'
    BY <2>5 DEF Suspend, Written, Return, Leave, At, row, cause, suspension,
        renewal, money, marks, handlers, past
  <2>6. ASSUME Unsuspend(h) PROVE TypeOK'
    BY <2>6 DEF Unsuspend, Lift, Written, Return, Leave, At, row, cause, suspension,
        renewal, money, marks, handlers, past
  <2> QED BY <1>6, <2>1, <2>2, <2>3, <2>4, <2>5, <2>6 DEF AdminWrites
<1>7. ASSUME NEW h \in Handler, Crash(h) PROVE TypeOK'
    BY <1>7 DEF Crash, Machines, Return, Leave, At, row, cause, suspension, renewal,
        money, marks, handlers, past
<1>8. ASSUME ToggleAutoRenew PROVE TypeOK'
    BY <1>8 DEF ToggleAutoRenew, row, cause, suspension, renewal, money, marks,
        handlers, past
<1>9. ASSUME ExpirySuspend PROVE TypeOK'
    <3>1. stranded' \in BOOLEAN
      BY <1>9, Zenon DEF ExpirySuspend
    <3> QED BY <3>1, <1>9 DEF ExpirySuspend, renewal, money, marks, handlers, past
<1>10. ASSUME PowerChange PROVE TypeOK'
    BY <1>10 DEF PowerChange, row, cause, suspension, renewal, money, marks,
        handlers, past
<1>11. ASSUME Tick PROVE TypeOK'
    BY <1>11 DEF Tick, row, cause, suspension, renewal, money, marks, handlers, past
<1>12. ASSUME UNCHANGED vars PROVE TypeOK'
    BY <1>12 DEF vars, row, cause, suspension, renewal, money, marks, handlers, past
<1> QED BY <1>1, <1>2, <1>3, <1>4, <1>5, <1>6, <1>7, <1>8, <1>9, <1>10, <1>11, <1>12 DEF
        Next

LEMMA SeenStep ==
    ASSUME TypeOK, SeenRow, [Next]_vars
    PROVE  SeenRow'
<1> USE BillingConstants DEF SeenRow, Deleting, Expiring, TypeOK, Statuses, Reasons, Row,
        Steps, Claims, Nothing
<1>1. ASSUME NEW h \in Handler, Renewals(h) PROVE SeenRow'
  <2>1. ASSUME BeginRenew(h) PROVE SeenRow'
    BY <2>1 DEF BeginRenew, Begin, Copy, Timed, At, row, cause, suspension, renewal,
        money, marks, handlers, past
  <2>2. ASSUME BeginAutoRenew(h) PROVE SeenRow'
    BY <2>2 DEF BeginAutoRenew, Begin, Copy, Timed, At, row, cause, suspension,
        renewal, money, marks, handlers, past
  <2>3. ASSUME Renew(h) PROVE SeenRow'
    BY <2>3 DEF Renew, Charge, Unchanged, Extended, Later, Since, SawExpired, Lift,
        Return, Leave, At, row, cause, suspension, renewal, money, marks, handlers,
        past
  <2>4. ASSUME RenewFails(h) PROVE SeenRow'
    BY <2>4 DEF RenewFails, Return, Leave, At, row, cause, suspension, renewal,
        money, marks, handlers, past
  <2>5. ASSUME AutoRenewFails(h) PROVE SeenRow'
    BY <2>5 DEF AutoRenewFails, SameRound, Return, Leave, At, row, cause,
        suspension, renewal, money, marks, handlers, past
  <2> QED BY <1>1, <2>1, <2>2, <2>3, <2>4, <2>5 DEF Renewals
<1>2. ASSUME NEW h \in Handler, Starts(h) PROVE SeenRow'
  <2>1. ASSUME BeginExpiryDelete(h) PROVE SeenRow'
    BY <2>1 DEF BeginExpiryDelete, Begin, Copy, Timed, At, Expired, row, cause,
        suspension, renewal, money, marks, handlers, past
  <2>2. ASSUME BeginDestroy(h) PROVE SeenRow'
    BY <2>2 DEF BeginDestroy, Begin, Copy, Timed, At, Quotes, MaxRefundable, row,
        cause, suspension, renewal, money, marks, handlers, past
  <2>3. ASSUME BeginOwnerDelete(h) PROVE SeenRow'
    BY <2>3 DEF BeginOwnerDelete, Begin, Copy, Timed, At, row, cause, suspension,
        renewal, money, marks, handlers, past
  <2>4. ASSUME BeginAdminDelete(h) PROVE SeenRow'
    BY <2>4 DEF BeginAdminDelete, Begin, Copy, Timed, At, Quotes, MaxRefundable,
        row, cause, suspension, renewal, money, marks, handlers, past
  <2>5. ASSUME BeginExtend(h) PROVE SeenRow'
    BY <2>5 DEF BeginExtend, Begin, Copy, Timed, At, row, cause, suspension,
        renewal, money, marks, handlers, past
  <2>6. ASSUME BeginSuspend(h) PROVE SeenRow'
    BY <2>6 DEF BeginSuspend, Begin, Copy, Timed, At, row, cause, suspension,
        renewal, money, marks, handlers, past
  <2>7. ASSUME BeginUnsuspend(h) PROVE SeenRow'
    BY <2>7 DEF BeginUnsuspend, Begin, Copy, Timed, At, row, cause, suspension,
        renewal, money, marks, handlers, past
  <2>8. ASSUME BeginRefund(h) PROVE SeenRow'
    BY <2>8 DEF BeginRefund, Begin, Copy, Timed, At, MaxRefundable, row, cause,
        suspension, renewal, money, marks, handlers, past
  <2> QED BY <1>2, <2>1, <2>2, <2>3, <2>4, <2>5, <2>6, <2>7, <2>8 DEF Starts
<1>3. ASSUME NEW h \in Handler, ClaimSteps(h) PROVE SeenRow'
  <2>1. ASSUME ExpiryClaim(h) PROVE SeenRow'
    BY <2>1 DEF ExpiryClaim, Goto, Expired, At, row, cause, suspension, renewal,
        money, marks, handlers, past
  <2>2. ASSUME Claim(h) PROVE SeenRow'
    BY <2>2 DEF Claim, Take, Claims, Claimed, Goto, At, row, cause, suspension,
        renewal, money, marks, handlers, past
  <2>3. ASSUME ClaimRefused(h) PROVE SeenRow'
    BY <2>3 DEF ClaimRefused, Claims, Return, Leave, At, row, cause, suspension,
        renewal, money, marks, handlers, past
  <2>4. ASSUME Restore(h) PROVE SeenRow'
    BY <2>4 DEF Restore, Return, Leave, At, row, cause, suspension, renewal, money,
        marks, handlers, past
  <2>5. ASSUME ExpiryRestore(h) PROVE SeenRow'
    BY <2>5 DEF ExpiryRestore, Return, Leave, At, row, cause, suspension, renewal,
        money, marks, handlers, past
  <2> QED BY <1>3, <2>1, <2>2, <2>3, <2>4, <2>5 DEF ClaimSteps
<1>4. ASSUME NEW h \in Handler, MachineSteps(h) PROVE SeenRow'
  <2>1. ASSUME MachineDeleted(h) PROVE SeenRow'
    BY <2>1 DEF MachineDeleted, Machines, Goto, Return, Leave, At, row, cause,
        suspension, renewal, money, marks, handlers, past
  <2>2. ASSUME MachineFails(h) PROVE SeenRow'
    BY <2>2 DEF MachineFails, Machines, Goto, At, row, cause, suspension, renewal,
        money, marks, handlers, past
  <2>3. ASSUME AdminMachine(h) PROVE SeenRow'
    BY <2>3 DEF AdminMachine, Return, Leave, At, row, cause, suspension, renewal,
        money, marks, handlers, past
  <2> QED BY <1>4, <2>1, <2>2, <2>3 DEF MachineSteps
<1>5. ASSUME NEW h \in Handler, Payments(h) PROVE SeenRow'
  <2>1. ASSUME Settle(h) PROVE SeenRow'
    BY <2>1 DEF Settle, PayBack, Overlooks, Leave, At, row, cause, suspension,
        renewal, money, marks, handlers, past
  <2>2. ASSUME SettleFails(h) PROVE SeenRow'
    BY <2>2 DEF SettleFails, Return, Leave, At, row, cause, suspension, renewal,
        money, marks, handlers, past
  <2>3. ASSUME OwnerQuote(h) PROVE SeenRow'
    BY <2>3 DEF OwnerQuote, Quotes, MaxRefundable, At, row, cause, suspension,
        renewal, money, marks, handlers, past
  <2>4. ASSUME OwnerRefund(h) PROVE SeenRow'
    BY <2>4 DEF OwnerRefund, PayBack, Overlooks, Leave, At, row, cause, suspension,
        renewal, money, marks, handlers, past
  <2>5. ASSUME AdminRefund(h) PROVE SeenRow'
    BY <2>5 DEF AdminRefund, PayBack, Overlooks, At, row, cause, suspension,
        renewal, money, marks, handlers, past
  <2>6. ASSUME AdminRefundFails(h) PROVE SeenRow'
    BY <2>6 DEF AdminRefundFails, Goto, At, row, cause, suspension, renewal, money,
        marks, handlers, past
  <2>7. ASSUME Refund(h) PROVE SeenRow'
    BY <2>7 DEF Refund, Overlooks, Quoting, Leave, At, row, cause, suspension,
        renewal, money, marks, handlers, past
  <2> QED BY <1>5, <2>1, <2>2, <2>3, <2>4, <2>5, <2>6, <2>7 DEF Payments
<1>6. ASSUME NEW h \in Handler, AdminWrites(h) PROVE SeenRow'
  <2>1. ASSUME Extend(h) PROVE SeenRow'
    BY <2>1 DEF Extend, Charge, Extended, Later, Since, LiftExpiry, Lift,
        SawExpired, Overtakes, Written, Leave, At, row, cause, suspension, renewal,
        money, marks, handlers, past
  <2>2. ASSUME FreeExtend(h) PROVE SeenRow'
    BY <2>2 DEF FreeExtend, Extended, Later, Since, LiftExpiry, Lift, SawExpired,
        Overtakes, Written, Leave, At, row, cause, suspension, renewal, money,
        marks, handlers, past
  <2>3. ASSUME Gift(h) PROVE SeenRow'
    BY <2>3 DEF Gift, Extended, Later, Since, Lift, SawExpired, Overtakes, Written,
        Leave, At, row, cause, suspension, renewal, money, marks, handlers, past
  <2>4. ASSUME ExtendAll(h) PROVE SeenRow'
    BY <2>4 DEF ExtendAll, Overtakes, Written, Leave, At, row, cause, suspension,
        renewal, money, marks, handlers, past
  <2>5. ASSUME Suspend(h) PROVE SeenRow'
    BY <2>5 DEF Suspend, Written, Return, Leave, At, row, cause, suspension,
        renewal, money, marks, handlers, past
  <2>6. ASSUME Unsuspend(h) PROVE SeenRow'
    BY <2>6 DEF Unsuspend, Lift, Written, Return, Leave, At, row, cause, suspension,
        renewal, money, marks, handlers, past
  <2> QED BY <1>6, <2>1, <2>2, <2>3, <2>4, <2>5, <2>6 DEF AdminWrites
<1>7. ASSUME NEW h \in Handler, Crash(h) PROVE SeenRow'
    BY <1>7 DEF Crash, Machines, Return, Leave, At, row, cause, suspension, renewal,
        money, marks, handlers, past
<1>8. ASSUME ToggleAutoRenew PROVE SeenRow'
    BY <1>8 DEF ToggleAutoRenew, row, cause, suspension, renewal, money, marks,
        handlers, past
<1>9. ASSUME ExpirySuspend PROVE SeenRow'
    BY <1>9 DEF ExpirySuspend, row, cause, suspension, renewal, money, marks,
        handlers, past
<1>10. ASSUME PowerChange PROVE SeenRow'
    BY <1>10 DEF PowerChange, row, cause, suspension, renewal, money, marks,
        handlers, past
<1>11. ASSUME Tick PROVE SeenRow'
    BY <1>11 DEF Tick, row, cause, suspension, renewal, money, marks, handlers, past
<1>12. ASSUME UNCHANGED vars PROVE SeenRow'
    BY <1>12 DEF vars, row, cause, suspension, renewal, money, marks, handlers, past
<1> QED BY <1>1, <1>2, <1>3, <1>4, <1>5, <1>6, <1>7, <1>8, <1>9, <1>10, <1>11, <1>12 DEF
        Next

LEMMA ClaimStep ==
    ASSUME TypeOK, SeenRow, OneClaim, [Next]_vars
    PROVE  OneClaim'
<1> USE BillingConstants DEF OneClaim, Holding, SeenRow, Deleting, Expiring, TypeOK
<1>1. ASSUME NEW h \in Handler, Renewals(h) PROVE OneClaim'
  <2>1. ASSUME BeginRenew(h) PROVE OneClaim'
    BY <2>1 DEF BeginRenew, Begin, Copy, Timed, At, row, cause, suspension, renewal,
        money, marks, handlers, past
  <2>2. ASSUME BeginAutoRenew(h) PROVE OneClaim'
    BY <2>2 DEF BeginAutoRenew, Begin, Copy, Timed, At, row, cause, suspension,
        renewal, money, marks, handlers, past
  <2>3. ASSUME Renew(h) PROVE OneClaim'
    BY <2>3 DEF Renew, Charge, Unchanged, Extended, Later, Since, SawExpired, Lift,
        Return, Leave, At, row, cause, suspension, renewal, money, marks, handlers,
        past
  <2>4. ASSUME RenewFails(h) PROVE OneClaim'
    BY <2>4 DEF RenewFails, Return, Leave, At, row, cause, suspension, renewal,
        money, marks, handlers, past
  <2>5. ASSUME AutoRenewFails(h) PROVE OneClaim'
    BY <2>5 DEF AutoRenewFails, SameRound, Return, Leave, At, row, cause,
        suspension, renewal, money, marks, handlers, past
  <2> QED BY <1>1, <2>1, <2>2, <2>3, <2>4, <2>5 DEF Renewals
<1>2. ASSUME NEW h \in Handler, Starts(h) PROVE OneClaim'
  <2>1. ASSUME BeginExpiryDelete(h) PROVE OneClaim'
    BY <2>1 DEF BeginExpiryDelete, Begin, Copy, Timed, At, Expired, row, cause,
        suspension, renewal, money, marks, handlers, past
  <2>2. ASSUME BeginDestroy(h) PROVE OneClaim'
    BY <2>2 DEF BeginDestroy, Begin, Copy, Timed, At, Quotes, MaxRefundable, row,
        cause, suspension, renewal, money, marks, handlers, past
  <2>3. ASSUME BeginOwnerDelete(h) PROVE OneClaim'
    BY <2>3 DEF BeginOwnerDelete, Begin, Copy, Timed, At, row, cause, suspension,
        renewal, money, marks, handlers, past
  <2>4. ASSUME BeginAdminDelete(h) PROVE OneClaim'
    BY <2>4 DEF BeginAdminDelete, Begin, Copy, Timed, At, Quotes, MaxRefundable,
        row, cause, suspension, renewal, money, marks, handlers, past
  <2>5. ASSUME BeginExtend(h) PROVE OneClaim'
    BY <2>5 DEF BeginExtend, Begin, Copy, Timed, At, row, cause, suspension,
        renewal, money, marks, handlers, past
  <2>6. ASSUME BeginSuspend(h) PROVE OneClaim'
    BY <2>6 DEF BeginSuspend, Begin, Copy, Timed, At, row, cause, suspension,
        renewal, money, marks, handlers, past
  <2>7. ASSUME BeginUnsuspend(h) PROVE OneClaim'
    BY <2>7 DEF BeginUnsuspend, Begin, Copy, Timed, At, row, cause, suspension,
        renewal, money, marks, handlers, past
  <2>8. ASSUME BeginRefund(h) PROVE OneClaim'
    BY <2>8 DEF BeginRefund, Begin, Copy, Timed, At, MaxRefundable, row, cause,
        suspension, renewal, money, marks, handlers, past
  <2> QED BY <1>2, <2>1, <2>2, <2>3, <2>4, <2>5, <2>6, <2>7, <2>8 DEF Starts
<1>3. ASSUME NEW h \in Handler, ClaimSteps(h) PROVE OneClaim'
  <2>1. ASSUME ExpiryClaim(h) PROVE OneClaim'
    BY <2>1 DEF ExpiryClaim, Goto, Expired, At, row, cause, suspension, renewal,
        money, marks, handlers, past
  <2>2. ASSUME Claim(h) PROVE OneClaim'
    BY <2>2 DEF Claim, Take, Claims, Claimed, Goto, At, row, cause, suspension,
        renewal, money, marks, handlers, past
  <2>3. ASSUME ClaimRefused(h) PROVE OneClaim'
    BY <2>3 DEF ClaimRefused, Claims, Return, Leave, At, row, cause, suspension,
        renewal, money, marks, handlers, past
  <2>4. ASSUME Restore(h) PROVE OneClaim'
    BY <2>4 DEF Restore, Return, Leave, At, row, cause, suspension, renewal, money,
        marks, handlers, past
  <2>5. ASSUME ExpiryRestore(h) PROVE OneClaim'
    BY <2>5 DEF ExpiryRestore, Return, Leave, At, row, cause, suspension, renewal,
        money, marks, handlers, past
  <2> QED BY <1>3, <2>1, <2>2, <2>3, <2>4, <2>5 DEF ClaimSteps
<1>4. ASSUME NEW h \in Handler, MachineSteps(h) PROVE OneClaim'
  <2>1. ASSUME MachineDeleted(h) PROVE OneClaim'
    BY <2>1 DEF MachineDeleted, Machines, Goto, Return, Leave, At, row, cause,
        suspension, renewal, money, marks, handlers, past
  <2>2. ASSUME MachineFails(h) PROVE OneClaim'
    BY <2>2 DEF MachineFails, Machines, Goto, At, row, cause, suspension, renewal,
        money, marks, handlers, past
  <2>3. ASSUME AdminMachine(h) PROVE OneClaim'
    BY <2>3 DEF AdminMachine, Return, Leave, At, row, cause, suspension, renewal,
        money, marks, handlers, past
  <2> QED BY <1>4, <2>1, <2>2, <2>3 DEF MachineSteps
<1>5. ASSUME NEW h \in Handler, Payments(h) PROVE OneClaim'
  <2>1. ASSUME Settle(h) PROVE OneClaim'
    BY <2>1 DEF Settle, PayBack, Overlooks, Leave, At, row, cause, suspension,
        renewal, money, marks, handlers, past
  <2>2. ASSUME SettleFails(h) PROVE OneClaim'
    BY <2>2 DEF SettleFails, Return, Leave, At, row, cause, suspension, renewal,
        money, marks, handlers, past
  <2>3. ASSUME OwnerQuote(h) PROVE OneClaim'
    BY <2>3 DEF OwnerQuote, Quotes, MaxRefundable, At, row, cause, suspension,
        renewal, money, marks, handlers, past
  <2>4. ASSUME OwnerRefund(h) PROVE OneClaim'
    BY <2>4 DEF OwnerRefund, PayBack, Overlooks, Leave, At, row, cause, suspension,
        renewal, money, marks, handlers, past
  <2>5. ASSUME AdminRefund(h) PROVE OneClaim'
    BY <2>5 DEF AdminRefund, PayBack, Overlooks, At, row, cause, suspension,
        renewal, money, marks, handlers, past
  <2>6. ASSUME AdminRefundFails(h) PROVE OneClaim'
    BY <2>6 DEF AdminRefundFails, Goto, At, row, cause, suspension, renewal, money,
        marks, handlers, past
  <2>7. ASSUME Refund(h) PROVE OneClaim'
    BY <2>7 DEF Refund, Overlooks, Quoting, Leave, At, row, cause, suspension,
        renewal, money, marks, handlers, past
  <2> QED BY <1>5, <2>1, <2>2, <2>3, <2>4, <2>5, <2>6, <2>7 DEF Payments
<1>6. ASSUME NEW h \in Handler, AdminWrites(h) PROVE OneClaim'
  <2>1. ASSUME Extend(h) PROVE OneClaim'
    BY <2>1 DEF Extend, Charge, Extended, Later, Since, LiftExpiry, Lift,
        SawExpired, Overtakes, Written, Leave, At, row, cause, suspension, renewal,
        money, marks, handlers, past
  <2>2. ASSUME FreeExtend(h) PROVE OneClaim'
    BY <2>2 DEF FreeExtend, Extended, Later, Since, LiftExpiry, Lift, SawExpired,
        Overtakes, Written, Leave, At, row, cause, suspension, renewal, money,
        marks, handlers, past
  <2>3. ASSUME Gift(h) PROVE OneClaim'
    BY <2>3 DEF Gift, Extended, Later, Since, Lift, SawExpired, Overtakes, Written,
        Leave, At, row, cause, suspension, renewal, money, marks, handlers, past
  <2>4. ASSUME ExtendAll(h) PROVE OneClaim'
    BY <2>4 DEF ExtendAll, Overtakes, Written, Leave, At, row, cause, suspension,
        renewal, money, marks, handlers, past
  <2>5. ASSUME Suspend(h) PROVE OneClaim'
    BY <2>5 DEF Suspend, Written, Return, Leave, At, row, cause, suspension,
        renewal, money, marks, handlers, past
  <2>6. ASSUME Unsuspend(h) PROVE OneClaim'
    BY <2>6 DEF Unsuspend, Lift, Written, Return, Leave, At, row, cause, suspension,
        renewal, money, marks, handlers, past
  <2> QED BY <1>6, <2>1, <2>2, <2>3, <2>4, <2>5, <2>6 DEF AdminWrites
<1>7. ASSUME NEW h \in Handler, Crash(h) PROVE OneClaim'
    BY <1>7 DEF Crash, Machines, Return, Leave, At, row, cause, suspension, renewal,
        money, marks, handlers, past
<1>8. ASSUME ToggleAutoRenew PROVE OneClaim'
    BY <1>8 DEF ToggleAutoRenew, row, cause, suspension, renewal, money, marks,
        handlers, past
<1>9. ASSUME ExpirySuspend PROVE OneClaim'
    BY <1>9 DEF ExpirySuspend, row, cause, suspension, renewal, money, marks,
        handlers, past
<1>10. ASSUME PowerChange PROVE OneClaim'
    BY <1>10 DEF PowerChange, row, cause, suspension, renewal, money, marks,
        handlers, past
<1>11. ASSUME Tick PROVE OneClaim'
    BY <1>11 DEF Tick, row, cause, suspension, renewal, money, marks, handlers, past
<1>12. ASSUME UNCHANGED vars PROVE OneClaim'
    BY <1>12 DEF vars, row, cause, suspension, renewal, money, marks, handlers, past
<1> QED BY <1>1, <1>2, <1>3, <1>4, <1>5, <1>6, <1>7, <1>8, <1>9, <1>10, <1>11, <1>12 DEF
        Next

LEMMA FreshStep ==
    ASSUME TypeOK, FreshExpiry, [Next]_vars
    PROVE  FreshExpiry'
<1> USE BillingConstants DEF FreshExpiry, TypeOK, Row
<1>1. ASSUME NEW h \in Handler, Renewals(h) PROVE FreshExpiry'
  <2>1. ASSUME BeginRenew(h) PROVE FreshExpiry'
    BY <2>1 DEF BeginRenew, Begin, Copy, Timed, At, row, cause, suspension, renewal,
        money, marks, handlers, past
  <2>2. ASSUME BeginAutoRenew(h) PROVE FreshExpiry'
    BY <2>2 DEF BeginAutoRenew, Begin, Copy, Timed, At, row, cause, suspension,
        renewal, money, marks, handlers, past
  <2>3. ASSUME Renew(h) PROVE FreshExpiry'
    BY <2>3 DEF Renew, Charge, Unchanged, Extended, Later, Since, SawExpired, Lift,
        Return, Leave, At, row, cause, suspension, renewal, money, marks, handlers,
        past
  <2>4. ASSUME RenewFails(h) PROVE FreshExpiry'
    BY <2>4 DEF RenewFails, Return, Leave, At, row, cause, suspension, renewal,
        money, marks, handlers, past
  <2>5. ASSUME AutoRenewFails(h) PROVE FreshExpiry'
    BY <2>5 DEF AutoRenewFails, SameRound, Return, Leave, At, row, cause,
        suspension, renewal, money, marks, handlers, past
  <2> QED BY <1>1, <2>1, <2>2, <2>3, <2>4, <2>5 DEF Renewals
<1>2. ASSUME NEW h \in Handler, Starts(h) PROVE FreshExpiry'
  <2>1. ASSUME BeginExpiryDelete(h) PROVE FreshExpiry'
    BY <2>1 DEF BeginExpiryDelete, Begin, Copy, Timed, At, Expired, row, cause,
        suspension, renewal, money, marks, handlers, past
  <2>2. ASSUME BeginDestroy(h) PROVE FreshExpiry'
    BY <2>2 DEF BeginDestroy, Begin, Copy, Timed, At, Quotes, MaxRefundable, row,
        cause, suspension, renewal, money, marks, handlers, past
  <2>3. ASSUME BeginOwnerDelete(h) PROVE FreshExpiry'
    BY <2>3 DEF BeginOwnerDelete, Begin, Copy, Timed, At, row, cause, suspension,
        renewal, money, marks, handlers, past
  <2>4. ASSUME BeginAdminDelete(h) PROVE FreshExpiry'
    BY <2>4 DEF BeginAdminDelete, Begin, Copy, Timed, At, Quotes, MaxRefundable,
        row, cause, suspension, renewal, money, marks, handlers, past
  <2>5. ASSUME BeginExtend(h) PROVE FreshExpiry'
    BY <2>5 DEF BeginExtend, Begin, Copy, Timed, At, row, cause, suspension,
        renewal, money, marks, handlers, past
  <2>6. ASSUME BeginSuspend(h) PROVE FreshExpiry'
    BY <2>6 DEF BeginSuspend, Begin, Copy, Timed, At, row, cause, suspension,
        renewal, money, marks, handlers, past
  <2>7. ASSUME BeginUnsuspend(h) PROVE FreshExpiry'
    BY <2>7 DEF BeginUnsuspend, Begin, Copy, Timed, At, row, cause, suspension,
        renewal, money, marks, handlers, past
  <2>8. ASSUME BeginRefund(h) PROVE FreshExpiry'
    BY <2>8 DEF BeginRefund, Begin, Copy, Timed, At, MaxRefundable, row, cause,
        suspension, renewal, money, marks, handlers, past
  <2> QED BY <1>2, <2>1, <2>2, <2>3, <2>4, <2>5, <2>6, <2>7, <2>8 DEF Starts
<1>3. ASSUME NEW h \in Handler, ClaimSteps(h) PROVE FreshExpiry'
  <2>1. ASSUME ExpiryClaim(h) PROVE FreshExpiry'
    BY <2>1 DEF ExpiryClaim, Goto, Expired, At, row, cause, suspension, renewal,
        money, marks, handlers, past
  <2>2. ASSUME Claim(h) PROVE FreshExpiry'
    BY <2>2 DEF Claim, Take, Claims, Claimed, Goto, At, row, cause, suspension,
        renewal, money, marks, handlers, past
  <2>3. ASSUME ClaimRefused(h) PROVE FreshExpiry'
    BY <2>3 DEF ClaimRefused, Claims, Return, Leave, At, row, cause, suspension,
        renewal, money, marks, handlers, past
  <2>4. ASSUME Restore(h) PROVE FreshExpiry'
    BY <2>4 DEF Restore, Return, Leave, At, row, cause, suspension, renewal, money,
        marks, handlers, past
  <2>5. ASSUME ExpiryRestore(h) PROVE FreshExpiry'
    BY <2>5 DEF ExpiryRestore, Return, Leave, At, row, cause, suspension, renewal,
        money, marks, handlers, past
  <2> QED BY <1>3, <2>1, <2>2, <2>3, <2>4, <2>5 DEF ClaimSteps
<1>4. ASSUME NEW h \in Handler, MachineSteps(h) PROVE FreshExpiry'
  <2>1. ASSUME MachineDeleted(h) PROVE FreshExpiry'
    BY <2>1 DEF MachineDeleted, Machines, Goto, Return, Leave, At, row, cause,
        suspension, renewal, money, marks, handlers, past
  <2>2. ASSUME MachineFails(h) PROVE FreshExpiry'
    BY <2>2 DEF MachineFails, Machines, Goto, At, row, cause, suspension, renewal,
        money, marks, handlers, past
  <2>3. ASSUME AdminMachine(h) PROVE FreshExpiry'
    BY <2>3 DEF AdminMachine, Return, Leave, At, row, cause, suspension, renewal,
        money, marks, handlers, past
  <2> QED BY <1>4, <2>1, <2>2, <2>3 DEF MachineSteps
<1>5. ASSUME NEW h \in Handler, Payments(h) PROVE FreshExpiry'
  <2>1. ASSUME Settle(h) PROVE FreshExpiry'
    BY <2>1 DEF Settle, PayBack, Overlooks, Leave, At, row, cause, suspension,
        renewal, money, marks, handlers, past
  <2>2. ASSUME SettleFails(h) PROVE FreshExpiry'
    BY <2>2 DEF SettleFails, Return, Leave, At, row, cause, suspension, renewal,
        money, marks, handlers, past
  <2>3. ASSUME OwnerQuote(h) PROVE FreshExpiry'
    BY <2>3 DEF OwnerQuote, Quotes, MaxRefundable, At, row, cause, suspension,
        renewal, money, marks, handlers, past
  <2>4. ASSUME OwnerRefund(h) PROVE FreshExpiry'
    BY <2>4 DEF OwnerRefund, PayBack, Overlooks, Leave, At, row, cause, suspension,
        renewal, money, marks, handlers, past
  <2>5. ASSUME AdminRefund(h) PROVE FreshExpiry'
    BY <2>5 DEF AdminRefund, PayBack, Overlooks, At, row, cause, suspension,
        renewal, money, marks, handlers, past
  <2>6. ASSUME AdminRefundFails(h) PROVE FreshExpiry'
    BY <2>6 DEF AdminRefundFails, Goto, At, row, cause, suspension, renewal, money,
        marks, handlers, past
  <2>7. ASSUME Refund(h) PROVE FreshExpiry'
    BY <2>7 DEF Refund, Overlooks, Quoting, Leave, At, row, cause, suspension,
        renewal, money, marks, handlers, past
  <2> QED BY <1>5, <2>1, <2>2, <2>3, <2>4, <2>5, <2>6, <2>7 DEF Payments
<1>6. ASSUME NEW h \in Handler, AdminWrites(h) PROVE FreshExpiry'
  <2>1. ASSUME Extend(h) PROVE FreshExpiry'
    BY <2>1 DEF Extend, Charge, Extended, Later, Since, LiftExpiry, Lift,
        SawExpired, Overtakes, Written, Leave, At, row, cause, suspension, renewal,
        money, marks, handlers, past
  <2>2. ASSUME FreeExtend(h) PROVE FreshExpiry'
    BY <2>2 DEF FreeExtend, Extended, Later, Since, LiftExpiry, Lift, SawExpired,
        Overtakes, Written, Leave, At, row, cause, suspension, renewal, money,
        marks, handlers, past
  <2>3. ASSUME Gift(h) PROVE FreshExpiry'
    BY <2>3 DEF Gift, Extended, Later, Since, Lift, SawExpired, Overtakes, Written,
        Leave, At, row, cause, suspension, renewal, money, marks, handlers, past
  <2>4. ASSUME ExtendAll(h) PROVE FreshExpiry'
    BY <2>4 DEF ExtendAll, Overtakes, Written, Leave, At, row, cause, suspension,
        renewal, money, marks, handlers, past
  <2>5. ASSUME Suspend(h) PROVE FreshExpiry'
    BY <2>5 DEF Suspend, Written, Return, Leave, At, row, cause, suspension,
        renewal, money, marks, handlers, past
  <2>6. ASSUME Unsuspend(h) PROVE FreshExpiry'
    BY <2>6 DEF Unsuspend, Lift, Written, Return, Leave, At, row, cause, suspension,
        renewal, money, marks, handlers, past
  <2> QED BY <1>6, <2>1, <2>2, <2>3, <2>4, <2>5, <2>6 DEF AdminWrites
<1>7. ASSUME NEW h \in Handler, Crash(h) PROVE FreshExpiry'
    BY <1>7 DEF Crash, Machines, Return, Leave, At, row, cause, suspension, renewal,
        money, marks, handlers, past
<1>8. ASSUME ToggleAutoRenew PROVE FreshExpiry'
    BY <1>8 DEF ToggleAutoRenew, row, cause, suspension, renewal, money, marks,
        handlers, past
<1>9. ASSUME ExpirySuspend PROVE FreshExpiry'
    BY <1>9 DEF ExpirySuspend, row, cause, suspension, renewal, money, marks,
        handlers, past
<1>10. ASSUME PowerChange PROVE FreshExpiry'
    BY <1>10 DEF PowerChange, row, cause, suspension, renewal, money, marks,
        handlers, past
<1>11. ASSUME Tick PROVE FreshExpiry'
    BY <1>11 DEF Tick, row, cause, suspension, renewal, money, marks, handlers, past
<1>12. ASSUME UNCHANGED vars PROVE FreshExpiry'
    BY <1>12 DEF vars, row, cause, suspension, renewal, money, marks, handlers, past
<1> QED BY <1>1, <1>2, <1>3, <1>4, <1>5, <1>6, <1>7, <1>8, <1>9, <1>10, <1>11, <1>12 DEF
        Next

PastKept == (trespassed => trespassed') /\ (crossed => crossed')

(* What was done over a deleted row, or a quote, is not forgotten.          *)
LEMMA PastStays ==
    ASSUME TypeOK, [Next]_vars
    PROVE  PastKept
<1> USE BillingConstants DEF PastKept, TypeOK
<1>1. ASSUME NEW h \in Handler, Renewals(h) PROVE PastKept
  <2>1. ASSUME BeginRenew(h) PROVE PastKept
    BY <2>1 DEF BeginRenew, Begin, Copy, Timed, At, row, cause, suspension, renewal,
        money, marks, handlers, past
  <2>2. ASSUME BeginAutoRenew(h) PROVE PastKept
    BY <2>2 DEF BeginAutoRenew, Begin, Copy, Timed, At, row, cause, suspension,
        renewal, money, marks, handlers, past
  <2>3. ASSUME Renew(h) PROVE PastKept
    BY <2>3 DEF Renew, Charge, Unchanged, Extended, Later, Since, SawExpired, Lift,
        Return, Leave, At, row, cause, suspension, renewal, money, marks, handlers,
        past
  <2>4. ASSUME RenewFails(h) PROVE PastKept
    BY <2>4 DEF RenewFails, Return, Leave, At, row, cause, suspension, renewal,
        money, marks, handlers, past
  <2>5. ASSUME AutoRenewFails(h) PROVE PastKept
    BY <2>5 DEF AutoRenewFails, SameRound, Return, Leave, At, row, cause,
        suspension, renewal, money, marks, handlers, past
  <2> QED BY <1>1, <2>1, <2>2, <2>3, <2>4, <2>5 DEF Renewals
<1>2. ASSUME NEW h \in Handler, Starts(h) PROVE PastKept
  <2>1. ASSUME BeginExpiryDelete(h) PROVE PastKept
    BY <2>1 DEF BeginExpiryDelete, Begin, Copy, Timed, At, Expired, row, cause,
        suspension, renewal, money, marks, handlers, past
  <2>2. ASSUME BeginDestroy(h) PROVE PastKept
    BY <2>2 DEF BeginDestroy, Begin, Copy, Timed, At, Quotes, MaxRefundable, row,
        cause, suspension, renewal, money, marks, handlers, past
  <2>3. ASSUME BeginOwnerDelete(h) PROVE PastKept
    BY <2>3 DEF BeginOwnerDelete, Begin, Copy, Timed, At, row, cause, suspension,
        renewal, money, marks, handlers, past
  <2>4. ASSUME BeginAdminDelete(h) PROVE PastKept
    BY <2>4 DEF BeginAdminDelete, Begin, Copy, Timed, At, Quotes, MaxRefundable,
        row, cause, suspension, renewal, money, marks, handlers, past
  <2>5. ASSUME BeginExtend(h) PROVE PastKept
    BY <2>5 DEF BeginExtend, Begin, Copy, Timed, At, row, cause, suspension,
        renewal, money, marks, handlers, past
  <2>6. ASSUME BeginSuspend(h) PROVE PastKept
    BY <2>6 DEF BeginSuspend, Begin, Copy, Timed, At, row, cause, suspension,
        renewal, money, marks, handlers, past
  <2>7. ASSUME BeginUnsuspend(h) PROVE PastKept
    BY <2>7 DEF BeginUnsuspend, Begin, Copy, Timed, At, row, cause, suspension,
        renewal, money, marks, handlers, past
  <2>8. ASSUME BeginRefund(h) PROVE PastKept
    BY <2>8 DEF BeginRefund, Begin, Copy, Timed, At, MaxRefundable, row, cause,
        suspension, renewal, money, marks, handlers, past
  <2> QED BY <1>2, <2>1, <2>2, <2>3, <2>4, <2>5, <2>6, <2>7, <2>8 DEF Starts
<1>3. ASSUME NEW h \in Handler, ClaimSteps(h) PROVE PastKept
  <2>1. ASSUME ExpiryClaim(h) PROVE PastKept
    BY <2>1 DEF ExpiryClaim, Goto, Expired, At, row, cause, suspension, renewal,
        money, marks, handlers, past
  <2>2. ASSUME Claim(h) PROVE PastKept
    BY <2>2 DEF Claim, Take, Claims, Claimed, Goto, At, row, cause, suspension,
        renewal, money, marks, handlers, past
  <2>3. ASSUME ClaimRefused(h) PROVE PastKept
    BY <2>3 DEF ClaimRefused, Claims, Return, Leave, At, row, cause, suspension,
        renewal, money, marks, handlers, past
  <2>4. ASSUME Restore(h) PROVE PastKept
    BY <2>4 DEF Restore, Return, Leave, At, row, cause, suspension, renewal, money,
        marks, handlers, past
  <2>5. ASSUME ExpiryRestore(h) PROVE PastKept
    BY <2>5 DEF ExpiryRestore, Return, Leave, At, row, cause, suspension, renewal,
        money, marks, handlers, past
  <2> QED BY <1>3, <2>1, <2>2, <2>3, <2>4, <2>5 DEF ClaimSteps
<1>4. ASSUME NEW h \in Handler, MachineSteps(h) PROVE PastKept
  <2>1. ASSUME MachineDeleted(h) PROVE PastKept
    BY <2>1 DEF MachineDeleted, Machines, Goto, Return, Leave, At, row, cause,
        suspension, renewal, money, marks, handlers, past
  <2>2. ASSUME MachineFails(h) PROVE PastKept
    BY <2>2 DEF MachineFails, Machines, Goto, At, row, cause, suspension, renewal,
        money, marks, handlers, past
  <2>3. ASSUME AdminMachine(h) PROVE PastKept
    BY <2>3 DEF AdminMachine, Return, Leave, At, row, cause, suspension, renewal,
        money, marks, handlers, past
  <2> QED BY <1>4, <2>1, <2>2, <2>3 DEF MachineSteps
<1>5. ASSUME NEW h \in Handler, Payments(h) PROVE PastKept
  <2>1. ASSUME Settle(h) PROVE PastKept
    BY <2>1 DEF Settle, PayBack, Overlooks, Leave, At, row, cause, suspension,
        renewal, money, marks, handlers, past
  <2>2. ASSUME SettleFails(h) PROVE PastKept
    BY <2>2 DEF SettleFails, Return, Leave, At, row, cause, suspension, renewal,
        money, marks, handlers, past
  <2>3. ASSUME OwnerQuote(h) PROVE PastKept
    BY <2>3 DEF OwnerQuote, Quotes, MaxRefundable, At, row, cause, suspension,
        renewal, money, marks, handlers, past
  <2>4. ASSUME OwnerRefund(h) PROVE PastKept
    BY <2>4 DEF OwnerRefund, PayBack, Overlooks, Leave, At, row, cause, suspension,
        renewal, money, marks, handlers, past
  <2>5. ASSUME AdminRefund(h) PROVE PastKept
    BY <2>5 DEF AdminRefund, PayBack, Overlooks, At, row, cause, suspension,
        renewal, money, marks, handlers, past
  <2>6. ASSUME AdminRefundFails(h) PROVE PastKept
    BY <2>6 DEF AdminRefundFails, Goto, At, row, cause, suspension, renewal, money,
        marks, handlers, past
  <2>7. ASSUME Refund(h) PROVE PastKept
    BY <2>7 DEF Refund, Overlooks, Quoting, Leave, At, row, cause, suspension,
        renewal, money, marks, handlers, past
  <2> QED BY <1>5, <2>1, <2>2, <2>3, <2>4, <2>5, <2>6, <2>7 DEF Payments
<1>6. ASSUME NEW h \in Handler, AdminWrites(h) PROVE PastKept
  <2>1. ASSUME Extend(h) PROVE PastKept
    BY <2>1 DEF Extend, Charge, Extended, Later, Since, LiftExpiry, Lift,
        SawExpired, Overtakes, Written, Leave, At, row, cause, suspension, renewal,
        money, marks, handlers, past
  <2>2. ASSUME FreeExtend(h) PROVE PastKept
    BY <2>2 DEF FreeExtend, Extended, Later, Since, LiftExpiry, Lift, SawExpired,
        Overtakes, Written, Leave, At, row, cause, suspension, renewal, money,
        marks, handlers, past
  <2>3. ASSUME Gift(h) PROVE PastKept
    BY <2>3 DEF Gift, Extended, Later, Since, Lift, SawExpired, Overtakes, Written,
        Leave, At, row, cause, suspension, renewal, money, marks, handlers, past
  <2>4. ASSUME ExtendAll(h) PROVE PastKept
    BY <2>4 DEF ExtendAll, Overtakes, Written, Leave, At, row, cause, suspension,
        renewal, money, marks, handlers, past
  <2>5. ASSUME Suspend(h) PROVE PastKept
    BY <2>5 DEF Suspend, Written, Return, Leave, At, row, cause, suspension,
        renewal, money, marks, handlers, past
  <2>6. ASSUME Unsuspend(h) PROVE PastKept
    BY <2>6 DEF Unsuspend, Lift, Written, Return, Leave, At, row, cause, suspension,
        renewal, money, marks, handlers, past
  <2> QED BY <1>6, <2>1, <2>2, <2>3, <2>4, <2>5, <2>6 DEF AdminWrites
<1>7. ASSUME NEW h \in Handler, Crash(h) PROVE PastKept
    BY <1>7 DEF Crash, Machines, Return, Leave, At, row, cause, suspension, renewal,
        money, marks, handlers, past
<1>8. ASSUME ToggleAutoRenew PROVE PastKept
    BY <1>8 DEF ToggleAutoRenew, row, cause, suspension, renewal, money, marks,
        handlers, past
<1>9. ASSUME ExpirySuspend PROVE PastKept
    BY <1>9 DEF ExpirySuspend, row, cause, suspension, renewal, money, marks,
        handlers, past
<1>10. ASSUME PowerChange PROVE PastKept
    BY <1>10 DEF PowerChange, row, cause, suspension, renewal, money, marks,
        handlers, past
<1>11. ASSUME Tick PROVE PastKept
    BY <1>11 DEF Tick, row, cause, suspension, renewal, money, marks, handlers, past
<1>12. ASSUME UNCHANGED vars PROVE PastKept
    BY <1>12 DEF vars, row, cause, suspension, renewal, money, marks, handlers, past
<1> QED BY <1>1, <1>2, <1>3, <1>4, <1>5, <1>6, <1>7, <1>8, <1>9, <1>10, <1>11, <1>12 DEF
        Next

(* A dead row stays dead until somebody writes over it.                    *)
LEMMA DeadStep ==
    ASSUME TypeOK, Dead, ~trespassed', [Next]_vars
    PROVE  Dead'
<1> USE BillingConstants DEF Dead, Restoring, TypeOK
<1>1. ASSUME NEW h \in Handler, Renewals(h) PROVE Dead'
  <2>1. ASSUME BeginRenew(h) PROVE Dead'
    BY <2>1 DEF BeginRenew, Begin, Copy, Timed, At, row, cause, suspension, renewal,
        money, marks, handlers, past
  <2>2. ASSUME BeginAutoRenew(h) PROVE Dead'
    BY <2>2 DEF BeginAutoRenew, Begin, Copy, Timed, At, row, cause, suspension,
        renewal, money, marks, handlers, past
  <2>3. ASSUME Renew(h) PROVE Dead'
    BY <2>3 DEF Renew, Charge, Unchanged, Extended, Later, Since, SawExpired, Lift,
        Return, Leave, At, row, cause, suspension, renewal, money, marks, handlers,
        past
  <2>4. ASSUME RenewFails(h) PROVE Dead'
    BY <2>4 DEF RenewFails, Return, Leave, At, row, cause, suspension, renewal,
        money, marks, handlers, past
  <2>5. ASSUME AutoRenewFails(h) PROVE Dead'
    BY <2>5 DEF AutoRenewFails, SameRound, Return, Leave, At, row, cause,
        suspension, renewal, money, marks, handlers, past
  <2> QED BY <1>1, <2>1, <2>2, <2>3, <2>4, <2>5 DEF Renewals
<1>2. ASSUME NEW h \in Handler, Starts(h) PROVE Dead'
  <2>1. ASSUME BeginExpiryDelete(h) PROVE Dead'
    BY <2>1 DEF BeginExpiryDelete, Begin, Copy, Timed, At, Expired, row, cause,
        suspension, renewal, money, marks, handlers, past
  <2>2. ASSUME BeginDestroy(h) PROVE Dead'
    BY <2>2 DEF BeginDestroy, Begin, Copy, Timed, At, Quotes, MaxRefundable, row,
        cause, suspension, renewal, money, marks, handlers, past
  <2>3. ASSUME BeginOwnerDelete(h) PROVE Dead'
    BY <2>3 DEF BeginOwnerDelete, Begin, Copy, Timed, At, row, cause, suspension,
        renewal, money, marks, handlers, past
  <2>4. ASSUME BeginAdminDelete(h) PROVE Dead'
    BY <2>4 DEF BeginAdminDelete, Begin, Copy, Timed, At, Quotes, MaxRefundable,
        row, cause, suspension, renewal, money, marks, handlers, past
  <2>5. ASSUME BeginExtend(h) PROVE Dead'
    BY <2>5 DEF BeginExtend, Begin, Copy, Timed, At, row, cause, suspension,
        renewal, money, marks, handlers, past
  <2>6. ASSUME BeginSuspend(h) PROVE Dead'
    BY <2>6 DEF BeginSuspend, Begin, Copy, Timed, At, row, cause, suspension,
        renewal, money, marks, handlers, past
  <2>7. ASSUME BeginUnsuspend(h) PROVE Dead'
    BY <2>7 DEF BeginUnsuspend, Begin, Copy, Timed, At, row, cause, suspension,
        renewal, money, marks, handlers, past
  <2>8. ASSUME BeginRefund(h) PROVE Dead'
    BY <2>8 DEF BeginRefund, Begin, Copy, Timed, At, MaxRefundable, row, cause,
        suspension, renewal, money, marks, handlers, past
  <2> QED BY <1>2, <2>1, <2>2, <2>3, <2>4, <2>5, <2>6, <2>7, <2>8 DEF Starts
<1>3. ASSUME NEW h \in Handler, ClaimSteps(h) PROVE Dead'
  <2>1. ASSUME ExpiryClaim(h) PROVE Dead'
    BY <2>1 DEF ExpiryClaim, Goto, Expired, At, row, cause, suspension, renewal,
        money, marks, handlers, past
  <2>2. ASSUME Claim(h) PROVE Dead'
    BY <2>2 DEF Claim, Take, Claims, Claimed, Goto, At, row, cause, suspension,
        renewal, money, marks, handlers, past
  <2>3. ASSUME ClaimRefused(h) PROVE Dead'
    BY <2>3 DEF ClaimRefused, Claims, Return, Leave, At, row, cause, suspension,
        renewal, money, marks, handlers, past
  <2>4. ASSUME Restore(h) PROVE Dead'
    BY <2>4 DEF Restore, Return, Leave, At, row, cause, suspension, renewal, money,
        marks, handlers, past
  <2>5. ASSUME ExpiryRestore(h) PROVE Dead'
    BY <2>5 DEF ExpiryRestore, Return, Leave, At, row, cause, suspension, renewal,
        money, marks, handlers, past
  <2> QED BY <1>3, <2>1, <2>2, <2>3, <2>4, <2>5 DEF ClaimSteps
<1>4. ASSUME NEW h \in Handler, MachineSteps(h) PROVE Dead'
  <2>1. ASSUME MachineDeleted(h) PROVE Dead'
    BY <2>1 DEF MachineDeleted, Machines, Goto, Return, Leave, At, row, cause,
        suspension, renewal, money, marks, handlers, past
  <2>2. ASSUME MachineFails(h) PROVE Dead'
    BY <2>2 DEF MachineFails, Machines, Goto, At, row, cause, suspension, renewal,
        money, marks, handlers, past
  <2>3. ASSUME AdminMachine(h) PROVE Dead'
    BY <2>3 DEF AdminMachine, Return, Leave, At, row, cause, suspension, renewal,
        money, marks, handlers, past
  <2> QED BY <1>4, <2>1, <2>2, <2>3 DEF MachineSteps
<1>5. ASSUME NEW h \in Handler, Payments(h) PROVE Dead'
  <2>1. ASSUME Settle(h) PROVE Dead'
    BY <2>1 DEF Settle, PayBack, Overlooks, Leave, At, row, cause, suspension,
        renewal, money, marks, handlers, past
  <2>2. ASSUME SettleFails(h) PROVE Dead'
    BY <2>2 DEF SettleFails, Return, Leave, At, row, cause, suspension, renewal,
        money, marks, handlers, past
  <2>3. ASSUME OwnerQuote(h) PROVE Dead'
    BY <2>3 DEF OwnerQuote, Quotes, MaxRefundable, At, row, cause, suspension,
        renewal, money, marks, handlers, past
  <2>4. ASSUME OwnerRefund(h) PROVE Dead'
    BY <2>4 DEF OwnerRefund, PayBack, Overlooks, Leave, At, row, cause, suspension,
        renewal, money, marks, handlers, past
  <2>5. ASSUME AdminRefund(h) PROVE Dead'
    BY <2>5 DEF AdminRefund, PayBack, Overlooks, At, row, cause, suspension,
        renewal, money, marks, handlers, past
  <2>6. ASSUME AdminRefundFails(h) PROVE Dead'
    BY <2>6 DEF AdminRefundFails, Goto, At, row, cause, suspension, renewal, money,
        marks, handlers, past
  <2>7. ASSUME Refund(h) PROVE Dead'
    BY <2>7 DEF Refund, Overlooks, Quoting, Leave, At, row, cause, suspension,
        renewal, money, marks, handlers, past
  <2> QED BY <1>5, <2>1, <2>2, <2>3, <2>4, <2>5, <2>6, <2>7 DEF Payments
<1>6. ASSUME NEW h \in Handler, AdminWrites(h) PROVE Dead'
  <2>1. ASSUME Extend(h) PROVE Dead'
    BY <2>1 DEF Extend, Charge, Extended, Later, Since, LiftExpiry, Lift,
        SawExpired, Overtakes, Written, Leave, At, row, cause, suspension, renewal,
        money, marks, handlers, past
  <2>2. ASSUME FreeExtend(h) PROVE Dead'
    BY <2>2 DEF FreeExtend, Extended, Later, Since, LiftExpiry, Lift, SawExpired,
        Overtakes, Written, Leave, At, row, cause, suspension, renewal, money,
        marks, handlers, past
  <2>3. ASSUME Gift(h) PROVE Dead'
    BY <2>3 DEF Gift, Extended, Later, Since, Lift, SawExpired, Overtakes, Written,
        Leave, At, row, cause, suspension, renewal, money, marks, handlers, past
  <2>4. ASSUME ExtendAll(h) PROVE Dead'
    BY <2>4 DEF ExtendAll, Overtakes, Written, Leave, At, row, cause, suspension,
        renewal, money, marks, handlers, past
  <2>5. ASSUME Suspend(h) PROVE Dead'
    BY <2>5 DEF Suspend, Written, Return, Leave, At, row, cause, suspension,
        renewal, money, marks, handlers, past
  <2>6. ASSUME Unsuspend(h) PROVE Dead'
    BY <2>6 DEF Unsuspend, Lift, Written, Return, Leave, At, row, cause, suspension,
        renewal, money, marks, handlers, past
  <2> QED BY <1>6, <2>1, <2>2, <2>3, <2>4, <2>5, <2>6 DEF AdminWrites
<1>7. ASSUME NEW h \in Handler, Crash(h) PROVE Dead'
    BY <1>7 DEF Crash, Machines, Return, Leave, At, row, cause, suspension, renewal,
        money, marks, handlers, past
<1>8. ASSUME ToggleAutoRenew PROVE Dead'
    BY <1>8 DEF ToggleAutoRenew, row, cause, suspension, renewal, money, marks,
        handlers, past
<1>9. ASSUME ExpirySuspend PROVE Dead'
    BY <1>9 DEF ExpirySuspend, row, cause, suspension, renewal, money, marks,
        handlers, past
<1>10. ASSUME PowerChange PROVE Dead'
    BY <1>10 DEF PowerChange, row, cause, suspension, renewal, money, marks,
        handlers, past
<1>11. ASSUME Tick PROVE Dead'
    BY <1>11 DEF Tick, row, cause, suspension, renewal, money, marks, handlers, past
<1>12. ASSUME UNCHANGED vars PROVE Dead'
    BY <1>12 DEF vars, row, cause, suspension, renewal, money, marks, handlers, past
<1> QED BY <1>1, <1>2, <1>3, <1>4, <1>5, <1>6, <1>7, <1>8, <1>9, <1>10, <1>11, <1>12 DEF
        Next

(* The machine goes in a claimed row, and its handler gives it back no more.*)
LEMMA GoneStep ==
    ASSUME PromptDeletes, TypeOK, OneClaim, ~trespassed, ~gone, gone', [Next]_vars
    PROVE  Dead'
<1> USE BillingConstants DEF Dead, Restoring, Holding, OneClaim, TypeOK
<1>1. ASSUME NEW h \in Handler, Renewals(h) PROVE Dead'
  <2>1. ASSUME BeginRenew(h) PROVE Dead'
    BY <2>1 DEF BeginRenew, Begin, Copy, Timed, At, row, cause, suspension, renewal,
        money, marks, handlers, past
  <2>2. ASSUME BeginAutoRenew(h) PROVE Dead'
    BY <2>2 DEF BeginAutoRenew, Begin, Copy, Timed, At, row, cause, suspension,
        renewal, money, marks, handlers, past
  <2>3. ASSUME Renew(h) PROVE Dead'
    BY <2>3 DEF Renew, Charge, Unchanged, Extended, Later, Since, SawExpired, Lift,
        Return, Leave, At, row, cause, suspension, renewal, money, marks, handlers,
        past
  <2>4. ASSUME RenewFails(h) PROVE Dead'
    BY <2>4 DEF RenewFails, Return, Leave, At, row, cause, suspension, renewal,
        money, marks, handlers, past
  <2>5. ASSUME AutoRenewFails(h) PROVE Dead'
    BY <2>5 DEF AutoRenewFails, SameRound, Return, Leave, At, row, cause,
        suspension, renewal, money, marks, handlers, past
  <2> QED BY <1>1, <2>1, <2>2, <2>3, <2>4, <2>5 DEF Renewals
<1>2. ASSUME NEW h \in Handler, Starts(h) PROVE Dead'
  <2>1. ASSUME BeginExpiryDelete(h) PROVE Dead'
    BY <2>1 DEF BeginExpiryDelete, Begin, Copy, Timed, At, Expired, row, cause,
        suspension, renewal, money, marks, handlers, past
  <2>2. ASSUME BeginDestroy(h) PROVE Dead'
    BY <2>2 DEF BeginDestroy, Begin, Copy, Timed, At, Quotes, MaxRefundable, row,
        cause, suspension, renewal, money, marks, handlers, past
  <2>3. ASSUME BeginOwnerDelete(h) PROVE Dead'
    BY <2>3 DEF BeginOwnerDelete, Begin, Copy, Timed, At, row, cause, suspension,
        renewal, money, marks, handlers, past
  <2>4. ASSUME BeginAdminDelete(h) PROVE Dead'
    BY <2>4 DEF BeginAdminDelete, Begin, Copy, Timed, At, Quotes, MaxRefundable,
        row, cause, suspension, renewal, money, marks, handlers, past
  <2>5. ASSUME BeginExtend(h) PROVE Dead'
    BY <2>5 DEF BeginExtend, Begin, Copy, Timed, At, row, cause, suspension,
        renewal, money, marks, handlers, past
  <2>6. ASSUME BeginSuspend(h) PROVE Dead'
    BY <2>6 DEF BeginSuspend, Begin, Copy, Timed, At, row, cause, suspension,
        renewal, money, marks, handlers, past
  <2>7. ASSUME BeginUnsuspend(h) PROVE Dead'
    BY <2>7 DEF BeginUnsuspend, Begin, Copy, Timed, At, row, cause, suspension,
        renewal, money, marks, handlers, past
  <2>8. ASSUME BeginRefund(h) PROVE Dead'
    BY <2>8 DEF BeginRefund, Begin, Copy, Timed, At, MaxRefundable, row, cause,
        suspension, renewal, money, marks, handlers, past
  <2> QED BY <1>2, <2>1, <2>2, <2>3, <2>4, <2>5, <2>6, <2>7, <2>8 DEF Starts
<1>3. ASSUME NEW h \in Handler, ClaimSteps(h) PROVE Dead'
  <2>1. ASSUME ExpiryClaim(h) PROVE Dead'
    BY <2>1 DEF ExpiryClaim, Goto, Expired, At, row, cause, suspension, renewal,
        money, marks, handlers, past
  <2>2. ASSUME Claim(h) PROVE Dead'
    BY <2>2 DEF Claim, Take, Claims, Claimed, Goto, At, row, cause, suspension,
        renewal, money, marks, handlers, past
  <2>3. ASSUME ClaimRefused(h) PROVE Dead'
    BY <2>3 DEF ClaimRefused, Claims, Return, Leave, At, row, cause, suspension,
        renewal, money, marks, handlers, past
  <2>4. ASSUME Restore(h) PROVE Dead'
    BY <2>4 DEF Restore, Return, Leave, At, row, cause, suspension, renewal, money,
        marks, handlers, past
  <2>5. ASSUME ExpiryRestore(h) PROVE Dead'
    BY <2>5 DEF ExpiryRestore, Return, Leave, At, row, cause, suspension, renewal,
        money, marks, handlers, past
  <2> QED BY <1>3, <2>1, <2>2, <2>3, <2>4, <2>5 DEF ClaimSteps
<1>4. ASSUME NEW h \in Handler, MachineSteps(h) PROVE Dead'
  <2>1. ASSUME MachineDeleted(h) PROVE Dead'
    BY <2>1 DEF MachineDeleted, Machines, Goto, Return, Leave, At, row, cause,
        suspension, renewal, money, marks, handlers, past
  <2>2. ASSUME MachineFails(h) PROVE Dead'
    BY <2>2 DEF MachineFails, Machines, Goto, At, row, cause, suspension, renewal,
        money, marks, handlers, past
  <2>3. ASSUME AdminMachine(h) PROVE Dead'
    BY <2>3 DEF AdminMachine, Return, Leave, At, row, cause, suspension, renewal,
        money, marks, handlers, past
  <2> QED BY <1>4, <2>1, <2>2, <2>3 DEF MachineSteps
<1>5. ASSUME NEW h \in Handler, Payments(h) PROVE Dead'
  <2>1. ASSUME Settle(h) PROVE Dead'
    BY <2>1 DEF Settle, PayBack, Overlooks, Leave, At, row, cause, suspension,
        renewal, money, marks, handlers, past
  <2>2. ASSUME SettleFails(h) PROVE Dead'
    BY <2>2 DEF SettleFails, Return, Leave, At, row, cause, suspension, renewal,
        money, marks, handlers, past
  <2>3. ASSUME OwnerQuote(h) PROVE Dead'
    BY <2>3 DEF OwnerQuote, Quotes, MaxRefundable, At, row, cause, suspension,
        renewal, money, marks, handlers, past
  <2>4. ASSUME OwnerRefund(h) PROVE Dead'
    BY <2>4 DEF OwnerRefund, PayBack, Overlooks, Leave, At, row, cause, suspension,
        renewal, money, marks, handlers, past
  <2>5. ASSUME AdminRefund(h) PROVE Dead'
    BY <2>5 DEF AdminRefund, PayBack, Overlooks, At, row, cause, suspension,
        renewal, money, marks, handlers, past
  <2>6. ASSUME AdminRefundFails(h) PROVE Dead'
    BY <2>6 DEF AdminRefundFails, Goto, At, row, cause, suspension, renewal, money,
        marks, handlers, past
  <2>7. ASSUME Refund(h) PROVE Dead'
    BY <2>7 DEF Refund, Overlooks, Quoting, Leave, At, row, cause, suspension,
        renewal, money, marks, handlers, past
  <2> QED BY <1>5, <2>1, <2>2, <2>3, <2>4, <2>5, <2>6, <2>7 DEF Payments
<1>6. ASSUME NEW h \in Handler, AdminWrites(h) PROVE Dead'
  <2>1. ASSUME Extend(h) PROVE Dead'
    BY <2>1 DEF Extend, Charge, Extended, Later, Since, LiftExpiry, Lift,
        SawExpired, Overtakes, Written, Leave, At, row, cause, suspension, renewal,
        money, marks, handlers, past
  <2>2. ASSUME FreeExtend(h) PROVE Dead'
    BY <2>2 DEF FreeExtend, Extended, Later, Since, LiftExpiry, Lift, SawExpired,
        Overtakes, Written, Leave, At, row, cause, suspension, renewal, money,
        marks, handlers, past
  <2>3. ASSUME Gift(h) PROVE Dead'
    BY <2>3 DEF Gift, Extended, Later, Since, Lift, SawExpired, Overtakes, Written,
        Leave, At, row, cause, suspension, renewal, money, marks, handlers, past
  <2>4. ASSUME ExtendAll(h) PROVE Dead'
    BY <2>4 DEF ExtendAll, Overtakes, Written, Leave, At, row, cause, suspension,
        renewal, money, marks, handlers, past
  <2>5. ASSUME Suspend(h) PROVE Dead'
    BY <2>5 DEF Suspend, Written, Return, Leave, At, row, cause, suspension,
        renewal, money, marks, handlers, past
  <2>6. ASSUME Unsuspend(h) PROVE Dead'
    BY <2>6 DEF Unsuspend, Lift, Written, Return, Leave, At, row, cause, suspension,
        renewal, money, marks, handlers, past
  <2> QED BY <1>6, <2>1, <2>2, <2>3, <2>4, <2>5, <2>6 DEF AdminWrites
<1>7. ASSUME NEW h \in Handler, Crash(h) PROVE Dead'
    BY <1>7 DEF Crash, Machines, Return, Leave, At, row, cause, suspension, renewal,
        money, marks, handlers, past
<1>8. ASSUME ToggleAutoRenew PROVE Dead'
    BY <1>8 DEF ToggleAutoRenew, row, cause, suspension, renewal, money, marks,
        handlers, past
<1>9. ASSUME ExpirySuspend PROVE Dead'
    BY <1>9 DEF ExpirySuspend, row, cause, suspension, renewal, money, marks,
        handlers, past
<1>10. ASSUME PowerChange PROVE Dead'
    BY <1>10 DEF PowerChange, row, cause, suspension, renewal, money, marks,
        handlers, past
<1>11. ASSUME Tick PROVE Dead'
    BY <1>11 DEF Tick, row, cause, suspension, renewal, money, marks, handlers, past
<1>12. ASSUME UNCHANGED vars PROVE Dead'
    BY <1>12 DEF vars, row, cause, suspension, renewal, money, marks, handlers, past
<1> QED BY <1>1, <1>2, <1>3, <1>4, <1>5, <1>6, <1>7, <1>8, <1>9, <1>10, <1>11, <1>12 DEF
        Next

(* Who pays knows of all payments, or is marked.                           *)
LEMMA QuotesStep ==
    ASSUME TypeOK, SeenRow, OneClaim, QuotesOwed, LastPayment, Dead => Dead', ~trespassed,
           ~crossed, ~trespassed', ~crossed', [Next]_vars
    PROVE  QuotesOwed'
<1> USE BillingConstants DEF QuotesOwed, Owed, Paid, LastPayment, Dead, Restoring,
        Holding, Paying, OneClaim, SeenRow, Deleting, TypeOK
<1>1. ASSUME NEW h \in Handler, Renewals(h) PROVE QuotesOwed'
  <2>1. ASSUME BeginRenew(h) PROVE QuotesOwed'
    BY <2>1 DEF BeginRenew, Begin, Copy, Timed, At, row, cause, suspension, renewal,
        money, marks, handlers, past
  <2>2. ASSUME BeginAutoRenew(h) PROVE QuotesOwed'
    BY <2>2 DEF BeginAutoRenew, Begin, Copy, Timed, At, row, cause, suspension,
        renewal, money, marks, handlers, past
  <2>3. ASSUME Renew(h) PROVE QuotesOwed'
    BY <2>3 DEF Renew, Charge, Unchanged, Extended, Later, Since, SawExpired, Lift,
        Return, Leave, At, row, cause, suspension, renewal, money, marks, handlers,
        past
  <2>4. ASSUME RenewFails(h) PROVE QuotesOwed'
    BY <2>4 DEF RenewFails, Return, Leave, At, row, cause, suspension, renewal,
        money, marks, handlers, past
  <2>5. ASSUME AutoRenewFails(h) PROVE QuotesOwed'
    BY <2>5 DEF AutoRenewFails, SameRound, Return, Leave, At, row, cause,
        suspension, renewal, money, marks, handlers, past
  <2> QED BY <1>1, <2>1, <2>2, <2>3, <2>4, <2>5 DEF Renewals
<1>2. ASSUME NEW h \in Handler, Starts(h) PROVE QuotesOwed'
  <2>1. ASSUME BeginExpiryDelete(h) PROVE QuotesOwed'
    BY <2>1 DEF BeginExpiryDelete, Begin, Copy, Timed, At, Expired, row, cause,
        suspension, renewal, money, marks, handlers, past
  <2>2. ASSUME BeginDestroy(h) PROVE QuotesOwed'
    BY <2>2 DEF BeginDestroy, Begin, Copy, Timed, At, Quotes, MaxRefundable, row,
        cause, suspension, renewal, money, marks, handlers, past
  <2>3. ASSUME BeginOwnerDelete(h) PROVE QuotesOwed'
    BY <2>3 DEF BeginOwnerDelete, Begin, Copy, Timed, At, row, cause, suspension,
        renewal, money, marks, handlers, past
  <2>4. ASSUME BeginAdminDelete(h) PROVE QuotesOwed'
    BY <2>4 DEF BeginAdminDelete, Begin, Copy, Timed, At, Quotes, MaxRefundable,
        row, cause, suspension, renewal, money, marks, handlers, past
  <2>5. ASSUME BeginExtend(h) PROVE QuotesOwed'
    BY <2>5 DEF BeginExtend, Begin, Copy, Timed, At, row, cause, suspension,
        renewal, money, marks, handlers, past
  <2>6. ASSUME BeginSuspend(h) PROVE QuotesOwed'
    BY <2>6 DEF BeginSuspend, Begin, Copy, Timed, At, row, cause, suspension,
        renewal, money, marks, handlers, past
  <2>7. ASSUME BeginUnsuspend(h) PROVE QuotesOwed'
    BY <2>7 DEF BeginUnsuspend, Begin, Copy, Timed, At, row, cause, suspension,
        renewal, money, marks, handlers, past
  <2>8. ASSUME BeginRefund(h) PROVE QuotesOwed'
    BY <2>8 DEF BeginRefund, Begin, Copy, Timed, At, MaxRefundable, row, cause,
        suspension, renewal, money, marks, handlers, past
  <2> QED BY <1>2, <2>1, <2>2, <2>3, <2>4, <2>5, <2>6, <2>7, <2>8 DEF Starts
<1>3. ASSUME NEW h \in Handler, ClaimSteps(h) PROVE QuotesOwed'
  <2>1. ASSUME ExpiryClaim(h) PROVE QuotesOwed'
    BY <2>1 DEF ExpiryClaim, Goto, Expired, At, row, cause, suspension, renewal,
        money, marks, handlers, past
  <2>2. ASSUME Claim(h) PROVE QuotesOwed'
    BY <2>2 DEF Claim, Take, Claims, Claimed, Goto, At, row, cause, suspension,
        renewal, money, marks, handlers, past
  <2>3. ASSUME ClaimRefused(h) PROVE QuotesOwed'
    BY <2>3 DEF ClaimRefused, Claims, Return, Leave, At, row, cause, suspension,
        renewal, money, marks, handlers, past
  <2>4. ASSUME Restore(h) PROVE QuotesOwed'
    BY <2>4 DEF Restore, Return, Leave, At, row, cause, suspension, renewal, money,
        marks, handlers, past
  <2>5. ASSUME ExpiryRestore(h) PROVE QuotesOwed'
    BY <2>5 DEF ExpiryRestore, Return, Leave, At, row, cause, suspension, renewal,
        money, marks, handlers, past
  <2> QED BY <1>3, <2>1, <2>2, <2>3, <2>4, <2>5 DEF ClaimSteps
<1>4. ASSUME NEW h \in Handler, MachineSteps(h) PROVE QuotesOwed'
  <2>1. ASSUME MachineDeleted(h) PROVE QuotesOwed'
    BY <2>1 DEF MachineDeleted, Machines, Goto, Return, Leave, At, row, cause,
        suspension, renewal, money, marks, handlers, past
  <2>2. ASSUME MachineFails(h) PROVE QuotesOwed'
    BY <2>2 DEF MachineFails, Machines, Goto, At, row, cause, suspension, renewal,
        money, marks, handlers, past
  <2>3. ASSUME AdminMachine(h) PROVE QuotesOwed'
    BY <2>3 DEF AdminMachine, Return, Leave, At, row, cause, suspension, renewal,
        money, marks, handlers, past
  <2> QED BY <1>4, <2>1, <2>2, <2>3 DEF MachineSteps
<1>5. ASSUME NEW h \in Handler, Payments(h) PROVE QuotesOwed'
  <2>1. ASSUME Settle(h) PROVE QuotesOwed'
    <3>1. h \notin outrun
      BY <2>1, Zenon DEF Settle, PayBack, Overlooks
    <3>2. PICK paid \in 0 .. quote[h] : PayBack(h, paid)
      BY <2>1, Zenon DEF Settle
    <3>3. paid <= quote[h] /\ refunded' = refunded + paid
      BY <2>1, <3>2 DEF Settle, PayBack
    <3>4. Paid' <= spent' /\ UNCHANGED <<spent, granted>>
      BY <2>1, <3>1, <3>3 DEF Settle, PayBack, At
    <3>5. Dead'
      BY <2>1 DEF Settle, PayBack, Leave, At, row, suspension
    <3>6. \A g \in Handler : pc'[g] = "refund" => g \in outrun'
      BY <2>1 DEF Settle, PayBack, Leave, At
    <3>7. \A g \in Handler : pc'[g] \notin
             {"destroyMachine", "settle", "adminRefund", "ownerRefund"}
      BY <2>1 DEF Settle, Leave, At
    <3> QED BY <3>4, <3>5, <3>6, <3>7
  <2>2. ASSUME SettleFails(h) PROVE QuotesOwed'
    BY <2>2 DEF SettleFails, Return, Leave, At, row, cause, suspension, renewal,
        money, marks, handlers, past
  <2>3. ASSUME OwnerQuote(h) PROVE QuotesOwed'
    BY <2>3 DEF OwnerQuote, Quotes, MaxRefundable, At, row, cause, suspension,
        renewal, money, marks, handlers, past
  <2>4. ASSUME OwnerRefund(h) PROVE QuotesOwed'
    <3>1. h \notin outrun
      BY <2>4, Zenon DEF OwnerRefund, PayBack, Overlooks
    <3>2. quote[h] <= quote[h] /\ refunded' = refunded + quote[h]
      BY <2>4 DEF OwnerRefund, PayBack
    <3>3. Paid' <= spent' /\ UNCHANGED <<spent, granted>>
      BY <2>4, <3>1, <3>2 DEF OwnerRefund, PayBack, At
    <3>4. Dead'
      BY <2>4 DEF OwnerRefund, PayBack, Leave, At, row, suspension
    <3>5. \A g \in Handler : pc'[g] = "refund" => g \in outrun'
      BY <2>4 DEF OwnerRefund, PayBack, Leave, At
    <3>6. \A g \in Handler : pc'[g] \notin
             {"destroyMachine", "settle", "adminRefund", "ownerRefund"}
      BY <2>4 DEF OwnerRefund, Leave, At
    <3> QED BY <3>3, <3>4, <3>5, <3>6
  <2>5. ASSUME AdminRefund(h) PROVE QuotesOwed'
    <3>1. h \notin outrun
      BY <2>5, Zenon DEF AdminRefund, PayBack, Overlooks
    <3>2. quote[h] <= quote[h] /\ refunded' = refunded + quote[h]
      BY <2>5 DEF AdminRefund, PayBack
    <3>3. Paid' <= spent' /\ UNCHANGED <<spent, granted>>
      BY <2>5, <3>1, <3>2 DEF AdminRefund, PayBack, At
    <3>4. Dead'
      BY <2>5 DEF AdminRefund, PayBack, Leave, At, row, suspension
    <3>5. \A g \in Handler : pc'[g] = "refund" => g \in outrun'
      BY <2>5 DEF AdminRefund, PayBack, Leave, At
    <3>6. \A g \in Handler : pc'[g] \notin
             {"destroyMachine", "settle", "adminRefund", "ownerRefund"}
      BY <2>5 DEF AdminRefund, Leave, At
    <3> QED BY <3>3, <3>4, <3>5, <3>6
  <2>6. ASSUME AdminRefundFails(h) PROVE QuotesOwed'
    BY <2>6 DEF AdminRefundFails, Goto, At, row, cause, suspension, renewal, money,
        marks, handlers, past
  <2>7. ASSUME Refund(h) PROVE QuotesOwed'
    <3>1. h \notin outrun /\ recorded = Paid
      BY <2>7, Zenon DEF Refund, Overlooks
    <3>2. Paid' <= spent' /\ recorded' = Paid'
      BY <2>7, <3>1 DEF Refund, At
    <3>3. \A g \in Handler : pc'[g] \in Quoting => g \in outrun'
      BY <2>7 DEF Refund, Leave, At, Quoting
    <3> QED BY <3>2, <3>3 DEF Quoting
  <2> QED BY <1>5, <2>1, <2>2, <2>3, <2>4, <2>5, <2>6, <2>7 DEF Payments
<1>6. ASSUME NEW h \in Handler, AdminWrites(h) PROVE QuotesOwed'
  <2>1. ASSUME Extend(h) PROVE QuotesOwed'
    BY <2>1 DEF Extend, Charge, Extended, Later, Since, LiftExpiry, Lift,
        SawExpired, Overtakes, Written, Leave, At, row, cause, suspension, renewal,
        money, marks, handlers, past
  <2>2. ASSUME FreeExtend(h) PROVE QuotesOwed'
    BY <2>2 DEF FreeExtend, Extended, Later, Since, LiftExpiry, Lift, SawExpired,
        Overtakes, Written, Leave, At, row, cause, suspension, renewal, money,
        marks, handlers, past
  <2>3. ASSUME Gift(h) PROVE QuotesOwed'
    BY <2>3 DEF Gift, Extended, Later, Since, Lift, SawExpired, Overtakes, Written,
        Leave, At, row, cause, suspension, renewal, money, marks, handlers, past
  <2>4. ASSUME ExtendAll(h) PROVE QuotesOwed'
    BY <2>4 DEF ExtendAll, Overtakes, Written, Leave, At, row, cause, suspension,
        renewal, money, marks, handlers, past
  <2>5. ASSUME Suspend(h) PROVE QuotesOwed'
    BY <2>5 DEF Suspend, Written, Return, Leave, At, row, cause, suspension,
        renewal, money, marks, handlers, past
  <2>6. ASSUME Unsuspend(h) PROVE QuotesOwed'
    BY <2>6 DEF Unsuspend, Lift, Written, Return, Leave, At, row, cause, suspension,
        renewal, money, marks, handlers, past
  <2> QED BY <1>6, <2>1, <2>2, <2>3, <2>4, <2>5, <2>6 DEF AdminWrites
<1>7. ASSUME NEW h \in Handler, Crash(h) PROVE QuotesOwed'
    BY <1>7 DEF Crash, Machines, Return, Leave, At, row, cause, suspension, renewal,
        money, marks, handlers, past
<1>8. ASSUME ToggleAutoRenew PROVE QuotesOwed'
    BY <1>8 DEF ToggleAutoRenew, row, cause, suspension, renewal, money, marks,
        handlers, past
<1>9. ASSUME ExpirySuspend PROVE QuotesOwed'
    BY <1>9 DEF ExpirySuspend, row, cause, suspension, renewal, money, marks,
        handlers, past
<1>10. ASSUME PowerChange PROVE QuotesOwed'
    BY <1>10 DEF PowerChange, row, cause, suspension, renewal, money, marks,
        handlers, past
<1>11. ASSUME Tick PROVE QuotesOwed'
    BY <1>11 DEF Tick, row, cause, suspension, renewal, money, marks, handlers, past
<1>12. ASSUME UNCHANGED vars PROVE QuotesOwed'
    BY <1>12 DEF vars, row, cause, suspension, renewal, money, marks, handlers, past
<1> QED BY <1>1, <1>2, <1>3, <1>4, <1>5, <1>6, <1>7, <1>8, <1>9, <1>10, <1>11, <1>12 DEF
        Next

LEMMA LastStep ==
    ASSUME TypeOK, SeenRow, OneClaim, QuotesOwed, LastPayment, Dead => Dead', ~trespassed,
           ~crossed, ~trespassed', ~crossed', [Next]_vars
    PROVE  LastPayment'
<1> USE BillingConstants DEF Paid, LastPayment, Dead, Restoring, Holding, Paying,
        OneClaim, SeenRow, Deleting, TypeOK
<1>1. ASSUME NEW h \in Handler, Renewals(h) PROVE LastPayment'
  <2>1. ASSUME BeginRenew(h) PROVE LastPayment'
    BY <2>1 DEF BeginRenew, Begin, Copy, Timed, At, row, cause, suspension, renewal,
        money, marks, handlers, past
  <2>2. ASSUME BeginAutoRenew(h) PROVE LastPayment'
    BY <2>2 DEF BeginAutoRenew, Begin, Copy, Timed, At, row, cause, suspension,
        renewal, money, marks, handlers, past
  <2>3. ASSUME Renew(h) PROVE LastPayment'
    BY <2>3 DEF Renew, Charge, Unchanged, Extended, Later, Since, SawExpired, Lift,
        Return, Leave, At, row, cause, suspension, renewal, money, marks, handlers,
        past
  <2>4. ASSUME RenewFails(h) PROVE LastPayment'
    BY <2>4 DEF RenewFails, Return, Leave, At, row, cause, suspension, renewal,
        money, marks, handlers, past
  <2>5. ASSUME AutoRenewFails(h) PROVE LastPayment'
    BY <2>5 DEF AutoRenewFails, SameRound, Return, Leave, At, row, cause,
        suspension, renewal, money, marks, handlers, past
  <2> QED BY <1>1, <2>1, <2>2, <2>3, <2>4, <2>5 DEF Renewals
<1>2. ASSUME NEW h \in Handler, Starts(h) PROVE LastPayment'
  <2>1. ASSUME BeginExpiryDelete(h) PROVE LastPayment'
    BY <2>1 DEF BeginExpiryDelete, Begin, Copy, Timed, At, Expired, row, cause,
        suspension, renewal, money, marks, handlers, past
  <2>2. ASSUME BeginDestroy(h) PROVE LastPayment'
    BY <2>2 DEF BeginDestroy, Begin, Copy, Timed, At, Quotes, MaxRefundable, row,
        cause, suspension, renewal, money, marks, handlers, past
  <2>3. ASSUME BeginOwnerDelete(h) PROVE LastPayment'
    BY <2>3 DEF BeginOwnerDelete, Begin, Copy, Timed, At, row, cause, suspension,
        renewal, money, marks, handlers, past
  <2>4. ASSUME BeginAdminDelete(h) PROVE LastPayment'
    BY <2>4 DEF BeginAdminDelete, Begin, Copy, Timed, At, Quotes, MaxRefundable,
        row, cause, suspension, renewal, money, marks, handlers, past
  <2>5. ASSUME BeginExtend(h) PROVE LastPayment'
    BY <2>5 DEF BeginExtend, Begin, Copy, Timed, At, row, cause, suspension,
        renewal, money, marks, handlers, past
  <2>6. ASSUME BeginSuspend(h) PROVE LastPayment'
    BY <2>6 DEF BeginSuspend, Begin, Copy, Timed, At, row, cause, suspension,
        renewal, money, marks, handlers, past
  <2>7. ASSUME BeginUnsuspend(h) PROVE LastPayment'
    BY <2>7 DEF BeginUnsuspend, Begin, Copy, Timed, At, row, cause, suspension,
        renewal, money, marks, handlers, past
  <2>8. ASSUME BeginRefund(h) PROVE LastPayment'
    BY <2>8 DEF BeginRefund, Begin, Copy, Timed, At, MaxRefundable, row, cause,
        suspension, renewal, money, marks, handlers, past
  <2> QED BY <1>2, <2>1, <2>2, <2>3, <2>4, <2>5, <2>6, <2>7, <2>8 DEF Starts
<1>3. ASSUME NEW h \in Handler, ClaimSteps(h) PROVE LastPayment'
  <2>1. ASSUME ExpiryClaim(h) PROVE LastPayment'
    BY <2>1 DEF ExpiryClaim, Goto, Expired, At, row, cause, suspension, renewal,
        money, marks, handlers, past
  <2>2. ASSUME Claim(h) PROVE LastPayment'
    BY <2>2 DEF Claim, Take, Claims, Claimed, Goto, At, row, cause, suspension,
        renewal, money, marks, handlers, past
  <2>3. ASSUME ClaimRefused(h) PROVE LastPayment'
    BY <2>3 DEF ClaimRefused, Claims, Return, Leave, At, row, cause, suspension,
        renewal, money, marks, handlers, past
  <2>4. ASSUME Restore(h) PROVE LastPayment'
    BY <2>4 DEF Restore, Return, Leave, At, row, cause, suspension, renewal, money,
        marks, handlers, past
  <2>5. ASSUME ExpiryRestore(h) PROVE LastPayment'
    BY <2>5 DEF ExpiryRestore, Return, Leave, At, row, cause, suspension, renewal,
        money, marks, handlers, past
  <2> QED BY <1>3, <2>1, <2>2, <2>3, <2>4, <2>5 DEF ClaimSteps
<1>4. ASSUME NEW h \in Handler, MachineSteps(h) PROVE LastPayment'
  <2>1. ASSUME MachineDeleted(h) PROVE LastPayment'
    BY <2>1 DEF MachineDeleted, Machines, Goto, Return, Leave, At, row, cause,
        suspension, renewal, money, marks, handlers, past
  <2>2. ASSUME MachineFails(h) PROVE LastPayment'
    BY <2>2 DEF MachineFails, Machines, Goto, At, row, cause, suspension, renewal,
        money, marks, handlers, past
  <2>3. ASSUME AdminMachine(h) PROVE LastPayment'
    BY <2>3 DEF AdminMachine, Return, Leave, At, row, cause, suspension, renewal,
        money, marks, handlers, past
  <2> QED BY <1>4, <2>1, <2>2, <2>3 DEF MachineSteps
<1>5. ASSUME NEW h \in Handler, Payments(h) PROVE LastPayment'
  <2>1. ASSUME Settle(h) PROVE LastPayment'
    BY <2>1 DEF Settle, PayBack, Overlooks, Leave, At, row, cause, suspension,
        renewal, money, marks, handlers, past
  <2>2. ASSUME SettleFails(h) PROVE LastPayment'
    BY <2>2 DEF SettleFails, Return, Leave, At, row, cause, suspension, renewal,
        money, marks, handlers, past
  <2>3. ASSUME OwnerQuote(h) PROVE LastPayment'
    BY <2>3 DEF OwnerQuote, Quotes, MaxRefundable, At, row, cause, suspension,
        renewal, money, marks, handlers, past
  <2>4. ASSUME OwnerRefund(h) PROVE LastPayment'
    BY <2>4 DEF OwnerRefund, PayBack, Overlooks, Leave, At, row, cause, suspension,
        renewal, money, marks, handlers, past
  <2>5. ASSUME AdminRefund(h) PROVE LastPayment'
    BY <2>5 DEF AdminRefund, PayBack, Overlooks, At, row, cause, suspension,
        renewal, money, marks, handlers, past
  <2>6. ASSUME AdminRefundFails(h) PROVE LastPayment'
    BY <2>6 DEF AdminRefundFails, Goto, At, row, cause, suspension, renewal, money,
        marks, handlers, past
  <2>7. ASSUME Refund(h) PROVE LastPayment'
    BY <2>7 DEF Refund, Overlooks, Quoting, Leave, At, row, cause, suspension,
        renewal, money, marks, handlers, past
  <2> QED BY <1>5, <2>1, <2>2, <2>3, <2>4, <2>5, <2>6, <2>7 DEF Payments
<1>6. ASSUME NEW h \in Handler, AdminWrites(h) PROVE LastPayment'
  <2>1. ASSUME Extend(h) PROVE LastPayment'
    BY <2>1 DEF Extend, Charge, Extended, Later, Since, LiftExpiry, Lift,
        SawExpired, Overtakes, Written, Leave, At, row, cause, suspension, renewal,
        money, marks, handlers, past
  <2>2. ASSUME FreeExtend(h) PROVE LastPayment'
    BY <2>2 DEF FreeExtend, Extended, Later, Since, LiftExpiry, Lift, SawExpired,
        Overtakes, Written, Leave, At, row, cause, suspension, renewal, money,
        marks, handlers, past
  <2>3. ASSUME Gift(h) PROVE LastPayment'
    BY <2>3 DEF Gift, Extended, Later, Since, Lift, SawExpired, Overtakes, Written,
        Leave, At, row, cause, suspension, renewal, money, marks, handlers, past
  <2>4. ASSUME ExtendAll(h) PROVE LastPayment'
    BY <2>4 DEF ExtendAll, Overtakes, Written, Leave, At, row, cause, suspension,
        renewal, money, marks, handlers, past
  <2>5. ASSUME Suspend(h) PROVE LastPayment'
    BY <2>5 DEF Suspend, Written, Return, Leave, At, row, cause, suspension,
        renewal, money, marks, handlers, past
  <2>6. ASSUME Unsuspend(h) PROVE LastPayment'
    BY <2>6 DEF Unsuspend, Lift, Written, Return, Leave, At, row, cause, suspension,
        renewal, money, marks, handlers, past
  <2> QED BY <1>6, <2>1, <2>2, <2>3, <2>4, <2>5, <2>6 DEF AdminWrites
<1>7. ASSUME NEW h \in Handler, Crash(h) PROVE LastPayment'
    BY <1>7 DEF Crash, Machines, Return, Leave, At, row, cause, suspension, renewal,
        money, marks, handlers, past
<1>8. ASSUME ToggleAutoRenew PROVE LastPayment'
    BY <1>8 DEF ToggleAutoRenew, row, cause, suspension, renewal, money, marks,
        handlers, past
<1>9. ASSUME ExpirySuspend PROVE LastPayment'
    BY <1>9 DEF ExpirySuspend, row, cause, suspension, renewal, money, marks,
        handlers, past
<1>10. ASSUME PowerChange PROVE LastPayment'
    BY <1>10 DEF PowerChange, row, cause, suspension, renewal, money, marks,
        handlers, past
<1>11. ASSUME Tick PROVE LastPayment'
    BY <1>11 DEF Tick, row, cause, suspension, renewal, money, marks, handlers, past
<1>12. ASSUME UNCHANGED vars PROVE LastPayment'
    BY <1>12 DEF vars, row, cause, suspension, renewal, money, marks, handlers, past
<1> QED BY <1>1, <1>2, <1>3, <1>4, <1>5, <1>6, <1>7, <1>8, <1>9, <1>10, <1>11, <1>12 DEF
        Next

LEMMA OverdueStep ==
    ASSUME TypeOK, SeenRow, OneClaim, OverdueRow, OverdueKnown, ~trespassed, ~trespassed',
           [Next]_vars
    PROVE  OverdueRow' /\ OverdueKnown'
<1> USE BillingConstants DEF OverdueRow, OverdueKnown, SawExpired, Holding, Restoring,
        OneClaim, SeenRow, Deleting, Expiring, TypeOK, Row
<1>1. ASSUME NEW h \in Handler, Renewals(h) PROVE OverdueRow' /\ OverdueKnown'
  <2>1. ASSUME BeginRenew(h) PROVE OverdueRow' /\ OverdueKnown'
    BY <2>1 DEF BeginRenew, Begin, Copy, Timed, At, row, cause, suspension, renewal,
        money, marks, handlers, past
  <2>2. ASSUME BeginAutoRenew(h) PROVE OverdueRow' /\ OverdueKnown'
    BY <2>2 DEF BeginAutoRenew, Begin, Copy, Timed, At, row, cause, suspension,
        renewal, money, marks, handlers, past
  <2>3. ASSUME Renew(h) PROVE OverdueRow' /\ OverdueKnown'
    BY <2>3 DEF Renew, Charge, Unchanged, Extended, Later, Since, SawExpired, Lift,
        Return, Leave, At, row, cause, suspension, renewal, money, marks, handlers,
        past
  <2>4. ASSUME RenewFails(h) PROVE OverdueRow' /\ OverdueKnown'
    BY <2>4 DEF RenewFails, Return, Leave, At, row, cause, suspension, renewal,
        money, marks, handlers, past
  <2>5. ASSUME AutoRenewFails(h) PROVE OverdueRow' /\ OverdueKnown'
    BY <2>5 DEF AutoRenewFails, SameRound, Return, Leave, At, row, cause,
        suspension, renewal, money, marks, handlers, past
  <2> QED BY <1>1, <2>1, <2>2, <2>3, <2>4, <2>5 DEF Renewals
<1>2. ASSUME NEW h \in Handler, Starts(h) PROVE OverdueRow' /\ OverdueKnown'
  <2>1. ASSUME BeginExpiryDelete(h) PROVE OverdueRow' /\ OverdueKnown'
    BY <2>1 DEF BeginExpiryDelete, Begin, Copy, Timed, At, Expired, row, cause,
        suspension, renewal, money, marks, handlers, past
  <2>2. ASSUME BeginDestroy(h) PROVE OverdueRow' /\ OverdueKnown'
    BY <2>2 DEF BeginDestroy, Begin, Copy, Timed, At, Quotes, MaxRefundable, row,
        cause, suspension, renewal, money, marks, handlers, past
  <2>3. ASSUME BeginOwnerDelete(h) PROVE OverdueRow' /\ OverdueKnown'
    BY <2>3 DEF BeginOwnerDelete, Begin, Copy, Timed, At, row, cause, suspension,
        renewal, money, marks, handlers, past
  <2>4. ASSUME BeginAdminDelete(h) PROVE OverdueRow' /\ OverdueKnown'
    BY <2>4 DEF BeginAdminDelete, Begin, Copy, Timed, At, Quotes, MaxRefundable,
        row, cause, suspension, renewal, money, marks, handlers, past
  <2>5. ASSUME BeginExtend(h) PROVE OverdueRow' /\ OverdueKnown'
    BY <2>5 DEF BeginExtend, Begin, Copy, Timed, At, row, cause, suspension,
        renewal, money, marks, handlers, past
  <2>6. ASSUME BeginSuspend(h) PROVE OverdueRow' /\ OverdueKnown'
    BY <2>6 DEF BeginSuspend, Begin, Copy, Timed, At, row, cause, suspension,
        renewal, money, marks, handlers, past
  <2>7. ASSUME BeginUnsuspend(h) PROVE OverdueRow' /\ OverdueKnown'
    BY <2>7 DEF BeginUnsuspend, Begin, Copy, Timed, At, row, cause, suspension,
        renewal, money, marks, handlers, past
  <2>8. ASSUME BeginRefund(h) PROVE OverdueRow' /\ OverdueKnown'
    BY <2>8 DEF BeginRefund, Begin, Copy, Timed, At, MaxRefundable, row, cause,
        suspension, renewal, money, marks, handlers, past
  <2> QED BY <1>2, <2>1, <2>2, <2>3, <2>4, <2>5, <2>6, <2>7, <2>8 DEF Starts
<1>3. ASSUME NEW h \in Handler, ClaimSteps(h) PROVE OverdueRow' /\ OverdueKnown'
  <2>1. ASSUME ExpiryClaim(h) PROVE OverdueRow' /\ OverdueKnown'
    BY <2>1 DEF ExpiryClaim, Goto, Expired, At, row, cause, suspension, renewal,
        money, marks, handlers, past
  <2>2. ASSUME Claim(h) PROVE OverdueRow' /\ OverdueKnown'
    BY <2>2 DEF Claim, Take, Claims, Claimed, Goto, At, row, cause, suspension,
        renewal, money, marks, handlers, past
  <2>3. ASSUME ClaimRefused(h) PROVE OverdueRow' /\ OverdueKnown'
    BY <2>3 DEF ClaimRefused, Claims, Return, Leave, At, row, cause, suspension,
        renewal, money, marks, handlers, past
  <2>4. ASSUME Restore(h) PROVE OverdueRow' /\ OverdueKnown'
    BY <2>4 DEF Restore, Return, Leave, At, row, cause, suspension, renewal, money,
        marks, handlers, past
  <2>5. ASSUME ExpiryRestore(h) PROVE OverdueRow' /\ OverdueKnown'
    BY <2>5 DEF ExpiryRestore, Return, Leave, At, row, cause, suspension, renewal,
        money, marks, handlers, past
  <2> QED BY <1>3, <2>1, <2>2, <2>3, <2>4, <2>5 DEF ClaimSteps
<1>4. ASSUME NEW h \in Handler, MachineSteps(h) PROVE OverdueRow' /\ OverdueKnown'
  <2>1. ASSUME MachineDeleted(h) PROVE OverdueRow' /\ OverdueKnown'
    BY <2>1 DEF MachineDeleted, Machines, Goto, Return, Leave, At, row, cause,
        suspension, renewal, money, marks, handlers, past
  <2>2. ASSUME MachineFails(h) PROVE OverdueRow' /\ OverdueKnown'
    BY <2>2 DEF MachineFails, Machines, Goto, At, row, cause, suspension, renewal,
        money, marks, handlers, past
  <2>3. ASSUME AdminMachine(h) PROVE OverdueRow' /\ OverdueKnown'
    BY <2>3 DEF AdminMachine, Return, Leave, At, row, cause, suspension, renewal,
        money, marks, handlers, past
  <2> QED BY <1>4, <2>1, <2>2, <2>3 DEF MachineSteps
<1>5. ASSUME NEW h \in Handler, Payments(h) PROVE OverdueRow' /\ OverdueKnown'
  <2>1. ASSUME Settle(h) PROVE OverdueRow' /\ OverdueKnown'
    BY <2>1 DEF Settle, PayBack, Overlooks, Leave, At, row, cause, suspension,
        renewal, money, marks, handlers, past
  <2>2. ASSUME SettleFails(h) PROVE OverdueRow' /\ OverdueKnown'
    BY <2>2 DEF SettleFails, Return, Leave, At, row, cause, suspension, renewal,
        money, marks, handlers, past
  <2>3. ASSUME OwnerQuote(h) PROVE OverdueRow' /\ OverdueKnown'
    BY <2>3 DEF OwnerQuote, Quotes, MaxRefundable, At, row, cause, suspension,
        renewal, money, marks, handlers, past
  <2>4. ASSUME OwnerRefund(h) PROVE OverdueRow' /\ OverdueKnown'
    BY <2>4 DEF OwnerRefund, PayBack, Overlooks, Leave, At, row, cause, suspension,
        renewal, money, marks, handlers, past
  <2>5. ASSUME AdminRefund(h) PROVE OverdueRow' /\ OverdueKnown'
    BY <2>5 DEF AdminRefund, PayBack, Overlooks, At, row, cause, suspension,
        renewal, money, marks, handlers, past
  <2>6. ASSUME AdminRefundFails(h) PROVE OverdueRow' /\ OverdueKnown'
    BY <2>6 DEF AdminRefundFails, Goto, At, row, cause, suspension, renewal, money,
        marks, handlers, past
  <2>7. ASSUME Refund(h) PROVE OverdueRow' /\ OverdueKnown'
    BY <2>7 DEF Refund, Overlooks, Quoting, Leave, At, row, cause, suspension,
        renewal, money, marks, handlers, past
  <2> QED BY <1>5, <2>1, <2>2, <2>3, <2>4, <2>5, <2>6, <2>7 DEF Payments
<1>6. ASSUME NEW h \in Handler, AdminWrites(h) PROVE OverdueRow' /\ OverdueKnown'
  <2>1. ASSUME Extend(h) PROVE OverdueRow' /\ OverdueKnown'
    BY <2>1 DEF Extend, Charge, Extended, Later, Since, LiftExpiry, Lift,
        SawExpired, Overtakes, Written, Leave, At, row, cause, suspension, renewal,
        money, marks, handlers, past
  <2>2. ASSUME FreeExtend(h) PROVE OverdueRow' /\ OverdueKnown'
    BY <2>2 DEF FreeExtend, Extended, Later, Since, LiftExpiry, Lift, SawExpired,
        Overtakes, Written, Leave, At, row, cause, suspension, renewal, money,
        marks, handlers, past
  <2>3. ASSUME Gift(h) PROVE OverdueRow' /\ OverdueKnown'
    BY <2>3 DEF Gift, Extended, Later, Since, Lift, SawExpired, Overtakes, Written,
        Leave, At, row, cause, suspension, renewal, money, marks, handlers, past
  <2>4. ASSUME ExtendAll(h) PROVE OverdueRow' /\ OverdueKnown'
    BY <2>4 DEF ExtendAll, Overtakes, Written, Leave, At, row, cause, suspension,
        renewal, money, marks, handlers, past
  <2>5. ASSUME Suspend(h) PROVE OverdueRow' /\ OverdueKnown'
    BY <2>5 DEF Suspend, Written, Return, Leave, At, row, cause, suspension,
        renewal, money, marks, handlers, past
  <2>6. ASSUME Unsuspend(h) PROVE OverdueRow' /\ OverdueKnown'
    BY <2>6 DEF Unsuspend, Lift, Written, Return, Leave, At, row, cause, suspension,
        renewal, money, marks, handlers, past
  <2> QED BY <1>6, <2>1, <2>2, <2>3, <2>4, <2>5, <2>6 DEF AdminWrites
<1>7. ASSUME NEW h \in Handler, Crash(h) PROVE OverdueRow' /\ OverdueKnown'
    BY <1>7 DEF Crash, Machines, Return, Leave, At, row, cause, suspension, renewal,
        money, marks, handlers, past
<1>8. ASSUME ToggleAutoRenew PROVE OverdueRow' /\ OverdueKnown'
    BY <1>8 DEF ToggleAutoRenew, row, cause, suspension, renewal, money, marks,
        handlers, past
<1>9. ASSUME ExpirySuspend PROVE OverdueRow' /\ OverdueKnown'
    BY <1>9 DEF ExpirySuspend, row, cause, suspension, renewal, money, marks,
        handlers, past
<1>10. ASSUME PowerChange PROVE OverdueRow' /\ OverdueKnown'
    BY <1>10 DEF PowerChange, row, cause, suspension, renewal, money, marks,
        handlers, past
<1>11. ASSUME Tick PROVE OverdueRow' /\ OverdueKnown'
    BY <1>11 DEF Tick, row, cause, suspension, renewal, money, marks, handlers, past
<1>12. ASSUME UNCHANGED vars PROVE OverdueRow' /\ OverdueKnown'
    BY <1>12 DEF vars, row, cause, suspension, renewal, money, marks, handlers, past
<1> QED BY <1>1, <1>2, <1>3, <1>4, <1>5, <1>6, <1>7, <1>8, <1>9, <1>10, <1>11, <1>12 DEF
        Next

LEMMA RoundStep ==
    ASSUME TypeOK, RoundInWindow, [Next]_vars
    PROVE  RoundInWindow'
<1> USE BillingConstants DEF RoundInWindow, TypeOK, Row
<1>1. ASSUME NEW h \in Handler, Renewals(h) PROVE RoundInWindow'
  <2>1. ASSUME BeginRenew(h) PROVE RoundInWindow'
    BY <2>1 DEF BeginRenew, Begin, Copy, Timed, At, row, cause, suspension, renewal,
        money, marks, handlers, past
  <2>2. ASSUME BeginAutoRenew(h) PROVE RoundInWindow'
    BY <2>2 DEF BeginAutoRenew, Begin, Copy, Timed, At, row, cause, suspension,
        renewal, money, marks, handlers, past
  <2>3. ASSUME Renew(h) PROVE RoundInWindow'
    BY <2>3 DEF Renew, Charge, Unchanged, Extended, Later, Since, SawExpired, Lift,
        Return, Leave, At, row, cause, suspension, renewal, money, marks, handlers,
        past
  <2>4. ASSUME RenewFails(h) PROVE RoundInWindow'
    BY <2>4 DEF RenewFails, Return, Leave, At, row, cause, suspension, renewal,
        money, marks, handlers, past
  <2>5. ASSUME AutoRenewFails(h) PROVE RoundInWindow'
    BY <2>5 DEF AutoRenewFails, SameRound, Return, Leave, At, row, cause,
        suspension, renewal, money, marks, handlers, past
  <2> QED BY <1>1, <2>1, <2>2, <2>3, <2>4, <2>5 DEF Renewals
<1>2. ASSUME NEW h \in Handler, Starts(h) PROVE RoundInWindow'
  <2>1. ASSUME BeginExpiryDelete(h) PROVE RoundInWindow'
    BY <2>1 DEF BeginExpiryDelete, Begin, Copy, Timed, At, Expired, row, cause,
        suspension, renewal, money, marks, handlers, past
  <2>2. ASSUME BeginDestroy(h) PROVE RoundInWindow'
    BY <2>2 DEF BeginDestroy, Begin, Copy, Timed, At, Quotes, MaxRefundable, row,
        cause, suspension, renewal, money, marks, handlers, past
  <2>3. ASSUME BeginOwnerDelete(h) PROVE RoundInWindow'
    BY <2>3 DEF BeginOwnerDelete, Begin, Copy, Timed, At, row, cause, suspension,
        renewal, money, marks, handlers, past
  <2>4. ASSUME BeginAdminDelete(h) PROVE RoundInWindow'
    BY <2>4 DEF BeginAdminDelete, Begin, Copy, Timed, At, Quotes, MaxRefundable,
        row, cause, suspension, renewal, money, marks, handlers, past
  <2>5. ASSUME BeginExtend(h) PROVE RoundInWindow'
    BY <2>5 DEF BeginExtend, Begin, Copy, Timed, At, row, cause, suspension,
        renewal, money, marks, handlers, past
  <2>6. ASSUME BeginSuspend(h) PROVE RoundInWindow'
    BY <2>6 DEF BeginSuspend, Begin, Copy, Timed, At, row, cause, suspension,
        renewal, money, marks, handlers, past
  <2>7. ASSUME BeginUnsuspend(h) PROVE RoundInWindow'
    BY <2>7 DEF BeginUnsuspend, Begin, Copy, Timed, At, row, cause, suspension,
        renewal, money, marks, handlers, past
  <2>8. ASSUME BeginRefund(h) PROVE RoundInWindow'
    BY <2>8 DEF BeginRefund, Begin, Copy, Timed, At, MaxRefundable, row, cause,
        suspension, renewal, money, marks, handlers, past
  <2> QED BY <1>2, <2>1, <2>2, <2>3, <2>4, <2>5, <2>6, <2>7, <2>8 DEF Starts
<1>3. ASSUME NEW h \in Handler, ClaimSteps(h) PROVE RoundInWindow'
  <2>1. ASSUME ExpiryClaim(h) PROVE RoundInWindow'
    BY <2>1 DEF ExpiryClaim, Goto, Expired, At, row, cause, suspension, renewal,
        money, marks, handlers, past
  <2>2. ASSUME Claim(h) PROVE RoundInWindow'
    BY <2>2 DEF Claim, Take, Claims, Claimed, Goto, At, row, cause, suspension,
        renewal, money, marks, handlers, past
  <2>3. ASSUME ClaimRefused(h) PROVE RoundInWindow'
    BY <2>3 DEF ClaimRefused, Claims, Return, Leave, At, row, cause, suspension,
        renewal, money, marks, handlers, past
  <2>4. ASSUME Restore(h) PROVE RoundInWindow'
    BY <2>4 DEF Restore, Return, Leave, At, row, cause, suspension, renewal, money,
        marks, handlers, past
  <2>5. ASSUME ExpiryRestore(h) PROVE RoundInWindow'
    BY <2>5 DEF ExpiryRestore, Return, Leave, At, row, cause, suspension, renewal,
        money, marks, handlers, past
  <2> QED BY <1>3, <2>1, <2>2, <2>3, <2>4, <2>5 DEF ClaimSteps
<1>4. ASSUME NEW h \in Handler, MachineSteps(h) PROVE RoundInWindow'
  <2>1. ASSUME MachineDeleted(h) PROVE RoundInWindow'
    BY <2>1 DEF MachineDeleted, Machines, Goto, Return, Leave, At, row, cause,
        suspension, renewal, money, marks, handlers, past
  <2>2. ASSUME MachineFails(h) PROVE RoundInWindow'
    BY <2>2 DEF MachineFails, Machines, Goto, At, row, cause, suspension, renewal,
        money, marks, handlers, past
  <2>3. ASSUME AdminMachine(h) PROVE RoundInWindow'
    BY <2>3 DEF AdminMachine, Return, Leave, At, row, cause, suspension, renewal,
        money, marks, handlers, past
  <2> QED BY <1>4, <2>1, <2>2, <2>3 DEF MachineSteps
<1>5. ASSUME NEW h \in Handler, Payments(h) PROVE RoundInWindow'
  <2>1. ASSUME Settle(h) PROVE RoundInWindow'
    BY <2>1 DEF Settle, PayBack, Overlooks, Leave, At, row, cause, suspension,
        renewal, money, marks, handlers, past
  <2>2. ASSUME SettleFails(h) PROVE RoundInWindow'
    BY <2>2 DEF SettleFails, Return, Leave, At, row, cause, suspension, renewal,
        money, marks, handlers, past
  <2>3. ASSUME OwnerQuote(h) PROVE RoundInWindow'
    BY <2>3 DEF OwnerQuote, Quotes, MaxRefundable, At, row, cause, suspension,
        renewal, money, marks, handlers, past
  <2>4. ASSUME OwnerRefund(h) PROVE RoundInWindow'
    BY <2>4 DEF OwnerRefund, PayBack, Overlooks, Leave, At, row, cause, suspension,
        renewal, money, marks, handlers, past
  <2>5. ASSUME AdminRefund(h) PROVE RoundInWindow'
    BY <2>5 DEF AdminRefund, PayBack, Overlooks, At, row, cause, suspension,
        renewal, money, marks, handlers, past
  <2>6. ASSUME AdminRefundFails(h) PROVE RoundInWindow'
    BY <2>6 DEF AdminRefundFails, Goto, At, row, cause, suspension, renewal, money,
        marks, handlers, past
  <2>7. ASSUME Refund(h) PROVE RoundInWindow'
    BY <2>7 DEF Refund, Overlooks, Quoting, Leave, At, row, cause, suspension,
        renewal, money, marks, handlers, past
  <2> QED BY <1>5, <2>1, <2>2, <2>3, <2>4, <2>5, <2>6, <2>7 DEF Payments
<1>6. ASSUME NEW h \in Handler, AdminWrites(h) PROVE RoundInWindow'
  <2>1. ASSUME Extend(h) PROVE RoundInWindow'
    BY <2>1 DEF Extend, Charge, Extended, Later, Since, LiftExpiry, Lift,
        SawExpired, Overtakes, Written, Leave, At, row, cause, suspension, renewal,
        money, marks, handlers, past
  <2>2. ASSUME FreeExtend(h) PROVE RoundInWindow'
    BY <2>2 DEF FreeExtend, Extended, Later, Since, LiftExpiry, Lift, SawExpired,
        Overtakes, Written, Leave, At, row, cause, suspension, renewal, money,
        marks, handlers, past
  <2>3. ASSUME Gift(h) PROVE RoundInWindow'
    BY <2>3 DEF Gift, Extended, Later, Since, Lift, SawExpired, Overtakes, Written,
        Leave, At, row, cause, suspension, renewal, money, marks, handlers, past
  <2>4. ASSUME ExtendAll(h) PROVE RoundInWindow'
    BY <2>4 DEF ExtendAll, Overtakes, Written, Leave, At, row, cause, suspension,
        renewal, money, marks, handlers, past
  <2>5. ASSUME Suspend(h) PROVE RoundInWindow'
    BY <2>5 DEF Suspend, Written, Return, Leave, At, row, cause, suspension,
        renewal, money, marks, handlers, past
  <2>6. ASSUME Unsuspend(h) PROVE RoundInWindow'
    BY <2>6 DEF Unsuspend, Lift, Written, Return, Leave, At, row, cause, suspension,
        renewal, money, marks, handlers, past
  <2> QED BY <1>6, <2>1, <2>2, <2>3, <2>4, <2>5, <2>6 DEF AdminWrites
<1>7. ASSUME NEW h \in Handler, Crash(h) PROVE RoundInWindow'
    BY <1>7 DEF Crash, Machines, Return, Leave, At, row, cause, suspension, renewal,
        money, marks, handlers, past
<1>8. ASSUME ToggleAutoRenew PROVE RoundInWindow'
    BY <1>8 DEF ToggleAutoRenew, row, cause, suspension, renewal, money, marks,
        handlers, past
<1>9. ASSUME ExpirySuspend PROVE RoundInWindow'
    BY <1>9 DEF ExpirySuspend, row, cause, suspension, renewal, money, marks,
        handlers, past
<1>10. ASSUME PowerChange PROVE RoundInWindow'
    BY <1>10 DEF PowerChange, row, cause, suspension, renewal, money, marks,
        handlers, past
<1>11. ASSUME Tick PROVE RoundInWindow'
    BY <1>11 DEF Tick, row, cause, suspension, renewal, money, marks, handlers, past
<1>12. ASSUME UNCHANGED vars PROVE RoundInWindow'
    BY <1>12 DEF vars, row, cause, suspension, renewal, money, marks, handlers, past
<1> QED BY <1>1, <1>2, <1>3, <1>4, <1>5, <1>6, <1>7, <1>8, <1>9, <1>10, <1>11, <1>12 DEF
        Next

LEMMA InitInv ==
    ASSUME Init PROVE IInv /\ GoneIsDead
<1> USE BillingConstants DEF Init
<1>1. TypeOK
    BY DEF TypeOK, Statuses, Reasons, Row, Steps, Nothing
<1>2. SeenRow /\ OneClaim /\ FreshExpiry /\ RoundInWindow /\ GoneIsDead
    BY DEF SeenRow, Deleting, Expiring, OneClaim, Holding, FreshExpiry,
        RoundInWindow, GoneIsDead
<1>3. Bounded
    BY DEF Bounded, QuotesOwed, Paid, Owed, LastPayment
<1>4. Overdue
    BY DEF Overdue, OverdueRow, OverdueKnown, Restoring
<1> QED BY <1>1, <1>2, <1>3, <1>4 DEF IInv

LEMMA NextInv ==
    ASSUME IInv, [Next]_vars PROVE IInv'
<1>1. TypeOK' /\ SeenRow'
    BY TypeStep, SeenStep DEF IInv
<1>2. OneClaim'
    BY ClaimStep DEF IInv
<1>3. FreshExpiry'
    BY FreshStep DEF IInv
<1>4. (trespassed => trespassed') /\ (crossed => crossed')
    BY PastStays DEF IInv, PastKept
<1>5. Bounded'
  <2>1. CASE crossed' \/ trespassed'
      BY <2>1 DEF Bounded
  <2>2. CASE ~ (crossed' \/ trespassed')
    <3>1. ~trespassed /\ ~crossed /\ ~trespassed' /\ ~crossed'
        BY <2>2, <1>4
    <3>2. QuotesOwed /\ LastPayment
        BY <3>1 DEF IInv, Bounded
    <3>3. Dead => Dead'
        BY <3>1, DeadStep DEF IInv
    <3>4. QuotesOwed' /\ LastPayment'
        BY <3>1, <3>2, <3>3, QuotesStep, LastStep DEF IInv
    <3> QED BY <3>4 DEF Bounded
  <2> QED BY <2>1, <2>2
<1>6. Overdue'
  <2>1. CASE trespassed'
      BY <2>1 DEF Overdue
  <2>2. CASE ~trespassed'
    <3>1. OverdueRow /\ OverdueKnown /\ ~trespassed
        BY <2>2, <1>4 DEF IInv, Overdue
    <3>2. OverdueRow' /\ OverdueKnown'
        BY <3>1, <2>2, OverdueStep DEF IInv
    <3> QED BY <3>2 DEF Overdue
  <2> QED BY <2>1, <2>2
<1>7. RoundInWindow'
    BY RoundStep DEF IInv
<1> QED BY <1>1, <1>2, <1>3, <1>5, <1>6, <1>7 DEF IInv

LEMMA GoneNext ==
    ASSUME PromptDeletes, IInv, GoneIsDead, [Next]_vars PROVE GoneIsDead'
<1>1. CASE trespassed' \/ ~gone'
    BY <1>1 DEF GoneIsDead
<1>2. CASE ~trespassed' /\ gone'
  <2>1. ~trespassed
      BY <1>2, PastStays DEF IInv, PastKept
  <2>2. CASE gone
      BY <1>2, <2>1, <2>2, DeadStep DEF IInv, GoneIsDead
  <2>3. CASE ~gone
      BY <1>2, <2>1, <2>3, GoneStep DEF IInv, GoneIsDead
  <2> QED BY <2>2, <2>3
<1> QED BY <1>1, <1>2

(* Who renews and is charged takes the step of a renewal.                  *)
LEMMA ChargeIsRenewal ==
    ASSUME IInv, [Next]_vars, NEW h \in Handler, Renews(h)
    PROVE  Renew(h)
<1> USE BillingConstants DEF IInv, TypeOK, Renews
<1>1. ASSUME UNCHANGED spent PROVE FALSE
    BY <1>1
<1>2. ASSUME NEW g \in Handler, Renewals(g) PROVE Renew(h)
  <2>1. Renew(g)
      BY <1>1, <1>2 DEF Renewals, BeginRenew, BeginAutoRenew, RenewFails,
          AutoRenewFails, Begin, money
  <2>2. g = h
      BY <2>1 DEF Renew, Return, Leave
  <2> QED BY <2>1, <2>2
<1>3. ASSUME NEW g \in Handler, Starts(g) PROVE FALSE
    BY <1>1, <1>3 DEF Starts, BeginExpiryDelete, BeginDestroy,
        BeginOwnerDelete, BeginAdminDelete, BeginExtend, BeginSuspend,
        BeginUnsuspend, BeginRefund, Begin, money
<1>4. ASSUME NEW g \in Handler, ClaimSteps(g) \/ MachineSteps(g) PROVE FALSE
    BY <1>1, <1>4 DEF ClaimSteps, ExpiryClaim, Claim, Take, ClaimRefused, Restore,
        ExpiryRestore, MachineSteps, MachineDeleted, MachineFails,
        AdminMachine, money
<1>5. ASSUME NEW g \in Handler, Payments(g) PROVE FALSE
    BY <1>1, <1>5 DEF Payments, Settle, SettleFails, OwnerQuote, OwnerRefund,
        AdminRefund, AdminRefundFails, Refund, PayBack, money
<1>6. ASSUME NEW g \in Handler, AdminWrites(g) PROVE FALSE
  <2>1. Extend(g)
      BY <1>1, <1>6 DEF AdminWrites, FreeExtend, Gift, ExtendAll, Suspend,
          Unsuspend, money
  <2> QED BY <2>1 DEF Extend, Overtakes, Leave, At
<1>7. ASSUME NEW g \in Handler, Crash(g) PROVE FALSE
    BY <1>1, <1>7 DEF Crash, money
<1>8. ASSUME \/ ToggleAutoRenew \/ ExpirySuspend \/ PowerChange \/ Tick
             \/ UNCHANGED vars
      PROVE  FALSE
    BY <1>1, <1>8
       DEF ToggleAutoRenew, ExpirySuspend, PowerChange, Tick, vars, money
<1> QED BY <1>2, <1>3, <1>4, <1>5, <1>6, <1>7, <1>8 DEF Next

(* The renewal compares the version, and its copy is fresh but for the     *)
(* extensions that came between.                                           *)
LEMMA ChargeStep ==
    ASSUME IInv, [Next]_vars, NEW h \in Handler, Renews(h)
    PROVE  /\ status # "deleted"
           /\ h \in behind \/ expiresAt' >= expiresAt + Period
<1> USE BillingConstants DEF IInv, TypeOK, Row
<1>1. Renew(h)
    BY ChargeIsRenewal
<1>2. status # "deleted" /\ (h \in behind \/ seen[h].expiresAt = expiresAt)
    BY <1>1 DEF Renew, Unchanged, FreshExpiry
<1>3. PICK now \in Nat : expiresAt' = Later(seen[h].expiresAt, now) + Period
    BY <1>1 DEF Renew, Extended, Since
<1> QED BY <1>2, <1>3 DEF Later

(* The job goes on to the machine in its claim only, which looks again.    *)
LEMMA ExpiryStep ==
    ASSUME IInv, [Next]_vars, NEW h \in Handler, At(h, "expiryClaim"),
           pc'[h] = "expiryMachine"
    PROVE  trespassed \/ stranded \/ expiresAt < clock
<1> USE BillingConstants DEF IInv, TypeOK, At
<1>1. ExpiryClaim(h)
  <2>1. ASSUME pc' = pc PROVE FALSE
      BY <2>1
  <2>2. ASSUME NEW g \in Handler, NEW s, pc' = [pc EXCEPT ![g] = s], s # "expiryMachine"
        PROVE  FALSE
      BY <2>2
  <2>3. ASSUME NEW g \in Handler, Renewals(g) PROVE FALSE
      BY <2>2, <2>3 DEF Renewals, BeginRenew, BeginAutoRenew, Renew, RenewFails,
          AutoRenewFails, Begin, Return, Leave
  <2>4. ASSUME NEW g \in Handler, Starts(g) PROVE FALSE
      BY <2>2, <2>4 DEF Starts, BeginExpiryDelete, BeginDestroy, BeginOwnerDelete,
          BeginAdminDelete, BeginExtend, BeginSuspend, BeginUnsuspend,
          BeginRefund, Begin
  <2>5. ASSUME NEW g \in Handler, ClaimSteps(g) PROVE ExpiryClaim(h)
      BY <2>2, <2>5 DEF ClaimSteps, ExpiryClaim, Claim, Take, Claims, Claimed,
          ClaimRefused, Restore, ExpiryRestore, Goto, Return, Leave
  <2>6. ASSUME NEW g \in Handler, MachineSteps(g) PROVE FALSE
      BY <2>2, <2>6 DEF MachineSteps, MachineDeleted, MachineFails, AdminMachine,
          Goto, Return, Leave
  <2>7. ASSUME NEW g \in Handler, Payments(g) PROVE FALSE
      BY <2>2, <2>7 DEF Payments, Settle, SettleFails, OwnerQuote, OwnerRefund,
          AdminRefund, AdminRefundFails, Refund, Goto, Return, Leave
  <2>8. ASSUME NEW g \in Handler, AdminWrites(g) PROVE FALSE
      BY <2>2, <2>8 DEF AdminWrites, Extend, FreeExtend, Gift, ExtendAll, Suspend,
          Unsuspend, Overtakes, Return, Leave
  <2>9. ASSUME NEW g \in Handler, Crash(g) PROVE FALSE
      BY <2>2, <2>9 DEF Crash, Return, Leave
  <2>10. ASSUME \/ ToggleAutoRenew \/ ExpirySuspend \/ PowerChange \/ Tick
                \/ UNCHANGED vars
         PROVE  FALSE
      BY <2>1, <2>10 DEF ToggleAutoRenew, ExpirySuspend, PowerChange, Tick, vars,
          handlers
  <2> QED BY <2>3, <2>4, <2>5, <2>6, <2>7, <2>8, <2>9, <2>10 DEF Next
<1>2. Expired /\ clock > since + Grace
    BY <1>1 DEF ExpiryClaim
<1>3. trespassed \/ stranded \/ expiresAt < since
    BY <1>2 DEF Overdue, OverdueRow, Expired
<1>4. expiresAt \in Nat /\ since \in Nat /\ clock \in Nat
    OBVIOUS
<1> QED BY <1>2, <1>3, <1>4

(* A charge of the job is a renewal of the row as its round has read it.   *)
LEMMA RoundPays ==
    ASSUME IInv, [Next]_vars, NEW h \in Handler, At(h, "autoRenew"), Renews(h)
    PROVE  h \in behind \/ expiresAt <= clock + Window
<1> USE BillingConstants DEF IInv, TypeOK, Row, At
<1>1. Renew(h)
    BY ChargeIsRenewal
<1>2. h \in behind \/ seen[h].expiresAt = expiresAt
    BY <1>1 DEF Renew, Unchanged, FreshExpiry
<1>3. seen[h].at <= clock /\ seen[h].expiresAt <= seen[h].at + Window
    BY DEF RoundInWindow
<1>4. seen[h].at \in Nat /\ expiresAt \in Nat /\ clock \in Nat
    OBVIOUS
<1> QED BY <1>2, <1>3, <1>4

----------------------------------------------------------------------------
(* Theorems                                                                *)

THEOREM Inductive == Spec => []IInv
<1>1. Init => IInv
    BY InitInv
<1>2. IInv /\ [Next]_vars => IInv'
    BY NextInv
<1> QED BY <1>1, <1>2, PTL DEF Spec

(* Rows, handlers and sums keep their types, and the balance of the owner  *)
(* never drops below zero (performRenewal, the extension route).           *)
THEOREM TypeCorrect == Spec => []TypeOK
<1>1. IInv => TypeOK
    BY DEF IInv
<1> QED BY <1>1, Inductive, PTL

(* Whatever deletions and refunds by administrators race each other, what  *)
(* is paid back exceeds what was paid (getMaxRefundable) only after a      *)
(* quote was paid that overlooked another payment, or after a deleted row  *)
(* was revived or claimed again.                                           *)
THEOREM RefundsBounded == Spec => []RefundsWithinPayments
<1>1. IInv => RefundsWithinPayments
    BY DEF IInv, Bounded, QuotesOwed, Paid, RefundsWithinPayments
<1> QED BY <1>1, Inductive, PTL

(* One deletion at a time holds the row (the claims of the four paths),    *)
(* until somebody revives a deleted row or claims it again.                *)
THEOREM ClaimsExclude == Spec => []OneClaim
<1>1. IInv => OneClaim
    BY DEF IInv
<1> QED BY <1>1, Inductive, PTL

(* No failure of a deletion gives a row back whose machine is gone, when   *)
(* the host deletes no machine after it reported a failure; the same       *)
(* exception.                                                              *)
THEOREM NoRowWithoutMachine ==
    ASSUME PromptDeletes
    PROVE  Spec => []GoneIsDeleted
<1>1. Init => GoneIsDead
    BY InitInv
<1>2. IInv /\ GoneIsDead /\ [Next]_vars => GoneIsDead'
    BY GoneNext
<1>3. GoneIsDead => GoneIsDeleted
    BY DEF GoneIsDead, Dead, GoneIsDeleted
<1> QED BY <1>1, <1>2, <1>3, Inductive, PTL DEF Spec

(* Every renewal that is charged adds its period to the time already paid  *)
(* (the version check of performRenewal), unless an extension came between *)
(* its copy of the row and the charge.                                     *)
THEOREM ChargesAddTime == Spec => ChargedTimeIsAdded
<1>1. IInv /\ [Next]_vars
        => [\A h \in Handler : Renews(h) =>
              /\ status # "deleted"
              /\ h \in behind \/ expiresAt' >= expiresAt + Period]_vars
    BY ChargeStep
<1> QED BY <1>1, Inductive, PTL DEF Spec, ChargedTimeIsAdded

(* The job deletes the machine of an instance whose time is over only,     *)
(* whoever renewed, extended, suspended or released it since its scan      *)
(* (the claim of processExpiryDelete), unless an extension left the row    *)
(* suspended as expired, or a deleted row was revived or claimed again.    *)
THEOREM JobDeletesExpired == Spec => ExpiryDeletesOnlyExpired
<1>1. IInv /\ [Next]_vars
        => [\A h \in Handler : At(h, "expiryClaim") /\ pc'[h] = "expiryMachine"
              => trespassed \/ stranded \/ expiresAt < clock]_vars
    BY ExpiryStep
<1> QED BY <1>1, Inductive, PTL DEF Spec, ExpiryDeletesOnlyExpired

(* A round of the job that meets a renewal by the owner pays nothing: what *)
(* it pays for is the period after this one (updateAutoRenewAttempt and    *)
(* the version check of performRenewal), unless an extension came between. *)
THEOREM JobPaysNextPeriod == Spec => AutoRenewalPaysNextPeriodOnly
<1>1. IInv /\ [Next]_vars
        => [\A h \in Handler : At(h, "autoRenew") /\ Renews(h)
              => h \in behind \/ expiresAt <= clock + Window]_vars
    BY RoundPays
<1> QED BY <1>1, Inductive, PTL DEF Spec, AutoRenewalPaysNextPeriodOnly
=============================================================================
