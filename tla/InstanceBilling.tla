-------------------------- MODULE InstanceBilling --------------------------
(***************************************************************************)
(* The billing life of one paid instance: renewals by its owner and by the *)
(* auto-renew job, suspension and deletion after expiry, destruction by    *)
(* its owner, deletion by the owner of the host or an administrator, and   *)
(* what administrators do to the row meanwhile.                            *)
(*                                                                         *)
(* Every operation reads the row, waits (for a lock, the host, another     *)
(* query) and then writes.  A handler is such an operation in flight; what *)
(* it read is seen[h].  Writes are single conditional updates or           *)
(* transactions, so each is one step.                                      *)
(*                                                                         *)
(* No guard reads the variables of the last group: they record what an     *)
(* operation did that the code does not prevent, and the properties say by *)
(* them what each such operation can break.                                *)
(***************************************************************************)
EXTENDS Naturals

CONSTANTS Handler,        \* operations in flight at most
          Kinds,          \* the operations that occur
          PromptDeletes,  \* a deletion reported failed never happens later
          Crashes,        \* the process of a handler may die
          Price, Period,  \* what a renewal costs and adds to the expiry
          Window, Grace,  \* auto-renew before expiry, deletion after suspension
          MaxAttempts,    \* AUTO_RENEW_MAX_ATTEMPTS
          Deposit,        \* the owner's balance after the purchase
          MaxTime, MaxExpiry, MaxSpent, MaxVersion  \* bounds

AllKinds == {"renew", "autoRenew", "expiryDelete", "destroy", "adminDelete",
             "ownerDelete", "extend", "freeExtend", "gift", "extendAll",
             "suspend", "unsuspend", "refund", "toggle"}
(* Those that compute an expiry.                                           *)
Timed == {"renew", "autoRenew", "extend", "freeExtend", "gift", "extendAll"}

ASSUME BillingConstants ==
    /\ Kinds \subseteq AllKinds
    /\ PromptDeletes \in BOOLEAN
    /\ Crashes \in BOOLEAN
    /\ Price \in Nat \ {0}
    /\ Period \in Nat \ {0}
    /\ Window \in Nat
    /\ Grace \in Nat
    /\ MaxAttempts \in Nat
    /\ Deposit \in Nat
    /\ MaxTime \in Nat
    /\ MaxExpiry \in Nat
    /\ MaxSpent \in Nat
    /\ MaxVersion \in Nat

VARIABLES
    status, reason, since,     \* the row: suspended since when and why
    version,                   \* its optimistic lock
    expiresAt,
    attempts, autoRenew,       \* failed rounds of the job; the owner's choice
    gone,                      \* the host has no machine for the row
    balance,                   \* of the instance's owner
    spent,                     \* sum of the positive billing records
    refunded,                  \* sum of what deletions paid back to the balance
    granted,                   \* sum of what refunds by administrators paid back
    recorded,                  \* sum of the billing records of type refund
    clock,
    pc,                        \* where each handler is
    seen,                      \* the row as the handler read it
    quote,                     \* the amount it means to pay back
    \* history
    outrun,                    \* its quote does not know of a payment made since
    behind,                    \* its copy does not know of an extension made since
    crossed,                   \* a quote was paid that overlooked a payment
    trespassed,                \* a deleted row was revived or claimed again
    stranded                   \* an extension left the row suspended as expired

cause == <<reason, since, stranded>>
suspension == <<status, cause>>
renewal == <<attempts, autoRenew>>
row == <<suspension, version, expiresAt, renewal>>
money == <<balance, spent, refunded, granted, recorded>>
marks == <<outrun, behind>>
handlers == <<pc, seen, quote, marks>>
past == <<crossed, trespassed>>
vars == <<row, gone, money, clock, handlers, past>>

(* What an idle handler has read.                                          *)
Nothing == [status |-> "none", reason |-> "none", since |-> 0, version |-> 0,
            expiresAt |-> 0, attempts |-> 0, at |-> 0]

(* What an operation keeps of the row it read.                             *)
Copy(kind) ==
    [status |-> status, reason |-> reason,
     since |-> IF kind = "gift" THEN since ELSE 0,
     version |-> IF kind \in {"renew", "autoRenew", "expiryDelete"} THEN version ELSE 0,
     expiresAt |-> IF kind \in Timed THEN expiresAt ELSE 0,
     attempts |-> IF kind = "autoRenew" THEN attempts ELSE 0,
     at |-> IF kind \in Timed \ {"extendAll"} THEN clock ELSE 0]

Later(a, b) == IF a > b THEN a ELSE b

Init ==
    /\ status = "running"
    /\ reason = "none"
    /\ since = 0
    /\ version = 0
    /\ expiresAt = Period
    /\ attempts = 0
    /\ autoRenew \in BOOLEAN
    /\ gone = FALSE
    /\ balance = Deposit
    /\ spent = Price
    /\ refunded = 0
    /\ granted = 0
    /\ recorded = 0
    /\ clock = 0
    /\ pc = [h \in Handler |-> "idle"]
    /\ quote = [h \in Handler |-> 0]
    /\ seen = [h \in Handler |-> Nothing]
    /\ outrun = {}
    /\ behind = {}
    /\ crossed = FALSE
    /\ trespassed = FALSE
    /\ stranded = FALSE

----------------------------------------------------------------------------
(* Handlers                                                                *)

At(h, s) == pc[h] = s
Goto(h, s) ==
    /\ pc' = [pc EXCEPT ![h] = s]
    /\ UNCHANGED <<seen, quote, marks>>
Leave(h) ==
    /\ pc' = [pc EXCEPT ![h] = "idle"]
    /\ seen' = [seen EXCEPT ![h] = Nothing]
    /\ quote' = [quote EXCEPT ![h] = 0]
Return(h) ==
    /\ Leave(h)
    /\ outrun' = outrun \ {h}
    /\ behind' = behind \ {h}
Expired == status = "suspended" /\ reason = "expired"
SawExpired(h) == seen[h].status = "suspended" /\ seen[h].reason = "expired"

(* A handler reads the row, decides to go on, and how much to pay back.    *)
Begin(h, kind, next, amount) ==
    /\ kind \in Kinds
    /\ At(h, "idle")
    /\ pc' = [pc EXCEPT ![h] = next]
    /\ quote' = [quote EXCEPT ![h] = amount]
    /\ seen' = [seen EXCEPT ![h] = Copy(kind)]
    /\ UNCHANGED <<row, gone, money, clock, marks, past>>

(* Mutation: refunds already paid do not count.                            *)
MaxRefundable_Gross == spent

(* maxRefundable of getMaxRefundable: what was paid less the refunds that  *)
(* have a billing record.                                                  *)
MaxRefundable == IF spent > recorded THEN spent - recorded ELSE 0

(* calculateInstanceRemainingRefundQuote: some part of it, by the unused   *)
(* time of each record; nothing after the expiry.                          *)
Quotes == IF expiresAt > clock THEN 0 .. MaxRefundable ELSE {0}

(* The expiry a renewal computes from what it read, some time after.       *)
Extended(h, now) == Later(seen[h].expiresAt, now) + Period
Since(h) == seen[h].at .. clock

----------------------------------------------------------------------------
(* Renewals                                                                *)

BeginRenew(h) ==
    /\ status # "deleted"
    /\ status = "suspended" => reason = "expired"
    /\ Begin(h, "renew", "renew", 0)

(* processAutoRenew reads the row again; after MaxAttempts failed rounds   *)
(* it only turns auto-renewal off, and so do the rounds after (the bound). *)
BeginAutoRenew(h) ==
    /\ autoRenew
    /\ attempts <= MaxAttempts
    /\ status \notin {"suspended", "deleted"}
    /\ clock < expiresAt /\ expiresAt <= clock + Window
    /\ LET next == IF attempts < MaxAttempts THEN "autoRenew" ELSE "giveUp"
       IN  Begin(h, "autoRenew", next, 0)

(* Mutation: the update does not compare the version.                      *)
Unchanged_NoVersion(h) == status # "deleted"

(* The condition of the update in performRenewal.                          *)
Unchanged(h) == status # "deleted" /\ version = seen[h].version

(* Mutation: the balance is read and not compared.                         *)
Charge_Unchecked ==
    /\ spent + Price <= MaxSpent
    /\ balance' = balance - Price
    /\ spent' = spent + Price

(* The conditional decrement of the balance and its billing record.        *)
Charge ==
    /\ spent + Price <= MaxSpent
    /\ balance >= Price
    /\ balance' = balance - Price
    /\ spent' = spent + Price

(* A suspended row is a stopped one again.                                 *)
Lift ==
    /\ status' = "stopped"
    /\ reason' = "none"
    /\ since' = 0
    /\ stranded' = FALSE

(* The transaction of performRenewal.                                      *)
Renew(h) ==
    /\ pc[h] \in {"renew", "autoRenew"}
    /\ version < MaxVersion
    /\ Charge
    /\ Unchanged(h)
    /\ \E now \in Since(h) : expiresAt' = Extended(h, now)
    /\ attempts' = 0
    /\ version' = version + 1
    /\ IF SawExpired(h)
         THEN Lift
         ELSE UNCHANGED suspension
    /\ Return(h)
    /\ UNCHANGED <<autoRenew, gone, refunded, granted, recorded, clock, past>>

(* It fails: a lock is busy, the balance too low, the row changed.  So may *)
(* the two transactions of administrators that move money.                 *)
RenewFails(h) ==
    /\ pc[h] \in {"renew", "extend", "refund"}
    /\ Return(h)
    /\ UNCHANGED <<row, gone, money, clock, past>>

(* The guard of updateAutoRenewAttempt.                                    *)
SameRound(h) ==
    /\ autoRenew
    /\ seen[h].at < expiresAt /\ expiresAt <= seen[h].at + Window
    /\ status \notin {"suspended", "deleted"}
    /\ version = seen[h].version
    /\ attempts = seen[h].attempts

(* The round of the job failed, or there were too many of them.            *)
AutoRenewFails(h) ==
    /\ pc[h] \in {"autoRenew", "giveUp"}
    /\ \/ ~ SameRound(h) /\ UNCHANGED renewal
       \/ SameRound(h) /\ attempts' = attempts + 1
          /\ \/ At(h, "autoRenew") /\ UNCHANGED autoRenew
             \/ At(h, "giveUp") /\ autoRenew' = FALSE
    /\ Return(h)
    /\ UNCHANGED <<suspension, version, expiresAt, gone, money, clock, past>>

(* The owner turns auto-renewal on or off.                                 *)
ToggleAutoRenew ==
    /\ "toggle" \in Kinds
    /\ autoRenew' = ~autoRenew
    /\ UNCHANGED <<suspension, version, expiresAt, attempts, gone, money, clock,
                   handlers, past>>

----------------------------------------------------------------------------
(* Expiry                                                                  *)

(* suspendInstanceByExpiry: one conditional update.                        *)
ExpirySuspend ==
    /\ status \in {"running", "stopped"}
    /\ expiresAt < clock
    /\ version < MaxVersion
    /\ status' = "suspended" /\ reason' = "expired" /\ since' = clock
    /\ stranded' = FALSE
    /\ version' = version + 1
    /\ UNCHANGED <<expiresAt, renewal, gone, money, clock, handlers, past>>

(* The status the host reports; never over suspended or deleted.           *)
PowerChange ==
    /\ status \in {"running", "stopped"}
    /\ status' = IF status = "running" THEN "stopped" ELSE "running"
    /\ UNCHANGED <<cause, version, expiresAt, renewal,
                   gone, money, clock, handlers, past>>

(* The scan of executeExpiryDelete, three days after the suspension.       *)
BeginExpiryDelete(h) ==
    /\ Expired
    /\ clock > since + Grace
    /\ Begin(h, "expiryDelete", "expiryClaim", 0)

(* Mutation: the claim trusts what the scan saw.                           *)
ExpiryClaim_Trusting(h) ==
    /\ At(h, "expiryClaim")
    /\ status # "deleted"
    /\ version < MaxVersion
    /\ status' = "deleted"
    /\ version' = version + 1
    /\ Goto(h, "expiryMachine")
    /\ UNCHANGED <<cause, expiresAt, renewal, gone, money, clock, past>>

(* processExpiryDelete claims what is still eligible.                      *)
ExpiryClaim(h) ==
    /\ At(h, "expiryClaim")
    /\ version = seen[h].version
    /\ Expired
    /\ clock > since + Grace
    /\ version < MaxVersion
    /\ status' = "deleted"
    /\ version' = version + 1
    /\ Goto(h, "expiryMachine")
    /\ UNCHANGED <<cause, expiresAt, renewal, gone, money, clock, past>>

(* restoreExpiryDeleteClaim                                                *)
ExpiryRestore(h) ==
    /\ At(h, "expiryRestore")
    /\ IF status = "deleted"
         THEN status' = "suspended" /\ version' = version + 1
         ELSE UNCHANGED <<status, version>>
    /\ Return(h)
    /\ UNCHANGED <<cause, expiresAt, renewal, gone, money, clock, past>>

----------------------------------------------------------------------------
(* Deletion by people: claim the row, delete the machine, pay back         *)

(* An owner may destroy a suspended instance only after its expiry.        *)
BeginDestroy(h) ==
    /\ status # "deleted"
    /\ status = "suspended" => reason = "expired" /\ expiresAt <= clock
    /\ \E amount \in Quotes : Begin(h, "destroy", "destroyClaim", amount)

(* The owner of the host or an administrator deletes it: the route looks   *)
(* at the status only to claim the row in that status.                     *)
BeginOwnerDelete(h) == Begin(h, "ownerDelete", "ownerClaim", 0)

(* delete-and-refund: the unused value, or all that was paid.              *)
BeginAdminDelete(h) ==
    /\ status # "deleted"
    /\ \E amount \in Quotes \cup {MaxRefundable} :
         Begin(h, "adminDelete", "adminClaim", amount)

Claims == {"destroyClaim", "ownerClaim", "adminClaim"}
Claimed == [destroyClaim |-> "destroyMachine", ownerClaim |-> "ownerMachine",
            adminClaim |-> "adminRefund"]

(* A deletion takes the row, whoever may hold it already.                  *)
Take(h) ==
    /\ status' = "deleted"
    /\ trespassed' = (trespassed \/ status = "deleted")
    /\ Goto(h, Claimed[pc[h]])
    /\ UNCHANGED <<cause, version, expiresAt, renewal, gone, money, clock, crossed>>

(* Mutation: the claim takes whatever status the row has and notes nothing.*)
Claim_Blind(h) ==
    /\ pc[h] \in Claims
    /\ status' = "deleted"
    /\ Goto(h, Claimed[pc[h]])
    /\ UNCHANGED <<cause, version, expiresAt, renewal, gone, money, clock, past>>

(* claimInstanceForUserDestroy, claimInstanceForDelete and                 *)
(* claimInstanceForAdminDelete: compare the status, not the version.  The  *)
(* second may have read a deleted row, and then claims it once more.       *)
Claim(h) ==
    /\ pc[h] \in Claims
    /\ status = seen[h].status
    /\ Take(h)

(* A lock is busy, a task of the instance is active, or the row changed.   *)
ClaimRefused(h) ==
    /\ pc[h] \in Claims \cup {"expiryClaim"}
    /\ Return(h)
    /\ UNCHANGED <<row, gone, money, clock, past>>

Machines == {"destroyMachine", "ownerMachine", "expiryMachine"}

(* The host deletes the machine.                                           *)
MachineDeleted(h) ==
    /\ pc[h] \in Machines
    /\ ~gone
    /\ gone' = TRUE
    /\ \/ At(h, "destroyMachine") /\ Goto(h, "settle")
       \/ At(h, "ownerMachine") /\ Goto(h, "ownerQuote")
       \/ At(h, "expiryMachine") /\ Return(h)
    /\ UNCHANGED <<row, money, clock, past>>

(* It says no, or says nothing in time and may delete the machine after.   *)
MachineFails(h) ==
    /\ pc[h] \in Machines
    /\ gone' \in {gone} \cup (IF PromptDeletes THEN {} ELSE {TRUE})
    /\ Goto(h, IF At(h, "expiryMachine") THEN "expiryRestore" ELSE "restore")
    /\ UNCHANGED <<row, money, clock, past>>

(* restoreClaimedInstanceStatus and its siblings                           *)
Restore(h) ==
    /\ At(h, "restore")
    /\ status' = IF status = "deleted" THEN seen[h].status ELSE status
    /\ Return(h)
    /\ UNCHANGED <<cause, version, expiresAt, renewal, gone, money, clock, past>>

(* A quote that is paid although another payment was made since, or one    *)
(* that has no record: by an administrator's refund, or over one.          *)
Overlooks(h) ==
    h \in outrun \/ (At(h, "refund") /\ recorded # refunded + granted)

(* Who computes or holds a quote.                                          *)
Quoting == {"destroyClaim", "destroyMachine", "settle", "adminClaim", "adminRefund",
            "ownerRefund", "refund"}

(* A deletion pays: refunds quoted before do not know of it.               *)
PayBack(h, amount) ==
    /\ balance' = balance + amount
    /\ refunded' = refunded + amount
    /\ crossed' = (crossed \/ Overlooks(h))
    /\ outrun' = (outrun \cup {g \in Handler : At(g, "refund")}) \ {h}
    /\ UNCHANGED <<spent, granted, behind, trespassed>>

(* settleUserDestroyBilling: no fee the first time, a tenth of it after.   *)
Settle(h) ==
    /\ At(h, "settle")
    /\ \E paid \in 0 .. quote[h] :
         /\ quote[h] > 0 => paid > 0
         /\ PayBack(h, paid)
         /\ recorded' = recorded + paid
    /\ Leave(h)
    /\ UNCHANGED <<row, gone, clock>>

(* The delete route quotes once the machine is gone, and pays that back    *)
(* without a billing record.                                               *)
OwnerQuote(h) ==
    /\ At(h, "ownerQuote")
    /\ \E amount \in Quotes : quote' = [quote EXCEPT ![h] = amount]
    /\ pc' = [pc EXCEPT ![h] = "ownerRefund"]
    /\ UNCHANGED <<row, gone, money, clock, seen, marks, past>>

OwnerRefund(h) ==
    /\ At(h, "ownerRefund")
    /\ PayBack(h, quote[h])
    /\ Leave(h)
    /\ UNCHANGED <<row, gone, recorded, clock>>

(* Mutation: every failure of the deletion gives the row back.             *)
SettleFails_Restores(h) ==
    /\ pc[h] \in {"settle", "ownerRefund"}
    /\ Goto(h, "restore")
    /\ UNCHANGED <<row, gone, money, clock, past>>

(* The transaction fails, on a lock of the host's owner or otherwise.      *)
SettleFails(h) ==
    /\ pc[h] \in {"settle", "ownerRefund"}
    /\ Return(h)
    /\ UNCHANGED <<row, gone, money, clock, past>>

(* delete-and-refund pays first.                                           *)
AdminRefund(h) ==
    /\ At(h, "adminRefund")
    /\ PayBack(h, quote[h])
    /\ recorded' = recorded + quote[h]
    /\ pc' = [pc EXCEPT ![h] = "adminMachine"]
    /\ UNCHANGED <<row, gone, clock, seen, quote>>

AdminRefundFails(h) ==
    /\ At(h, "adminRefund")
    /\ Goto(h, "restore")
    /\ UNCHANGED <<row, gone, money, clock, past>>

(* An error of the host is only logged.                                    *)
AdminMachine(h) ==
    /\ At(h, "adminMachine")
    /\ gone' \in {gone, TRUE}
    /\ Return(h)
    /\ UNCHANGED <<row, money, clock, past>>

----------------------------------------------------------------------------
(* What administrators and owners of hosts do to the row: each reads it,   *)
(* checks what it read, and writes it whatever it is by then               *)

BeginExtend(h) ==
    /\ status # "deleted"
    /\ expiresAt + Period <= MaxExpiry
    /\ \/ balance >= Price /\ Begin(h, "extend", "extend", 0)
       \/ \E kind \in {"freeExtend", "gift", "extendAll"} :
            Begin(h, kind, kind, 0)

(* The status is written: is a deleted row revived?                        *)
Written == trespassed' = (trespassed \/ (status = "deleted" /\ status' # "deleted"))

(* The expiry is written: the renewals under way do not know.              *)
Overtakes(h) ==
    /\ Leave(h)
    /\ Written
    /\ behind' = behind \cup {g \in Handler : pc[g] \in {"renew", "autoRenew"}}
    /\ UNCHANGED <<version, renewal, gone, refunded, granted, recorded, clock,
                   outrun, crossed>>

(* What a write from a copy of the row leaves of a suspension.             *)
LiftExpiry(h) ==
    IF SawExpired(h)
      THEN Lift
      ELSE stranded' = (reason = "expired") /\ UNCHANGED <<status, reason, since>>

(* The extension an administrator charges for.                             *)
Extend(h) ==
    /\ At(h, "extend")
    /\ Charge
    /\ \E now \in Since(h) : expiresAt' = Extended(h, now)
    /\ LiftExpiry(h)
    /\ Overtakes(h)

FreeExtend(h) ==
    /\ At(h, "freeExtend")
    /\ \E now \in Since(h) : expiresAt' = Extended(h, now)
    /\ LiftExpiry(h)
    /\ Overtakes(h)
    /\ UNCHANGED <<balance, spent>>

(* Days given by the owner of the host: every column is written back.      *)
Gift(h) ==
    /\ At(h, "gift")
    /\ \E now \in Since(h) : expiresAt' = Extended(h, now)
    /\ IF SawExpired(h)
         THEN Lift
         ELSE /\ status' = seen[h].status
              /\ reason' = seen[h].reason
              /\ since' = seen[h].since
              /\ stranded' = (seen[h].reason = "expired")
    /\ Overtakes(h)
    /\ UNCHANGED <<balance, spent>>

(* extend-all moves the expiry and nothing else.                           *)
ExtendAll(h) ==
    /\ At(h, "extendAll")
    /\ expiresAt' = seen[h].expiresAt + Period
    /\ stranded' = (reason = "expired")
    /\ UNCHANGED <<status, reason, since, balance, spent>>
    /\ Overtakes(h)

BeginSuspend(h) ==
    /\ status \notin {"suspended", "deleted"}
    /\ Begin(h, "suspend", "suspend", 0)

Suspend(h) ==
    /\ At(h, "suspend")
    /\ status' = "suspended" /\ reason' = "manual" /\ since' = clock
    /\ stranded' = FALSE
    /\ Written
    /\ Return(h)
    /\ UNCHANGED <<version, expiresAt, renewal, gone, money, clock, crossed>>

(* One of the three routes refuses while an expired instance is not        *)
(* renewed; the batch and the administrators' do not.                      *)
BeginUnsuspend(h) ==
    /\ status = "suspended"
    /\ Begin(h, "unsuspend", "unsuspend", 0)

Unsuspend(h) ==
    /\ At(h, "unsuspend")
    /\ Lift
    /\ Written
    /\ Return(h)
    /\ UNCHANGED <<version, expiresAt, renewal, gone, money, clock, crossed>>

(* The limit is read before the transaction that pays; the status is not.  *)
BeginRefund(h) ==
    \E amount \in 1 .. MaxRefundable : Begin(h, "refund", "refund", amount)

Refund(h) ==
    /\ At(h, "refund")
    /\ balance' = balance + quote[h]
    /\ granted' = granted + quote[h]
    /\ recorded' = recorded + quote[h]
    /\ crossed' = (crossed \/ Overlooks(h))
    /\ outrun' = (outrun \cup {g \in Handler : pc[g] \in Quoting}) \ {h}
    /\ Leave(h)
    /\ UNCHANGED <<row, gone, spent, refunded, clock, behind, trespassed>>

----------------------------------------------------------------------------

(* The process of a handler dies; the host ends what it was asked to do.   *)
Crash(h) ==
    /\ Crashes
    /\ ~At(h, "idle")
    /\ gone' \in {gone, gone \/ pc[h] \in Machines}
    /\ Return(h)
    /\ UNCHANGED <<row, money, clock, past>>

Tick ==
    /\ clock < MaxTime
    /\ clock' = clock + 1
    /\ UNCHANGED <<row, gone, money, handlers, past>>

Renewals(h) ==
    \/ BeginRenew(h) \/ BeginAutoRenew(h)
    \/ Renew(h) \/ RenewFails(h) \/ AutoRenewFails(h)

Starts(h) ==
    \/ BeginExpiryDelete(h) \/ BeginDestroy(h) \/ BeginOwnerDelete(h)
    \/ BeginAdminDelete(h) \/ BeginExtend(h) \/ BeginSuspend(h)
    \/ BeginUnsuspend(h) \/ BeginRefund(h)

ClaimSteps(h) ==
    \/ ExpiryClaim(h) \/ Claim(h) \/ ClaimRefused(h)
    \/ Restore(h) \/ ExpiryRestore(h)

MachineSteps(h) == MachineDeleted(h) \/ MachineFails(h) \/ AdminMachine(h)

Payments(h) ==
    \/ Settle(h) \/ SettleFails(h) \/ OwnerQuote(h) \/ OwnerRefund(h)
    \/ AdminRefund(h) \/ AdminRefundFails(h) \/ Refund(h)

AdminWrites(h) ==
    \/ Extend(h) \/ FreeExtend(h) \/ Gift(h) \/ ExtendAll(h)
    \/ Suspend(h) \/ Unsuspend(h)

Next ==
    \/ \E h \in Handler :
         \/ Renewals(h) \/ Starts(h) \/ ClaimSteps(h) \/ MachineSteps(h)
         \/ Payments(h) \/ AdminWrites(h) \/ Crash(h)
    \/ ToggleAutoRenew
    \/ ExpirySuspend
    \/ PowerChange
    \/ Tick

Spec == Init /\ [][Next]_vars

----------------------------------------------------------------------------
(* Properties                                                              *)

Steps == {"idle", "renew", "autoRenew", "giveUp", "expiryClaim", "expiryMachine",
          "expiryRestore", "restore", "settle", "ownerQuote", "ownerRefund",
          "adminMachine", "refund", "extend", "freeExtend", "gift", "extendAll",
          "suspend", "unsuspend", "destroyMachine", "ownerMachine", "adminRefund"}
         \cup Claims
Statuses == {"running", "stopped", "suspended", "deleted"}
Reasons == {"none", "expired", "manual"}
Row == [status : Statuses \cup {"none"}, reason : Reasons, since : Nat, version : Nat,
        expiresAt : Nat, attempts : Nat, at : Nat]

(* Types.  The owner's balance, decremented by a renewal, an auto-renewal  *)
(* and an administrator at once, never drops below zero.                   *)
TypeOK ==
    /\ status \in Statuses
    /\ reason \in Reasons
    /\ since \in Nat /\ version \in Nat /\ expiresAt \in Nat /\ attempts \in Nat
    /\ autoRenew \in BOOLEAN
    /\ gone \in BOOLEAN
    /\ balance \in Nat /\ spent \in Nat /\ refunded \in Nat /\ granted \in Nat
    /\ recorded \in Nat
    /\ clock \in Nat
    /\ pc \in [Handler -> Steps]
    /\ seen \in [Handler -> Row]
    /\ quote \in [Handler -> Nat]
    /\ outrun \subseteq Handler /\ behind \subseteq Handler
    /\ crossed \in BOOLEAN /\ trespassed \in BOOLEAN /\ stranded \in BOOLEAN

(* What is paid back for the instance, by deletions and by refunds of      *)
(* administrators in any order, never exceeds what was paid for it         *)
(* (getMaxRefundable), unless a quote was paid that overlooked another     *)
(* payment - the refund route reads its limit outside its transaction, and *)
(* a refund changes the limit others have read - or a deleted row was      *)
(* revived or claimed again.                                               *)
RefundsWithinPayments == crossed \/ trespassed \/ refunded + granted <= spent

(* Where a handler relies on having claimed the row.                       *)
Holding == {"destroyMachine", "ownerMachine", "expiryMachine", "restore",
            "expiryRestore", "settle", "ownerQuote", "ownerRefund", "adminRefund",
            "adminMachine"}

(* At most one deletion acts on the machine and the money at a time, and   *)
(* the row is deleted for all others while it does - until an              *)
(* administrator or the owner of the host writes a status over a deleted   *)
(* row, or claims it a second time: they read it without refusing that.    *)
OneClaim ==
    trespassed \/ \A h \in Handler : pc[h] \in Holding =>
        /\ status = "deleted"
        /\ \A g \in Handler : pc[g] \in Holding => g = h

(* A row that is not deleted has its machine: no refused, failed or        *)
(* repeated deletion gives a row back whose machine is gone, with the same *)
(* exception.                                                              *)
GoneIsDeleted == trespassed \/ (gone => status = "deleted")

(* The job deletes machines of instances whose time is over, however the   *)
(* row was renewed, extended, suspended or released since its scan read    *)
(* it, with the same exception and one more: an extension that read the    *)
(* row before it expired, or extend-all, leaves the row suspended.         *)
ExpiryDeletesOnlyExpired ==
    [][\A h \in Handler :
         At(h, "expiryClaim") /\ pc'[h] = "expiryMachine"
             => trespassed \/ stranded \/ expiresAt < clock]_vars

Renews(h) == pc[h] \in {"renew", "autoRenew"} /\ pc'[h] = "idle" /\ spent' > spent

(* Whoever renews and pays for a period gets it on top of the time already *)
(* paid, and nobody is charged for a deleted instance, however renewals,   *)
(* jobs and deletions race - unless an extension, which leaves the version *)
(* alone, came between the copy he read and the charge.                    *)
ChargedTimeIsAdded ==
    [][\A h \in Handler : Renews(h) =>
         /\ status # "deleted"
         /\ h \in behind \/ expiresAt' >= expiresAt + Period]_vars

(* The job pays for the period after this one only: a renewal by the owner *)
(* while a round is under way is not followed by a second charge.  The     *)
(* exception is the same.                                                  *)
AutoRenewalPaysNextPeriodOnly ==
    [][\A h \in Handler :
         At(h, "autoRenew") /\ Renews(h)
             => h \in behind \/ expiresAt <= clock + Window]_vars
=============================================================================
