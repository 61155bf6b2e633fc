--------------------------- MODULE RechargeOrder ---------------------------
(***************************************************************************)
(* One recharge order: the links its owner may pay it by, the answers of   *)
(* the payment gateway, the handlers that credit or close the order, and   *)
(* the refunds of what was credited.                                       *)
(*                                                                         *)
(* The gateway notifies in its own time, repeats what was not acknowledged *)
(* and is also asked by the owner (verify) and by administrators (sync).   *)
(* Asking for another link (repay) makes it the order's only valid one.    *)
(* A handler reads the order, talks to the gateway, and writes with a      *)
(* condition on the status only.                                           *)
(***************************************************************************)
EXTENDS Naturals

CONSTANTS Link,      \* orders at the gateway, one per attempt to pay
          First,     \* the one made with the order
          Handler,   \* requests in flight at most
          Kinds,     \* the operations that occur; "pending": answers that
                     \* a payment is under way
          Provider,  \* the type of the payment channel
          Amount,    \* what the order credits
          Crashes,   \* the process of a handler may die
          MaxRequests, MaxReclaimed  \* bounds on refunds

AllKinds == {"callback", "verify", "sync", "repay", "cancel", "expire",
             "complete", "fail", "clean", "refund", "pending",
             "repayExpired"}

ASSUME RechargeConstants ==
    /\ First \in Link
    /\ Kinds \subseteq AllKinds
    /\ Provider \in {"yipay", "heleket", "antom"}
    /\ Amount \in Nat \ {0}
    /\ Crashes \in BOOLEAN
    /\ MaxRequests \in Nat
    /\ MaxReclaimed \in Nat

VARIABLES
    status,      \* of the order; "paid" is never written
    current,     \* the attempt in paymentDetails
    age,         \* "open", "expired", or "overdue": past the grace too
    marked,      \* the attempts with a row in payment_callbacks
    gateway,     \* each link at the gateway
    credits,     \* rows of type recharge in the balance log
    credited,    \* their sum
    requests,    \* refunds waiting for approval
    reclaimed,   \* sum of the approved ones
    pc,          \* where each handler is
    seenStatus, seenLink,  \* the order as the handler read it
    link,        \* the attempt it is about
    notice       \* what the gateway says in it

order == <<status, current, age>>
ledger == <<credits, credited>>
refunds == <<requests, reclaimed>>
handlers == <<pc, seenStatus, seenLink, link, notice>>
vars == <<order, marked, gateway, ledger, refunds, handlers>>

Init ==
    /\ status = "pending"
    /\ current = First
    /\ age = "open"
    /\ marked = {}
    /\ gateway = [a \in Link |-> IF a = First THEN "open" ELSE "none"]
    /\ credits = 0
    /\ credited = 0
    /\ requests = 0
    /\ reclaimed = 0
    /\ pc = [h \in Handler |-> "idle"]
    /\ seenStatus = [h \in Handler |-> "pending"]
    /\ seenLink = [h \in Handler |-> First]
    /\ link = [h \in Handler |-> First]
    /\ notice = [h \in Handler |-> "pending"]

----------------------------------------------------------------------------
(* Handlers                                                                *)

At(h, s) == pc[h] = s

(* The handler goes on; what it has read stays.                            *)
Goto(h, s) ==
    /\ pc' = [pc EXCEPT ![h] = s]
    /\ UNCHANGED <<seenStatus, seenLink, link, notice>>

(* It is done and forgets what it read.                                    *)
Return(h) ==
    /\ pc' = [pc EXCEPT ![h] = "idle"]
    /\ seenStatus' = [seenStatus EXCEPT ![h] = "pending"]
    /\ seenLink' = [seenLink EXCEPT ![h] = First]
    /\ link' = [link EXCEPT ![h] = First]
    /\ notice' = [notice EXCEPT ![h] = "pending"]

(* A handler reads the order and starts on attempt a.                      *)
Begin(h, kind, next, a, n) ==
    /\ kind \in Kinds
    /\ At(h, "idle")
    /\ pc' = [pc EXCEPT ![h] = next]
    /\ seenStatus' = [seenStatus EXCEPT ![h] = status]
    /\ seenLink' = [seenLink EXCEPT ![h] = current]
    /\ link' = [link EXCEPT ![h] = a]
    /\ notice' = [notice EXCEPT ![h] = n]
    /\ UNCHANGED <<order, marked, gateway, ledger, refunds>>

----------------------------------------------------------------------------
(* The gateway and time                                                    *)

(* The owner pays a link he was given, in time or not: nothing at the      *)
(* gateway is cancelled.                                                   *)
Pay(a) ==
    /\ gateway[a] = "open"
    /\ gateway' = [gateway EXCEPT ![a] = "paid"]
    /\ UNCHANGED <<order, marked, ledger, refunds, handlers>>

(* An invoice ends unpaid.  yipay reports no such end, and no handler is   *)
(* so slow that an invoice ends before its link is handed out.             *)
Lapse(a) ==
    /\ Provider # "yipay"
    /\ \/ gateway[a] = "open"
       \/ gateway[a] = "made" /\ \A h \in Handler : link[h] # a
    /\ gateway' = [gateway EXCEPT ![a] = "failed"]
    /\ UNCHANGED <<order, marked, ledger, refunds, handlers>>

GrowOld ==
    /\ \/ age = "open" /\ age' = "expired"
       \/ age = "expired" /\ age' = "overdue"
    /\ UNCHANGED <<status, current, marked, gateway, ledger, refunds, handlers>>

NoticeKinds == {"pending", "paid", "failed"}

(* What the gateway may have said of a link at some time.                  *)
Notices(a) ==
    CASE gateway[a] = "open" -> {"pending"}
      [] gateway[a] = "paid" -> {"pending", "paid"}
      [] gateway[a] = "failed" -> {"pending", "failed"}
      [] OTHER -> {}

----------------------------------------------------------------------------
(* Writes to the order                                                     *)

(* Mutation: the update of completeRecharge has no condition.              *)
Completable_Always == TRUE

(* The condition of the update in completeRecharge.                        *)
Completable == status = "pending"

(* Mutation: the money is booked, the order only noted as paid.            *)
Credit_Paid(amount) ==
    /\ Completable
    /\ status' = "paid"
    /\ credits' = credits + 1
    /\ credited' = credited + amount

(* The transaction of completeRecharge: status, balance and its log.       *)
Credit(amount) ==
    /\ Completable
    /\ status' = "completed"
    /\ credits' = credits + 1
    /\ credited' = credited + amount

(* Mutation: failRecharge and cancelRecharge write unconditionally.        *)
Close_Always(s) == status' = s

(* cancelRecharge and failRecharge: nothing if the order is settled.       *)
Close(s) == status' = IF status = "pending" THEN s ELSE status

(* Handlers write the whole paymentDetails, the attempt included, as they  *)
(* have read them.                                                         *)
SaveDetails(h) ==
    current' = IF status = "pending" THEN seenLink[h] ELSE current

Mark(h) == marked' = marked \cup {link[h]}

----------------------------------------------------------------------------
(* Callbacks of the gateway                                                *)

BeginCallback(h, a, n) ==
    /\ n \in Notices(a)
    /\ n = "pending" => Provider # "yipay" /\ "pending" \in Kinds
    /\ Begin(h, "callback", "callback", a, n)

(* The callback is about an attempt that was not the current one.          *)
Superseded(h) == link[h] # seenLink[h]

(* Nothing to do: handled before.                                          *)
IgnoreCallback(h) ==
    /\ At(h, "callback")
    /\ link[h] \in marked
    /\ Return(h)
    /\ UNCHANGED <<order, marked, gateway, ledger, refunds>>

(* A superseded attempt or a completed order: acknowledged for good.       *)
DismissCallback(h) ==
    /\ At(h, "callback")
    /\ link[h] \notin marked
    /\ Superseded(h) \/ seenStatus[h] = "completed"
    /\ Mark(h)
    /\ Return(h)
    /\ UNCHANGED <<order, gateway, ledger, refunds>>

(* Those that go on.                                                       *)
Handled(h, n) ==
    /\ At(h, "callback")
    /\ link[h] \notin marked
    /\ ~Superseded(h)
    /\ seenStatus[h] # "completed"
    /\ notice[h] = n

CallbackPending(h) ==
    /\ Handled(h, "pending")
    /\ SaveDetails(h)
    /\ Return(h)
    /\ UNCHANGED <<status, age, marked, gateway, ledger, refunds>>

CallbackFailed(h) ==
    /\ Handled(h, "failed")
    /\ IF seenStatus[h] = "pending"
         THEN \E s \in {"cancelled", "failed"} : Close(s) /\ SaveDetails(h)
         ELSE UNCHANGED <<status, current>>
    /\ Goto(h, "mark")
    /\ UNCHANGED <<age, marked, gateway, ledger, refunds>>

(* Mutation: the callback is marked before it is handled.                  *)
CallbackPaid_MarksFirst(h) ==
    /\ Handled(h, "paid")
    /\ Mark(h)
    /\ IF seenStatus[h] = "pending" THEN Goto(h, "complete") ELSE Return(h)
    /\ UNCHANGED <<order, gateway, ledger, refunds>>

(* Paid; an order that was closed answers with an error, and the gateway   *)
(* tries again.                                                            *)
CallbackPaid(h) ==
    /\ Handled(h, "paid")
    /\ IF seenStatus[h] = "pending" THEN Goto(h, "complete") ELSE Return(h)
    /\ UNCHANGED <<order, marked, gateway, ledger, refunds>>

----------------------------------------------------------------------------
(* Asking the gateway                                                      *)

BeginVerify(h) ==
    /\ status = "pending"
    /\ Begin(h, "verify", "verify", current, "pending")

(* Administrators ask for the link that was made with the order.           *)
BeginSync(h) ==
    /\ status = "pending"
    /\ Provider # "antom"
    /\ Begin(h, "sync", "sync", First, "pending")

Asking(h) == pc[h] \in {"verify", "sync"}

QueryUnpaid(h) ==
    /\ Asking(h)
    /\ gateway[link[h]] = "open"
    /\ IF Provider # "yipay" /\ "pending" \in Kinds
         THEN SaveDetails(h)
         ELSE UNCHANGED current
    /\ Return(h)
    /\ UNCHANGED <<status, age, marked, gateway, ledger, refunds>>

QueryFailed(h) ==
    /\ Asking(h)
    /\ gateway[link[h]] = "failed"
    /\ \E s \in {"cancelled", "failed"} : Close(s)
    /\ SaveDetails(h)
    /\ IF Provider = "antom" THEN Goto(h, "mark") ELSE Return(h)
    /\ UNCHANGED <<age, marked, gateway, ledger, refunds>>

(* Of a link that is not the current one the amount may differ, for yipay  *)
(* adds a fee by payment method.                                           *)
QueryPaid(h) ==
    /\ Asking(h)
    /\ gateway[link[h]] = "paid"
    /\ \/ /\ link[h] \notin marked
          /\ Goto(h, "complete")
       \/ /\ link[h] \in marked \/ (Provider = "yipay" /\ link[h] # seenLink[h])
          /\ Return(h)
    /\ UNCHANGED <<order, marked, gateway, ledger, refunds>>

----------------------------------------------------------------------------
(* completeRecharge and what follows                                       *)

Complete(h) ==
    /\ At(h, "complete")
    /\ Credit(Amount)
    /\ current' = seenLink[h]
    /\ Goto(h, "mark")
    /\ UNCHANGED <<age, marked, gateway, refunds>>

(* It was completed before, or closed.                                     *)
CompleteLate(h) ==
    /\ At(h, "complete")
    /\ ~Completable
    /\ IF status = "completed" THEN Goto(h, "mark") ELSE Return(h)
    /\ UNCHANGED <<order, marked, gateway, ledger, refunds>>

MarkProcessed(h) ==
    /\ At(h, "mark")
    /\ Mark(h)
    /\ Return(h)
    /\ UNCHANGED <<order, gateway, ledger, refunds>>

----------------------------------------------------------------------------
(* Another link                                                            *)

BeginRepay(h) ==
    /\ status = "pending"
    /\ age = "open"
    /\ Begin(h, "repay", "open", current, "pending")

(* An expired order is cancelled at once.                                  *)
RepayExpired ==
    /\ "repayExpired" \in Kinds
    /\ status = "pending"
    /\ age # "open"
    /\ Close("cancelled")
    /\ UNCHANGED <<current, age, marked, gateway, ledger, refunds, handlers>>

OpenLink(h) ==
    /\ At(h, "open")
    /\ \E a \in Link :
         /\ gateway[a] = "none"
         /\ gateway' = [gateway EXCEPT ![a] = "made"]
         /\ link' = [link EXCEPT ![h] = a]
    /\ pc' = [pc EXCEPT ![h] = "save"]
    /\ UNCHANGED <<order, marked, ledger, refunds, seenStatus, seenLink, notice>>

(* The order takes the new attempt and the owner gets its link, unless the *)
(* order is settled by now.                                                *)
SaveRepay(h) ==
    /\ At(h, "save")
    /\ status = "pending"
    /\ current' = link[h]
    /\ gateway' = [gateway EXCEPT ![link[h]] = "open"]
    /\ Return(h)
    /\ UNCHANGED <<status, age, marked, ledger, refunds>>

(* The gateway answers with an error, or the order is settled.             *)
RepayFails(h) ==
    /\ At(h, "open") \/ (At(h, "save") /\ status # "pending")
    /\ Return(h)
    /\ UNCHANGED <<order, marked, gateway, ledger, refunds>>

----------------------------------------------------------------------------
(* The owner, the scheduler and administrators                             *)

Cancel ==
    /\ "cancel" \in Kinds
    /\ status = "pending"
    /\ Close("cancelled")
    /\ UNCHANGED <<current, age, marked, gateway, ledger, refunds, handlers>>

(* cleanExpiredRechargeOrders                                              *)
Expire ==
    /\ "expire" \in Kinds
    /\ status = "pending"
    /\ age = "overdue"
    /\ status' = "cancelled"
    /\ UNCHANGED <<current, age, marked, gateway, ledger, refunds, handlers>>

AdminComplete ==
    /\ "complete" \in Kinds
    /\ status = "pending"
    /\ \E amount \in 1 .. Amount : Credit(amount)
    /\ UNCHANGED <<current, age, marked, gateway, refunds, handlers>>

AdminFail ==
    /\ "fail" \in Kinds
    /\ status = "pending"
    /\ Close("failed")
    /\ UNCHANGED <<current, age, marked, gateway, ledger, refunds, handlers>>

(* cleanOldPaymentCallbacks, after thirty days.                            *)
CleanMarks ==
    /\ "clean" \in Kinds
    /\ age = "overdue"
    /\ marked' = {}
    /\ UNCHANGED <<order, gateway, ledger, refunds, handlers>>

----------------------------------------------------------------------------
(* Refunds of the credit take it back from the balance.                    *)

BeginRefund(h) ==
    /\ status = "completed"
    /\ requests = 0
    /\ Begin(h, "refund", "refund", First, "pending")

RequestRefund(h) ==
    /\ At(h, "refund")
    /\ requests < MaxRequests
    /\ requests' = requests + 1
    /\ Return(h)
    /\ UNCHANGED <<order, marked, gateway, ledger, reclaimed>>

(* Each request is for at most what was credited.                          *)
ApproveRefund ==
    /\ requests > 0
    /\ requests' = requests - 1
    /\ \E amount \in 1 .. credited :
         /\ reclaimed + amount <= MaxReclaimed
         /\ reclaimed' = reclaimed + amount
    /\ UNCHANGED <<order, marked, gateway, ledger, handlers>>

RejectRefund ==
    /\ requests > 0
    /\ requests' = requests - 1
    /\ UNCHANGED <<order, marked, gateway, ledger, reclaimed, handlers>>

----------------------------------------------------------------------------
Crash(h) ==
    /\ Crashes
    /\ ~At(h, "idle")
    /\ Return(h)
    /\ UNCHANGED <<order, marked, gateway, ledger, refunds>>

Answers(h) ==
    IgnoreCallback(h) \/ DismissCallback(h) \/ CallbackPending(h)
        \/ CallbackFailed(h) \/ CallbackPaid(h)
Queries(h) == QueryUnpaid(h) \/ QueryFailed(h) \/ QueryPaid(h)
Credits(h) == Complete(h) \/ CompleteLate(h) \/ MarkProcessed(h)
Repays(h) ==
    OpenLink(h) \/ SaveRepay(h) \/ RepayFails(h) \/ RequestRefund(h)
Requests(h) ==
    (\E a \in Link, n \in NoticeKinds : BeginCallback(h, a, n))
        \/ BeginVerify(h) \/ BeginSync(h) \/ BeginRepay(h)
        \/ BeginRefund(h)
Continues(h) == Answers(h) \/ Queries(h) \/ Credits(h) \/ Repays(h)
Alone ==
    RepayExpired \/ Cancel \/ Expire \/ AdminComplete \/ AdminFail \/ CleanMarks
        \/ ApproveRefund \/ RejectRefund

Next ==
    \/ \E a \in Link : Pay(a) \/ Lapse(a)
    \/ GrowOld
    \/ \E h \in Handler : Requests(h) \/ Continues(h) \/ Crash(h)
    \/ Alone

Spec == Init /\ [][Next]_vars

(* The gateway repeats what it was paid until it is acknowledged, requests *)
(* end, and the server does not die in every one of them.                  *)
Fairness ==
    /\ \A a \in Link : SF_vars(\E h \in Handler : BeginCallback(h, a, "paid"))
    /\ \A h \in Handler : WF_vars(Continues(h))
    /\ SF_vars(\E h \in Handler : CallbackPaid(h))
    /\ SF_vars(\E h \in Handler : Complete(h))

FairSpec == Spec /\ Fairness

----------------------------------------------------------------------------
(* Properties                                                              *)

Statuses == {"pending", "completed", "cancelled", "failed"}
Steps == {"idle", "callback", "verify", "sync", "complete", "mark", "open",
          "save", "refund"}

TypeOK ==
    /\ status \in Statuses
    /\ current \in Link
    /\ age \in {"open", "expired", "overdue"}
    /\ marked \subseteq Link
    /\ gateway \in [Link -> {"none", "made", "open", "paid", "failed"}]
    /\ credits \in Nat
    /\ credited \in Nat
    /\ requests \in Nat
    /\ reclaimed \in Nat
    /\ pc \in [Handler -> Steps]
    /\ seenStatus \in [Handler -> Statuses]
    /\ seenLink \in [Handler -> Link]
    /\ link \in [Handler -> Link]
    /\ notice \in [Handler -> NoticeKinds]

Paid == {a \in Link : gateway[a] = "paid"}
Outcome == IF status = "pending" THEN "open"
           ELSE IF status = "completed" THEN "credited" ELSE "closed"

(* The order implements PaidOrder: however callbacks, questions and        *)
(* administrators race, it settles once, is credited once, and only after  *)
(* a link was paid or by an administrator (completeRecharge).              *)
Promise == INSTANCE PaidOrder WITH
    OnTrust <- "complete" \in Kinds,
    order <- Outcome,
    paid <- Paid
PaidOrderSpec == Promise!Spec

(* An attempt whose callbacks are ignored from now on is not the one a     *)
(* pending order waits for: its payment would be lost (the order of        *)
(* completeRecharge and markCallbackProcessed).                            *)
MarkedIsSettled == current \in marked => status # "pending"

(* An order whose link was paid is not cancelled within the grace after    *)
(* its expiry (cleanExpiredRechargeOrders leaves it to late callbacks).    *)
PaidSurvivesExpiry ==
    [][status = "pending" /\ status' = "cancelled" /\ age # "overdue"
         => gateway[current] # "paid"]_vars

(* What is paid by the current link is credited, though handlers die and   *)
(* callbacks are lost: the gateway repeats them.                           *)
PaidIsCredited ==
    \A a \in Link :
        gateway[a] = "paid" /\ current = a /\ status = "pending"
            ~> status = "completed" \/ current # a
=============================================================================
