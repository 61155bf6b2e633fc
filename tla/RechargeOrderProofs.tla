------------------------ MODULE RechargeOrderProofs ------------------------
(***************************************************************************)
(* Safety of RechargeOrder for every value of its constants.               *)
(*                                                                         *)
(* The argument: a handler that is about to credit the order is about a    *)
(* link the gateway was paid for, and that never changes back; what is     *)
(* marked as handled was known to the gateway, so the new link of a repay, *)
(* which is not, cannot be marked already.                                 *)
(***************************************************************************)
EXTENDS RechargeOrder, TLAPS

(* The link was handed out, or ended before.                               *)
Known(a) == gateway[a] \notin {"none", "made"}
KnownLinks ==
    /\ Known(First)
    /\ Known(current)
    /\ \A a \in marked : Known(a)
    /\ \A h \in Handler : Known(seenLink[h])
    /\ \A h \in Handler : pc[h] # "save" => Known(link[h])

(* A link that will be saved is nobody else's and not in use yet.          *)
FreshLinks ==
    /\ \A h \in Handler : pc[h] = "save" => gateway[link[h]] = "made"
    /\ \A g, h \in Handler :
         g # h /\ pc[g] = "save" /\ pc[h] = "save" => link[g] # link[h]

(* What is about to be credited was paid.                                  *)
PaidFirst ==
    \A h \in Handler :
        /\ pc[h] = "complete" => gateway[link[h]] = "paid"
        /\ pc[h] = "callback" /\ notice[h] = "paid" => gateway[link[h]] = "paid"

IInv == TypeOK /\ KnownLinks /\ FreshLinks /\ PaidFirst

(* A settled order stays as it was seen.                                   *)
SeenSettled ==
    \A h \in Handler : seenStatus[h] # "pending" => status = seenStatus[h]

(* No answer says that a payment is under way: these write the order back  *)
(* without settling it.                                                    *)
Steady == "pending" \notin Kinds

DecidedNotices ==
    \A h \in Handler : pc[h] = "callback" => notice[h] # "pending"

MarksSettled == \A h \in Handler : pc[h] = "mark" => status # "pending"

(* A superseded attempt never becomes the current one again.               *)
StaysSuperseded ==
    \A h \in Handler :
        pc[h] = "callback" /\ link[h] # seenLink[h] /\ status = "pending"
            => link[h] # current

MInv ==
    /\ IInv
    /\ SeenSettled
    /\ DecidedNotices
    /\ MarksSettled
    /\ StaysSuperseded
    /\ MarkedIsSettled

----------------------------------------------------------------------------
(* The variables are well typed at first and after every step.             *)

LEMMA TypeInit == Init => TypeOK
BY RechargeConstants
   DEF Init, TypeOK, Statuses, Steps, NoticeKinds

LEMMA TypeStep == TypeOK /\ [Next]_vars => TypeOK'
<1> SUFFICES ASSUME TypeOK, [Next]_vars PROVE TypeOK'
    OBVIOUS
<1> USE RechargeConstants DEF TypeOK, Statuses, Steps, NoticeKinds, order,
        ledger, refunds, handlers, At, Goto, Return
<1>1. ASSUME NEW a \in Link, Pay(a) \/ Lapse(a) PROVE TypeOK'
    BY <1>1 DEF Pay, Lapse
<1>2. CASE GrowOld
    BY <1>2 DEF GrowOld
<1>3. ASSUME NEW h \in Handler, Requests(h) PROVE TypeOK'
    <2>1. ASSUME NEW a \in Link, NEW n \in NoticeKinds, BeginCallback(h, a, n)
          PROVE  TypeOK'
        BY <2>1 DEF BeginCallback, Begin
    <2>2. CASE BeginVerify(h) \/ BeginSync(h) \/ BeginRepay(h)
                 \/ BeginRefund(h)
        BY <2>2 DEF BeginVerify, BeginSync, BeginRepay, BeginRefund, Begin
    <2> QED BY <1>3, <2>1, <2>2 DEF Requests
<1>4. ASSUME NEW h \in Handler, Answers(h) PROVE TypeOK'
    BY <1>4 DEF Answers, IgnoreCallback, DismissCallback, CallbackPending,
       CallbackFailed, CallbackPaid, Handled, Mark, SaveDetails, Close
<1>5. ASSUME NEW h \in Handler, Queries(h) PROVE TypeOK'
    BY <1>5
       DEF Queries, QueryUnpaid, QueryFailed, QueryPaid, SaveDetails, Close
<1>6. ASSUME NEW h \in Handler, Credits(h) PROVE TypeOK'
    BY <1>6 DEF Credits, Complete, CompleteLate, MarkProcessed, Mark, Credit
<1>7. ASSUME NEW h \in Handler, Repays(h) PROVE TypeOK'
    BY <1>7 DEF Repays, OpenLink, SaveRepay, RepayFails, RequestRefund
<1>8. ASSUME NEW h \in Handler, Crash(h) PROVE TypeOK'
    BY <1>8 DEF Crash
<1>9. CASE Alone
    BY <1>9 DEF Alone, RepayExpired, Cancel, Expire, AdminComplete, AdminFail,
       CleanMarks, ApproveRefund, RejectRefund, Close, Credit
<1>10. CASE UNCHANGED vars
    BY <1>10 DEF vars
<1> QED BY <1>1, <1>2, <1>3, <1>4, <1>5, <1>6, <1>7, <1>8, <1>9, <1>10
        DEF Next, Continues

(* The variables keep their types in every behaviour.                      *)
THEOREM TypeCorrect == Spec => []TypeOK
BY TypeInit, TypeStep, PTL DEF Spec

----------------------------------------------------------------------------
(* Links, in whatever order they are made, saved, paid and marked.         *)

LEMMA LinksInit == Init => KnownLinks /\ FreshLinks /\ PaidFirst
BY RechargeConstants DEF Init, KnownLinks, Known, FreshLinks, PaidFirst

LEMMA KnownStep == TypeOK /\ KnownLinks /\ FreshLinks /\ [Next]_vars => KnownLinks'
<1> SUFFICES ASSUME TypeOK, KnownLinks, FreshLinks, [Next]_vars PROVE KnownLinks'
    OBVIOUS
<1> USE RechargeConstants
        DEF TypeOK, order, ledger, refunds, handlers, At, Goto, Return,
        KnownLinks, Known
<1>1. ASSUME NEW a \in Link, Pay(a) \/ Lapse(a) PROVE KnownLinks'
    BY <1>1 DEF Pay, Lapse
<1>2. CASE GrowOld
    BY <1>2 DEF GrowOld
<1>3. ASSUME NEW h \in Handler, NEW a \in Link, NEW n \in NoticeKinds,
             BeginCallback(h, a, n)
      PROVE  KnownLinks'
    BY <1>3 DEF BeginCallback, Begin, Notices
<1>4. ASSUME NEW h \in Handler,
             BeginVerify(h) \/ BeginSync(h) \/ BeginRepay(h) \/ BeginRefund(h)
      PROVE  KnownLinks'
    BY <1>4 DEF BeginVerify, BeginSync, BeginRepay, BeginRefund, Begin
<1>5. ASSUME NEW h \in Handler, Answers(h) PROVE KnownLinks'
    BY <1>5 DEF Answers, IgnoreCallback, DismissCallback, CallbackPending,
       CallbackFailed, CallbackPaid, Handled, Mark, SaveDetails, Close,
       Superseded
<1>6. ASSUME NEW h \in Handler, Queries(h) PROVE KnownLinks'
    BY <1>6 DEF Queries, Asking, QueryUnpaid, QueryFailed, QueryPaid,
       SaveDetails, Close
<1>7. ASSUME NEW h \in Handler, Credits(h) PROVE KnownLinks'
    BY <1>7 DEF Credits, Complete, CompleteLate, MarkProcessed, Mark, Credit,
       Completable
<1>8. ASSUME NEW h \in Handler, Repays(h) PROVE KnownLinks'
    BY <1>8 DEF Repays, OpenLink, SaveRepay, RepayFails, RequestRefund
<1>9. ASSUME NEW h \in Handler, Crash(h) PROVE KnownLinks'
    BY <1>9 DEF Crash
<1>10. CASE Alone
    BY <1>10 DEF Alone, RepayExpired, Cancel, Expire, AdminComplete, AdminFail,
       CleanMarks, ApproveRefund, RejectRefund, Close, Credit, Completable
<1>11. CASE UNCHANGED vars
    BY <1>11 DEF vars
<1> QED BY <1>1, <1>2, <1>3, <1>4, <1>5, <1>6, <1>7, <1>8, <1>9, <1>10, <1>11
        DEF Next, Requests, Continues

LEMMA FreshStep == TypeOK /\ KnownLinks /\ FreshLinks /\ [Next]_vars => FreshLinks'
<1> SUFFICES ASSUME TypeOK, KnownLinks, FreshLinks, [Next]_vars PROVE FreshLinks'
    OBVIOUS
<1> USE RechargeConstants
        DEF TypeOK, order, ledger, refunds, handlers, At, Goto, Return,
        KnownLinks, Known, FreshLinks
<1>1. ASSUME NEW a \in Link, Pay(a) \/ Lapse(a) PROVE FreshLinks'
    BY <1>1 DEF Pay, Lapse
<1>2. CASE GrowOld
    BY <1>2 DEF GrowOld
<1>3. ASSUME NEW h \in Handler, NEW a \in Link, NEW n \in NoticeKinds,
             BeginCallback(h, a, n)
      PROVE  FreshLinks'
    BY <1>3 DEF BeginCallback, Begin, Notices
<1>4. ASSUME NEW h \in Handler,
             BeginVerify(h) \/ BeginSync(h) \/ BeginRepay(h) \/ BeginRefund(h)
      PROVE  FreshLinks'
    BY <1>4 DEF BeginVerify, BeginSync, BeginRepay, BeginRefund, Begin
<1>5. ASSUME NEW h \in Handler, Answers(h) PROVE FreshLinks'
    BY <1>5 DEF Answers, IgnoreCallback, DismissCallback, CallbackPending,
       CallbackFailed, CallbackPaid, Handled, Mark, SaveDetails, Close,
       Superseded
<1>6. ASSUME NEW h \in Handler, Queries(h) PROVE FreshLinks'
    BY <1>6 DEF Queries, Asking, QueryUnpaid, QueryFailed, QueryPaid,
       SaveDetails, Close
<1>7. ASSUME NEW h \in Handler, Credits(h) PROVE FreshLinks'
    BY <1>7 DEF Credits, Complete, CompleteLate, MarkProcessed, Mark, Credit,
       Completable
<1>8. ASSUME NEW h \in Handler, Repays(h) PROVE FreshLinks'
    BY <1>8 DEF Repays, OpenLink, SaveRepay, RepayFails, RequestRefund
<1>9. ASSUME NEW h \in Handler, Crash(h) PROVE FreshLinks'
    BY <1>9 DEF Crash
<1>10. CASE Alone
    BY <1>10 DEF Alone, RepayExpired, Cancel, Expire, AdminComplete, AdminFail,
       CleanMarks, ApproveRefund, RejectRefund, Close, Credit, Completable
<1>11. CASE UNCHANGED vars
    BY <1>11 DEF vars
<1> QED BY <1>1, <1>2, <1>3, <1>4, <1>5, <1>6, <1>7, <1>8, <1>9, <1>10, <1>11
        DEF Next, Requests, Continues

LEMMA PaidStep == TypeOK /\ FreshLinks /\ PaidFirst /\ [Next]_vars => PaidFirst'
<1> SUFFICES ASSUME TypeOK, FreshLinks, PaidFirst, [Next]_vars PROVE PaidFirst'
    OBVIOUS
<1> USE RechargeConstants
        DEF TypeOK, order, ledger, refunds, handlers, At, Goto, Return,
        FreshLinks, PaidFirst
<1>1. ASSUME NEW a \in Link, Pay(a) \/ Lapse(a) PROVE PaidFirst'
    BY <1>1 DEF Pay, Lapse
<1>2. CASE GrowOld
    BY <1>2 DEF GrowOld
<1>3. ASSUME NEW h \in Handler, NEW a \in Link, NEW n \in NoticeKinds,
             BeginCallback(h, a, n)
      PROVE  PaidFirst'
    BY <1>3 DEF BeginCallback, Begin, Notices
<1>4. ASSUME NEW h \in Handler,
             BeginVerify(h) \/ BeginSync(h) \/ BeginRepay(h) \/ BeginRefund(h)
      PROVE  PaidFirst'
    BY <1>4 DEF BeginVerify, BeginSync, BeginRepay, BeginRefund, Begin
<1>5. ASSUME NEW h \in Handler, Answers(h) PROVE PaidFirst'
    BY <1>5 DEF Answers, IgnoreCallback, DismissCallback, CallbackPending,
       CallbackFailed, CallbackPaid, Handled, Mark, SaveDetails, Close,
       Superseded
<1>6. ASSUME NEW h \in Handler, Queries(h) PROVE PaidFirst'
    BY <1>6 DEF Queries, Asking, QueryUnpaid, QueryFailed, QueryPaid,
       SaveDetails, Close
<1>7. ASSUME NEW h \in Handler, Credits(h) PROVE PaidFirst'
    BY <1>7 DEF Credits, Complete, CompleteLate, MarkProcessed, Mark, Credit,
       Completable
<1>8. ASSUME NEW h \in Handler, Repays(h) PROVE PaidFirst'
    BY <1>8 DEF Repays, OpenLink, SaveRepay, RepayFails, RequestRefund
<1>9. ASSUME NEW h \in Handler, Crash(h) PROVE PaidFirst'
    BY <1>9 DEF Crash
<1>10. CASE Alone
    BY <1>10 DEF Alone, RepayExpired, Cancel, Expire, AdminComplete, AdminFail,
       CleanMarks, ApproveRefund, RejectRefund, Close, Credit, Completable
<1>11. CASE UNCHANGED vars
    BY <1>11 DEF vars
<1> QED BY <1>1, <1>2, <1>3, <1>4, <1>5, <1>6, <1>7, <1>8, <1>9, <1>10, <1>11
        DEF Next, Requests, Continues

LEMMA IInvCorrect == Spec => []IInv
<1>1. Init => IInv
    BY TypeInit, LinksInit DEF IInv
<1>2. IInv /\ [Next]_vars => IInv'
    BY TypeStep, KnownStep, FreshStep, PaidStep DEF IInv
<1> QED BY <1>1, <1>2, PTL DEF Spec

----------------------------------------------------------------------------
(* What an ignored callback means, where no answer says that a payment is  *)
(* under way.                                                              *)

LEMMA MarkedInit ==
    Init => SeenSettled /\ DecidedNotices /\ MarksSettled /\ StaysSuperseded
                /\ MarkedIsSettled
BY RechargeConstants DEF Init, SeenSettled, DecidedNotices, MarksSettled,
   StaysSuperseded, MarkedIsSettled

LEMMA SeenStep == TypeOK /\ SeenSettled /\ [Next]_vars => SeenSettled'
<1> SUFFICES ASSUME TypeOK, SeenSettled, [Next]_vars PROVE SeenSettled'
    OBVIOUS
<1> USE RechargeConstants
        DEF TypeOK, order, ledger, refunds, handlers, At, Goto, Return,
        SeenSettled
<1>1. ASSUME NEW a \in Link, Pay(a) \/ Lapse(a) PROVE SeenSettled'
    BY <1>1 DEF Pay, Lapse
<1>2. CASE GrowOld
    BY <1>2 DEF GrowOld
<1>3. ASSUME NEW h \in Handler, NEW a \in Link, NEW n \in NoticeKinds,
             BeginCallback(h, a, n)
      PROVE  SeenSettled'
    BY <1>3 DEF BeginCallback, Begin, Notices
<1>4. ASSUME NEW h \in Handler,
             BeginVerify(h) \/ BeginSync(h) \/ BeginRepay(h) \/ BeginRefund(h)
      PROVE  SeenSettled'
    BY <1>4 DEF BeginVerify, BeginSync, BeginRepay, BeginRefund, Begin
<1>5. ASSUME NEW h \in Handler, Answers(h) PROVE SeenSettled'
    BY <1>5 DEF Answers, IgnoreCallback, DismissCallback, CallbackPending,
       CallbackFailed, CallbackPaid, Handled, Mark, SaveDetails, Close,
       Superseded
<1>6. ASSUME NEW h \in Handler, Queries(h) PROVE SeenSettled'
    BY <1>6 DEF Queries, Asking, QueryUnpaid, QueryFailed, QueryPaid,
       SaveDetails, Close
<1>7. ASSUME NEW h \in Handler, Credits(h) PROVE SeenSettled'
    BY <1>7 DEF Credits, Complete, CompleteLate, MarkProcessed, Mark, Credit,
       Completable
<1>8. ASSUME NEW h \in Handler, Repays(h) PROVE SeenSettled'
    BY <1>8 DEF Repays, OpenLink, SaveRepay, RepayFails, RequestRefund
<1>9. ASSUME NEW h \in Handler, Crash(h) PROVE SeenSettled'
    BY <1>9 DEF Crash
<1>10. CASE Alone
    BY <1>10 DEF Alone, RepayExpired, Cancel, Expire, AdminComplete, AdminFail,
       CleanMarks, ApproveRefund, RejectRefund, Close, Credit, Completable
<1>11. CASE UNCHANGED vars
    BY <1>11 DEF vars
<1> QED BY <1>1, <1>2, <1>3, <1>4, <1>5, <1>6, <1>7, <1>8, <1>9, <1>10, <1>11
        DEF Next, Requests, Continues

LEMMA NoticeStep == Steady /\ TypeOK /\ DecidedNotices /\ [Next]_vars => DecidedNotices'
<1> SUFFICES ASSUME Steady, TypeOK, DecidedNotices, [Next]_vars PROVE DecidedNotices'
    OBVIOUS
<1> USE RechargeConstants
        DEF TypeOK, order, ledger, refunds, handlers, At, Goto, Return,
        DecidedNotices, Steady
<1>1. ASSUME NEW a \in Link, Pay(a) \/ Lapse(a) PROVE DecidedNotices'
    BY <1>1 DEF Pay, Lapse
<1>2. CASE GrowOld
    BY <1>2 DEF GrowOld
<1>3. ASSUME NEW h \in Handler, NEW a \in Link, NEW n \in NoticeKinds,
             BeginCallback(h, a, n)
      PROVE  DecidedNotices'
    BY <1>3 DEF BeginCallback, Begin, Notices
<1>4. ASSUME NEW h \in Handler,
             BeginVerify(h) \/ BeginSync(h) \/ BeginRepay(h) \/ BeginRefund(h)
      PROVE  DecidedNotices'
    BY <1>4 DEF BeginVerify, BeginSync, BeginRepay, BeginRefund, Begin
<1>5. ASSUME NEW h \in Handler, Answers(h) PROVE DecidedNotices'
    BY <1>5 DEF Answers, IgnoreCallback, DismissCallback, CallbackPending,
       CallbackFailed, CallbackPaid, Handled, Mark, SaveDetails, Close,
       Superseded
<1>6. ASSUME NEW h \in Handler, Queries(h) PROVE DecidedNotices'
    BY <1>6 DEF Queries, Asking, QueryUnpaid, QueryFailed, QueryPaid,
       SaveDetails, Close
<1>7. ASSUME NEW h \in Handler, Credits(h) PROVE DecidedNotices'
    BY <1>7 DEF Credits, Complete, CompleteLate, MarkProcessed, Mark, Credit,
       Completable
<1>8. ASSUME NEW h \in Handler, Repays(h) PROVE DecidedNotices'
    BY <1>8 DEF Repays, OpenLink, SaveRepay, RepayFails, RequestRefund
<1>9. ASSUME NEW h \in Handler, Crash(h) PROVE DecidedNotices'
    BY <1>9 DEF Crash
<1>10. CASE Alone
    BY <1>10 DEF Alone, RepayExpired, Cancel, Expire, AdminComplete, AdminFail,
       CleanMarks, ApproveRefund, RejectRefund, Close, Credit, Completable
<1>11. CASE UNCHANGED vars
    BY <1>11 DEF vars
<1> QED BY <1>1, <1>2, <1>3, <1>4, <1>5, <1>6, <1>7, <1>8, <1>9, <1>10, <1>11
        DEF Next, Requests, Continues

LEMMA MarkStep == TypeOK /\ SeenSettled /\ MarksSettled /\ [Next]_vars => MarksSettled'
<1> SUFFICES ASSUME TypeOK, SeenSettled, MarksSettled, [Next]_vars PROVE MarksSettled'
    OBVIOUS
<1> USE RechargeConstants
        DEF TypeOK, order, ledger, refunds, handlers, At, Goto, Return,
        SeenSettled, MarksSettled
<1>1. ASSUME NEW a \in Link, Pay(a) \/ Lapse(a) PROVE MarksSettled'
    BY <1>1 DEF Pay, Lapse
<1>2. CASE GrowOld
    BY <1>2 DEF GrowOld
<1>3. ASSUME NEW h \in Handler, NEW a \in Link, NEW n \in NoticeKinds,
             BeginCallback(h, a, n)
      PROVE  MarksSettled'
    BY <1>3 DEF BeginCallback, Begin, Notices
<1>4. ASSUME NEW h \in Handler,
             BeginVerify(h) \/ BeginSync(h) \/ BeginRepay(h) \/ BeginRefund(h)
      PROVE  MarksSettled'
    BY <1>4 DEF BeginVerify, BeginSync, BeginRepay, BeginRefund, Begin
<1>5. ASSUME NEW h \in Handler, Answers(h) PROVE MarksSettled'
    BY <1>5 DEF Answers, IgnoreCallback, DismissCallback, CallbackPending,
       CallbackFailed, CallbackPaid, Handled, Mark, SaveDetails, Close,
       Superseded
<1>6. ASSUME NEW h \in Handler, Queries(h) PROVE MarksSettled'
    BY <1>6 DEF Queries, Asking, QueryUnpaid, QueryFailed, QueryPaid,
       SaveDetails, Close
<1>7. ASSUME NEW h \in Handler, Credits(h) PROVE MarksSettled'
    BY <1>7 DEF Credits, Complete, CompleteLate, MarkProcessed, Mark, Credit,
       Completable
<1>8. ASSUME NEW h \in Handler, Repays(h) PROVE MarksSettled'
    BY <1>8 DEF Repays, OpenLink, SaveRepay, RepayFails, RequestRefund
<1>9. ASSUME NEW h \in Handler, Crash(h) PROVE MarksSettled'
    BY <1>9 DEF Crash
<1>10. CASE Alone
    BY <1>10 DEF Alone, RepayExpired, Cancel, Expire, AdminComplete, AdminFail,
       CleanMarks, ApproveRefund, RejectRefund, Close, Credit, Completable
<1>11. CASE UNCHANGED vars
    BY <1>11 DEF vars
<1> QED BY <1>1, <1>2, <1>3, <1>4, <1>5, <1>6, <1>7, <1>8, <1>9, <1>10, <1>11
        DEF Next, Requests, Continues

LEMMA SupersededStep ==
    Steady /\ IInv /\ DecidedNotices /\ StaysSuperseded /\ [Next]_vars => StaysSuperseded'
<1> SUFFICES ASSUME Steady, IInv, DecidedNotices, StaysSuperseded, [Next]_vars
             PROVE  StaysSuperseded'
    OBVIOUS
<1> USE RechargeConstants
        DEF TypeOK, order, ledger, refunds, handlers, At, Goto, Return,
        IInv, KnownLinks, Known, FreshLinks, DecidedNotices, Steady,
        StaysSuperseded
<1>1. ASSUME NEW a \in Link, Pay(a) \/ Lapse(a) PROVE StaysSuperseded'
    BY <1>1 DEF Pay, Lapse
<1>2. CASE GrowOld
    BY <1>2 DEF GrowOld
<1>3. ASSUME NEW h \in Handler, NEW a \in Link, NEW n \in NoticeKinds,
             BeginCallback(h, a, n)
      PROVE  StaysSuperseded'
    BY <1>3 DEF BeginCallback, Begin, Notices
<1>4. ASSUME NEW h \in Handler,
             BeginVerify(h) \/ BeginSync(h) \/ BeginRepay(h) \/ BeginRefund(h)
      PROVE  StaysSuperseded'
    BY <1>4 DEF BeginVerify, BeginSync, BeginRepay, BeginRefund, Begin
<1>5. ASSUME NEW h \in Handler, Answers(h) PROVE StaysSuperseded'
    BY <1>5 DEF Answers, IgnoreCallback, DismissCallback, CallbackPending,
       CallbackFailed, CallbackPaid, Handled, Mark, SaveDetails, Close,
       Superseded
<1>6. ASSUME NEW h \in Handler, Queries(h) PROVE StaysSuperseded'
    BY <1>6 DEF Queries, Asking, QueryUnpaid, QueryFailed, QueryPaid,
       SaveDetails, Close
<1>7. ASSUME NEW h \in Handler, Credits(h) PROVE StaysSuperseded'
    BY <1>7 DEF Credits, Complete, CompleteLate, MarkProcessed, Mark, Credit,
       Completable
<1>8. ASSUME NEW h \in Handler, Repays(h) PROVE StaysSuperseded'
    BY <1>8 DEF Repays, OpenLink, SaveRepay, RepayFails, RequestRefund
<1>9. ASSUME NEW h \in Handler, Crash(h) PROVE StaysSuperseded'
    BY <1>9 DEF Crash
<1>10. CASE Alone
    BY <1>10 DEF Alone, RepayExpired, Cancel, Expire, AdminComplete, AdminFail,
       CleanMarks, ApproveRefund, RejectRefund, Close, Credit, Completable
<1>11. CASE UNCHANGED vars
    BY <1>11 DEF vars
<1> QED BY <1>1, <1>2, <1>3, <1>4, <1>5, <1>6, <1>7, <1>8, <1>9, <1>10, <1>11
        DEF Next, Requests, Continues

LEMMA MarkedStep == Steady /\ MInv /\ [Next]_vars => MarkedIsSettled'
<1> SUFFICES ASSUME Steady, MInv, [Next]_vars PROVE MarkedIsSettled'
    OBVIOUS
<1> USE RechargeConstants
        DEF TypeOK, order, ledger, refunds, handlers, At, Goto, Return,
        IInv, KnownLinks, Known, FreshLinks, DecidedNotices, Steady, MInv,
        StaysSuperseded, SeenSettled, MarksSettled, MarkedIsSettled
<1>1. ASSUME NEW a \in Link, Pay(a) \/ Lapse(a) PROVE MarkedIsSettled'
    BY <1>1 DEF Pay, Lapse
<1>2. CASE GrowOld
    BY <1>2 DEF GrowOld
<1>3. ASSUME NEW h \in Handler, NEW a \in Link, NEW n \in NoticeKinds,
             BeginCallback(h, a, n)
      PROVE  MarkedIsSettled'
    BY <1>3 DEF BeginCallback, Begin, Notices
<1>4. ASSUME NEW h \in Handler,
             BeginVerify(h) \/ BeginSync(h) \/ BeginRepay(h) \/ BeginRefund(h)
      PROVE  MarkedIsSettled'
    BY <1>4 DEF BeginVerify, BeginSync, BeginRepay, BeginRefund, Begin
<1>5. ASSUME NEW h \in Handler, Answers(h) PROVE MarkedIsSettled'
    BY <1>5 DEF Answers, IgnoreCallback, DismissCallback, CallbackPending,
       CallbackFailed, CallbackPaid, Handled, Mark, SaveDetails, Close,
       Superseded
<1>6. ASSUME NEW h \in Handler, Queries(h) PROVE MarkedIsSettled'
    BY <1>6 DEF Queries, Asking, QueryUnpaid, QueryFailed, QueryPaid,
       SaveDetails, Close
<1>7. ASSUME NEW h \in Handler, Credits(h) PROVE MarkedIsSettled'
    BY <1>7 DEF Credits, Complete, CompleteLate, MarkProcessed, Mark, Credit,
       Completable
<1>8. ASSUME NEW h \in Handler, Repays(h) PROVE MarkedIsSettled'
    BY <1>8 DEF Repays, OpenLink, SaveRepay, RepayFails, RequestRefund
<1>9. ASSUME NEW h \in Handler, Crash(h) PROVE MarkedIsSettled'
    BY <1>9 DEF Crash
<1>10. CASE Alone
    BY <1>10 DEF Alone, RepayExpired, Cancel, Expire, AdminComplete, AdminFail,
       CleanMarks, ApproveRefund, RejectRefund, Close, Credit, Completable
<1>11. CASE UNCHANGED vars
    BY <1>11 DEF vars
<1> QED BY <1>1, <1>2, <1>3, <1>4, <1>5, <1>6, <1>7, <1>8, <1>9, <1>10, <1>11
        DEF Next, Requests, Continues

(* Where the gateway does not report payments under way, the attempt a     *)
(* pending order waits for is never marked as handled: its callback would  *)
(* be ignored and the payment lost (handlePaymentCallback).                *)
THEOREM MarkedAlways == Steady => (Spec => []MarkedIsSettled)
<1> SUFFICES ASSUME Steady PROVE Spec => []MarkedIsSettled
    OBVIOUS
<1>1. Init => MInv
    BY TypeInit, LinksInit, MarkedInit DEF MInv, IInv
<1>2. MInv /\ [Next]_vars => MInv'
    BY TypeStep, KnownStep, FreshStep, PaidStep, SeenStep, NoticeStep, MarkStep,
       SupersededStep, MarkedStep DEF MInv, IInv
<1>3. MInv => MarkedIsSettled
    BY DEF MInv
<1> QED BY <1>1, <1>2, <1>3, PTL DEF Spec

----------------------------------------------------------------------------
(* The order keeps what PaidOrder promises: a step leaves the order alone, *)
(* pays a link, closes the order or credits it.                            *)

SamePaid == \A a \in Link : gateway'[a] = "paid" <=> gateway[a] = "paid"
Quiet == UNCHANGED <<status, credits>> /\ SamePaid
Paying ==
    /\ UNCHANGED <<status, credits>>
    /\ \E a \in Link : Paid' = Paid \cup {a}
Closed ==
    /\ status = "pending"
    /\ status' \in {"cancelled", "failed"}
    /\ UNCHANGED credits
    /\ SamePaid
Credited ==
    /\ status = "pending"
    /\ status' = "completed"
    /\ credits' = credits + 1
    /\ SamePaid
    /\ "complete" \in Kinds \/ Paid # {}
Effect == Quiet \/ Paying \/ Closed \/ Credited

LEMMA EffectOfStep == IInv /\ [Next]_vars => Effect
<1> SUFFICES ASSUME IInv, [Next]_vars PROVE Effect
    OBVIOUS
<1> USE RechargeConstants
        DEF TypeOK, order, ledger, refunds, handlers, At, Goto, Return, IInv,
        FreshLinks, PaidFirst, Effect, Quiet, Closed, Credited, SamePaid
<1>1. ASSUME NEW a \in Link, Pay(a) \/ Lapse(a) PROVE Effect
    <2>1. ASSUME Pay(a) PROVE Paying
        BY <2>1 DEF Pay, Paying, Paid
    <2>2. ASSUME Lapse(a) PROVE Quiet
        BY <2>2 DEF Lapse
    <2> QED BY <1>1, <2>1, <2>2
<1>2. CASE GrowOld
    BY <1>2 DEF GrowOld
<1>3. ASSUME NEW h \in Handler, NEW a \in Link, NEW n \in NoticeKinds,
             BeginCallback(h, a, n)
      PROVE  Effect
    BY <1>3 DEF BeginCallback, Begin, Notices
<1>4. ASSUME NEW h \in Handler,
             BeginVerify(h) \/ BeginSync(h) \/ BeginRepay(h) \/ BeginRefund(h)
      PROVE  Effect
    BY <1>4 DEF BeginVerify, BeginSync, BeginRepay, BeginRefund, Begin
<1>5. ASSUME NEW h \in Handler, Answers(h) PROVE Effect
    BY <1>5 DEF Answers, IgnoreCallback, DismissCallback, CallbackPending,
       CallbackFailed, CallbackPaid, Handled, Mark, SaveDetails, Close,
       Superseded
<1>6. ASSUME NEW h \in Handler, Queries(h) PROVE Effect
    BY <1>6 DEF Queries, Asking, QueryUnpaid, QueryFailed, QueryPaid,
       SaveDetails, Close
<1>7. ASSUME NEW h \in Handler, Credits(h) PROVE Effect
    <2>1. ASSUME Complete(h) PROVE Credited
        BY <2>1 DEF Complete, Credit, Completable, Paid
    <2>2. ASSUME CompleteLate(h) \/ MarkProcessed(h) PROVE Quiet
        BY <2>2 DEF CompleteLate, MarkProcessed, Mark
    <2> QED BY <1>7, <2>1, <2>2 DEF Credits
<1>8. ASSUME NEW h \in Handler, Repays(h) PROVE Effect
    BY <1>8 DEF Repays, OpenLink, SaveRepay, RepayFails, RequestRefund
<1>9. ASSUME NEW h \in Handler, Crash(h) PROVE Effect
    BY <1>9 DEF Crash
<1>10. CASE Alone
    BY <1>10 DEF Alone, RepayExpired, Cancel, Expire, AdminComplete, AdminFail,
       CleanMarks, ApproveRefund, RejectRefund, Close, Credit, Completable
<1>11. CASE UNCHANGED vars
    BY <1>11 DEF vars
<1> QED BY <1>1, <1>2, <1>3, <1>4, <1>5, <1>6, <1>7, <1>8, <1>9, <1>10, <1>11
        DEF Next, Requests, Continues

LEMMA EffectIsPromised ==
    TypeOK /\ Effect => [Promise!Next]_<<Outcome, Paid, credits>>
<1> SUFFICES ASSUME TypeOK, Effect
             PROVE  [Promise!Next]_<<Outcome, Paid, credits>>
    OBVIOUS
<1>1. SamePaid => Paid' = Paid
    BY DEF SamePaid, Paid
<1>2. CASE Quiet
    BY <1>1, <1>2 DEF Quiet, Outcome
<1>3. CASE Paying
    BY <1>3 DEF Paying, Outcome, Promise!Next, Promise!Pay
<1>4. CASE Closed
    BY <1>1, <1>4 DEF Closed, Outcome, Promise!Next, Promise!Close
<1>5. CASE Credited
    BY <1>1, <1>5 DEF Credited, Outcome, Promise!Next, Promise!Settle
<1> QED BY <1>2, <1>3, <1>4, <1>5 DEF Effect

(* However callbacks, questions, administrators and crashes interleave,    *)
(* an order is settled once, credited once, and only after a payment or by *)
(* an administrator (completeRecharge, failRecharge, cancelRecharge).      *)
THEOREM ImplementsPaidOrder == Spec => PaidOrderSpec
<1>1. Init => Promise!Init
    BY RechargeConstants DEF Init, Promise!Init, Outcome, Paid
<1>2. IInv /\ [Next]_vars => [Promise!Next]_<<Outcome, Paid, credits>>
    BY EffectOfStep, EffectIsPromised DEF IInv
<1> QED BY <1>1, <1>2, IInvCorrect, PTL DEF Spec, PaidOrderSpec, Promise!Spec
=============================================================================
