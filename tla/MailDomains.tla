----------------------------- MODULE MailDomains -----------------------------
(***************************************************************************)
(* A subscription of mail hosting and its domains on the servers of the    *)
(* provider (services/mail-expiry-scheduler.ts, routes/mail.ts).  Every    *)
(* process runs the hourly job that suspends the domains of an expired     *)
(* subscription and resumes those of a renewed one; a renewal resumes them *)
(* at once.  The status `suspended' of a domain is what is left for the    *)
(* next job to retry, so it must be there whenever a domain that is paid   *)
(* for is still suspended at the provider.                                 *)
(***************************************************************************)
EXTENDS FiniteSets

CONSTANTS Domain,    \* domains, each added once
          Handler,   \* requests and runs of the job that may be under way
          Faults,    \* what goes wrong, see MailDomainsConstants
          None

(* refuse: the provider refuses a call; unheard: it obeys and is not heard;*)
(* crash: a job dies; lost: a process dies between a renewal and the       *)
(* resumption of its domains; slow: a transaction takes too long; busy: a  *)
(* balance is locked; late: a subscription expires during a resumption;    *)
(* verify, cancel: the owner verifies a domain, an administrator cancels.  *)
MailDomainsConstants ==
    /\ Faults \subseteq {"refuse", "unheard", "crash", "lost", "slow", "busy", "late",
                         "verify", "cancel"}
    /\ None \notin Domain \cup Handler

VARIABLES sub,        \* the subscription: active, expired, or deleted
          past,       \* expiresAt has passed
          row,        \* of a domain: none, open (pending or verified), suspended, gone
          upstream,   \* of a domain at the provider: none, up, down
          lock,       \* who holds the lock of the subscription over a call
          pc, loop,   \* where a handler is, and which loop it is in
          on, left    \* its domain, and those it has still to do

vars == <<sub, past, row, upstream, lock, pc, loop, on, left>>

Patient == {"idle", "insert", "erase", "verify", "cancel"}
Resuming == {"revived", "renewal", "reopen", "hold"}
Working == {"suspend", "call", "mark", "renewed", "compensate", "find", "resume", "keep"}

TypeOK ==
    /\ sub \in {"active", "expired", "deleted"}
    /\ past \in BOOLEAN
    /\ row \in [Domain -> {"none", "open", "suspended", "gone"}]
    /\ upstream \in [Domain -> {"none", "up", "down"}]
    /\ lock \in Handler \cup {None}
    /\ pc \in [Handler -> Patient \cup Resuming \cup Working]
    /\ loop \in [Handler -> {"suspend", "renewal"}]
    /\ on \in [Handler -> Domain \cup {None}]
    /\ left \in [Handler -> SUBSET Domain]

Init ==
    /\ sub = "active" /\ past = FALSE
    /\ row = [d \in Domain |-> "none"]
    /\ upstream = [d \in Domain |-> "none"]
    /\ lock = None
    /\ pc = [h \in Handler |-> "idle"]
    /\ loop = [h \in Handler |-> "suspend"]
    /\ on = [h \in Handler |-> None]
    /\ left = [h \in Handler |-> {}]

-----------------------------------------------------------------------------

Usable == sub = "active" /\ ~past
Lapsed == sub = "expired" /\ past
HasRow(d) == row[d] \in {"open", "suspended"}

Goto(h, p) == pc' = [pc EXCEPT ![h] = p]
Begin(h, p, ds) ==
    /\ Goto(h, p) /\ left' = [left EXCEPT ![h] = ds]
End(h) ==
    /\ Goto(h, "idle")
    /\ on' = [on EXCEPT ![h] = None]
    /\ left' = [left EXCEPT ![h] = {}]
Pick(h, d) ==
    /\ on' = [on EXCEPT ![h] = d]
    /\ left' = [left EXCEPT ![h] = @ \ {d}]
SetRow(d, s) == row' = [row EXCEPT ![d] = s]

(* A call of the provider about a domain: done, refused, or done and not   *)
(* heard of.                                                               *)
Reached(d, s) == upstream[d] # "none" /\ upstream' = [upstream EXCEPT ![d] = s]
Missed(d, s) ==
    \/ /\ "refuse" \in Faults \/ upstream[d] = "none"
       /\ UNCHANGED upstream
    \/ "unheard" \in Faults /\ Reached(d, s)

-----------------------------------------------------------------------------
(* The subscription.                                                       *)

(* A period is a month: no job and no resumption lasts from one expiry to  *)
(* the next.                                                               *)
Expire ==
    /\ sub = "active" /\ ~past
    /\ \A h \in Handler :
          pc[h] \in Patient \cup (IF "late" \in Faults THEN {"resume", "keep"} ELSE {})
    /\ past' = TRUE
    /\ UNCHANGED <<sub, row, upstream, lock, pc, loop, on, left>>

(* Any job, in one update.                                                 *)
MarkExpired ==
    /\ sub = "active" /\ past
    /\ sub' = "expired"
    /\ UNCHANGED <<past, row, upstream, lock, pc, loop, on, left>>

(* A renewal or a new purchase by the owner; what had expired is revived.  *)
Renew(h) ==
    /\ pc[h] = "idle"
    /\ sub # "deleted" /\ lock = None
    /\ sub = "expired" \/ past
    /\ sub' = "active" /\ past' = FALSE
    /\ Goto(h, "revived")
    /\ UNCHANGED <<row, upstream, lock, loop, on, left>>

(* The daily job, for what was not past when it looked.                    *)
AutoRenew ==
    /\ sub = "active" /\ past /\ lock = None
    /\ past' = FALSE
    /\ UNCHANGED <<sub, row, upstream, lock, pc, loop, on, left>>

-----------------------------------------------------------------------------
(* The hourly job: first the domains of expired subscriptions.             *)

FindLapsed(h) ==
    /\ pc[h] = "idle" /\ Lapsed
    /\ Begin(h, "suspend", {d \in Domain : row[d] = "open"})
    /\ loop' = [loop EXCEPT ![h] = "suspend"]
    /\ UNCHANGED <<sub, past, row, upstream, lock, on>>

Recheck(h) ==
    /\ pc[h] = "suspend"
    /\ IF Lapsed
       THEN \E d \in left[h] : Pick(h, d) /\ Goto(h, "call")
       ELSE Begin(h, "find", {}) /\ UNCHANGED on
    /\ UNCHANGED <<sub, past, row, upstream, lock, loop>>

SuspendDone(h) ==
    /\ pc[h] = "suspend" /\ left[h] = {}
    /\ Goto(h, "find")
    /\ UNCHANGED <<sub, past, row, upstream, lock, loop, on, left>>

SuspendDomain(h) ==
    /\ pc[h] = "call"
    /\ \/ Reached(on[h], "down") /\ Goto(h, "mark")
       \/ Missed(on[h], "down") /\ Goto(h, "suspend")
    /\ UNCHANGED <<sub, past, row, lock, loop, on, left>>

Mark(h) ==
    /\ pc[h] = "mark"
    /\ IF Lapsed /\ HasRow(on[h])
       THEN SetRow(on[h], "suspended") /\ Goto(h, "suspend")
       ELSE Goto(h, "renewed") /\ UNCHANGED row
    /\ UNCHANGED <<sub, past, upstream, lock, loop, on, left>>

(* Mutation: the job does not look whether the subscription was renewed.   *)
Renewed_Ignored(h) ==
    /\ pc[h] = "renewed"
    /\ Goto(h, "suspend")
    /\ UNCHANGED <<sub, past, row, upstream, lock, loop, on, left>>

Renewed(h) ==
    /\ pc[h] = "renewed"
    /\ Goto(h, IF Usable THEN "compensate" ELSE "suspend")
    /\ UNCHANGED <<sub, past, row, upstream, lock, loop, on, left>>

(* A call to resume a domain and what is written after it, by the job that *)
(* has suspended a renewed one, and by a renewal for each of its domains.  *)
ResumeDomain(h, d) ==
    \/ Reached(d, "up") /\ Goto(h, "reopen")
    \/ Missed(d, "up") /\ Goto(h, "hold")

Compensate(h) ==
    /\ pc[h] = "compensate"
    /\ ResumeDomain(h, on[h])
    /\ UNCHANGED <<sub, past, row, lock, loop, on, left>>

Reopen(h) ==
    /\ pc[h] = "reopen"
    /\ IF Usable /\ HasRow(on[h]) THEN SetRow(on[h], "open") ELSE UNCHANGED row
    /\ Goto(h, loop[h])
    /\ UNCHANGED <<sub, past, upstream, lock, loop, on, left>>

Hold(h) ==
    /\ pc[h] = "hold"
    /\ IF Usable /\ HasRow(on[h]) THEN SetRow(on[h], "suspended") ELSE UNCHANGED row
    /\ Goto(h, loop[h])
    /\ UNCHANGED <<sub, past, upstream, lock, loop, on, left>>

(* Then the suspended domains of subscriptions that are paid for.          *)
FindSuspended(h) ==
    /\ \/ pc[h] = "find"
       \/ pc[h] = "idle" /\ Usable /\ \E d \in Domain : row[d] = "suspended"
    /\ IF Usable
       THEN /\ Begin(h, "resume", {d \in Domain : row[d] = "suspended"})
            /\ UNCHANGED on
       ELSE End(h)
    /\ UNCHANGED <<sub, past, row, upstream, lock, loop>>

ResumeSuspended(h, d) ==
    /\ pc[h] = "resume" /\ d \in left[h]
    /\ Pick(h, d)
    /\ \/ Reached(d, "up") /\ Goto(h, "keep")
       \/ Missed(d, "up") /\ UNCHANGED pc
    /\ UNCHANGED <<sub, past, row, lock, loop>>

Keep(h) ==
    /\ pc[h] = "keep"
    /\ IF Usable /\ row[on[h]] = "suspended"
       THEN SetRow(on[h], "open") ELSE UNCHANGED row
    /\ Goto(h, "resume")
    /\ UNCHANGED <<sub, past, upstream, lock, loop, on, left>>

(* A renewal, after its transaction.                                       *)
FindRevived(h) ==
    /\ pc[h] = "revived"
    /\ IF Usable
       THEN /\ Begin(h, "renewal", {d \in Domain : HasRow(d)})
            /\ loop' = [loop EXCEPT ![h] = "renewal"]
            /\ UNCHANGED on
       ELSE End(h) /\ UNCHANGED loop
    /\ UNCHANGED <<sub, past, row, upstream, lock>>

ResumeRevived(h, d) ==
    /\ pc[h] = "renewal" /\ d \in left[h]
    /\ Pick(h, d)
    /\ ResumeDomain(h, d)
    /\ UNCHANGED <<sub, past, row, lock, loop>>

Done(h) ==
    /\ pc[h] \in {"resume", "renewal"} /\ left[h] = {}
    /\ End(h)
    /\ UNCHANGED <<sub, past, row, upstream, lock, loop>>

-----------------------------------------------------------------------------
(* Domains are added in a transaction that holds the lock over the call,   *)
(* deleted at the provider first, and verified by what the provider says.  *)

Add(h, d) ==
    /\ pc[h] = "idle"
    /\ Usable /\ lock = None
    /\ row[d] = "none" /\ upstream[d] = "none"
    /\ upstream' = [upstream EXCEPT ![d] = "up"]
    /\ \/ /\ Goto(h, "insert") /\ on' = [on EXCEPT ![h] = d] /\ lock' = h
       \/ "unheard" \in Faults /\ UNCHANGED <<pc, on, lock>>
    /\ UNCHANGED <<sub, past, row, loop, left>>

Insert(h) ==
    /\ pc[h] = "insert"
    /\ \/ sub # "deleted" /\ SetRow(on[h], "open")
       \/ /\ sub = "deleted" \/ "slow" \in Faults
          /\ UNCHANGED row
    /\ lock' = None
    /\ End(h)
    /\ UNCHANGED <<sub, past, upstream, loop>>

(* Mutation: the row is deleted whether the provider obeys or not.         *)
Delete_Blind(h, d) ==
    /\ pc[h] = "idle" /\ Usable /\ HasRow(d)
    /\ Reached(d, "none") \/ Missed(d, "none")
    /\ Goto(h, "erase") /\ on' = [on EXCEPT ![h] = d]
    /\ UNCHANGED <<sub, past, row, lock, loop, left>>

Delete(h, d) ==
    /\ pc[h] = "idle" /\ Usable /\ HasRow(d)
    /\ Reached(d, "none")
    /\ \/ Goto(h, "erase") /\ on' = [on EXCEPT ![h] = d]
       \/ "unheard" \in Faults /\ UNCHANGED <<pc, on>>
    /\ UNCHANGED <<sub, past, row, lock, loop, left>>

Erase(h) ==
    /\ pc[h] = "erase"
    /\ SetRow(on[h], "gone")
    /\ End(h)
    /\ UNCHANGED <<sub, past, upstream, lock, loop>>

Verify(h, d) ==
    /\ "verify" \in Faults
    /\ pc[h] = "idle" /\ Usable /\ HasRow(d) /\ upstream[d] # "none"
    /\ Goto(h, "verify") /\ on' = [on EXCEPT ![h] = d]
    /\ UNCHANGED <<sub, past, row, upstream, lock, loop, left>>

Verified(h) ==
    /\ pc[h] = "verify"
    /\ IF HasRow(on[h]) THEN SetRow(on[h], "open") ELSE UNCHANGED row
    /\ End(h)
    /\ UNCHANGED <<sub, past, upstream, lock, loop>>

-----------------------------------------------------------------------------
(* An administrator cancels the subscription: the domains at the provider, *)
(* then the rows, and the refund if the balance is free.                   *)

Cancel(h) ==
    /\ "cancel" \in Faults
    /\ pc[h] = "idle" /\ sub # "deleted"
    /\ Begin(h, "cancel", {d \in Domain : HasRow(d)})
    /\ UNCHANGED <<sub, past, row, upstream, lock, loop, on>>

CancelDomain(h, d) ==
    /\ pc[h] = "cancel" /\ d \in left[h]
    /\ \/ Reached(d, "none") /\ Pick(h, d) /\ UNCHANGED pc
       \/ Missed(d, "none") /\ End(h)
    /\ UNCHANGED <<sub, past, row, lock, loop>>

CancelSubscription(h) ==
    /\ pc[h] = "cancel" /\ left[h] = {}
    /\ \/ /\ sub' = "deleted"
          /\ row' = [d \in Domain |-> IF HasRow(d) THEN "gone" ELSE row[d]]
       \/ "busy" \in Faults /\ UNCHANGED <<sub, row>>
    /\ End(h)
    /\ UNCHANGED <<past, upstream, lock, loop>>

(* A process dies.                                                         *)
Crash(h) ==
    /\ LET renewing == \/ pc[h] \in {"revived", "renewal"}
                       \/ pc[h] \in {"reopen", "hold"} /\ loop[h] = "renewal"
       IN \/ "crash" \in Faults /\ pc[h] \in Working \cup Resuming /\ ~renewing
          \/ "lost" \in Faults /\ renewing
    /\ End(h)
    /\ UNCHANGED <<sub, past, row, upstream, lock, loop>>

-----------------------------------------------------------------------------

HandlerStep(h) ==
    \/ Renew(h) \/ FindRevived(h)
    \/ FindLapsed(h) \/ Recheck(h) \/ SuspendDone(h) \/ SuspendDomain(h) \/ Mark(h)
    \/ Renewed(h) \/ Compensate(h) \/ Reopen(h) \/ Hold(h)
    \/ FindSuspended(h) \/ Keep(h) \/ Done(h)
    \/ Insert(h) \/ Erase(h) \/ Verified(h)
    \/ Cancel(h) \/ CancelSubscription(h) \/ Crash(h)

DomainStep(h, d) ==
    \/ ResumeSuspended(h, d) \/ ResumeRevived(h, d) \/ CancelDomain(h, d)
    \/ Add(h, d) \/ Delete(h, d) \/ Verify(h, d)

Next ==
    \/ Expire \/ MarkExpired \/ AutoRenew
    \/ \E h \in Handler : HandlerStep(h) \/ \E d \in Domain : DomainStep(h, d)

Spec == Init /\ [][Next]_vars

-----------------------------------------------------------------------------

AtWork(d) ==
    \E h \in Handler :
        \/ pc[h] = "revived"
        \/ pc[h] # "idle" /\ (d = on[h] \/ d \in left[h])

(* When nobody works on a domain, one that is paid for and suspended at    *)
(* the provider is marked for the next job to resume                       *)
(* (services/mail-expiry-scheduler.ts 138).                                *)
PaidIsMarked ==
    \A d \in Domain : ~AtWork(d) =>
        (Usable /\ upstream[d] = "down" => row[d] # "open")

(* When nobody works on a domain, one that is marked and not paid for is   *)
(* suspended at the provider, for no job would look at it again            *)
(* (services/mail-expiry-scheduler.ts 61).                                 *)
UnpaidIsSuspended ==
    \A d \in Domain : ~AtWork(d) =>
        (Lapsed /\ row[d] = "suspended" => upstream[d] # "up")

(* Nothing is left at the provider without a row that shows it             *)
(* (routes/mail.ts 945: a remote deletion that fails must not hide what is *)
(* left by deleting the subscription).                                     *)
NothingHidden ==
    \A d \in Domain : ~AtWork(d) => (upstream[d] # "none" => HasRow(d))
=============================================================================
