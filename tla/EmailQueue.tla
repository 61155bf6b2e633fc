----------------------------- MODULE EmailQueue -----------------------------
(***************************************************************************)
(* The queue of e-mails to the users of a host: one worker in every process*)
(* claims a task at most once a minute, sends it, and marks it, with three *)
(* retries; what is processed for more than ten minutes is queued again.   *)
(***************************************************************************)
EXTENDS Naturals

CONSTANTS Task, Process, None,
          Interval,     \* between two e-mails
          RetryDelay,
          Timeout,      \* of a task that is processed
          MaxRetries,
          MaxTime       \* bound

EmailQueueConstants ==
    /\ None \notin Task
    /\ {Interval, RetryDelay, Timeout, MaxRetries, MaxTime} \subseteq Nat
    /\ 0 < Interval
    /\ Interval < Timeout

VARIABLES
    now,
    status, scheduledFor, retryCount,
    startedAt,              \* 0: never, or queued again
    sending, tries, step,   \* for each process: its task, the retries it saw,
                            \* and its step
    sent,                   \* e-mails that went out for each task
    claimed,                \* history: how often a task was claimed
    requeued,               \* history: and queued again by the clean-up
    last                    \* history: when a task was last claimed

task == <<status, scheduledFor, retryCount, startedAt>>
worker == <<sending, tries, step>>
history == <<claimed, requeued, last>>
vars == <<now, task, worker, sent, history>>

(* The clock starts where 0 is long ago.                                   *)
Epoch == Timeout + 1

Init ==
    /\ now = Epoch
    /\ status = [t \in Task |-> "none"]
    /\ scheduledFor = [t \in Task |-> 0]
    /\ retryCount = [t \in Task |-> 0]
    /\ startedAt = [t \in Task |-> 0]
    /\ sending = [p \in Process |-> None]
    /\ tries = [p \in Process |-> 0]
    /\ step = [p \in Process |-> "idle"]
    /\ sent = [t \in Task |-> 0]
    /\ claimed = [t \in Task |-> 0]
    /\ requeued = [t \in Task |-> 0]
    /\ last = 0

Tick ==
    /\ now < Epoch + MaxTime
    /\ now' = now + 1
    /\ UNCHANGED <<task, worker, sent, history>>

Queued == {t \in Task : status[t] \in {"PENDING", "PROCESSING"}}
AtLeast(n, S) == \A s \in S : n >= s

(* One task of enqueueHostNotificationEmailTasks, behind all others.       *)
Enqueue(t) ==
    LET free == {now} \cup {scheduledFor[q] + Interval : q \in Queued}
                      \cup {startedAt[q] + Interval : q \in {q \in Task : startedAt[q] > 0}}
    IN /\ status[t] = "none"
       /\ \E n \in free :
            /\ AtLeast(n, free)
            /\ scheduledFor' = [scheduledFor EXCEPT ![t] = n]
       /\ status' = [status EXCEPT ![t] = "PENDING"]
       /\ UNCHANGED <<now, retryCount, startedAt, worker, sent, history>>

(* Mutation: only what is processed holds up the queue.                    *)
Throttling_Processing(t) == status[t] = "PROCESSING"

Throttling(t) ==
    status[t] = "PROCESSING" \/ (startedAt[t] > 0 /\ startedAt[t] >= now - Interval)

(* claimNextHostNotificationEmailTask, under the lock of the queue.        *)
Claim(p, t) ==
    /\ step[p] = "idle"
    /\ \A q \in Task : ~Throttling(q)
    /\ status[t] = "PENDING"
    /\ scheduledFor[t] <= now
    /\ \A q \in Task : status[q] = "PENDING" => scheduledFor[t] <= scheduledFor[q]
    /\ status' = [status EXCEPT ![t] = "PROCESSING"]
    /\ startedAt' = [startedAt EXCEPT ![t] = now]
    /\ sending' = [sending EXCEPT ![p] = t]
    /\ tries' = [tries EXCEPT ![p] = retryCount[t]]
    /\ step' = [step EXCEPT ![p] = "send"]
    /\ claimed' = [claimed EXCEPT ![t] = @ + 1]
    /\ last' = now
    /\ UNCHANGED <<now, scheduledFor, retryCount, sent, requeued>>

(* It goes out, and is seen to; or fails, or seems to.                     *)
Send(p) ==
    /\ step[p] = "send"
    /\ \/ /\ sent' = [sent EXCEPT ![sending[p]] = @ + 1]
          /\ \E s \in {"mark", "retry"} : step' = [step EXCEPT ![p] = s]
       \/ /\ UNCHANGED sent
          /\ step' = [step EXCEPT ![p] = "retry"]
    /\ UNCHANGED <<now, task, sending, tries, history>>

Rest(p) ==
    /\ step' = [step EXCEPT ![p] = "idle"]
    /\ sending' = [sending EXCEPT ![p] = None]
    /\ tries' = [tries EXCEPT ![p] = 0]

MarkSent(p) ==
    LET t == sending[p]
    IN /\ step[p] = "mark"
       /\ status' = [status EXCEPT ![t] = IF @ = "PROCESSING" THEN "SENT" ELSE @]
       /\ Rest(p)
       /\ UNCHANGED <<now, scheduledFor, retryCount, startedAt, sent, history>>

(* Mutation: the number of retries is not compared.                        *)
Mine_Any(p) == status[sending[p]] = "PROCESSING"

(* The task is processed, and nobody retried it since it was claimed.      *)
Mine(p) == status[sending[p]] = "PROCESSING" /\ retryCount[sending[p]] = tries[p]

RetryOrFail(p) ==
    LET t == sending[p]
        fails == tries[p] >= MaxRetries
    IN /\ step[p] = "retry"
       /\ IF ~Mine(p) THEN UNCHANGED <<status, scheduledFor, retryCount>>
          ELSE IF fails
          THEN /\ status' = [status EXCEPT ![t] = "FAILED"]
               /\ UNCHANGED <<scheduledFor, retryCount>>
          ELSE /\ status' = [status EXCEPT ![t] = "PENDING"]
               /\ retryCount' = [retryCount EXCEPT ![t] = @ + 1]
               /\ scheduledFor' = [scheduledFor EXCEPT ![t] = now + RetryDelay]
       /\ Rest(p)
       /\ UNCHANGED <<now, startedAt, sent, history>>

(* Mutation: the clean-up of a start takes back what others process.       *)
Overdue_Any(t) == status[t] = "PROCESSING"

Overdue(t) == status[t] = "PROCESSING" /\ startedAt[t] < now - Timeout

(* Both clean-ups: at the start of a process, and every minute.            *)
Cleanup ==
    /\ \E t \in Task : Overdue(t)
    /\ status' = [t \in Task |-> IF Overdue(t) THEN "PENDING" ELSE status[t]]
    /\ scheduledFor' = [t \in Task |-> IF Overdue(t) THEN now ELSE scheduledFor[t]]
    /\ startedAt' = [t \in Task |-> IF Overdue(t) THEN 0 ELSE startedAt[t]]
    /\ requeued' = [t \in Task |-> IF Overdue(t) THEN requeued[t] + 1 ELSE requeued[t]]
    /\ UNCHANGED <<now, retryCount, worker, sent, claimed, last>>

Crash(p) ==
    /\ step[p] # "idle"
    /\ Rest(p)
    /\ UNCHANGED <<now, task, sent, history>>

Next ==
    \/ Tick
    \/ \E t \in Task : Enqueue(t)
    \/ \E p \in Process :
         \/ \E t \in Task : Claim(p, t)
         \/ Send(p) \/ MarkSent(p) \/ RetryOrFail(p) \/ Crash(p)
    \/ Cleanup

Spec == Init /\ [][Next]_vars

----------------------------------------------------------------------------
(* Properties                                                              *)

TypeOK ==
    /\ now \in Nat
    /\ status \in [Task -> {"none", "PENDING", "PROCESSING", "SENT", "FAILED"}]
    /\ scheduledFor \in [Task -> Nat]
    /\ retryCount \in [Task -> Nat]
    /\ startedAt \in [Task -> Nat]
    /\ sending \in [Process -> Task \cup {None}]
    /\ tries \in [Process -> Nat]
    /\ step \in [Process -> {"idle", "send", "mark", "retry"}]
    /\ \A p \in Process : step[p] # "idle" => sending[p] \in Task
    /\ sent \in [Task -> Nat]
    /\ claimed \in [Task -> Nat]
    /\ requeued \in [Task -> Nat]
    /\ last \in Nat

(* The workers of all processes together claim at most one task in each    *)
(* interval, though a clean-up forgets when a task was started.            *)
Throttled ==
    [][last' # last => last' > last + Interval]_vars

(* A task is claimed again only because an attempt at it failed or was     *)
(* given up, so nobody gets more e-mails than there were attempts, and it  *)
(* fails only after all its retries: the result of an attempt that was     *)
(* given up ends at most the one that came after it.                       *)
AttemptsAreCounted ==
    \A t \in Task :
        /\ sent[t] <= claimed[t]
        /\ status[t] # "none" =>
             claimed[t] = retryCount[t] + requeued[t] + IF status[t] = "PENDING" THEN 0 ELSE 1
        /\ status[t] = "FAILED" => retryCount[t] = MaxRetries
        /\ retryCount[t] <= MaxRetries
=============================================================================
