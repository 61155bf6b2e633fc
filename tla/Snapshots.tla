----------------------------- MODULE Snapshots -----------------------------
(***************************************************************************)
(* The snapshots of one instance: rows in the database and snapshots on    *)
(* the host (services/auto-policy-scheduler.ts, routes/snapshots.ts).      *)
(* Jobs and requests that add one share a lock; requests that delete one   *)
(* take none.  A job that finds the quota full gives up the oldest         *)
(* automatic snapshot first, and tries again after any error.              *)
(***************************************************************************)
EXTENDS Naturals, Sequences, SequencesExt

CONSTANTS Handler,    \* jobs of all processes, and requests
          Snapshot,   \* names of snapshots; bounds how many exist at once
          Limit,      \* snapshotLimit of the instance
          Attempts,   \* MAX_RETRIES: how often a job tries
          Faults,     \* what goes wrong, see SnapshotsConstants
          None

(* host: the host refuses; unheard: it obeys and the answer is lost; db: a *)
(* write to the database fails; crash: a process dies; expire: the lock    *)
(* runs out while its holder is at work.                                   *)
SnapshotsConstants ==
    /\ Limit \in Nat \ {0} /\ Attempts \in Nat \ {0}
    /\ Faults \subseteq {"host", "unheard", "db", "crash", "expire"}
    /\ None \notin Handler \cup Snapshot

VARIABLES rows,       \* the rows, oldest first
          automatic,  \* the snapshots a job has made
          onHost,     \* what the host has
          due,        \* nextRunAt of the policy has passed
          lock,       \* who holds `auto-policy:snapshot:instance'
          pc, on,     \* where a handler is, and its snapshot
          attempt,    \* of a job: how often it has failed
          evicted     \* history, of a job: how many old snapshots it has cost

vars == <<rows, automatic, onHost, due, lock, pc, on, attempt, evicted>>
copies == <<rows, automatic, onHost>>

TypeOK ==
    /\ rows \in Seq(Snapshot) /\ automatic \subseteq Snapshot /\ onHost \subseteq Snapshot
    /\ due \in BOOLEAN
    /\ lock \in Handler \cup {None}
    /\ pc \in [Handler -> {"idle", "lock", "check", "count", "evict", "forget", "take",
                           "record", "date", "giveUp", "queue", "quota", "make", "save",
                           "undo", "unlock", "remove", "erase"}]
    /\ on \in [Handler -> Snapshot \cup {None}]
    /\ attempt \in [Handler -> 0 .. Attempts - 1]
    /\ evicted \in [Handler -> 0 .. Attempts]

Init ==
    /\ rows = <<>> /\ automatic = {} /\ onHost = {}
    /\ due = FALSE /\ lock = None
    /\ pc = [h \in Handler |-> "idle"]
    /\ on = [h \in Handler |-> None]
    /\ attempt = [h \in Handler |-> 0]
    /\ evicted = [h \in Handler |-> 0]

-----------------------------------------------------------------------------

Goto(h, p) == pc' = [pc EXCEPT ![h] = p]
Take(h, s) == on' = [on EXCEPT ![h] = s]
Recorded == ToSet(rows)
Full == Len(rows) >= Limit

(* Names carry the time: each is new.  One nobody knows any more serves.   *)
NewName == Snapshot \ (Recorded \cup onHost \cup {on[h] : h \in Handler})

(* A row is written, or deleted; deleting what is not there is an error.   *)
AddRow(s, auto) ==
    /\ rows' = Append(rows, s)
    /\ automatic' = IF auto THEN automatic \cup {s} ELSE automatic \ {s}
Drop(s) ==
    /\ \/ s \notin Recorded /\ UNCHANGED rows
       \/ \E n \in DOMAIN rows : rows[n] = s /\ rows' = RemoveAt(rows, n)
    /\ UNCHANGED automatic

(* The catch block of an attempt: try again, or give this run up.          *)
Again(h) ==
    IF attempt[h] + 1 < Attempts
    THEN Goto(h, "count") /\ attempt' = [attempt EXCEPT ![h] = @ + 1]
    ELSE Goto(h, "giveUp") /\ UNCHANGED attempt
Fails(h) == Again(h) /\ UNCHANGED <<copies, due, lock, on, evicted>>

End(h) ==
    /\ Goto(h, "idle") /\ Take(h, None)
    /\ attempt' = [attempt EXCEPT ![h] = 0]
    /\ evicted' = [evicted EXCEPT ![h] = 0]

-----------------------------------------------------------------------------
(* The lock, of 30 minutes.                                                *)

BecomesDue ==
    /\ ~due /\ due' = TRUE
    /\ UNCHANGED <<copies, lock, pc, on, attempt, evicted>>

FindDue(h) ==
    /\ pc[h] = "idle" /\ due
    /\ Goto(h, "lock")
    /\ UNCHANGED <<copies, due, lock, on, attempt, evicted>>

Request(h) ==
    /\ pc[h] = "idle"
    /\ Goto(h, "queue")
    /\ UNCHANGED <<copies, due, lock, on, attempt, evicted>>

(* Mutation: the quota of a request is checked without the lock.           *)
Lock_Unlocked(h) ==
    /\ \/ pc[h] = "lock" /\ lock = None /\ Goto(h, "check") /\ lock' = h
       \/ pc[h] = "queue" /\ Goto(h, "quota") /\ UNCHANGED lock
    /\ UNCHANGED <<copies, due, on, attempt, evicted>>

Lock(h) ==
    /\ lock = None
    /\ \/ pc[h] = "lock" /\ Goto(h, "check")
       \/ pc[h] = "queue" /\ Goto(h, "quota")
    /\ lock' = h
    /\ UNCHANGED <<copies, due, on, attempt, evicted>>

Busy(h) ==
    /\ pc[h] \in {"lock", "queue"} /\ lock # None
    /\ Goto(h, "idle")
    /\ UNCHANGED <<copies, due, lock, on, attempt, evicted>>

Unlock(h) ==
    /\ pc[h] = "unlock"
    /\ lock' = IF lock = h THEN None ELSE lock
    /\ End(h)
    /\ UNCHANGED <<copies, due>>

Expire ==
    /\ lock # None
    /\ pc[lock] = "idle" \/ "expire" \in Faults
    /\ lock' = None
    /\ UNCHANGED <<copies, due, pc, on, attempt, evicted>>

-----------------------------------------------------------------------------
(* The job.                                                                *)

Check(h) ==
    /\ pc[h] = "check"
    /\ Goto(h, IF due THEN "count" ELSE "unlock")
    /\ UNCHANGED <<copies, due, lock, on, attempt, evicted>>

(* The oldest automatic snapshot goes, or the oldest if none is.           *)
Oldest(n) ==
    LET made == {m \in DOMAIN rows : rows[m] \in automatic}
    IN  IF made = {} THEN n = 1 ELSE n \in made /\ \A m \in made : n <= m

Count(h) ==
    /\ pc[h] = "count"
    /\ \/ /\ Full /\ Goto(h, "evict")
          /\ \E n \in DOMAIN rows : Oldest(n) /\ Take(h, rows[n])
       \/ ~Full /\ Goto(h, "take") /\ UNCHANGED on
    /\ UNCHANGED <<copies, due, lock, attempt, evicted>>

Evict(h) ==
    /\ pc[h] = "evict"
    /\ \/ /\ on[h] \in onHost /\ onHost' = onHost \ {on[h]}
          /\ \/ Goto(h, "forget") /\ UNCHANGED attempt
             \/ "unheard" \in Faults /\ Again(h)
          /\ UNCHANGED <<rows, automatic, due, lock, on, evicted>>
       \/ (on[h] \notin onHost \/ "host" \in Faults) /\ Fails(h)

Forget(h) ==
    /\ pc[h] = "forget"
    /\ \/ /\ on[h] \in Recorded /\ Drop(on[h])
          /\ evicted' = [evicted EXCEPT ![h] = @ + 1]
          /\ Goto(h, "take")
          /\ UNCHANGED <<onHost, due, lock, on, attempt>>
       \/ (on[h] \notin Recorded \/ "db" \in Faults) /\ Fails(h)

TakeSnapshot(h) ==
    /\ pc[h] = "take"
    /\ \/ \E s \in NewName :
            /\ onHost' = onHost \cup {s}
            /\ \/ Goto(h, "record") /\ Take(h, s) /\ UNCHANGED attempt
               \/ "unheard" \in Faults /\ Again(h) /\ UNCHANGED on
            /\ UNCHANGED <<rows, automatic, due, lock, evicted>>
       \/ "host" \in Faults /\ Fails(h)

Record(h) ==
    /\ pc[h] = "record"
    /\ \/ /\ AddRow(on[h], TRUE)
          /\ Goto(h, "date")
          /\ UNCHANGED <<onHost, due, lock, on, attempt, evicted>>
       \/ "db" \in Faults /\ Fails(h)

Date(h) ==
    /\ pc[h] \in {"date", "giveUp"}
    /\ \/ /\ due' = FALSE /\ Goto(h, "unlock")
          /\ UNCHANGED <<copies, lock, on, attempt, evicted>>
       \/ "db" \in Faults /\ pc[h] = "date" /\ Fails(h)
       \/ /\ "db" \in Faults /\ pc[h] = "giveUp" /\ Goto(h, "unlock")
          /\ UNCHANGED <<copies, due, lock, on, attempt, evicted>>

-----------------------------------------------------------------------------
(* Requests: a new snapshot, under the lock, and a deletion.               *)

Quota(h) ==
    /\ pc[h] = "quota"
    /\ Goto(h, IF Full THEN "unlock" ELSE "make")
    /\ UNCHANGED <<copies, due, lock, on, attempt, evicted>>

Make(h) ==
    /\ pc[h] = "make"
    /\ \/ \E s \in NewName :
            /\ onHost' = onHost \cup {s}
            /\ \/ Goto(h, "save") /\ Take(h, s)
               \/ "unheard" \in Faults /\ Goto(h, "unlock") /\ UNCHANGED on
       \/ "host" \in Faults /\ Goto(h, "unlock") /\ UNCHANGED <<onHost, on>>
    /\ UNCHANGED <<rows, automatic, due, lock, attempt, evicted>>

Save(h) ==
    /\ pc[h] = "save"
    /\ \/ AddRow(on[h], FALSE) /\ Goto(h, "unlock")
       \/ "db" \in Faults /\ Goto(h, "undo") /\ UNCHANGED <<rows, automatic>>
    /\ UNCHANGED <<onHost, due, lock, on, attempt, evicted>>

Undo(h) ==
    /\ pc[h] = "undo"
    /\ Goto(h, "unlock")
    /\ \/ onHost' = onHost \ {on[h]}
       \/ "host" \in Faults /\ UNCHANGED onHost
    /\ UNCHANGED <<rows, automatic, due, lock, on, attempt, evicted>>

Delete(h, s) ==
    /\ pc[h] = "idle" /\ s \in Recorded
    /\ Goto(h, "remove") /\ Take(h, s)
    /\ UNCHANGED <<copies, due, lock, attempt, evicted>>

RemoveSnapshot(h) ==
    /\ pc[h] = "remove"
    /\ \/ /\ on[h] \in onHost /\ onHost' = onHost \ {on[h]}
          /\ \/ Goto(h, "erase") /\ UNCHANGED <<on, attempt, evicted>>
             \/ "unheard" \in Faults /\ End(h)
       \/ /\ on[h] \notin onHost \/ "host" \in Faults
          /\ End(h) /\ UNCHANGED onHost
    /\ UNCHANGED <<rows, automatic, due, lock>>

Erase(h) ==
    /\ pc[h] = "erase"
    /\ \/ Drop(on[h])
       \/ "db" \in Faults /\ UNCHANGED <<rows, automatic>>
    /\ End(h)
    /\ UNCHANGED <<onHost, due, lock>>

Crash(h) ==
    /\ "crash" \in Faults /\ pc[h] # "idle"
    /\ End(h)
    /\ UNCHANGED <<copies, due, lock>>

Next ==
    \/ BecomesDue \/ Expire
    \/ \E h \in Handler :
        \/ FindDue(h) \/ Request(h) \/ Lock(h) \/ Busy(h) \/ Unlock(h)
        \/ Check(h) \/ Count(h) \/ Evict(h) \/ Forget(h) \/ TakeSnapshot(h)
        \/ Record(h) \/ Date(h)
        \/ Quota(h) \/ Make(h) \/ Save(h) \/ Undo(h)
        \/ RemoveSnapshot(h) \/ Erase(h) \/ Crash(h)
        \/ \E s \in Snapshot : Delete(h, s)

Spec == Init /\ [][Next]_vars

-----------------------------------------------------------------------------
(* Properties                                                              *)

(* The quota, which jobs and requests count before a call to the host and  *)
(* fill after it, is kept; deletions beside them change the count.         *)
QuotaKept == Len(rows) <= Limit

(* A run of the job costs at most one old snapshot, however often the host *)
(* refuses the new one and the run starts again.                           *)
OneForOne == \A h \in Handler : evicted[h] <= 1

(* What is recorded is on the host and the other way round, except for the *)
(* snapshot a handler is adding or deleting.                               *)
RowsMatchHost ==
    /\ \A s \in Recorded \ onHost :
        \E h \in Handler : on[h] = s /\ pc[h] \in {"forget", "erase"}
    /\ \A s \in onHost \ Recorded :
        \E h \in Handler : on[h] = s /\ pc[h] \in {"record", "save", "undo"}
=============================================================================
