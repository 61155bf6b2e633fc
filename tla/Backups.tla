------------------------------- MODULE Backups -------------------------------
(***************************************************************************)
(* The backups of one instance and their copies at the storage of its      *)
(* owner (routes/backups.ts, db/backups.ts, workers/backupUploadWorker.ts, *)
(* db/backup-upload-tasks.ts).  A request reserves a row, and the answer   *)
(* of the host that comes after it decides the row; a deletion trusts that *)
(* what the host refuses is not there.  An upload streams a backup from    *)
(* the host to the storage, removes what a failed attempt has left there,  *)
(* and is given up after 30 minutes by itself or by a sweep.               *)
(***************************************************************************)
EXTENDS Naturals, FiniteSets

CONSTANTS Backup, Task,
          Limit,       \* backupLimit of the instance
          MaxRetries,  \* MAX_RETRY_COUNT
          Faults       \* what goes wrong, see BackupsConstants

(* host: the host refuses; unheard: it obeys and the answer is lost; crash:*)
(* the process dies; net: the upload breaks off; litter: what it has left  *)
(* cannot be removed; nodes: another process, or one that starts, sweeps.  *)
BackupsConstants ==
    /\ Limit \in Nat /\ MaxRetries \in Nat
    /\ Faults \subseteq {"host", "unheard", "crash", "net", "litter", "nodes"}

VARIABLES row,        \* of a backup: its status
          copies,     \* the backups the host has
          maker,      \* of a backup: where the answer to its creation is
          remover,    \* of a backup: where its deletion is
          early,      \* history: a deletion began before the creation was answered
          task, of,   \* of an upload: its status and its backup
          retries,    \* retryCount
          late,       \* 30 minutes since startedAt
          pc,         \* of an upload: where its execution is
          overtime,   \* 30 minutes since that began
          again,      \* its error may be retried
          file,       \* remoteFileName: the attempt that made it
          stored      \* the files at the storage: an upload and its attempt

vars == <<row, copies, maker, remover, early, task, of, retries, late, pc, overtime, again,
          file, stored>>
backups == <<row, copies, maker, remover, early>>
execution == <<pc, overtime, again>>
uploads == <<task, of, retries, late, execution, file, stored>>

Active == {"PENDING", "PROCESSING"}

TypeOK ==
    /\ row \in [Backup -> {"none", "creating", "ready", "error", "deleted"}]
    /\ copies \subseteq Backup
    /\ maker \in [Backup -> {"idle", "ask", "made", "failed"}]
    /\ remover \in [Backup -> {"idle", "ask", "erase"}]
    /\ early \in [Backup -> BOOLEAN]
    /\ task \in [Task -> Active \cup {"none", "COMPLETED", "FAILED"}]
    /\ of \in [Task -> Backup \cup {"none"}]
    /\ retries \in [Task -> 0 .. MaxRetries]
    /\ late \in [Task -> BOOLEAN] /\ overtime \in [Task -> BOOLEAN]
    /\ pc \in [Task -> {"idle", "export", "upload", "check", "finish", "clean", "settle"}]
    /\ again \in [Task -> BOOLEAN]
    /\ file \in [Task -> 0 .. MaxRetries]
    /\ stored \subseteq Task \X (0 .. MaxRetries)

Init ==
    /\ row = [b \in Backup |-> "none"] /\ copies = {}
    /\ maker = [b \in Backup |-> "idle"] /\ remover = [b \in Backup |-> "idle"]
    /\ early = [b \in Backup |-> FALSE]
    /\ task = [t \in Task |-> "none"] /\ of = [t \in Task |-> "none"]
    /\ retries = [t \in Task |-> 0]
    /\ late = [t \in Task |-> FALSE] /\ overtime = [t \in Task |-> FALSE]
    /\ pc = [t \in Task |-> "idle"] /\ again = [t \in Task |-> FALSE]
    /\ file = [t \in Task |-> 0] /\ stored = {}

-----------------------------------------------------------------------------
(* Backups.                                                                *)

Counted == {b \in Backup : row[b] \in {"creating", "ready"}}

SetRow(b, s) == row' = [row EXCEPT ![b] = s]
MakerAt(b, p) == maker' = [maker EXCEPT ![b] = p]
RemoverAt(b, p) == remover' = [remover EXCEPT ![b] = p]

Reserve(b) ==
    /\ row[b] = "none" /\ Cardinality(Counted) < Limit
    /\ SetRow(b, "creating") /\ MakerAt(b, "ask")
    /\ UNCHANGED <<copies, remover, early, uploads>>

HostMakes(b) ==
    /\ maker[b] = "ask"
    /\ \/ /\ copies' = copies \cup {b}
          /\ \/ MakerAt(b, "made")
             \/ "unheard" \in Faults /\ MakerAt(b, "failed")
       \/ "host" \in Faults /\ MakerAt(b, "failed") /\ UNCHANGED copies
    /\ UNCHANGED <<row, remover, early, uploads>>

(* updateBackupStatus compares nothing.                                    *)
Made(b) ==
    /\ maker[b] \in {"made", "failed"}
    /\ SetRow(b, IF maker[b] = "made" THEN "ready" ELSE "error")
    /\ MakerAt(b, "idle")
    /\ UNCHANGED <<copies, remover, early, uploads>>

(* At a start, of a creation from the day before.                          *)
CleanStale(b) ==
    /\ row[b] = "creating" /\ maker[b] = "idle" /\ remover[b] = "idle"
    /\ SetRow(b, "error")
    /\ UNCHANGED <<copies, maker, remover, early, uploads>>

Delete(b) ==
    /\ row[b] \notin {"none", "deleted"} /\ remover[b] = "idle"
    /\ RemoverAt(b, "ask")
    /\ early' = [early EXCEPT ![b] = @ \/ maker[b] # "idle"]
    /\ UNCHANGED <<row, copies, maker, uploads>>

HostDeletes(b) ==
    /\ remover[b] = "ask"
    /\ \/ copies' = copies \ {b}
       \/ "host" \in Faults /\ UNCHANGED copies
    /\ RemoverAt(b, "erase")
    /\ UNCHANGED <<row, maker, early, uploads>>

Erase(b) ==
    /\ remover[b] = "erase"
    /\ SetRow(b, "deleted") /\ RemoverAt(b, "idle")
    /\ UNCHANGED <<copies, maker, early, uploads>>

-----------------------------------------------------------------------------
(* Uploads: the row.                                                       *)

SetTask(t, s) == task' = [task EXCEPT ![t] = s]
Goto(t, p) == pc' = [pc EXCEPT ![t] = p]

Request(t, b) ==
    /\ task[t] = "none" /\ row[b] = "ready"
    /\ \A u \in Task : task[u] \notin Active
    /\ SetTask(t, "PENDING") /\ of' = [of EXCEPT ![t] = b]
    /\ UNCHANGED <<backups, retries, late, execution, file, stored>>

Cancel(t) ==
    /\ task[t] = "PENDING"
    /\ SetTask(t, "FAILED")
    /\ UNCHANGED <<backups, of, retries, late, execution, file, stored>>

Claim(t) ==
    /\ task[t] = "PENDING" /\ \A u \in Task : task[u] # "PROCESSING"
    /\ SetTask(t, "PROCESSING") /\ Goto(t, "export")
    /\ late' = [late EXCEPT ![t] = FALSE] /\ overtime' = [overtime EXCEPT ![t] = FALSE]
    /\ UNCHANGED <<backups, of, retries, again, file, stored>>

GrowLate(t) ==
    /\ task[t] = "PROCESSING" /\ ~late[t]
    /\ late' = [late EXCEPT ![t] = TRUE]
    /\ UNCHANGED <<backups, task, of, retries, execution, file, stored>>

(* Mutation: the sweep does not spare what its own process executes.       *)
Sweep_Own(t) ==
    /\ task[t] = "PROCESSING" /\ late[t]
    /\ SetTask(t, "FAILED")
    /\ UNCHANGED <<backups, of, retries, late, execution, file, stored>>

(* A process spares what it executes, which another does not know.         *)
Sweep(t) ==
    /\ task[t] = "PROCESSING" /\ late[t]
    /\ pc[t] = "idle" \/ "nodes" \in Faults
    /\ SetTask(t, "FAILED")
    /\ UNCHANGED <<backups, of, retries, late, execution, file, stored>>

-----------------------------------------------------------------------------
(* Uploads: the execution.                                                 *)

Overrun(t) ==
    /\ pc[t] # "idle" /\ late[t] /\ ~overtime[t]
    /\ overtime' = [overtime EXCEPT ![t] = TRUE]
    /\ UNCHANGED <<backups, task, of, retries, late, pc, again, file, stored>>

(* The catch block; an error of the network may be retried, others not.    *)
Catch(t, retry) ==
    /\ Goto(t, "clean") /\ again' = [again EXCEPT ![t] = retry]

Export(t) ==
    /\ pc[t] = "export"
    /\ \/ of[t] \in copies /\ ~overtime[t] /\ Goto(t, "upload") /\ UNCHANGED again
       \/ (of[t] \notin copies \/ overtime[t]) /\ Catch(t, FALSE)
       \/ "host" \in Faults /\ Catch(t, TRUE)
    /\ UNCHANGED <<backups, task, of, retries, late, overtime, file, stored>>

Upload(t) ==
    /\ pc[t] = "upload"
    /\ \/ /\ stored' = stored \cup {<<t, retries[t]>>}
          /\ \/ Goto(t, "check") /\ UNCHANGED again
             \/ "net" \in Faults /\ Catch(t, TRUE)
       \/ "net" \in Faults /\ Catch(t, TRUE) /\ UNCHANGED stored
    /\ UNCHANGED <<backups, task, of, retries, late, overtime, file>>

CheckTime(t) ==
    /\ pc[t] = "check"
    /\ \/ ~overtime[t] /\ Goto(t, "finish") /\ UNCHANGED again
       \/ overtime[t] /\ Catch(t, FALSE)
    /\ UNCHANGED <<backups, task, of, retries, late, overtime, file, stored>>

Finish(t) ==
    /\ pc[t] = "finish"
    /\ \/ /\ task[t] = "PROCESSING" /\ SetTask(t, "COMPLETED")
          /\ file' = [file EXCEPT ![t] = retries[t]]
       \/ task[t] # "PROCESSING" /\ UNCHANGED <<task, file>>
    /\ Goto(t, "idle")
    /\ UNCHANGED <<backups, of, retries, late, overtime, again, stored>>

Clean(t) ==
    /\ pc[t] = "clean"
    /\ \/ stored' = stored \ {<<t, retries[t]>>}
       \/ "litter" \in Faults /\ UNCHANGED stored
    /\ Goto(t, "settle")
    /\ UNCHANGED <<backups, task, of, retries, late, overtime, again, file>>

Settle(t) ==
    /\ pc[t] = "settle"
    /\ \/ /\ task[t] = "PROCESSING" /\ again[t] /\ retries[t] < MaxRetries
          /\ SetTask(t, "PENDING") /\ retries' = [retries EXCEPT ![t] = @ + 1]
       \/ /\ task[t] = "PROCESSING" /\ (~again[t] \/ retries[t] = MaxRetries)
          /\ SetTask(t, "FAILED") /\ UNCHANGED retries
       \/ task[t] # "PROCESSING" /\ UNCHANGED <<task, retries>>
    /\ Goto(t, "idle")
    /\ UNCHANGED <<backups, of, late, overtime, again, file, stored>>

(* A process dies, with the requests and the upload it was at.             *)
Crash ==
    /\ "crash" \in Faults
    /\ maker' = [b \in Backup |-> "idle"] /\ remover' = [b \in Backup |-> "idle"]
    /\ pc' = [t \in Task |-> "idle"]
    /\ <<maker, remover, pc>>' # <<maker, remover, pc>>
    /\ UNCHANGED <<row, copies, early, task, of, retries, late, overtime, again, file,
                   stored>>

Next ==
    \/ \E b \in Backup :
        \/ Reserve(b) \/ HostMakes(b) \/ Made(b) \/ CleanStale(b)
        \/ Delete(b) \/ HostDeletes(b) \/ Erase(b)
    \/ \E t \in Task :
        \/ \E b \in Backup : Request(t, b)
        \/ Cancel(t) \/ Claim(t) \/ GrowLate(t) \/ Sweep(t)
        \/ Overrun(t) \/ Export(t) \/ Upload(t) \/ CheckTime(t)
        \/ Finish(t) \/ Clean(t) \/ Settle(t)
    \/ Crash

Spec == Init /\ [][Next]_vars

-----------------------------------------------------------------------------
(* Properties                                                              *)

(* What creating and ready backups count is within the quota, although an  *)
(* answer that comes late decides a row without a look at it.  The         *)
(* exception are backups that were deleted before their creation was       *)
(* answered, which the answer brings back.                                 *)
QuotaKept == Cardinality({b \in Counted : ~early[b]}) <= Limit

(* A backup that is ready, and may be restored, is on the host, unless a   *)
(* deletion is under way or began before the creation was answered.        *)
ReadyIsOnHost ==
    \A b \in Backup :
        row[b] = "ready" => b \in copies \/ remover[b] = "erase" \/ early[b]

(* The file of a completed upload is at the storage; no attempt, sweep or  *)
(* clean-up takes it away.                                                 *)
CompletedIsStored ==
    \A t \in Task : task[t] = "COMPLETED" => <<t, file[t]>> \in stored

(* Whatever else is at the storage is of an attempt still under way.       *)
NothingStray ==
    \A t \in Task, n \in 0 .. MaxRetries :
        <<t, n>> \in stored =>
            \/ task[t] = "COMPLETED" /\ file[t] = n
            \/ pc[t] \in {"check", "finish", "clean"} /\ retries[t] = n
=============================================================================
