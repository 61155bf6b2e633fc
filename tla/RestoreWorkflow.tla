-------------------------- MODULE RestoreWorkflow --------------------------
(***************************************************************************)
(* The restore of one instance from a backup, as executeRestoreTask and    *)
(* the rollback route perform it on the host: import the backup under a    *)
(* temporary name, delete the original, give its name to the temporary     *)
(* instance.  Between any two calls the process may die, the call may      *)
(* fail, and a user may roll back or ask for the next restore.             *)
(*                                                                         *)
(* What counts is where complete copies of the instance are.  Incus works  *)
(* on its own: an import or a deletion goes on when nobody waits for it.   *)
(***************************************************************************)
EXTENDS Naturals

CONSTANTS MaxTasks,       \* bound: restore tasks of the instance
          PromptDeletes,  \* Incus ends a deletion before its client gives up,
                          \* and before a sweep of the row of a dead client
          SharedSweep     \* a second node sweeps rows this node executes

ASSUME RestoreConstants ==
    /\ MaxTasks \in Nat
    /\ PromptDeletes \in BOOLEAN
    /\ SharedSweep \in BOOLEAN

Task == 1 .. MaxTasks
Original == 0               \* the instance's own name; a task is its temp name
Name == {Original} \cup Task

VARIABLES
    status,   \* the rows of restore_tasks; "none" before they are inserted
    manual,   \* rows with progress "manual_intervention"
    step,     \* where the execution of a task is; "idle" if there is none
    rollback, \* where a rollback request for a task is
    copies,   \* names under which Incus has a complete copy
    partial,  \* names Incus is importing a backup to
    deleting, \* names Incus is deleting
    current,  \* whose data the original name stands for; Original: its own
    backup,   \* "ready"; "stale": row without file; "none": no row
    running   \* the instance under the original name is running

row == <<status, manual>>
host == <<copies, partial, deleting, current, backup, running>>
vars == <<row, step, rollback, host>>

Work == {"stop", "import", "importing", "clean", "delete", "deleting",
         "rename", "start", "record", "complete"}
Recovery == {"look", "drop", "dropping", "mark", "markManual"}
present == copies \cup partial
Active(t) == status[t] \in {"PENDING", "PROCESSING"}

Init ==
    /\ status = [t \in Task |-> "none"]
    /\ manual = {}
    /\ step = [t \in Task |-> "idle"]
    /\ rollback = [t \in Task |-> "idle"]
    /\ copies = {Original}
    /\ partial = {}
    /\ deleting = {}
    /\ current = Original
    /\ backup = "ready"
    /\ running = TRUE

Goto(t, s) == step' = [step EXCEPT ![t] = s]
At(t, s) == step[t] = s

----------------------------------------------------------------------------
(* Requests                                                                *)

(* The restore route and createRestoreTask: one active task per instance.  *)
Request(t) ==
    /\ status[t] = "none"
    /\ \A u \in Task : u < t => status[u] # "none"
    /\ \A u \in Task : ~Active(u)
    /\ backup # "none"
    /\ status' = [status EXCEPT ![t] = "PENDING"]
    /\ UNCHANGED <<manual, step, rollback, host>>

Cancel(t) ==
    /\ status[t] = "PENDING"
    /\ status' = [status EXCEPT ![t] = "FAILED"]
    /\ UNCHANGED <<manual, step, rollback, host>>

(* A new backup of the instance, exported on the host and recorded.        *)
TakeBackup ==
    /\ Original \in copies \ deleting
    /\ backup' = "ready"
    /\ UNCHANGED <<row, step, rollback, copies, partial, deleting, current, running>>

(* The user starts or stops the instance: an instance task, which no       *)
(* worker takes while a restore is PROCESSING on the host.                 *)
UserPower ==
    /\ Original \in copies \ deleting
    /\ \A t \in Task : status[t] # "PROCESSING"
    /\ running' = ~running
    /\ UNCHANGED <<row, step, rollback, copies, partial, deleting, current, backup>>

(* The worker takes the task when no other works on the host.              *)
Claim(t) ==
    /\ status[t] = "PENDING"
    /\ \A u \in Task : status[u] # "PROCESSING"
    /\ status' = [status EXCEPT ![t] = "PROCESSING"]
    /\ Goto(t, "stop")
    /\ UNCHANGED <<manual, rollback, host>>

----------------------------------------------------------------------------
(* The execution                                                           *)

(* checkTimeout: ten minutes after the start the execution gives up at the  *)
(* next check.  A row that was swept under it is that old.                 *)
InTime(t) == status[t] # "FAILED"

(* The original is stopped, or that fails and is only logged.              *)
Stop(t) ==
    /\ At(t, "stop")
    /\ InTime(t)
    /\ running' \in {running, FALSE}
    /\ Goto(t, "import")
    /\ UNCHANGED <<row, rollback, copies, partial, deleting, current, backup>>

(* The backup's stream is posted to Incus under the temporary name.        *)
Import(t) ==
    /\ At(t, "import")
    /\ backup = "ready"
    /\ partial' = partial \cup {t}
    /\ Goto(t, "importing")
    /\ UNCHANGED <<row, rollback, copies, deleting, current, backup, running>>

Imported(t) ==
    /\ At(t, "importing")
    /\ InTime(t)
    /\ t \in copies
    /\ Goto(t, "clean")
    /\ UNCHANGED <<row, rollback, host>>

(* Incus backups and snapshots of the original go, as far as that succeeds *)
Clean(t) ==
    /\ At(t, "clean")
    /\ backup' \in {backup, IF backup = "ready" THEN "stale" ELSE backup}
    /\ Goto(t, "delete")
    /\ UNCHANGED <<row, rollback, copies, partial, deleting, current, running>>

(* Incus refuses to delete a running instance.                             *)
Delete(t) ==
    /\ At(t, "delete")
    /\ Original \in copies \ deleting
    /\ ~running
    /\ deleting' = deleting \cup {Original}
    /\ Goto(t, "deleting")
    /\ UNCHANGED <<row, rollback, copies, partial, current, backup, running>>

(* The deletion was answered with success.                                 *)
Deleted(t) ==
    /\ At(t, "deleting")
    /\ InTime(t)
    /\ Original \notin copies
    /\ Goto(t, "rename")
    /\ UNCHANGED <<row, rollback, host>>

(* Mutation: the temporary copy is looked up by instance, not by task.     *)
Rename_AnyTemp(t) ==
    /\ At(t, "rename")
    /\ Original \notin copies
    /\ \E u \in copies :
         /\ copies' = (copies \ {u}) \cup {Original}
         /\ current' = u
    /\ Goto(t, "start")
    /\ UNCHANGED <<row, rollback, partial, deleting, backup, running>>

Rename(t) ==
    /\ At(t, "rename")
    /\ Original \notin copies
    /\ t \in copies
    /\ copies' = (copies \ {t}) \cup {Original}
    /\ current' = t
    /\ Goto(t, "start")
    /\ UNCHANGED <<row, rollback, partial, deleting, backup, running>>

Start(t) ==
    /\ At(t, "start")
    /\ Original \in copies \ deleting
    /\ running' = TRUE
    /\ Goto(t, "record")
    /\ UNCHANGED <<row, rollback, copies, partial, deleting, current, backup>>

(* The rows of the backups that went with the original are retired.        *)
Record(t) ==
    /\ At(t, "record")
    /\ backup' = "none"
    /\ Goto(t, "complete")
    /\ UNCHANGED <<row, rollback, copies, partial, deleting, current, running>>

Complete(t) ==
    /\ At(t, "complete")
    /\ status' = [status EXCEPT ![t] = IF @ = "PROCESSING" THEN "COMPLETED" ELSE @]
    /\ Goto(t, "idle")
    /\ UNCHANGED <<manual, rollback, host>>

(* Any call fails, or checkTimeout gives up after ten minutes.  A deletion *)
(* still in progress is given up only if Incus is slow.                    *)
Throws(t) ==
    /\ step[t] \in Work
    /\ At(t, "deleting") /\ Original \in deleting => ~PromptDeletes
    /\ Goto(t, "look")
    /\ UNCHANGED <<row, rollback, host>>

----------------------------------------------------------------------------
(* The catch block                                                         *)

(* Mutation: the original is not looked for.                               *)
Look_Blind(t) ==
    /\ At(t, "look")
    /\ Goto(t, "drop")
    /\ UNCHANGED <<row, rollback, host>>

(* instanceExists answers false when it cannot tell; any error has the     *)
(* same effect.  Only an original that was seen lets the copy be dropped.  *)
Look(t) ==
    /\ At(t, "look")
    /\ \/ Goto(t, "markManual")
       \/ Original \in copies /\ Goto(t, "drop")
    /\ UNCHANGED <<row, rollback, host>>

Drop(t) ==
    /\ At(t, "drop")
    /\ \/ Goto(t, "mark") /\ UNCHANGED deleting
       \/ Goto(t, "markManual") /\ UNCHANGED deleting
       \/ t \in present /\ Goto(t, "dropping") /\ deleting' = deleting \cup {t}
    /\ UNCHANGED <<row, rollback, copies, partial, current, backup, running>>

Dropped(t) ==
    /\ At(t, "dropping")
    /\ \/ t \notin present /\ Goto(t, "mark")
       \/ /\ t \in present
          /\ t \in deleting => ~PromptDeletes
          /\ Goto(t, "markManual")
    /\ UNCHANGED <<row, rollback, host>>

Mark(t) ==
    /\ step[t] \in {"mark", "markManual"}
    /\ status' = [status EXCEPT ![t] = IF @ = "PROCESSING" THEN "FAILED" ELSE @]
    /\ manual' = IF At(t, "markManual") /\ status[t] = "PROCESSING"
                   THEN manual \cup {t} ELSE manual
    /\ Goto(t, "idle")
    /\ UNCHANGED <<rollback, host>>

----------------------------------------------------------------------------
(* Incus, crashes, sweeps                                                  *)

HostImports(t) ==
    /\ t \in partial
    /\ partial' = partial \ {t}
    /\ copies' \in {copies, copies \cup {t}}
    /\ UNCHANGED <<row, step, rollback, deleting, current, backup, running>>

(* A deletion takes the backup files of the instance with it.              *)
HostDeletes(n) ==
    /\ n \in deleting
    /\ deleting' = deleting \ {n}
    /\ copies' = copies \ {n}
    /\ partial' = partial \ {n}
    /\ backup' = IF n = Original /\ backup = "ready" THEN "stale" ELSE backup
    /\ UNCHANGED <<row, step, rollback, current, running>>

HostRefusesDelete(n) ==
    /\ n \in deleting
    /\ deleting' = deleting \ {n}
    /\ UNCHANGED <<row, step, rollback, copies, partial, current, backup, running>>

(* The process of an execution dies.  What Incus was asked goes on.        *)
Crash(t) ==
    /\ step[t] # "idle"
    /\ Goto(t, "idle")
    /\ UNCHANGED <<row, rollback, host>>

(* A row that is PROCESSING for ten minutes is failed, by the process that *)
(* restarted or by another one.                                            *)
Sweep(t) ==
    /\ status[t] = "PROCESSING"
    /\ step[t] = "idle" \/ SharedSweep
    /\ PromptDeletes => deleting = {}
    /\ status' = [status EXCEPT ![t] = "FAILED"]
    /\ UNCHANGED <<manual, step, rollback, host>>

----------------------------------------------------------------------------
(* The rollback route: only for FAILED rows                                *)

RollbackGoto(t, s) == rollback' = [rollback EXCEPT ![t] = s]

(* Mutation: the temporary instance is dropped before the original is      *)
(* looked for and started.                                                 *)
RollbackLook_DropsFirst(t) ==
    /\ rollback[t] = "idle"
    /\ status[t] = "FAILED"
    /\ RollbackGoto(t, "drop")
    /\ UNCHANGED <<row, step, host>>

RollbackLook(t) ==
    /\ rollback[t] = "idle"
    /\ status[t] = "FAILED"
    /\ Original \in copies
    /\ RollbackGoto(t, "start")
    /\ UNCHANGED <<row, step, host>>

RollbackStart(t) ==
    /\ rollback[t] = "start"
    /\ Original \in copies \ deleting
    /\ running' = TRUE
    /\ RollbackGoto(t, "drop")
    /\ UNCHANGED <<row, step, copies, partial, deleting, current, backup>>

RollbackDrop(t) ==
    /\ rollback[t] = "drop"
    /\ t \in present
    /\ deleting' = deleting \cup {t}
    /\ RollbackGoto(t, "dropping")
    /\ UNCHANGED <<row, step, copies, partial, current, backup, running>>

(* The row is rewritten as FAILED, whatever it is by now.                  *)
RollbackMark(t) ==
    /\ rollback[t] \in {"drop", "dropping"}
    /\ status' = [status EXCEPT ![t] = "FAILED"]
    /\ RollbackGoto(t, "idle")
    /\ UNCHANGED <<manual, step, host>>

(* Any error ends the request.                                             *)
RollbackFails(t) ==
    /\ rollback[t] # "idle"
    /\ RollbackGoto(t, "idle")
    /\ UNCHANGED <<row, step, host>>

----------------------------------------------------------------------------
Requests(t) == Request(t) \/ Cancel(t) \/ Claim(t)
Executes(t) ==
    \/ Stop(t) \/ Import(t) \/ Imported(t) \/ Clean(t) \/ Delete(t)
    \/ Deleted(t) \/ Rename(t) \/ Start(t) \/ Record(t) \/ Complete(t)
Recovers(t) == Throws(t) \/ Look(t) \/ Drop(t) \/ Dropped(t) \/ Mark(t)
RollsBack(t) ==
    \/ RollbackLook(t) \/ RollbackStart(t) \/ RollbackDrop(t)
    \/ RollbackMark(t) \/ RollbackFails(t)

Next ==
    \/ TakeBackup \/ UserPower
    \/ \E t \in Task :
         \/ Requests(t) \/ Executes(t) \/ Recovers(t) \/ RollsBack(t)
         \/ HostImports(t) \/ Crash(t) \/ Sweep(t)
    \/ \E n \in Name : HostDeletes(n) \/ HostRefusesDelete(n)

Spec == Init /\ [][Next]_vars

----------------------------------------------------------------------------
(* Properties                                                              *)

(* Types; Incus never imports to the original's name.                      *)
TypeOK ==
    /\ status \in [Task -> {"none", "PENDING", "PROCESSING", "COMPLETED", "FAILED"}]
    /\ manual \subseteq {t \in Task : status[t] = "FAILED"}
    /\ step \in [Task -> Work \cup Recovery \cup {"idle"}]
    /\ rollback \in [Task -> {"idle", "start", "drop", "dropping"}]
    /\ copies \subseteq Name
    /\ partial \subseteq Task
    /\ deleting \subseteq Name
    /\ current \in Name
    /\ backup \in {"ready", "stale", "none"}
    /\ running \in BOOLEAN

(* Whatever fails, dies or is rolled back at whatever moment, one complete *)
(* copy of the instance is left: what the comments of the catch block and  *)
(* of the rollback route promise.                                          *)
LastCopy == copies # {}

(* A task that is about to report a plain failure leaves the original in   *)
(* place; if the original is gone it reports manual_intervention.          *)
PlainFailureKeepsOriginal == \A t \in Task : At(t, "mark") => Original \in copies

(* A row becomes COMPLETED only while the original name stands for the     *)
(* data of that very backup.                                               *)
CompletedIsRestored ==
    [][\A t \in Task : status[t] # "COMPLETED" /\ status'[t] = "COMPLETED"
                         => Original \in copies /\ current = t]_vars
=============================================================================
