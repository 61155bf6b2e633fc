----------------------- MODULE RestoreWorkflowProofs -----------------------
(***************************************************************************)
(* Theorems about RestoreWorkflow for any number of restores.  TypeOK      *)
(* holds of every host and any number of nodes.  That a copy survives      *)
(* needs two assumptions: deletions end while their client waits (the run  *)
(* of RestoreWorkflowSlow.cfg breaks it), and rows of running restores are *)
(* not swept.                                                              *)
(***************************************************************************)
EXTENDS RestoreWorkflow, TLAPS

Orderly == PromptDeletes /\ ~SharedSweep

(* Only one task of the instance is under way; an execution works on a     *)
(* PROCESSING row, a rollback on a FAILED one.                             *)
OneActive == \A t, u \in Task : Active(t) /\ Active(u) => t = u
ExecutedIsProcessing == \A t \in Task : step[t] # "idle" => status[t] = "PROCESSING"
RolledBackIsFailed == \A t \in Task : rollback[t] # "idle" => status[t] = "FAILED"

(* Nobody deletes the temporary copy before its own task decides to.       *)
TempKept ==
    \A t \in Task :
        \/ status[t] \in {"none", "PENDING"}
        \/ step[t] \notin {"idle", "dropping", "mark", "markManual"}
        => t \notin deleting
CopyBeforeDelete ==
    \A t \in Task : step[t] \in {"clean", "delete", "deleting", "rename"} => t \in copies

(* While Incus deletes the original, its task waits for it or is dead, and *)
(* its copy is complete.                                                   *)
DeletionHasCopy ==
    Original \in deleting =>
        /\ Original \in copies
        /\ \E t \in Task : /\ status[t] = "PROCESSING"
                           /\ step[t] \in {"deleting", "idle"}
                           /\ t \in copies \ deleting

(* Once the original is gone, one task has the copy and nobody who would   *)
(* delete it: only a rollback that saw the original would.                 *)
Survivor ==
    Original \notin copies =>
        \E t \in Task :
            /\ t \in copies \ deleting
            /\ rollback[t] = "idle"
            /\ status[t] \in {"PROCESSING", "FAILED"}
            /\ step[t] \in {"deleting", "rename", "look", "markManual", "idle"}

(* A copy is dropped, and a plain failure reported, only beside an         *)
(* original that nobody deletes.                                           *)
OriginalSeen ==
    \A t \in Task : step[t] \in {"drop", "dropping", "mark"} => Original \in copies \ deleting
Restored ==
    \A t \in Task : step[t] \in {"start", "record", "complete"} =>
        Original \in copies \ deleting /\ current = t

Rows == OneActive /\ ExecutedIsProcessing /\ RolledBackIsFailed
Copies == TempKept /\ CopyBeforeDelete /\ DeletionHasCopy /\ Survivor /\ OriginalSeen /\ Restored
IInv == TypeOK /\ Rows /\ Copies

USE DEF Goto, At, RollbackGoto, Active, InTime

(* The original's name is no temporary name.                               *)
LEMMA Names == Original \notin Task /\ Name = Task \cup {Original}
  BY DEF Original, Task, Name

----------------------------------------------------------------------------
(* Every step keeps the types, with any host and any number of nodes.      *)
LEMMA TypeStep == TypeOK /\ [Next]_vars => TypeOK'
<1> SUFFICES ASSUME TypeOK, [Next]_vars PROVE TypeOK'
  OBVIOUS
<1> USE RestoreConstants, Names DEF TypeOK, row, host, Work, Recovery, present
<1>1. CASE UNCHANGED vars
  BY <1>1 DEF vars
<1>2. CASE TakeBackup \/ UserPower
  BY <1>2 DEF TakeBackup, UserPower
<1>3. ASSUME NEW t \in Task, Requests(t) PROVE TypeOK'
  BY <1>3 DEF Requests, Request, Cancel, Claim
<1>4. ASSUME NEW t \in Task, Executes(t) PROVE TypeOK'
  BY <1>4 DEF Executes, Stop, Import, Imported, Clean, Delete, Deleted, Rename,
              Start, Record, Complete
<1>5. ASSUME NEW t \in Task, Recovers(t) PROVE TypeOK'
  BY <1>5 DEF Recovers, Work, present, Throws, Look, Drop, Dropped, Mark
<1>6. ASSUME NEW t \in Task, RollsBack(t) PROVE TypeOK'
  BY <1>6
     DEF RollsBack, present, RollbackLook, RollbackStart, RollbackDrop,
         RollbackMark, RollbackFails
<1>7. ASSUME NEW t \in Task, HostImports(t) \/ Crash(t) \/ Sweep(t) PROVE TypeOK'
  BY <1>7 DEF HostImports, Crash, Sweep
<1>8. ASSUME NEW n \in Name, HostDeletes(n) \/ HostRefusesDelete(n) PROVE TypeOK'
  BY <1>8 DEF HostDeletes, HostRefusesDelete
<1> QED
  BY <1>1, <1>2, <1>3, <1>4, <1>5, <1>6, <1>7, <1>8 DEF Next

(* The rows, the executions and the copies keep their types.               *)
THEOREM TypeCorrect == Spec => []TypeOK
<1>1. Init => TypeOK
  BY RestoreConstants, Names DEF Init, TypeOK
<1> QED
  BY <1>1, TypeStep, PTL DEF Spec

----------------------------------------------------------------------------
(* The inductive invariant, one conjunct at a time                         *)

(* Claims and requests respect the row under way; sweeps fail dead rows.   *)
LEMMA RowsKept == Orderly /\ IInv /\ [Next]_vars => Rows'
<1> SUFFICES ASSUME Orderly, IInv, [Next]_vars PROVE Rows'
  OBVIOUS
<1> USE Names
        DEF Orderly, IInv, TypeOK, Rows, Copies, row, host, OneActive,
            ExecutedIsProcessing, RolledBackIsFailed
<1>1. CASE UNCHANGED vars
  BY <1>1 DEF vars
<1>2. CASE TakeBackup \/ UserPower
  BY <1>2 DEF TakeBackup, UserPower
<1>3. ASSUME NEW t \in Task, Requests(t) PROVE Rows'
  BY <1>3 DEF Requests, Request, Cancel, Claim
<1>4. ASSUME NEW t \in Task, Executes(t) PROVE Rows'
  <2>1. CASE Stop(t)
    BY <2>1 DEF Stop
  <2>2. CASE Import(t)
    BY <2>2 DEF Import
  <2>3. CASE Imported(t)
    BY <2>3 DEF Imported
  <2>4. CASE Clean(t)
    BY <2>4 DEF Clean
  <2>5. CASE Delete(t)
    BY <2>5 DEF Delete
  <2>6. CASE Deleted(t)
    BY <2>6 DEF Deleted
  <2>7. CASE Rename(t)
    BY <2>7 DEF Rename
  <2>8. CASE Start(t)
    BY <2>8 DEF Start
  <2>9. CASE Record(t)
    BY <2>9 DEF Record
  <2>10. CASE Complete(t)
    BY <2>10 DEF Complete
  <2> QED
    BY <1>4, <2>1, <2>2, <2>3, <2>4, <2>5, <2>6, <2>7, <2>8, <2>9, <2>10
       DEF Executes
<1>5. ASSUME NEW t \in Task, Recovers(t) PROVE Rows'
  BY <1>5 DEF Recovers, Work, present, Throws, Look, Drop, Dropped, Mark
<1>6. ASSUME NEW t \in Task, RollsBack(t) PROVE Rows'
  BY <1>6
     DEF RollsBack, present, RollbackLook, RollbackStart, RollbackDrop,
         RollbackMark, RollbackFails
<1>7. ASSUME NEW t \in Task, HostImports(t) \/ Crash(t) \/ Sweep(t) PROVE Rows'
  BY <1>7 DEF HostImports, Crash, Sweep
<1>8. ASSUME NEW n \in Name, HostDeletes(n) \/ HostRefusesDelete(n) PROVE Rows'
  BY <1>8 DEF HostDeletes, HostRefusesDelete
<1> QED
  BY <1>1, <1>2, <1>3, <1>4, <1>5, <1>6, <1>7, <1>8 DEF Next

(* The temporary copy is deleted by its own catch block or rollback only.  *)
LEMMA TempKeptKept == Orderly /\ IInv /\ [Next]_vars => TempKept'
<1> SUFFICES ASSUME Orderly, IInv, [Next]_vars PROVE TempKept'
  OBVIOUS
<1> USE Names
        DEF Orderly, IInv, TypeOK, Rows, Copies, row, host, TempKept,
            ExecutedIsProcessing, RolledBackIsFailed
<1>1. CASE UNCHANGED vars
  BY <1>1 DEF vars
<1>2. CASE TakeBackup \/ UserPower
  BY <1>2 DEF TakeBackup, UserPower
<1>3. ASSUME NEW t \in Task, Requests(t) PROVE TempKept'
  BY <1>3 DEF Requests, Request, Cancel, Claim
<1>4. ASSUME NEW t \in Task, Executes(t) PROVE TempKept'
  BY <1>4 DEF Executes, Stop, Import, Imported, Clean, Delete, Deleted, Rename,
          Start, Record, Complete
<1>5. ASSUME NEW t \in Task, Recovers(t) PROVE TempKept'
  BY <1>5 DEF Recovers, Work, present, Throws, Look, Drop, Dropped, Mark
<1>6. ASSUME NEW t \in Task, RollsBack(t) PROVE TempKept'
  BY <1>6
     DEF RollsBack, present, RollbackLook, RollbackStart, RollbackDrop,
         RollbackMark, RollbackFails
<1>7. ASSUME NEW t \in Task, HostImports(t) \/ Crash(t) \/ Sweep(t) PROVE TempKept'
  BY <1>7 DEF HostImports, Crash, Sweep
<1>8. ASSUME NEW n \in Name, HostDeletes(n) \/ HostRefusesDelete(n) PROVE TempKept'
  BY <1>8 DEF HostDeletes, HostRefusesDelete
<1> QED
  BY <1>1, <1>2, <1>3, <1>4, <1>5, <1>6, <1>7, <1>8 DEF Next

(* From the end of the import to the rename the copy stays.               *)
LEMMA CopyBeforeDeleteKept == Orderly /\ IInv /\ [Next]_vars => CopyBeforeDelete'
<1> SUFFICES ASSUME Orderly, IInv, [Next]_vars PROVE CopyBeforeDelete'
  OBVIOUS
<1> USE Names
        DEF Orderly, IInv, TypeOK, Rows, Copies, row, host, TempKept,
            CopyBeforeDelete, ExecutedIsProcessing, OneActive
<1>1. CASE UNCHANGED vars
  BY <1>1 DEF vars
<1>2. CASE TakeBackup \/ UserPower
  BY <1>2 DEF TakeBackup, UserPower
<1>3. ASSUME NEW t \in Task, Requests(t) PROVE CopyBeforeDelete'
  BY <1>3 DEF Requests, Request, Cancel, Claim
<1>4. ASSUME NEW t \in Task, Executes(t) PROVE CopyBeforeDelete'
  <2>1. CASE Stop(t)
    BY <2>1 DEF Stop
  <2>2. CASE Import(t)
    BY <2>2 DEF Import
  <2>3. CASE Imported(t)
    BY <2>3 DEF Imported
  <2>4. CASE Clean(t)
    BY <2>4 DEF Clean
  <2>5. CASE Delete(t)
    BY <2>5 DEF Delete
  <2>6. CASE Deleted(t)
    BY <2>6 DEF Deleted
  <2>7. CASE Rename(t)
    BY <2>7 DEF Rename
  <2>8. CASE Start(t)
    BY <2>8 DEF Start
  <2>9. CASE Record(t)
    BY <2>9 DEF Record
  <2>10. CASE Complete(t)
    BY <2>10 DEF Complete
  <2> QED
    BY <1>4, <2>1, <2>2, <2>3, <2>4, <2>5, <2>6, <2>7, <2>8, <2>9, <2>10
       DEF Executes
<1>5. ASSUME NEW t \in Task, Recovers(t) PROVE CopyBeforeDelete'
  BY <1>5 DEF Recovers, Work, present, Throws, Look, Drop, Dropped, Mark
<1>6. ASSUME NEW t \in Task, RollsBack(t) PROVE CopyBeforeDelete'
  BY <1>6
     DEF RollsBack, present, RollbackLook, RollbackStart, RollbackDrop,
         RollbackMark, RollbackFails
<1>7. ASSUME NEW t \in Task, HostImports(t) \/ Crash(t) \/ Sweep(t) PROVE CopyBeforeDelete'
  BY <1>7 DEF HostImports, Crash, Sweep
<1>8. ASSUME NEW n \in Name, HostDeletes(n) \/ HostRefusesDelete(n) PROVE CopyBeforeDelete'
  BY <1>8 DEF HostDeletes, HostRefusesDelete
<1> QED
  BY <1>1, <1>2, <1>3, <1>4, <1>5, <1>6, <1>7, <1>8 DEF Next

(* The task that asked for the deletion waits until it has ended.          *)
LEMMA DeletionHasCopyKept == Orderly /\ IInv /\ [Next]_vars => DeletionHasCopy'
<1> SUFFICES ASSUME Orderly, IInv, [Next]_vars PROVE DeletionHasCopy'
  OBVIOUS
<1> USE Names
        DEF Orderly, IInv, TypeOK, Rows, Copies, row, host, TempKept,
            CopyBeforeDelete, DeletionHasCopy, OneActive,
            ExecutedIsProcessing, RolledBackIsFailed
<1>1. CASE UNCHANGED vars
  BY <1>1 DEF vars
<1>2. CASE TakeBackup \/ UserPower
  BY <1>2 DEF TakeBackup, UserPower
<1>3. ASSUME NEW t \in Task, Requests(t) PROVE DeletionHasCopy'
  BY <1>3 DEF Requests, Request, Cancel, Claim
<1>4. ASSUME NEW t \in Task, Executes(t) PROVE DeletionHasCopy'
  BY <1>4 DEF Executes, Stop, Import, Imported, Clean, Delete, Deleted, Rename,
          Start, Record, Complete
<1>5. ASSUME NEW t \in Task, Recovers(t) PROVE DeletionHasCopy'
  BY <1>5 DEF Recovers, Work, present, Throws, Look, Drop, Dropped, Mark
<1>6. ASSUME NEW t \in Task, RollsBack(t) PROVE DeletionHasCopy'
  BY <1>6
     DEF RollsBack, present, RollbackLook, RollbackStart, RollbackDrop,
         RollbackMark, RollbackFails
<1>7. ASSUME NEW t \in Task, HostImports(t) \/ Crash(t) \/ Sweep(t) PROVE DeletionHasCopy'
  BY <1>7 DEF HostImports, Crash, Sweep
<1>8. ASSUME NEW n \in Name, HostDeletes(n) \/ HostRefusesDelete(n) PROVE DeletionHasCopy'
  BY <1>8 DEF HostDeletes, HostRefusesDelete
<1> QED
  BY <1>1, <1>2, <1>3, <1>4, <1>5, <1>6, <1>7, <1>8 DEF Next

(* The deletion of the original leaves its task's copy, which only the     *)
(* rename ends, by giving it the original's name.                          *)
LEMMA SurvivorKept == Orderly /\ IInv /\ [Next]_vars => Survivor'
<1> SUFFICES ASSUME Orderly, IInv, [Next]_vars PROVE Survivor'
  OBVIOUS
<1> USE Names
        DEF Orderly, IInv, TypeOK, Rows, Copies, row, host, TempKept,
            CopyBeforeDelete, DeletionHasCopy, Survivor, ExecutedIsProcessing,
            RolledBackIsFailed
<1>1. CASE UNCHANGED vars
  BY <1>1 DEF vars
<1>2. CASE TakeBackup \/ UserPower
  BY <1>2 DEF TakeBackup, UserPower
<1>3. ASSUME NEW t \in Task, Requests(t) PROVE Survivor'
  BY <1>3 DEF Requests, Request, Cancel, Claim
<1>4. ASSUME NEW t \in Task, Executes(t) PROVE Survivor'
  BY <1>4 DEF Executes, Stop, Import, Imported, Clean, Delete, Deleted, Rename,
          Start, Record, Complete
<1>5. ASSUME NEW t \in Task, Recovers(t) PROVE Survivor'
  BY <1>5 DEF Recovers, Work, present, Throws, Look, Drop, Dropped, Mark
<1>6. ASSUME NEW t \in Task, RollsBack(t) PROVE Survivor'
  BY <1>6
     DEF RollsBack, present, RollbackLook, RollbackStart, RollbackDrop,
         RollbackMark, RollbackFails
<1>7. ASSUME NEW t \in Task, HostImports(t) \/ Crash(t) \/ Sweep(t) PROVE Survivor'
  BY <1>7 DEF HostImports, Crash, Sweep
<1>8. ASSUME NEW n \in Name, HostDeletes(n) \/ HostRefusesDelete(n) PROVE Survivor'
  BY <1>8 DEF HostDeletes, HostRefusesDelete
<1> QED
  BY <1>1, <1>2, <1>3, <1>4, <1>5, <1>6, <1>7, <1>8 DEF Next

(* Nobody else deletes the original while the catch block looks at it.     *)
LEMMA OriginalSeenKept == Orderly /\ IInv /\ [Next]_vars => OriginalSeen'
<1> SUFFICES ASSUME Orderly, IInv, [Next]_vars PROVE OriginalSeen'
  OBVIOUS
<1> USE Names
        DEF Orderly, IInv, TypeOK, Rows, Copies, row, host, DeletionHasCopy,
            OriginalSeen, OneActive, ExecutedIsProcessing
<1>1. CASE UNCHANGED vars
  BY <1>1 DEF vars
<1>2. CASE TakeBackup \/ UserPower
  BY <1>2 DEF TakeBackup, UserPower
<1>3. ASSUME NEW t \in Task, Requests(t) PROVE OriginalSeen'
  BY <1>3 DEF Requests, Request, Cancel, Claim
<1>4. ASSUME NEW t \in Task, Executes(t) PROVE OriginalSeen'
  <2>1. CASE Stop(t)
    BY <2>1 DEF Stop
  <2>2. CASE Import(t)
    BY <2>2 DEF Import
  <2>3. CASE Imported(t)
    BY <2>3 DEF Imported
  <2>4. CASE Clean(t)
    BY <2>4 DEF Clean
  <2>5. CASE Delete(t)
    BY <2>5 DEF Delete
  <2>6. CASE Deleted(t)
    BY <2>6 DEF Deleted
  <2>7. CASE Rename(t)
    BY <2>7 DEF Rename
  <2>8. CASE Start(t)
    BY <2>8 DEF Start
  <2>9. CASE Record(t)
    BY <2>9 DEF Record
  <2>10. CASE Complete(t)
    BY <2>10 DEF Complete
  <2> QED
    BY <1>4, <2>1, <2>2, <2>3, <2>4, <2>5, <2>6, <2>7, <2>8, <2>9, <2>10
       DEF Executes
<1>5. ASSUME NEW t \in Task, Recovers(t) PROVE OriginalSeen'
  BY <1>5 DEF Recovers, Work, present, Throws, Look, Drop, Dropped, Mark
<1>6. ASSUME NEW t \in Task, RollsBack(t) PROVE OriginalSeen'
  BY <1>6
     DEF RollsBack, present, RollbackLook, RollbackStart, RollbackDrop,
         RollbackMark, RollbackFails
<1>7. ASSUME NEW t \in Task, HostImports(t) \/ Crash(t) \/ Sweep(t) PROVE OriginalSeen'
  BY <1>7 DEF HostImports, Crash, Sweep
<1>8. ASSUME NEW n \in Name, HostDeletes(n) \/ HostRefusesDelete(n) PROVE OriginalSeen'
  BY <1>8 DEF HostDeletes, HostRefusesDelete
<1> QED
  BY <1>1, <1>2, <1>3, <1>4, <1>5, <1>6, <1>7, <1>8 DEF Next

(* After the rename the original name stands for the data of this task.    *)
LEMMA RestoredKept == Orderly /\ IInv /\ [Next]_vars => Restored'
<1> SUFFICES ASSUME Orderly, IInv, [Next]_vars PROVE Restored'
  OBVIOUS
<1> USE Names
        DEF Orderly, IInv, TypeOK, Rows, Copies, row, host, DeletionHasCopy,
            Restored, OneActive, ExecutedIsProcessing
<1>1. CASE UNCHANGED vars
  BY <1>1 DEF vars
<1>2. CASE TakeBackup \/ UserPower
  BY <1>2 DEF TakeBackup, UserPower
<1>3. ASSUME NEW t \in Task, Requests(t) PROVE Restored'
  BY <1>3 DEF Requests, Request, Cancel, Claim
<1>4. ASSUME NEW t \in Task, Executes(t) PROVE Restored'
  <2>1. CASE Stop(t)
    BY <2>1 DEF Stop
  <2>2. CASE Import(t)
    BY <2>2 DEF Import
  <2>3. CASE Imported(t)
    BY <2>3 DEF Imported
  <2>4. CASE Clean(t)
    BY <2>4 DEF Clean
  <2>5. CASE Delete(t)
    BY <2>5 DEF Delete
  <2>6. CASE Deleted(t)
    BY <2>6 DEF Deleted
  <2>7. CASE Rename(t)
    BY <2>7 DEF Rename
  <2>8. CASE Start(t)
    BY <2>8 DEF Start
  <2>9. CASE Record(t)
    BY <2>9 DEF Record
  <2>10. CASE Complete(t)
    BY <2>10 DEF Complete
  <2> QED
    BY <1>4, <2>1, <2>2, <2>3, <2>4, <2>5, <2>6, <2>7, <2>8, <2>9, <2>10
       DEF Executes
<1>5. ASSUME NEW t \in Task, Recovers(t) PROVE Restored'
  BY <1>5 DEF Recovers, Work, present, Throws, Look, Drop, Dropped, Mark
<1>6. ASSUME NEW t \in Task, RollsBack(t) PROVE Restored'
  BY <1>6
     DEF RollsBack, present, RollbackLook, RollbackStart, RollbackDrop,
         RollbackMark, RollbackFails
<1>7. ASSUME NEW t \in Task, HostImports(t) \/ Crash(t) \/ Sweep(t) PROVE Restored'
  BY <1>7 DEF HostImports, Crash, Sweep
<1>8. ASSUME NEW n \in Name, HostDeletes(n) \/ HostRefusesDelete(n) PROVE Restored'
  BY <1>8 DEF HostDeletes, HostRefusesDelete
<1> QED
  BY <1>1, <1>2, <1>3, <1>4, <1>5, <1>6, <1>7, <1>8 DEF Next

(* IInv is inductive in an orderly system.                                 *)
LEMMA Inductive == Orderly => (Spec => []IInv)
<1> SUFFICES ASSUME Orderly PROVE Spec => []IInv
  OBVIOUS
<1>1. Init => IInv
  BY RestoreConstants, Names
     DEF Init, IInv, TypeOK, Rows, OneActive, ExecutedIsProcessing,
     RolledBackIsFailed, Copies, TempKept, CopyBeforeDelete, DeletionHasCopy, Survivor,
     OriginalSeen, Restored
<1>2. Orderly /\ IInv /\ [Next]_vars => IInv'
  BY TypeStep, RowsKept, TempKeptKept, CopyBeforeDeleteKept, DeletionHasCopyKept,
     SurvivorKept, OriginalSeenKept, RestoredKept DEF IInv, Copies
<1> QED
  BY <1>1, <1>2, PTL DEF Spec

(* In an orderly system a complete copy of the instance survives every     *)
(* failure, crash and rollback.                                            *)
THEOREM LastCopyAlways == Orderly => (Spec => []LastCopy)
<1>1. IInv => LastCopy
  BY DEF IInv, Copies, Survivor, LastCopy
<1> QED
  BY <1>1, Inductive, PTL

(* A task that reports a plain failure has left the original in place.     *)
THEOREM PlainFailureAlways == Orderly => (Spec => []PlainFailureKeepsOriginal)
<1>1. IInv => PlainFailureKeepsOriginal
  BY DEF IInv, Copies, OriginalSeen, PlainFailureKeepsOriginal
<1> QED
  BY <1>1, Inductive, PTL

(* A row becomes COMPLETED only for the data that now has the name.        *)
THEOREM CompletedAlways == Orderly => (Spec => CompletedIsRestored)
<1> DEFINE Honest == \A t \in Task : status[t] # "COMPLETED" /\ status'[t] = "COMPLETED"
                                     => Original \in copies /\ current = t
<1>1. IInv /\ [Next]_vars => [Honest]_vars
  <2> SUFFICES ASSUME IInv, Next PROVE Honest
    OBVIOUS
  <2>1. ASSUME NEW u \in Task, status[u] # "COMPLETED", status'[u] = "COMPLETED"
        PROVE  At(u, "complete")
    <3> USE <2>1 DEF IInv, TypeOK, row, host
    <3>1. CASE TakeBackup \/ UserPower
      BY <3>1 DEF TakeBackup, UserPower
    <3>2. ASSUME NEW t \in Task, Requests(t) PROVE FALSE
      BY <3>2 DEF Requests, Request, Cancel, Claim
    <3>3. ASSUME NEW t \in Task, Executes(t) PROVE At(u, "complete")
      BY <3>3
         DEF Executes, Stop, Import, Imported, Clean, Delete, Deleted,
             Rename,
                  Start, Record, Complete
    <3>4. ASSUME NEW t \in Task, Recovers(t) PROVE FALSE
      BY <3>4 DEF Recovers, Throws, Look, Drop, Dropped, Mark
    <3>5. ASSUME NEW t \in Task, RollsBack(t) PROVE FALSE
      BY <3>5
         DEF RollsBack, RollbackLook, RollbackStart, RollbackDrop,
             RollbackMark, RollbackFails
    <3>6. ASSUME NEW t \in Task, HostImports(t) \/ Crash(t) \/ Sweep(t) PROVE FALSE
      BY <3>6 DEF HostImports, Crash, Sweep
    <3>7. ASSUME NEW n \in Name, HostDeletes(n) \/ HostRefusesDelete(n) PROVE FALSE
      BY <3>7 DEF HostDeletes, HostRefusesDelete
    <3> QED
      BY <3>1, <3>2, <3>3, <3>4, <3>5, <3>6, <3>7 DEF Next
  <2> QED
    BY <2>1 DEF IInv, Copies, Restored
<1> QED
  BY <1>1, Inductive, PTL DEF Spec, CompletedIsRestored
=============================================================================
