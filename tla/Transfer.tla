------------------------------ MODULE Transfer ------------------------------
(***************************************************************************)
(* Transfers of one instance between users: a request with a fee, its      *)
(* acceptance by the receiver or a push by the sender, rejection and       *)
(* cancellation with the fee paid back, the two clean-ups, and the         *)
(* destruction of the instance, which shares its row and its machine.      *)
(*                                                                         *)
(* An acceptance takes the request from pending to processing, renames the *)
(* machine on its host, and only then writes the new owner and name in one *)
(* transaction.  What fails is undone step by step, and the request is put *)
(* back to pending, whatever it has become by then.                        *)
(***************************************************************************)
EXTENDS Naturals

CONSTANTS Request,      \* transfers that may be asked for
          User,
          Handler,      \* operations in flight at most
          None,
          MaxNames,     \* bound: names given to the machine
          MaxRefunds,   \* bound: a request with as many refunds is not closed again
          Faults        \* which faults occur, see AllFaults

(* crash: a handler dies; host: the host fails what it is asked, or does it*)
(* without being heard; query: the transaction, the refund or the reset of *)
(* a request fails.                                                        *)
AllFaults == {"crash", "host", "query"}

TransferConstants ==
    /\ None \notin Request \cup User
    /\ MaxNames \in Nat
    /\ MaxRefunds \in Nat
    /\ Faults \subseteq AllFaults

VARIABLES
    status, sender, receiver,  \* the requests
    overdue,                   \* processing for more than 30 minutes
    refunded,                  \* how often the fee was paid back
    owner, state, name,        \* the row: user, status, incusId
    actual,                    \* the name of the machine on the host, 0: gone
    names,                     \* names given so far
    pc, on,                    \* the step of each handler, and its request
    before, after,             \* the names it read and made up
    seenOwner, seenState,      \* what a destruction read
    met                        \* history: a clean-up put back what was worked on

requests == <<status, sender, receiver, overdue>>
row == <<owner, state, name>>
machine == <<actual, names>>
local == <<on, before, after, seenOwner, seenState>>
vars == <<requests, refunded, row, machine, pc, local, met>>

Init ==
    /\ status = [t \in Request |-> "none"]
    /\ sender = [t \in Request |-> None]
    /\ receiver = [t \in Request |-> None]
    /\ overdue = [t \in Request |-> FALSE]
    /\ refunded = [t \in Request |-> 0]
    /\ owner \in User
    /\ state = "stopped"
    /\ name = 1
    /\ actual = 1
    /\ names = 1
    /\ pc = [h \in Handler |-> "idle"]
    /\ on = [h \in Handler |-> None]
    /\ before = [h \in Handler |-> 0]
    /\ after = [h \in Handler |-> 0]
    /\ seenOwner = [h \in Handler |-> None]
    /\ seenState = [h \in Handler |-> "stopped"]
    /\ met = [t \in Request |-> FALSE]

Open(t) == status[t] \in {"pending", "processing"}
NoneOpen == \A t \in Request : ~Open(t)
At(h, s) == pc[h] = s
Moving == {"look", "rename", "execute", "undo", "reopen"}
Worked(t) == \E h \in Handler : on[h] = t /\ pc[h] \in Moving

Set(t, s) == status' = [status EXCEPT ![t] = s]
Goto(h, s) == pc' = [pc EXCEPT ![h] = s] /\ UNCHANGED local
End(h) ==
    /\ pc' = [pc EXCEPT ![h] = "idle"]
    /\ on' = [on EXCEPT ![h] = None]
    /\ before' = [before EXCEPT ![h] = 0]
    /\ after' = [after EXCEPT ![h] = 0]
    /\ seenOwner' = [seenOwner EXCEPT ![h] = None]
    /\ seenState' = [seenState EXCEPT ![h] = "stopped"]
Start(h, t, s) ==
    /\ At(h, "idle")
    /\ pc' = [pc EXCEPT ![h] = s]
    /\ on' = [on EXCEPT ![h] = t]
    /\ UNCHANGED <<before, after, seenOwner, seenState>>

----------------------------------------------------------------------------
(* Requests                                                                *)

(* The route looks at the instance and for open requests.                  *)
BeginCreate(h, t, u) ==
    /\ Start(h, t, "create")
    /\ sender[t] = None
    /\ u # owner
    /\ state # "deleted"
    /\ NoneOpen
    /\ sender' = [sender EXCEPT ![t] = owner]
    /\ receiver' = [receiver EXCEPT ![t] = u]
    /\ UNCHANGED <<status, overdue, refunded, row, machine, met>>

(* createTransferWithFee looks for open requests again, and charges; the   *)
(* instance may have changed hands, or be deleted, since.                  *)
Create(h) ==
    /\ At(h, "create")
    /\ NoneOpen
    /\ Set(on[h], "pending")
    /\ End(h)
    /\ UNCHANGED <<sender, receiver, overdue, refunded, row, machine, met>>

(* There is one, or the sender cannot pay.                                 *)
CreateFails(h) ==
    /\ At(h, "create")
    /\ sender' = [sender EXCEPT ![on[h]] = None]
    /\ receiver' = [receiver EXCEPT ![on[h]] = None]
    /\ End(h)
    /\ UNCHANGED <<status, overdue, refunded, row, machine, met>>

(* Mutation: a request that is being accepted can be closed too.           *)
Closable_Processing(t) == Open(t)

Closable(t) == status[t] = "pending"

(* The receiver rejects, or the sender cancels.                            *)
Close(h, t, s) ==
    /\ Start(h, t, "refund")
    /\ Closable(t)
    /\ refunded[t] < MaxRefunds
    /\ Set(t, s)
    /\ UNCHANGED <<sender, receiver, overdue, refunded, row, machine, met>>

(* refundTransferFee, in a transaction of its own.                         *)
Refund(h) ==
    /\ At(h, "refund")
    /\ \/ refunded' = [refunded EXCEPT ![on[h]] = @ + 1]
       \/ "query" \in Faults /\ UNCHANGED refunded
    /\ End(h)
    /\ UNCHANGED <<requests, row, machine, met>>

----------------------------------------------------------------------------
(* Acceptance and push                                                     *)

Take(h, t) ==
    /\ Start(h, t, "look")
    /\ status[t] = "pending"
    /\ Set(t, "processing")
    /\ overdue' = [overdue EXCEPT ![t] = FALSE]
    /\ UNCHANGED <<sender, receiver, refunded, row, machine, met>>

(* The instance is deleted: the request is cancelled, its fee kept.        *)
LookDeleted(h) ==
    /\ At(h, "look")
    /\ state = "deleted"
    /\ Set(on[h], "cancelled")
    /\ End(h)
    /\ UNCHANGED <<sender, receiver, overdue, refunded, row, machine, met>>

(* It runs, or its host cannot be reached.                                 *)
LookInVain(h) ==
    /\ At(h, "look")
    /\ state # "deleted"
    /\ Goto(h, "reopen")
    /\ UNCHANGED <<requests, refunded, row, machine, met>>

Look(h) ==
    /\ At(h, "look")
    /\ state = "stopped"
    /\ names < MaxNames
    /\ names' = names + 1
    /\ before' = [before EXCEPT ![h] = name]
    /\ after' = [after EXCEPT ![h] = names + 1]
    /\ pc' = [pc EXCEPT ![h] = "rename"]
    /\ UNCHANGED <<requests, refunded, row, actual, on, seenOwner, seenState, met>>

(* The host renames a machine of that name that does not run.              *)
Renamable(h) == actual = before[h] /\ state # "running"

Rename(h) ==
    /\ At(h, "rename")
    /\ Renamable(h)
    /\ actual' = after[h]
    /\ Goto(h, "execute")
    /\ UNCHANGED <<requests, refunded, row, names, met>>

(* Mutation: a rename that fails is not noticed.                           *)
RenameFails_Unnoticed(h) ==
    /\ At(h, "rename")
    /\ ~Renamable(h)
    /\ Goto(h, "execute")
    /\ UNCHANGED <<requests, refunded, row, machine, met>>

RenameFails(h) ==
    /\ At(h, "rename")
    /\ \/ ~Renamable(h) /\ UNCHANGED actual
       \/ "host" \in Faults /\ UNCHANGED actual
       \/ "host" \in Faults /\ Renamable(h) /\ actual' = after[h]
    /\ Goto(h, "reopen")
    /\ UNCHANGED <<requests, refunded, row, names, met>>

(* executeTransfer compares nothing with what was read.                    *)
Execute(h) ==
    LET t == on[h]
    IN /\ At(h, "execute")
       /\ owner' = receiver[t]
       /\ name' = after[h]
       /\ Set(t, "accepted")
       /\ End(h)
       /\ UNCHANGED <<sender, receiver, overdue, refunded, state, machine, met>>

ExecuteFails(h) ==
    /\ At(h, "execute")
    /\ "query" \in Faults
    /\ Goto(h, "undo")
    /\ UNCHANGED <<requests, refunded, row, machine, met>>

(* The machine gets its name back, if the host does it.                    *)
Undo(h) ==
    /\ At(h, "undo")
    /\ IF actual = after[h] /\ state # "running"
       THEN \/ actual' = before[h]
            \/ "host" \in Faults /\ UNCHANGED actual
       ELSE UNCHANGED actual
    /\ Goto(h, "reopen")
    /\ UNCHANGED <<requests, refunded, row, names, met>>

(* rollbackToPending, whatever the request is by now.                      *)
Reopen(h) ==
    /\ At(h, "reopen")
    /\ \/ Set(on[h], "pending")
       \/ "query" \in Faults /\ UNCHANGED status
    /\ End(h)
    /\ UNCHANGED <<sender, receiver, overdue, refunded, row, machine, met>>

----------------------------------------------------------------------------
(* Clean-ups                                                               *)

(* 30 minutes have passed.                                                 *)
GrowOverdue(t) ==
    /\ status[t] = "processing"
    /\ ~overdue[t]
    /\ overdue' = [overdue EXCEPT ![t] = TRUE]
    /\ UNCHANGED <<status, sender, receiver, refunded, row, machine, pc, local, met>>

CleanupTimeout(t) ==
    /\ status[t] = "processing"
    /\ overdue[t]
    /\ Set(t, "pending")
    /\ met' = [met EXCEPT ![t] = @ \/ Worked(t)]
    /\ UNCHANGED <<sender, receiver, overdue, refunded, row, machine, pc, local>>

(* A process starts and puts back all that is processing.                  *)
CleanupStale ==
    /\ \E t \in Request : status[t] = "processing"
    /\ status' = [t \in Request |-> IF status[t] = "processing" THEN "pending" ELSE status[t]]
    /\ met' = [t \in Request |-> met[t] \/ (status[t] = "processing" /\ Worked(t))]
    /\ UNCHANGED <<sender, receiver, overdue, refunded, row, machine, pc, local>>

----------------------------------------------------------------------------
(* The instance                                                            *)

(* The host finds the machine by the name in the row.                      *)
StartOrStop ==
    /\ state # "deleted"
    /\ actual = name
    /\ state' = IF state = "running" THEN "stopped" ELSE "running"
    /\ UNCHANGED <<requests, refunded, owner, name, machine, pc, local, met>>

DestroyClaim(h) ==
    /\ At(h, "idle")
    /\ state # "deleted"
    /\ pc' = [pc EXCEPT ![h] = "destroy"]
    /\ before' = [before EXCEPT ![h] = name]
    /\ seenOwner' = [seenOwner EXCEPT ![h] = owner]
    /\ seenState' = [seenState EXCEPT ![h] = state]
    /\ state' = "deleted"
    /\ UNCHANGED <<requests, refunded, owner, name, machine, on, after, met>>

(* The machine is deleted, then requests that are pending are cancelled;   *)
(* their fees are kept.                                                    *)
DestroyMachine(h) ==
    /\ At(h, "destroy")
    /\ actual = before[h]
    /\ actual' = 0
    /\ status' = [t \in Request |-> IF status[t] = "pending" THEN "cancelled" ELSE status[t]]
    /\ End(h)
    /\ UNCHANGED <<sender, receiver, overdue, refunded, row, names, met>>

(* The host has no machine of that name, fails, or deletes it unheard: the *)
(* row of that owner gets its status back.                                 *)
DestroyFails(h) ==
    /\ At(h, "destroy")
    /\ \/ actual # before[h] /\ UNCHANGED actual
       \/ "host" \in Faults /\ UNCHANGED actual
       \/ "host" \in Faults /\ actual = before[h] /\ actual' = 0
    /\ state' = IF state = "deleted" /\ owner = seenOwner[h] THEN seenState[h] ELSE state
    /\ End(h)
    /\ UNCHANGED <<requests, refunded, owner, name, names, met>>

Crash(h) ==
    /\ "crash" \in Faults
    /\ ~At(h, "idle")
    /\ End(h)
    /\ UNCHANGED <<requests, refunded, row, machine, met>>

----------------------------------------------------------------------------

Move(h) ==
    \/ LookDeleted(h) \/ LookInVain(h) \/ Look(h) \/ Rename(h) \/ RenameFails(h)
    \/ Execute(h) \/ ExecuteFails(h) \/ Undo(h) \/ Reopen(h)

Next ==
    \/ \E h \in Handler, t \in Request :
         \/ \E u \in User : BeginCreate(h, t, u)
         \/ Close(h, t, "rejected") \/ Close(h, t, "cancelled")
         \/ Take(h, t)
    \/ \E h \in Handler :
         \/ Create(h) \/ CreateFails(h) \/ Refund(h) \/ Move(h)
         \/ DestroyClaim(h) \/ DestroyMachine(h) \/ DestroyFails(h) \/ Crash(h)
    \/ \E t \in Request : GrowOverdue(t) \/ CleanupTimeout(t)
    \/ CleanupStale
    \/ StartOrStop

Spec == Init /\ [][Next]_vars

----------------------------------------------------------------------------
(* Properties                                                              *)

Statuses == {"none", "pending", "processing", "accepted", "rejected", "cancelled"}
Steps == {"idle", "create", "refund", "destroy"} \cup Moving

TypeOK ==
    /\ status \in [Request -> Statuses]
    /\ sender \in [Request -> User \cup {None}]
    /\ receiver \in [Request -> User \cup {None}]
    /\ overdue \in [Request -> BOOLEAN]
    /\ refunded \in [Request -> Nat]
    /\ owner \in User
    /\ state \in {"stopped", "running", "deleted"}
    /\ name \in Nat
    /\ actual \in Nat
    /\ names \in Nat
    /\ pc \in [Handler -> Steps]
    /\ on \in [Handler -> Request \cup {None}]
    /\ \A h \in Handler : ~At(h, "idle") /\ ~At(h, "destroy")
                             => on[h] \in Request /\ receiver[on[h]] \in User
    /\ before \in [Handler -> Nat]
    /\ after \in [Handler -> Nat]
    /\ seenOwner \in [Handler -> User \cup {None}]
    /\ seenState \in [Handler -> {"stopped", "running"}]
    /\ met \in [Request -> BOOLEAN]

(* The fee of a transfer is paid back at most once, and never for one that *)
(* takes place after all: nobody reopens a request that was closed, or     *)
(* closes one that is being accepted - unless a clean-up put it back while *)
(* it was: one of 30 minutes, or of another process that started.          *)
FeeOnce ==
    \A t \in Request :
        met[t] \/ /\ refunded[t] <= 1
                  /\ refunded[t] = 1 => status[t] \in {"rejected", "cancelled"}

(* The owner of a row changes only together with its machine: the name     *)
(* that is written with the new owner is the one the machine has, whatever *)
(* failed, was put back too early, or is destroying it.                    *)
MovesWithMachine ==
    [][owner' # owner => actual' = name']_vars
=============================================================================
