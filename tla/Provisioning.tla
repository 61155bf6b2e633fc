---------------------------- MODULE Provisioning ----------------------------
(***************************************************************************)
(* The creation of paid instances on one host, the job that gives creations*)
(* up after ten minutes, and the destruction of instances that run or      *)
(* failed, as far as they share rows, capacity, addresses and machines.    *)
(*                                                                         *)
(* Only the reservation is one transaction.  What comes after it is steps  *)
(* of workers that may fail or die: a creation, a round of the job for one *)
(* row, or a destruction.  The first two settle a failed creation in the   *)
(* same order; the update of a row from creating to error decides who does.*)
(***************************************************************************)
EXTENDS Naturals, FiniteSetsExt

CONSTANTS Row,          \* instances that may be asked for
          Worker,       \* operations in flight at most
          Address,      \* public IPv4 addresses of the host
          None,
          Capacity,     \* cpu, memory or disk, in instances
          PortTotal,    \* NAT ports of the host, in instances
          Deposit,      \* what users have to spend; an instance costs 1
          Faults        \* which faults occur, see AllFaults

(* crash: a worker dies; release, rollback, refund: that step of a         *)
(* settlement fails and is only logged; create: the host fails to create   *)
(* or to start a machine; host: it fails, or does without being heard,     *)
(* whatever it is asked; stall: a creation waits for ten minutes before it *)
(* takes its address; query: the row cannot be written when the machine    *)
(* has started.                                                            *)
AllFaults == {"crash", "release", "rollback", "refund", "create", "host", "stall",
              "query"}

ProvisioningConstants ==
    /\ None \notin Row /\ IsFiniteSet(Row)
    /\ Capacity \in Nat
    /\ PortTotal \in Nat
    /\ Deposit \in Nat
    /\ Faults \subseteq AllFaults

VARIABLES
    status, mode, old,   \* the row: nat or public network, older than 10 minutes
    machine,             \* what the host has: none, created or running
    mapped,              \* it has a port mapping
    used, ports,         \* counters of the host
    holder,              \* the row each address is assigned to
    balance,
    paidBack,            \* how often the price was paid back
    recorded,            \* there is a refund for the failed creation
    pc, on,              \* the step of each worker, and its row
    catch,               \* it deletes the machine after settling
    seen, owed,          \* what a destruction read: status and refund
    counted,             \* what it counted of the host: capacity and ports
    \* history: no guard reads it
    hasty,               \* a destruction began while a settlement had to pay
    undone               \* a destruction gave the row back

host == <<used, ports>>
row == <<status, mode, old>>
money == <<balance, paidBack, recorded>>
worker == <<pc, on, catch, seen, owed, counted>>
past == <<hasty, undone>>
vars == <<row, machine, mapped, host, holder, money, worker, past>>

Init ==
    /\ status = [r \in Row |-> "none"]
    /\ mode = [r \in Row |-> "nat"]
    /\ old = [r \in Row |-> FALSE]
    /\ machine = [r \in Row |-> "none"]
    /\ mapped = [r \in Row |-> FALSE]
    /\ used = 0
    /\ ports = 0
    /\ holder = [a \in Address |-> None]
    /\ balance = Deposit
    /\ paidBack = [r \in Row |-> 0]
    /\ recorded = [r \in Row |-> FALSE]
    /\ pc = [w \in Worker |-> "idle"]
    /\ on = [w \in Worker |-> None]
    /\ catch = [w \in Worker |-> FALSE]
    /\ seen = [w \in Worker |-> "none"]
    /\ owed = [w \in Worker |-> 0]
    /\ counted = [w \in Worker |-> <<0, 0>>]
    /\ hasty = [r \in Row |-> FALSE]
    /\ undone = [r \in Row |-> FALSE]

Larger(a, b) == IF a > b THEN a ELSE b
Less(a, b) == IF a > b THEN a - b ELSE 0
One(b) == IF b THEN 1 ELSE 0

(* calculateHostResourcesFromInstances: rows that failed count.            *)
InUse == Cardinality({r \in Row : status[r] \notin {"none", "deleted"}})
Mappings == Cardinality({r \in Row : mapped[r] /\ status[r] # "deleted"})

At(w, s) == pc[w] = s
Goto(w, s) ==
    /\ pc' = [pc EXCEPT ![w] = s]
    /\ UNCHANGED <<on, catch, seen, owed, counted>>
End(w) ==
    /\ pc' = [pc EXCEPT ![w] = "idle"]
    /\ on' = [on EXCEPT ![w] = None]
    /\ catch' = [catch EXCEPT ![w] = FALSE]
    /\ seen' = [seen EXCEPT ![w] = "none"]
    /\ owed' = [owed EXCEPT ![w] = 0]
    /\ counted' = [counted EXCEPT ![w] = <<0, 0>>]
Start(w, r, s) ==
    /\ At(w, "idle")
    /\ pc' = [pc EXCEPT ![w] = s]
    /\ on' = [on EXCEPT ![w] = r]
    /\ UNCHANGED <<catch, counted>>
Throws(w) ==
    /\ pc' = [pc EXCEPT ![w] = "claim"]
    /\ catch' = [catch EXCEPT ![w] = TRUE]
    /\ UNCHANGED <<on, seen, owed, counted>>

SetStatus(r, s) == status' = [status EXCEPT ![r] = s]
SetMachine(r, m) == machine' = [machine EXCEPT ![r] = m]

----------------------------------------------------------------------------
(* Creation                                                                *)

(* The transaction: the host locked and its capacity, ports and addresses  *)
(* checked, the row, the charge, the record.                               *)
Reserve(w, r, m) ==
    LET effective == Larger(InUse, used)
    IN /\ Start(w, r, "address")
       /\ status[r] = "none"
       /\ effective < Capacity
       /\ m = "nat" => ports < PortTotal
       /\ m = "public" => \E a \in Address : holder[a] = None
       /\ balance > 0
       /\ SetStatus(r, "creating")
       /\ mode' = [mode EXCEPT ![r] = m]
       /\ used' = effective + 1
       /\ ports' = ports + One(m = "nat")
       /\ balance' = balance - 1
       /\ UNCHANGED <<old, machine, mapped, holder, paidBack, recorded, seen, owed, past>>

(* Ten minutes have passed.                                                *)
GrowOld(r) ==
    /\ status[r] = "creating"
    /\ ~old[r]
    /\ "stall" \in Faults \/ \A w \in Worker : on[w] = r => pc[w] # "address"
    /\ old' = [old EXCEPT ![r] = TRUE]
    /\ UNCHANGED <<status, mode, machine, mapped, host, holder, money, worker, past>>

(* reservePublicIpv4ForInstance asks for a free address, not for the row.  *)
TakeAddress(w) ==
    /\ At(w, "address")
    /\ IF mode[on[w]] = "nat" THEN UNCHANGED holder
       ELSE \E a \in Address :
              /\ holder[a] = None
              /\ holder' = [holder EXCEPT ![a] = on[w]]
    /\ Goto(w, "pool")
    /\ UNCHANGED <<row, machine, mapped, host, money, past>>

(* No address is left, or the network or the storage pool is not usable.   *)
PreparationFails(w) ==
    /\ pc[w] \in {"address", "pool"}
    /\ Goto(w, "claim")
    /\ UNCHANGED <<row, machine, mapped, host, holder, money, past>>

Prepared(w) ==
    /\ At(w, "pool")
    /\ Goto(w, "create")
    /\ UNCHANGED <<row, machine, mapped, host, holder, money, past>>

(* The host creates the machine, and starts it.                            *)
CreateMachine(w) ==
    /\ At(w, "create")
    /\ SetMachine(on[w], "created")
    /\ Goto(w, "start")
    /\ UNCHANGED <<row, mapped, host, holder, money, past>>

StartMachine(w) ==
    /\ At(w, "start")
    /\ machine[on[w]] = "created"
    /\ SetMachine(on[w], "running")
    /\ Goto(w, "confirm")
    /\ UNCHANGED <<row, mapped, host, holder, money, past>>

(* It fails, possibly after all was done but the answer; a start also      *)
(* fails if the machine has been deleted.                                  *)
HostFails(w) ==
    /\ \/ At(w, "create") /\ {"create", "host"} \cap Faults # {}
          /\ \E m \in {"none", "created"} : SetMachine(on[w], m)
       \/ At(w, "start") /\ "create" \in Faults /\ machine[on[w]] = "created"
          /\ UNCHANGED machine
       \/ At(w, "start") /\ "host" \in Faults /\ machine[on[w]] = "created"
          /\ \E m \in {"created", "running"} : SetMachine(on[w], m)
       \/ At(w, "start") /\ machine[on[w]] = "none" /\ UNCHANGED machine
    /\ Throws(w)
    /\ UNCHANGED <<row, mapped, host, holder, money, past>>

(* creating becomes running, unless the job was first.                     *)
Confirm(w) ==
    /\ At(w, "confirm")
    /\ IF status[on[w]] = "creating"
       THEN SetStatus(on[w], "running") /\ Goto(w, "port")
       ELSE UNCHANGED status /\ Goto(w, "stop")
    /\ UNCHANGED <<mode, old, machine, mapped, host, holder, money, past>>

(* The creation was given up meanwhile: its machine is stopped and deleted.*)
StopLate(w) ==
    /\ At(w, "stop")
    /\ \/ SetMachine(on[w], "none")
       \/ "host" \in Faults /\ UNCHANGED machine
       \/ "host" \in Faults /\ machine[on[w]] = "running" /\ SetMachine(on[w], "created")
    /\ End(w)
    /\ UNCHANGED <<row, mapped, host, holder, money, past>>

(* The port for remote access, unless there is none or it fails.           *)
MapPort(w) ==
    /\ At(w, "port")
    /\ \/ /\ mode[on[w]] = "nat"
          /\ mapped' = [mapped EXCEPT ![on[w]] = TRUE]
       \/ UNCHANGED mapped
    /\ End(w)
    /\ UNCHANGED <<row, machine, host, holder, money, past>>

(* A late error, of a query or a notification: the same catch block.       *)
FinishFails(w) ==
    /\ At(w, "port") \/ (At(w, "confirm") /\ "query" \in Faults)
    /\ Throws(w)
    /\ UNCHANGED <<row, machine, mapped, host, holder, money, past>>

----------------------------------------------------------------------------
(* Settlement of a failed creation                                         *)

(* The job finds a row that has been creating for too long.                *)
BeginTimeout(w, r) ==
    /\ status[r] = "creating"
    /\ old[r]
    /\ At(w, "idle")
    /\ pc' = [pc EXCEPT ![w] = "claim"]
    /\ on' = [on EXCEPT ![w] = r]
    /\ catch' = [catch EXCEPT ![w] = TRUE]
    /\ seen' = [seen EXCEPT ![w] = "creating"]
    /\ UNCHANGED <<row, machine, mapped, host, holder, money, owed, counted, past>>

(* Mutation: the row is settled though another has settled it.             *)
Claim_Twice(w) ==
    /\ At(w, "claim")
    /\ SetStatus(on[w], "error")
    /\ Goto(w, "rollback")
    /\ UNCHANGED <<mode, old, machine, mapped, host, holder, money, past>>

(* creating becomes error: the winner settles.  The job skips the row it   *)
(* lost; the creation goes on to its machine.                              *)
Claim(w) ==
    /\ At(w, "claim")
    /\ \/ /\ status[on[w]] = "creating"
          /\ SetStatus(on[w], "error")
          /\ Goto(w, "rollback")
       \/ /\ status[on[w]] # "creating"
          /\ UNCHANGED status
          /\ IF catch[w] /\ seen[w] = "none" THEN Goto(w, "machine") ELSE End(w)
    /\ UNCHANGED <<mode, old, machine, mapped, host, holder, money, past>>

Rollback(w) ==
    /\ At(w, "rollback")
    /\ \/ used' = Less(used, 1) /\ ports' = Less(ports, One(mode[on[w]] = "nat"))
       \/ "rollback" \in Faults /\ UNCHANGED host
    /\ Goto(w, "release")
    /\ UNCHANGED <<row, machine, mapped, holder, money, past>>

Released(r) == [a \in Address |-> IF holder[a] = r THEN None ELSE holder[a]]

Release(w) ==
    /\ At(w, "release")
    /\ \/ holder' = IF mode[on[w]] = "public" THEN Released(on[w]) ELSE holder
       \/ "release" \in Faults /\ UNCHANGED holder
    /\ Goto(w, "refund")
    /\ UNCHANGED <<row, machine, mapped, host, money, past>>

(* compensateFailedInstancePurchase: once for each row.                    *)
Refund(w) ==
    LET r == on[w]
    IN /\ At(w, "refund")
       /\ \/ /\ ~recorded[r]
             /\ recorded' = [recorded EXCEPT ![r] = TRUE]
             /\ paidBack' = [paidBack EXCEPT ![r] = @ + 1]
             /\ balance' = balance + 1
          \/ (recorded[r] \/ "refund" \in Faults) /\ UNCHANGED money
       /\ IF catch[w] THEN Goto(w, "machine") ELSE End(w)
       /\ UNCHANGED <<row, machine, mapped, host, holder, past>>

(* Mutation: the machine is stopped first, by force.                       *)
DeleteMachine_Forced(w) ==
    /\ At(w, "machine")
    /\ SetMachine(on[w], "none")
    /\ End(w)
    /\ UNCHANGED <<row, mapped, host, holder, money, past>>

(* Deletes what is left on the host, which refuses to delete a machine     *)
(* that runs.                                                              *)
DeleteMachine(w) ==
    /\ At(w, "machine")
    /\ \/ machine[on[w]] # "running" /\ SetMachine(on[w], "none")
       \/ (machine[on[w]] = "running" \/ "host" \in Faults) /\ UNCHANGED machine
    /\ End(w)
    /\ UNCHANGED <<row, mapped, host, holder, money, past>>

----------------------------------------------------------------------------
(* Destruction by the owner                                                *)

Settling == {"claim", "rollback", "release", "refund", "machine"}
Unpaid == {"rollback", "release", "refund"}

(* Reads the status, and what is refundable: what was paid less what was   *)
(* paid back.                                                              *)
BeginDestroy(w, r) ==
    /\ Start(w, r, "destroy")
    /\ status[r] \in {"running", "error"}
    /\ seen' = [seen EXCEPT ![w] = status[r]]
    /\ owed' = [owed EXCEPT ![w] = Less(1, paidBack[r])]
    /\ hasty' = [hasty EXCEPT ![r] = @ \/ \E v \in Worker : on[v] = r /\ pc[v] \in Unpaid]
    /\ UNCHANGED <<row, machine, mapped, host, holder, money, undone>>

(* What the row said decides whether the machine is stopped first.         *)
DestroyClaim(w) ==
    /\ At(w, "destroy")
    /\ IF status[on[w]] = seen[w]
       THEN /\ SetStatus(on[w], "deleted")
            /\ Goto(w, IF seen[w] = "running" THEN "destroyStop" ELSE "destroyMachine")
       ELSE UNCHANGED status /\ End(w)
    /\ UNCHANGED <<mode, old, machine, mapped, host, holder, money, past>>

(* The forced stop; that it failed is only logged.                         *)
DestroyStop(w) ==
    /\ At(w, "destroyStop")
    /\ \/ machine[on[w]] = "running" /\ SetMachine(on[w], "created")
       \/ (machine[on[w]] # "running" \/ "host" \in Faults) /\ UNCHANGED machine
    /\ Goto(w, "destroyMachine")
    /\ UNCHANGED <<row, mapped, host, holder, money, past>>

(* The host deletes a machine that is stopped.                             *)
DestroyMachine(w) ==
    /\ At(w, "destroyMachine")
    /\ machine[on[w]] = "created"
    /\ SetMachine(on[w], "none")
    /\ Goto(w, "settle")
    /\ UNCHANGED <<row, mapped, host, holder, money, past>>

(* It has none, refuses, fails, or deletes it unheard: the row gets back   *)
(* the status that was read, whatever has become of the machine.           *)
DestroyFails(w) ==
    /\ At(w, "destroyMachine")
    /\ \/ machine[on[w]] # "created" /\ UNCHANGED machine
       \/ "host" \in Faults /\ machine[on[w]] = "created"
          /\ \E m \in {"created", "none"} : SetMachine(on[w], m)
    /\ SetStatus(on[w], IF status[on[w]] = "deleted" THEN seen[w] ELSE status[on[w]])
    /\ undone' = [undone EXCEPT ![on[w]] = TRUE]
    /\ End(w)
    /\ UNCHANGED <<mode, old, mapped, host, holder, money, hasty>>

(* settleUserDestroyBilling.                                               *)
Settle(w) ==
    /\ At(w, "settle")
    /\ paidBack' = [paidBack EXCEPT ![on[w]] = @ + owed[w]]
    /\ balance' = balance + owed[w]
    /\ Goto(w, "free")
    /\ UNCHANGED <<row, machine, mapped, host, holder, recorded, past>>

SettleFails(w) ==
    /\ At(w, "settle")
    /\ "refund" \in Faults
    /\ End(w)
    /\ UNCHANGED <<row, machine, mapped, host, holder, money, past>>

(* The mapping is deleted, capacity and the mapped ports are given back.   *)
FreeResources(w) ==
    LET r == on[w]
    IN /\ At(w, "free")
       /\ used' = Less(used, 1)
       /\ ports' = Less(ports, One(mapped[r]))
       /\ mapped' = [mapped EXCEPT ![r] = FALSE]
       /\ Goto(w, "count")
       /\ UNCHANGED <<row, machine, holder, money, past>>

(* The counters of the host are counted from the tables, and written.      *)
CountResources(w) ==
    /\ At(w, "count")
    /\ counted' = [counted EXCEPT ![w] = <<InUse, Mappings>>]
    /\ pc' = [pc EXCEPT ![w] = "write"]
    /\ UNCHANGED <<row, machine, mapped, host, holder, money, on, catch, seen, owed, past>>

WriteResources(w) ==
    /\ At(w, "write")
    /\ used' = counted[w][1]
    /\ ports' = counted[w][2]
    /\ End(w)
    /\ UNCHANGED <<row, machine, mapped, holder, money, past>>

(* The process of a worker dies.                                           *)
Crash(w) ==
    /\ "crash" \in Faults
    /\ ~At(w, "idle")
    /\ End(w)
    /\ UNCHANGED <<row, machine, mapped, host, holder, money, past>>

----------------------------------------------------------------------------

Creation(w) ==
    \/ TakeAddress(w) \/ PreparationFails(w) \/ Prepared(w)
    \/ CreateMachine(w) \/ StartMachine(w) \/ HostFails(w)
    \/ Confirm(w) \/ StopLate(w) \/ MapPort(w) \/ FinishFails(w)

Settlement(w) ==
    Claim(w) \/ Rollback(w) \/ Release(w) \/ Refund(w) \/ DeleteMachine(w)

Destruction(w) ==
    \/ DestroyClaim(w) \/ DestroyStop(w) \/ DestroyMachine(w) \/ DestroyFails(w)
    \/ Settle(w) \/ SettleFails(w)
    \/ FreeResources(w) \/ CountResources(w) \/ WriteResources(w)

Next ==
    \/ \E r \in Row : GrowOld(r)
    \/ \E w \in Worker, r \in Row :
         \/ \E m \in {"nat", "public"} : Reserve(w, r, m)
         \/ BeginTimeout(w, r)
         \/ BeginDestroy(w, r)
    \/ \E w \in Worker : Creation(w) \/ Settlement(w) \/ Destruction(w) \/ Crash(w)

Spec == Init /\ [][Next]_vars

----------------------------------------------------------------------------
(* Properties                                                              *)

Statuses == {"none", "creating", "running", "error", "deleted"}
Creating == {"address", "pool", "create", "start", "confirm", "stop", "port"}
Destroying == {"destroy", "destroyStop", "destroyMachine", "settle", "free", "count", "write"}

TypeOK ==
    /\ status \in [Row -> Statuses]
    /\ mode \in [Row -> {"nat", "public"}]
    /\ old \in [Row -> BOOLEAN]
    /\ machine \in [Row -> {"none", "created", "running"}]
    /\ mapped \in [Row -> BOOLEAN]
    /\ used \in Nat
    /\ ports \in Nat
    /\ holder \in [Address -> Row \cup {None}]
    /\ balance \in Nat
    /\ paidBack \in [Row -> Nat]
    /\ recorded \in [Row -> BOOLEAN]
    /\ pc \in [Worker -> {"idle"} \cup Creating \cup Settling \cup Destroying]
    /\ on \in [Worker -> Row \cup {None}]
    /\ \A w \in Worker : ~At(w, "idle") => on[w] \in Row
    /\ catch \in [Worker -> BOOLEAN]
    /\ seen \in [Worker -> {"none", "creating", "running", "error"}]
    /\ owed \in [Worker -> {0, 1}]
    /\ counted \in [Worker -> Nat \X Nat]
    /\ hasty \in [Row -> BOOLEAN]
    /\ undone \in [Row -> BOOLEAN]

(* The price of an instance comes back at most once: a creation, the job   *)
(* that gives it up, and a destruction do not pay for the same failure     *)
(* twice - unless a destruction read what is refundable while a settlement *)
(* of the failed creation had still to pay.  It never comes back while the *)
(* instance runs.                                                          *)
PaidBackOnce ==
    \A r \in Row :
        /\ hasty[r] \/ paidBack[r] <= 1
        /\ paidBack[r] > 0 => status[r] \in {"error", "deleted"}

(* A row that runs has its machine: neither the job nor the catch block of *)
(* a creation that was given up deletes it, nor a second destruction that  *)
(* came too late.  The exception is a row that a destruction gave back: it *)
(* had the machine stopped before the host failed to delete it, or was not *)
(* heard when it did.                                                      *)
RunningHasMachine ==
    \A r \in Row : status[r] = "running" => machine[r] = "running" \/ undone[r]

(* Once nobody works on it, a failed creation has nothing left: no machine *)
(* and no address, and its price is paid back - where neither a step of    *)
(* the settlement but the rollback of the capacity nor the deletion of the *)
(* machine fails, nobody dies, and no creation stalls for ten minutes.     *)
FailureLeavesNothing ==
    \A r \in Row :
        status[r] = "error" /\ (\A w \in Worker : on[w] # r)
            => /\ machine[r] = "none"
               /\ \A a \in Address : holder[a] # r
               /\ paidBack[r] = 1
=============================================================================
