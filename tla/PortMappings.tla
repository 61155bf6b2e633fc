---------------------------- MODULE PortMappings ----------------------------
(***************************************************************************)
(* The ports of a host that lead to its instances: rows of port_mappings   *)
(* and proxy devices of machines (routes/instances.ts, transfers.ts,       *)
(* lib/instance-port-mapping.ts).  A change of a device reads all devices  *)
(* of the machine and writes them back, so that two changes at once lose   *)
(* one; requests exclude each other by a lock of the instance.  A row is   *)
(* written before its devices and deleted after them.                      *)
(***************************************************************************)
EXTENDS Naturals, Sequences, FiniteSets

CONSTANTS Instance, Port, Handler,
          Families,   \* the devices of a port: <<"v4">>, or <<"v4", "v6">>
          Limit,      \* portLimit of an instance
          Faults,     \* what goes wrong, see PortMappingsConstants
          None

(* refuse: the host refuses a new device; host: it refuses anything;       *)
(* unheard: it obeys and the answer is lost; crash: a process dies;        *)
(* expire: a lock runs out while its holder is at work; auto: the port     *)
(* every new instance gets, without the lock; transfer: the instance goes  *)
(* to another user and loses its ports, without the lock.                  *)
PortMappingsConstants ==
    /\ IsFiniteSet(Port) /\ Limit \in Nat /\ Families \in {<<"v4">>, <<"v4", "v6">>}
    /\ Faults \subseteq {"refuse", "host", "unheard", "crash", "expire", "auto", "transfer"}
    /\ None \notin Instance \cup Port \cup Handler

VARIABLES rows,      \* whose a port is, by its unique index
          managed,   \* systemManaged: the ports that do not count
          devices,   \* the devices of each machine
          lock,      \* who holds the lock of an instance
          work,      \* what each handler does, see Work
          torn       \* history: rows that lost a device to a deletion of the row before

vars == <<rows, managed, devices, lock, work, torn>>

Device == Port \X {"v4", "v6"}

(* ports: still to be mapped, or undone; made, added: the rows and devices *)
(* it has made; todo: the devices it changes next; seen: the devices of    *)
(* the machine as it has read them, and whether it has; gone: rows it      *)
(* knows by their id and others have deleted.                              *)
Work ==
    [pc : {"idle", "lock", "quota", "check", "reserve", "device", "forget", "next", "unlock"},
     kind : {"none", "add", "auto", "undo", "back", "delete", "strip"},
     on : Instance \cup {None}, ports : SUBSET Port, port : Port \cup {None},
     made : SUBSET Port, added : Seq(Device), todo : Seq(Device),
     read : BOOLEAN, seen : SUBSET Device, gone : SUBSET Port]

Idle ==
    [pc |-> "idle", kind |-> "none", on |-> None, ports |-> {}, port |-> None,
     made |-> {}, added |-> <<>>, todo |-> <<>>, read |-> FALSE, seen |-> {},
     gone |-> {}]

TypeOK ==
    /\ rows \in [Port -> Instance \cup {None}] /\ managed \subseteq Port
    /\ devices \in [Instance -> SUBSET Device]
    /\ lock \in [Instance -> Handler \cup {None}]
    /\ work \in [Handler -> Work]
    /\ torn \subseteq Port

Init ==
    /\ rows = [p \in Port |-> None] /\ managed = {}
    /\ devices = [i \in Instance |-> {}]
    /\ lock = [i \in Instance |-> None]
    /\ work = [h \in Handler |-> Idle]
    /\ torn = {}

-----------------------------------------------------------------------------

RowsOf(i) == {p \in Port : rows[p] = i}
Counted(i) == RowsOf(i) \ managed
DevicesOf(p) == [n \in DOMAIN Families |-> <<p, Families[n]>>]

Becomes(h, w) == work' = [work EXCEPT ![h] = w]
Goto(h, p) == Becomes(h, [work[h] EXCEPT !.pc = p])

(* The rows a handler has read or written.                                 *)
Knows(w) ==
    w.made \cup (IF w.kind = "delete" THEN {w.port}
               ELSE IF w.kind = "strip" THEN w.ports ELSE {})

-----------------------------------------------------------------------------
(* Requests, and the lock they wait for.                                   *)

(* One port, or several of a batch.                                        *)
Add(h, i, ps) ==
    /\ work[h] = Idle /\ ps # {}
    /\ Becomes(h, [Idle EXCEPT !.pc = "lock", !.kind = "add", !.on = i, !.ports = ps])
    /\ UNCHANGED <<rows, managed, devices, lock, torn>>

AutoPort(h, i, p) ==
    /\ "auto" \in Faults /\ work[h] = Idle
    /\ Becomes(h, [Idle EXCEPT !.pc = "check", !.kind = "auto", !.on = i, !.ports = {p}])
    /\ UNCHANGED <<rows, managed, devices, lock, torn>>

(* The row is read here, and is not looked at again under the lock.        *)
Delete(h, p) ==
    /\ work[h] = Idle /\ rows[p] # None
    /\ Becomes(h, [Idle EXCEPT !.pc = "lock", !.kind = "delete", !.on = rows[p], !.port = p])
    /\ UNCHANGED <<rows, managed, devices, lock, torn>>

Strip(h, i) ==
    /\ "transfer" \in Faults /\ work[h] = Idle
    /\ Becomes(h, [Idle EXCEPT !.pc = "next", !.kind = "strip", !.on = i,
                               !.ports = RowsOf(i)])
    /\ UNCHANGED <<rows, managed, devices, lock, torn>>

(* Mutation: the lock excludes nobody.                                     *)
Free_Always(i) == TRUE

Free(i) == lock[i] = None

Lock(h) ==
    /\ work[h].pc = "lock" /\ Free(work[h].on)
    /\ lock' = [lock EXCEPT ![work[h].on] = h]
    /\ IF work[h].kind = "add" THEN Goto(h, "quota")
       ELSE Becomes(h, [work[h] EXCEPT !.pc = "device", !.todo = DevicesOf(work[h].port)])
    /\ UNCHANGED <<rows, managed, devices, torn>>

Busy(h) ==
    /\ work[h].pc = "lock" /\ ~Free(work[h].on)
    /\ Becomes(h, Idle)
    /\ UNCHANGED <<rows, managed, devices, lock, torn>>

Unlock(h) ==
    /\ work[h].pc = "unlock"
    /\ lock' = [i \in Instance |-> IF lock[i] = h THEN None ELSE lock[i]]
    /\ Becomes(h, Idle)
    /\ UNCHANGED <<rows, managed, devices, torn>>

Holds(w, i) == w.on = i /\ w.pc # "lock" /\ w.kind \notin {"auto", "strip"}

(* After two minutes.                                                      *)
Expire(i) ==
    /\ lock[i] # None
    /\ ~Holds(work[lock[i]], i) \/ "expire" \in Faults
    /\ lock' = [lock EXCEPT ![i] = None]
    /\ UNCHANGED <<rows, managed, devices, work, torn>>

-----------------------------------------------------------------------------
(* Rows.                                                                   *)

(* Mutation: a batch counts as one port.                                   *)
Quota_OneForBatch(h) ==
    /\ work[h].pc = "quota"
    /\ Goto(h, IF Cardinality(Counted(work[h].on)) + 1 <= Limit THEN "check" ELSE "unlock")
    /\ UNCHANGED <<rows, managed, devices, lock, torn>>

Quota(h) ==
    LET needed == Cardinality(Counted(work[h].on)) + Cardinality(work[h].ports)
    IN  /\ work[h].pc = "quota"
        /\ Goto(h, IF needed <= Limit THEN "check" ELSE "unlock")
        /\ UNCHANGED <<rows, managed, devices, lock, torn>>

(* A port that is taken makes a batch go back, port by port.               *)
Check(h) ==
    /\ work[h].pc = "check"
    /\ \E p \in work[h].ports :
        \/ /\ rows[p] = None
           /\ Becomes(h, [work[h] EXCEPT !.pc = "reserve", !.port = p])
        \/ /\ rows[p] # None
           /\ Becomes(h, [work[h] EXCEPT !.pc = "next", !.kind = "back",
                                         !.ports = work[h].made])
    /\ UNCHANGED <<rows, managed, devices, lock, torn>>

(* The catch block of an addition: all its devices, then all its rows.     *)
Undo(w) ==
    LET u == [w EXCEPT !.kind = "undo", !.ports = w.made, !.todo = w.added, !.read = FALSE,
                       !.seen = {}]
    IN  {[u EXCEPT !.pc = IF w.added # <<>> THEN "device"
                          ELSE IF w.made # {} THEN "forget" ELSE "unlock"]}
        \cup (IF "host" \in Faults THEN {[u EXCEPT !.pc = "unlock"]} ELSE {})

Reserve(h) ==
    LET w == work[h] IN
    /\ w.pc = "reserve"
    /\ \/ /\ rows[w.port] = None
          /\ rows' = [rows EXCEPT ![w.port] = w.on]
          /\ managed' = IF w.kind = "auto" THEN managed \cup {w.port} ELSE managed
          /\ Becomes(h, [w EXCEPT !.pc = "device", !.made = @ \cup {w.port},
                                  !.todo = DevicesOf(w.port)])
       \/ /\ rows[w.port] # None
          /\ \E u \in Undo(w) : Becomes(h, u)
          /\ UNCHANGED <<rows, managed>>
    /\ UNCHANGED <<devices, lock, torn>>

IsThere(w, p) == rows[p] = w.on /\ p \notin w.gone

(* deletePortMapping, of a row that is there, by a handler that goes on as *)
(* w.                                                                      *)
Drop(h, p, w) ==
    /\ rows' = [rows EXCEPT ![p] = None]
    /\ managed' = managed \ {p}
    /\ torn' = torn \ {p}
    /\ work' = [k \in Handler |->
                    IF k = h THEN w
                    ELSE IF p \in Knows(work[k]) THEN [work[k] EXCEPT !.gone = @ \cup {p}]
                    ELSE work[k]]

Forget(h) ==
    LET w == work[h] IN
    /\ w.pc = "forget"
    /\ \/ /\ w.kind = "undo"
          /\ \E p \in w.ports :
              \/ /\ IsThere(w, p)
                 /\ Drop(h, p, [w EXCEPT !.pc = IF w.ports = {p} THEN "unlock" ELSE @,
                                         !.ports = @ \ {p}])
              \/ ~IsThere(w, p) /\ Goto(h, "unlock") /\ UNCHANGED <<rows, managed, torn>>
       \/ /\ w.kind # "undo"
          /\ LET u == [w EXCEPT !.pc = IF w.kind = "delete" THEN "unlock" ELSE "next",
                                !.ports = @ \ {w.port}]
             IN  \/ IsThere(w, w.port) /\ Drop(h, w.port, u)
                 \/ ~IsThere(w, w.port) /\ Becomes(h, u) /\ UNCHANGED <<rows, managed, torn>>
    /\ UNCHANGED <<devices, lock>>

(* The next port of a batch that goes back, or of a transfer, which knows  *)
(* the first device only.                                                  *)
NextPort(h) ==
    LET w == work[h] IN
    /\ w.pc = "next"
    /\ \/ w.ports = {} /\ Goto(h, "unlock")
       \/ \E p \in w.ports :
            Becomes(h, [w EXCEPT !.pc = "device", !.port = p,
                                 !.todo = IF w.kind = "strip" THEN <<DevicesOf(p)[1]>>
                                          ELSE DevicesOf(p)])
    /\ UNCHANGED <<rows, managed, devices, lock, torn>>

-----------------------------------------------------------------------------
(* Devices.                                                                *)

Adding(w) == w.kind \in {"add", "auto"}

(* After a change, and after one that failed.                              *)
Done(w) ==
    LET u == [w EXCEPT !.todo = Tail(@), !.read = FALSE, !.seen = {},
                       !.added = IF Adding(w) THEN Append(@, Head(w.todo)) ELSE @]
    IN  IF Len(w.todo) > 1 THEN u
        ELSE IF ~Adding(w) THEN [u EXCEPT !.pc = "forget"]
        ELSE [u EXCEPT !.pc = IF w.ports = {w.port} THEN "unlock" ELSE "check",
                       !.ports = @ \ {w.port}]

Failed(w) ==
    LET u == [w EXCEPT !.read = FALSE, !.seen = {}]
    IN  IF Adding(w) THEN Undo(u)
        ELSE {CASE w.kind = "back" -> [u EXCEPT !.pc = "next", !.ports = @ \ {w.port}]
                [] w.kind = "strip" -> [u EXCEPT !.pc = "forget"]
                [] OTHER -> [u EXCEPT !.pc = "unlock"]}

Fetch(h) ==
    LET w == work[h] IN
    /\ w.pc = "device" /\ ~w.read
    /\ \/ Becomes(h, [w EXCEPT !.read = TRUE, !.seen = devices[w.on]])
       \/ "host" \in Faults /\ \E u \in Failed(w) : Becomes(h, u)
    /\ UNCHANGED <<rows, managed, devices, lock, torn>>

(* The port is taken on the host itself.                                   *)
Bound(i, d) == \E j \in Instance \ {i} : d \in devices[j]

Put(h) ==
    LET w == work[h]
        d == Head(w.todo)
        change == IF Adding(w) THEN w.seen \cup {d} ELSE w.seen \ {d}
    IN  /\ w.pc = "device" /\ w.read
        /\ \/ /\ ~Adding(w) /\ d \notin w.seen
              /\ Becomes(h, Done(w)) /\ UNCHANGED <<devices, torn>>
           \/ /\ change # w.seen \/ Adding(w)
              /\ ~(Adding(w) /\ Bound(w.on, d))
              /\ devices' = [devices EXCEPT ![w.on] = change]
              /\ torn' = IF w.kind = "delete" /\ d[1] \in w.gone /\ rows[d[1]] = w.on
                         THEN torn \cup {d[1]} ELSE torn
              /\ \/ Becomes(h, Done(w))
                 \/ "unheard" \in Faults /\ \E u \in Failed(w) : Becomes(h, u)
           \/ /\ change # w.seen \/ Adding(w)
              /\ \/ "host" \in Faults
                 \/ Adding(w) /\ ("refuse" \in Faults \/ Bound(w.on, d))
              /\ \E u \in Failed(w) : Becomes(h, u)
              /\ UNCHANGED <<devices, torn>>
        /\ UNCHANGED <<rows, managed, lock>>

Crash(h) ==
    /\ "crash" \in Faults /\ work[h] # Idle
    /\ Becomes(h, Idle)
    /\ UNCHANGED <<rows, managed, devices, lock, torn>>

Next ==
    \/ \E h \in Handler :
        \/ \E i \in Instance : Strip(h, i) \/ \E ps \in SUBSET Port : Add(h, i, ps)
        \/ \E i \in Instance, p \in Port : AutoPort(h, i, p)
        \/ \E p \in Port : Delete(h, p)
        \/ Lock(h) \/ Busy(h) \/ Unlock(h) \/ Quota(h) \/ Check(h) \/ Reserve(h)
        \/ Forget(h) \/ NextPort(h) \/ Fetch(h) \/ Put(h) \/ Crash(h)
    \/ \E i \in Instance : Expire(i)

Spec == Init /\ [][Next]_vars

-----------------------------------------------------------------------------
(* Properties                                                              *)

(* A machine has no device without its row, so a port that looks free is.  *)
NothingHidden ==
    \A i \in Instance : \A d \in devices[i] : rows[d[1]] = i

(* A port that has a row leads to the instance, unless a handler who holds *)
(* the lock is about to make it or to remove it.  The exception is a row   *)
(* that is mapped anew while a request to delete the one before it waited: *)
(* that removes the devices of the new row.                                *)
RowsAreServed ==
    \A p \in Port : rows[p] # None =>
        \/ p \in torn
        \/ \A n \in DOMAIN Families : DevicesOf(p)[n] \in devices[rows[p]]
        \/ lock[rows[p]] # None /\ work[lock[rows[p]]].pc \in {"device", "forget"}

(* What requests have mapped is within the quota, although it is counted   *)
(* before the rows of a batch are written one by one.                      *)
QuotaKept == \A i \in Instance : Cardinality(Counted(i)) <= Limit
=============================================================================
